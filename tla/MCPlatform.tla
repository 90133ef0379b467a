----------------------------- MODULE MCPlatform -----------------------------
(* The services around the agent, each with its small instance. They share no *)
(* state in these models: Init chooses the one that moves, and the others     *)
(* stay in one initial state, so that one run checks them all and their state *)
(* spaces add up instead of being multiplied.                                 *)
EXTENDS Sandbox, Mcp, MultiAgent, Workbench, LoopDraft, Stores, ToolGate, ModelClient, RepoIndex

\* Three files under the snapshot roots: a module that fits the snapshot, data
\* that fits only alone, a hook below an ignored, unwritable directory.
MCSbSize == [p \in SbPaths |-> IF p = "data" THEN SbMaxBytes ELSE 1]

\* All four roles out of order and twice; a choice the router completes; the
\* reviewer first.
MCMaRequests ==
  {<<"reviewer", "coder", "planner", "coder">>, <<"coder", "reviewer">>,
   <<"reviewer", "coder", "researcher", "planner">>}

\* A plan whose phases need one another in a circle, with hardly room for them, and
\* one that verifies in its report, goes on, and asks for more room than is allowed.
LOCAL Phase(name, kind, check, deps) ==
  [id |-> <<name>>, kind |-> kind, check |-> check, deps |-> deps]
LOCAL Circle == <<Phase("work", "agent", FALSE, {<<"work">>}), Phase("work", "tool", TRUE, {<<"work">>})>>
LOCAL Report == <<Phase("final_report", "tool", TRUE, {}), Phase("work", "agent", FALSE, {})>>
MCLdPlans ==
  {[phases |-> Circle, limits |-> [total |-> 3, retries |-> 1, commands |-> 5],
    commands |-> <<"rm", "test">>],
   [phases |-> Report, limits |-> [total |-> 20, retries |-> 3, commands |-> 5],
    commands |-> <<"rm">>]}
MCLdFound == {<< >>}

\* A tool of each way through the policy, and arguments it refuses.
MCTgCalls ==
  {<<"shell", "plain">>, <<"shell", "dangerous">>, <<"apply_patch", "outside">>,
   <<"apply_patch", "plain">>, <<"write_file", "secret">>, <<"read_file", "plain">>,
   <<"mcp_call", "plain">>, <<"web_fetch", "plain">>, <<"no_such_tool", "plain">>}
LOCAL Config(profile, isolated, assumeYes, confirmer) ==
  [profile |-> profile, network |-> profile # "dev", shell |-> TRUE, isolated |-> isolated,
   assumeYes |-> assumeYes, confirmer |-> confirmer]
MCTgConfigs ==
  {Config("dev", FALSE, FALSE, "requests"), Config("dev", FALSE, FALSE, "yes or no"),
   Config("dev", FALSE, TRUE, "console"), Config("safe", FALSE, FALSE, "console"),
   Config("prod", FALSE, FALSE, "console"), Config("prod", TRUE, FALSE, "console")}

VARIABLE service  \* the service that moves

platformVars == <<service, sbVars, mcpVars, maVars, wbVars, ldVars,
                  stVars, tgVars, mlVars, riVars>>

PlatformInit ==
  /\ service \in {"sandbox", "mcp", "roles", "workbench", "draft",
                  "stores", "tools", "model", "index"}
  /\ SbInit /\ (service # "sandbox" => sbBackend = "local" /\ (\A p \in SbPaths : sbFiles[p] = SbAbsent))
  /\ McpInit /\ (service # "mcp" => mcpEdits = 0)
  /\ MaInit /\ (service # "roles" => ~maLLM /\ ~maParallel)
  /\ WbInit /\ (service # "workbench" => wbRenderer = "curses")
  /\ StInit /\ (service # "stores" => stKind = "audit")
  /\ TgInit /\ (service # "tools" => tgConfig = CHOOSE config \in TgConfigs : TRUE)
  /\ MlInit /\ (service # "model" => mlUse = "stream" /\ mlHeated)
  /\ LdInit /\ RiInit

PlatformNext ==
  \/ /\ service = "sandbox" /\ SbNext
     /\ UNCHANGED <<service, mcpVars, maVars, wbVars, ldVars, stVars, tgVars, mlVars, riVars>>
  \/ /\ service = "mcp" /\ McpNext
     /\ UNCHANGED <<service, sbVars, maVars, wbVars, ldVars, stVars, tgVars, mlVars, riVars>>
  \/ /\ service = "roles" /\ MaNext
     /\ UNCHANGED <<service, sbVars, mcpVars, wbVars, ldVars, stVars, tgVars, mlVars, riVars>>
  \/ /\ service = "workbench" /\ WbNext
     /\ UNCHANGED <<service, sbVars, mcpVars, maVars, ldVars, stVars, tgVars, mlVars, riVars>>
  \/ /\ service = "draft" /\ LdNext
     /\ UNCHANGED <<service, sbVars, mcpVars, maVars, wbVars, stVars, tgVars, mlVars, riVars>>
  \/ /\ service = "stores" /\ StNext
     /\ UNCHANGED <<service, sbVars, mcpVars, maVars, wbVars, ldVars, tgVars, mlVars, riVars>>
  \/ /\ service = "tools" /\ TgNext
     /\ UNCHANGED <<service, sbVars, mcpVars, maVars, wbVars, ldVars, stVars, mlVars, riVars>>
  \/ /\ service = "model" /\ MlNext
     /\ UNCHANGED <<service, sbVars, mcpVars, maVars, wbVars, ldVars, stVars, tgVars, riVars>>
  \/ /\ service = "index" /\ RiNext
     /\ UNCHANGED <<service, sbVars, mcpVars, maVars, wbVars, ldVars, stVars, tgVars, mlVars>>

PlatformSpec == PlatformInit /\ [][PlatformNext]_platformVars /\ MaFairness /\ WbFairness
=============================================================================
