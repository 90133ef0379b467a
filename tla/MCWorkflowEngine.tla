-------------------------- MODULE MCWorkflowEngine --------------------------
(* build and check need fetch, check runs only if build was ok, ship needs   *)
(* both. build is tried twice; a failure of build or check is passed over;   *)
(* fetch and build can be compensated.                                       *)
EXTENDS WorkflowEngine

MCNodes == {"fetch", "check", "build", "ship"}
MCDeps == [n \in MCNodes |-> CASE n = "fetch" -> {}
                              [] n = "check" -> {"fetch"}
                              [] n = "build" -> {"fetch"}
                              [] n = "ship" -> {"build", "check"}]
MCOrder == <<"fetch", "build", "check", "ship">>
MCRetries == [n \in MCNodes |-> IF n = "build" THEN 1 ELSE 0]
MCWhen == [n \in MCNodes |->
             IF n = "check" THEN [node |-> "build", ok |-> TRUE] ELSE Unconditional]
=============================================================================
