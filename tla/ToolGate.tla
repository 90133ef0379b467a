----------------------------- MODULE ToolGate -----------------------------
(***************************************************************************)
(* The way of a tool call through EvolvaAgent._call_tool (core.py): the    *)
(* policy (policy.py, capabilities.py) decides, the user confirms, the     *)
(* registry runs the tool. Branches of a workflow and delegated roles call *)
(* from threads of their own and share the approvals given for the         *)
(* session.                                                                *)
(*                                                                         *)
(* A call is the tool and what the policy can tell of its arguments: their *)
(* digest, the signature of an approval, tells no less.                    *)
(***************************************************************************)
EXTENDS Integers, Sequences, FiniteSets

CONSTANTS
  TgThreads,   \* threads that call tools
  TgCalls,     \* <<tool, arguments>> that may be called
  TgConfigs,   \* configurations a program may have
  TgMaxCalls   \* bound: calls

Capabilities == {"read_file", "write_file", "run_command", "run_python", "network",
                 "mcp_config", "mcp_call", "todo"}

\* One tool of each kind; an unknown tool has no capabilities.
ToolCapabilities ==
  [read_file      |-> {"read_file"},
   write_file     |-> {"write_file"},
   apply_patch    |-> {"read_file", "write_file"},
   git_diff       |-> {"read_file", "run_command"},
   shell          |-> {"run_command"},
   python_exec    |-> {"run_python"},
   web_fetch      |-> {"network"},
   mcp_tools      |-> {"mcp_call"},
   mcp_call       |-> {"mcp_call"},
   mcp_add_server |-> {"mcp_config", "write_file"},
   todo_add       |-> {"todo"}]

\* Tools registered with needs_confirmation.
ConfirmedTools == {"apply_patch", "git_diff", "shell", "python_exec", "mcp_call", "mcp_add_server"}

TgArguments == {"plain", "dangerous", "secret", "outside"}
TgConfig == [profile : {"dev", "safe", "prod"}, network : BOOLEAN, shell : BOOLEAN,
             isolated : BOOLEAN, assumeYes : BOOLEAN, confirmer : {"requests", "yes or no", "console"}]

ASSUME TgAssumption ==
  /\ TgCalls \subseteq STRING \X TgArguments /\ TgCalls # {}
  /\ TgConfigs \subseteq TgConfig
  /\ TgMaxCalls \in Nat

VARIABLES
  tgConfig,   \* never changed
  tgApproved, \* session_approvals
  tgThread,   \* [TgThreads -> the call in progress]
  tgCalled,   \* calls so far
  tgOnce,     \* [TgCalls -> answers that allowed the call once]
  tgSession,  \* calls the user allowed for the session
  tgRuns      \* [TgCalls -> times the tool ran]

tgVars == <<tgConfig, tgApproved, tgThread, tgCalled, tgOnce, tgSession, tgRuns>>

TgOutcomes == {"none", "denied", "refused", "error", "ok", "failed"}

TgTypeOK ==
  /\ tgConfig \in TgConfigs
  /\ tgApproved \subseteq TgCalls /\ tgSession \subseteq TgCalls
  /\ tgThread \in [TgThreads -> [pc : {"idle", "checked", "asking", "run"},
                                 call : TgCalls, outcome : TgOutcomes]]
  /\ tgCalled \in 0 .. TgMaxCalls
  /\ tgOnce \in [TgCalls -> Nat] /\ tgRuns \in [TgCalls -> Nat]

TgInit ==
  /\ tgConfig \in TgConfigs
  /\ tgApproved = {} /\ tgSession = {} /\ tgCalled = 0
  /\ tgOnce = [c \in TgCalls |-> 0] /\ tgRuns = [c \in TgCalls |-> 0]
  /\ tgThread = [t \in TgThreads |->
       [pc |-> "idle", call |-> CHOOSE c \in TgCalls : TRUE, outcome |-> "none"]]

-----------------------------------------------------------------------------
(* PolicyEngine.check_tool *)

Registered(tool) == tool \in DOMAIN ToolCapabilities

DeniedCapabilities(profile) ==
  CASE profile = "safe" -> {"run_command", "run_python", "network", "mcp_call"}
    [] profile = "prod" -> {"network", "mcp_call", "mcp_config"}
    [] profile = "dev"  -> {}

Executes(capabilities) == capabilities \cap {"run_command", "run_python"} # {}
Touches(capabilities) == ~Executes(capabilities) /\ capabilities \cap {"read_file", "write_file"} # {}

PolicyDenies(tool, arguments) ==
  LET capabilities == ToolCapabilities[tool] IN
  \/ capabilities \cap DeniedCapabilities(tgConfig.profile) # {}
  \/ "network" \in capabilities /\ ~tgConfig.network
  \/ /\ Executes(capabilities)
     /\ \/ tgConfig.profile = "prod" /\ ~tgConfig.isolated
        \/ ~tgConfig.shell
        \/ arguments = "dangerous"
  \/ Touches(capabilities) /\ arguments = "outside"

PolicyConfirms(tool, arguments) ==
  LET capabilities == ToolCapabilities[tool] IN
  \/ Executes(capabilities)
  \/ Touches(capabilities) /\ "write_file" \in capabilities /\ arguments = "secret"
  \/ ~Touches(capabilities) /\ "mcp_call" \in capabilities

NeedsConsent(call) == call[1] \in ConfirmedTools \/ PolicyConfirms(call[1], call[2])

-----------------------------------------------------------------------------
(* EvolvaAgent._call_tool *)

TgReturns(t, outcome) == tgThread' = [tgThread EXCEPT ![t] = [@ EXCEPT !.pc = "idle", !.outcome = outcome]]
TgGoes(t, pc) == tgThread' = [tgThread EXCEPT ![t].pc = pc]

\* An unknown tool is an error, and so is a decision that cannot be written to
\* the audit file: neither runs anything.
TgCheck(t, call, audited) ==
  /\ tgThread[t].pc = "idle"
  /\ tgCalled < TgMaxCalls
  /\ tgCalled' = tgCalled + 1
  /\ tgThread' = [tgThread EXCEPT ![t] =
       IF ~Registered(call[1]) \/ ~audited
       THEN [pc |-> "idle", call |-> call, outcome |-> "error"]
       ELSE IF PolicyDenies(call[1], call[2])
       THEN [pc |-> "idle", call |-> call, outcome |-> "denied"]
       ELSE [pc |-> IF NeedsConsent(call) THEN "checked" ELSE "run", call |-> call, outcome |-> "none"]]
  /\ UNCHANGED <<tgConfig, tgApproved, tgOnce, tgSession, tgRuns>>

\* Nobody is asked under assume_yes or after an approval for the session.
TgConsult(t) ==
  /\ tgThread[t].pc = "checked"
  /\ TgGoes(t, IF tgConfig.assumeYes \/ tgThread[t].call \in tgApproved THEN "run" ELSE "asking")
  /\ UNCHANGED <<tgConfig, tgApproved, tgCalled, tgOnce, tgSession, tgRuns>>

\* A confirmer without ask_request can only allow once.
TgAnswers == IF tgConfig.confirmer = "yes or no" THEN {"once", "deny"}
                                                 ELSE {"once", "session", "deny"}

\* Mutant: whatever is allowed is allowed for the session.
ApprovedByAny(call, answer) == IF answer = "deny" THEN tgApproved ELSE tgApproved \cup {call}

ApprovedBy(call, answer) == IF answer = "session" THEN tgApproved \cup {call} ELSE tgApproved

TgAnswer(t, answer) ==
  LET call == tgThread[t].call IN
  /\ tgThread[t].pc = "asking"
  /\ answer \in TgAnswers
  /\ tgApproved' = ApprovedBy(call, answer)
  /\ tgOnce' = IF answer = "once" THEN [tgOnce EXCEPT ![call] = @ + 1] ELSE tgOnce
  /\ tgSession' = IF answer = "session" THEN tgSession \cup {call} ELSE tgSession
  /\ IF answer = "deny" THEN TgReturns(t, "refused") ELSE TgGoes(t, "run")
  /\ UNCHANGED <<tgConfig, tgCalled, tgRuns>>

\* The tool returns or raises, which _call_tool turns into a result.
TgRun(t, outcome) ==
  /\ tgThread[t].pc = "run"
  /\ tgRuns' = [tgRuns EXCEPT ![tgThread[t].call] = @ + 1]
  /\ TgReturns(t, outcome)
  /\ UNCHANGED <<tgConfig, tgApproved, tgCalled, tgOnce, tgSession>>

TgNext ==
  \E t \in TgThreads :
    \/ \E call \in TgCalls, audited \in BOOLEAN : TgCheck(t, call, audited)
    \/ TgConsult(t)
    \/ \E answer \in {"once", "session", "deny"} : TgAnswer(t, answer)
    \/ \E outcome \in {"ok", "failed", "error"} : TgRun(t, outcome)

TgSpec == TgInit /\ [][TgNext]_tgVars

-----------------------------------------------------------------------------

\* An answer that allows a call once lets it run once, whoever of the threads
\* makes the same call again: more runs need more answers, an approval for the
\* session or assume_yes (EvolvaAgent._call_tool).
RunsOnConsent ==
  \A c \in TgCalls :
    tgRuns[c] > tgOnce[c] =>
      tgConfig.assumeYes \/ c \in tgSession \/ ~NeedsConsent(c)
=============================================================================
