---------------------------- MODULE TurnContract ----------------------------
(***************************************************************************)
(* What one durable agent turn promises to the person who asked for it,    *)
(* whatever happens to the process that serves it:                         *)
(*                                                                         *)
(*   - the turn opens once and is closed once, with one outcome;           *)
(*   - tools only act while the turn is open;                              *)
(*   - a turn is closed as "accepted" only if no code change is left       *)
(*     without a passing check, unless some effect escaped the records     *)
(*     (the process died, or a tool failed, after the effect).             *)
(*                                                                         *)
(* AgentRuntime implements this contract with a graph of nodes, a          *)
(* checkpoint file and a resume operation.                                 *)
(***************************************************************************)

VARIABLES
  phase,      \* "new", "open" or "closed"
  outcome,    \* "none" until the turn is closed
  untested,   \* a code change happened after the last passing check
  escaped     \* some effect is in no record

contractVars == <<phase, outcome, untested, escaped>>

Outcomes == {"accepted", "incomplete", "stopped_by_limit", "cancelled"}

ContractTypeOK ==
  /\ phase \in {"new", "open", "closed"}
  /\ outcome \in Outcomes \cup {"none"}
  /\ untested \in BOOLEAN
  /\ escaped \in BOOLEAN

Init ==
  /\ phase = "new"
  /\ outcome = "none"
  /\ untested = FALSE
  /\ escaped = FALSE

Open ==
  /\ phase = "new"
  /\ phase' = "open"
  /\ UNCHANGED <<outcome, untested, escaped>>

\* A tool ran, or what it did was lost: effects never "un-escape".
Work ==
  /\ phase = "open"
  /\ untested' \in BOOLEAN
  /\ escaped' \in BOOLEAN
  /\ escaped => escaped'
  /\ UNCHANGED <<phase, outcome>>

Close ==
  /\ phase = "open"
  /\ phase' = "closed"
  /\ outcome' \in Outcomes
  /\ outcome' = "accepted" => ~untested \/ escaped
  /\ UNCHANGED <<untested, escaped>>

Next == Open \/ Work \/ Close

Spec == Init /\ [][Next]_contractVars
=============================================================================
