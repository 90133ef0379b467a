----------------------------- MODULE LoopRunner -----------------------------
(***************************************************************************)
(* The loop runner of evolva/loops/runner.py: the phases of a loop run one *)
(* after the other in dependency order, each with retries and gates, under *)
(* the execution limits of the loop. Unlike a workflow, a run is saved     *)
(* only when it ends. A run asked to resume takes over outputs of the      *)
(* newest run that failed.                                                 *)
(*                                                                         *)
(* Between runs the user may edit phases; an edit is never undone. The     *)
(* time limit may run out, and the process die, between any two steps. A   *)
(* phase is one execution that succeeds or fails; prompts, outputs and     *)
(* artifacts other than files are left out.                                *)
(***************************************************************************)
EXTENDS Integers, Sequences, SequencesExt

CONSTANTS
  Phases,       \* phase ids
  Deps,         \* [Phases -> SUBSET Phases]: depends_on
  Order,        \* the execution order validate_order found
  Kind,         \* [Phases -> Kinds]
  Retries,      \* [Phases -> Nat]
  Continue,     \* phases with continue_on_error
  Gates,        \* [Phases -> Seq(GateKinds)]: gates after the phase
  MaxToolCalls, \* execution_limits, 0 for none
  MaxCommands,
  MaxFiles,
  MaxRuns,      \* bound: saved runs
  MaxEdits      \* bound: edits of phases between runs

Kinds == {"tool", "shell", "agent", "dream"}
GateKinds == {"phase_success", "command_success", "output_contains"}

ASSUME PhasesAssumption ==
  /\ Deps \in [Phases -> SUBSET Phases]
  /\ Kind \in [Phases -> Kinds]
  /\ Retries \in [Phases -> Nat]
  /\ Continue \subseteq Phases
  /\ Gates \in [Phases -> Seq(GateKinds)]
  /\ MaxToolCalls \in Nat /\ MaxCommands \in Nat /\ MaxFiles \in Nat
  /\ MaxRuns \in Nat /\ MaxEdits \in Nat

\* validate_order: every phase once, after those it depends on.
ValidOrder ==
  /\ Order \in Seq(Phases) /\ IsInjective(Order) /\ Range(Order) = Phases
  /\ \A i, j \in DOMAIN Order : Order[i] \in Deps[Order[j]] => i < j

ASSUME OrderAssumption == ValidOrder

VARIABLES
  version, \* [Phases -> Nat]: the phase's fingerprint, changed by an edit
  runs,    \* saved runs, oldest first
  pc,      \* next step of the running run, or "idle"
  cur,     \* the running run
  at,      \* position in Order
  retried, \* retries of the current phase so far
  ok,      \* the current phase result is ok
  gate,    \* next gate of the current phase
  passed,  \* its gates passed so far
  budget,  \* LoopExecutionBudget
  late,    \* max_duration_seconds has passed
  did,     \* what was really executed in this run
  good     \* phases whose last execution and its gates succeeded

phase == <<retried, ok, gate, passed>>
vars == <<version, runs, pc, cur, at, phase, budget, late, did, good>>

Statuses == {"running", "completed", "completed_with_gate_failures", "failed",
             "budget_exceeded"}
Run == [status : Statuses, outputs : SUBSET Phases, ok : SUBSET Phases,
        reused : SUBSET Phases]
SavedRun == [status : Statuses \ {"running"}, outputs : SUBSET Phases,
             version : [Phases -> Nat]]
NewRun(taken) == [status |-> "running", outputs |-> taken, ok |-> {}, reused |-> taken]
NewBudget == [calls |-> 0, commands |-> 0, files |-> 0, error |-> FALSE]

TypeOK ==
  /\ version \in [Phases -> Nat]
  /\ runs \in Seq(SavedRun) /\ Len(runs) <= MaxRuns
  /\ pc \in {"idle", "phase", "attempt", "failed", "gates", "settle", "end"}
  /\ cur \in Run
  /\ at \in 1 .. Len(Order) + 1
  /\ retried \in {0} \cup UNION {0 .. Retries[p] : p \in Phases}
  /\ gate \in {1} \cup UNION {1 .. Len(Gates[p]) + 1 : p \in Phases}
  /\ ok \in BOOLEAN /\ passed \in BOOLEAN /\ late \in BOOLEAN
  /\ budget \in [calls : Nat, commands : Nat, files : Nat, error : BOOLEAN]
  /\ did \in [calls : Nat, commands : Nat]
  /\ good \subseteq Phases

Init ==
  /\ version = [p \in Phases |-> 0]
  /\ runs = << >>
  /\ pc = "idle"
  /\ cur = NewRun({})
  /\ at = 1
  /\ retried = 0 /\ ok = FALSE /\ gate = 1 /\ passed = TRUE
  /\ budget = NewBudget
  /\ late = FALSE
  /\ did = [calls |-> 0, commands |-> 0]
  /\ good = {}

Current == Order[at]
Exceeds(count, limit) == limit # 0 /\ count > limit

-----------------------------------------------------------------------------
(* Starting a run *)

Edit(p) ==
  /\ pc = "idle"
  /\ FoldFunction(LAMBDA v, sum : v + sum, 0, version) < MaxEdits
  /\ version' = [version EXCEPT ![p] = @ + 1]
  /\ UNCHANGED <<runs, pc, cur, at, phase, budget, late, did, good>>

\* Saved runs _load_resume_state accepts.
Resumable == {i \in DOMAIN runs :
                /\ runs[i].status \in {"failed", "completed_with_gate_failures"}
                /\ runs[i].outputs # {}}

\* The newest of them, if there is one.
Newest == {i \in Resumable : \A j \in Resumable : j <= i}

\* _compatible_resume_outputs asks only whether a phase was edited.
Compatible(saved) == {p \in saved.outputs : saved.version[p] = version[p]}

Start(resume) ==
  /\ pc = "idle"
  /\ Len(runs) < MaxRuns
  /\ cur' = NewRun(IF resume THEN UNION {Compatible(runs[i]) : i \in Newest} ELSE {})
  /\ pc' = "phase"
  /\ at' = 1
  /\ budget' = NewBudget
  /\ late' = FALSE
  /\ did' = [calls |-> 0, commands |-> 0]
  /\ UNCHANGED <<version, runs, phase, good>>

-----------------------------------------------------------------------------
(* Running the phases *)

StopRun(status) ==
  /\ cur' = [cur EXCEPT !.status = status]
  /\ pc' = "end"

\* check_before_phase
OutOfTime ==
  /\ pc = "phase"
  /\ at <= Len(Order)
  /\ late
  /\ StopRun("budget_exceeded")
  /\ UNCHANGED <<version, runs, at, phase, budget, late, did, good>>

\* A phase whose output was taken over counts as successful, without its gates.
ReusePhase ==
  /\ pc = "phase"
  /\ at <= Len(Order)
  /\ ~late
  /\ Current \in cur.reused
  /\ cur' = [cur EXCEPT !.ok = @ \cup {Current}]
  /\ at' = at + 1
  /\ UNCHANGED <<version, runs, pc, phase, budget, late, did, good>>

StartPhase ==
  /\ pc = "phase"
  /\ at <= Len(Order)
  /\ ~late
  /\ Current \notin cur.reused
  /\ pc' = "attempt"
  /\ retried' = 0 /\ ok' = FALSE /\ gate' = 1 /\ passed' = TRUE
  /\ UNCHANGED <<version, runs, cur, at, budget, late, did, good>>

Calls == budget.calls + (IF Kind[Current] = "dream" THEN 0 ELSE 1)
Commands == budget.commands + (IF Kind[Current] = "shell" THEN 1 ELSE 0)

\* Mutant: a call is refused only when the limit was passed before it.
RefusedLate == late \/ Exceeds(budget.calls, MaxToolCalls)
                    \/ Exceeds(budget.commands, MaxCommands)

\* check_before_attempt and register_tool_phase refuse the attempt.
Refused == late \/ Exceeds(Calls, MaxToolCalls) \/ Exceeds(Commands, MaxCommands)

\* Mutant: a budget error does not end the loop over attempts.
AfterFailureRetry == "failed"

\* After a failed attempt: last_error ends the loop over attempts.
AfterFailure == IF budget'.error THEN "settle" ELSE "failed"

\* A shell phase refused for its calls has not counted the command yet.
RefuseAttempt ==
  /\ pc = "attempt"
  /\ Refused
  /\ budget' = [budget EXCEPT
       !.calls = IF late THEN @ ELSE Calls,
       !.commands = IF late \/ Exceeds(Calls, MaxToolCalls) THEN @ ELSE Commands,
       !.error = TRUE]
  /\ ok' = FALSE
  /\ pc' = AfterFailure
  /\ UNCHANGED <<version, runs, cur, at, retried, gate, passed, late, did, good>>

\* The phase is executed. A tool phase reports the files it wrote (at most
\* two here), which are counted over all attempts.
Attempt ==
  /\ pc = "attempt"
  /\ ~Refused
  /\ \E success \in BOOLEAN, written \in IF Kind[Current] = "tool" THEN 0 .. 2 ELSE {0} :
       LET over == Exceeds(budget.files + written, MaxFiles)
       IN  /\ budget' = [calls |-> Calls, commands |-> Commands,
                         files |-> budget.files + written,
                         error |-> budget.error \/ over]
           /\ ok' = (success /\ ~over)
           /\ good' = IF success THEN good \cup {Current} ELSE good \ {Current}
  /\ pc' = IF ok' THEN "gates" ELSE AfterFailure
  /\ did' = [calls |-> did.calls + Calls - budget.calls,
             commands |-> did.commands + Commands - budget.commands]
  /\ UNCHANGED <<version, runs, cur, at, retried, gate, passed, late>>

\* Mutant: the phase is tried until it succeeds.
TryAgain == TRUE

RetriesLeft == retried < Retries[Current]

\* The next attempt, told what failed. The count is bounded by the limit.
Retry ==
  /\ pc = "failed"
  /\ RetriesLeft
  /\ retried' = IF retried < Retries[Current] THEN retried + 1 ELSE retried
  /\ pc' = "attempt"
  /\ UNCHANGED <<version, runs, cur, at, ok, gate, passed, budget, late, did, good>>

GiveUp ==
  /\ pc = "failed"
  /\ ~RetriesLeft
  /\ pc' = "settle"
  /\ UNCHANGED <<version, runs, cur, at, phase, budget, late, did, good>>

-----------------------------------------------------------------------------
(* Gates *)

\* check_before_gate: out of time, the phase fails and its other gates are
\* not looked at.
GateOutOfTime ==
  /\ pc = "gates"
  /\ gate <= Len(Gates[Current])
  /\ late
  /\ budget' = [budget EXCEPT !.error = TRUE]
  /\ ok' = FALSE
  /\ pc' = "settle"
  /\ UNCHANGED <<version, runs, cur, at, retried, gate, passed, late, did, good>>

\* The outcome of a gate. Later gates are evaluated whatever it is.
GateOutcome(result) ==
  /\ passed' = (passed /\ result)
  /\ good' = IF result THEN good ELSE good \ {Current}
  /\ gate' = gate + 1

\* A gate without a command: phase_success asks for the phase, not for the
\* gates before it; output_contains looks at the output.
CheckGate ==
  /\ pc = "gates"
  /\ gate <= Len(Gates[Current])
  /\ ~late
  /\ \/ Gates[Current][gate] = "phase_success" /\ GateOutcome(ok)
     \/ Gates[Current][gate] = "output_contains" /\ \E found \in BOOLEAN : GateOutcome(found)
  /\ UNCHANGED <<version, runs, pc, cur, at, retried, ok, budget, late, did>>

\* Mutant: the commands of gates are not counted.
GateCommandsFree == budget.commands

\* register_command_run
GateCommands == budget.commands + 1

\* A command gate is refused past the limit, which leaves the other gates to
\* be evaluated, or runs its command.
CommandGate ==
  /\ pc = "gates"
  /\ gate <= Len(Gates[Current])
  /\ ~late
  /\ Gates[Current][gate] = "command_success"
  /\ IF Exceeds(GateCommands, MaxCommands)
       THEN /\ budget' = [budget EXCEPT !.commands = GateCommands, !.error = TRUE]
            /\ GateOutcome(FALSE)
            /\ UNCHANGED did
       ELSE /\ budget' = [budget EXCEPT !.commands = GateCommands]
            /\ \E success \in BOOLEAN : GateOutcome(success)
            /\ did' = [did EXCEPT !.commands = @ + 1]
  /\ UNCHANGED <<version, runs, pc, cur, at, retried, ok, late>>

\* Mutant: the outcome of the gates is only reported.
GatesIgnored == TRUE

\* A failed gate fails the phase.
GatesPassed == passed

GatesDone ==
  /\ pc = "gates"
  /\ gate > Len(Gates[Current])
  /\ ok' = (ok /\ GatesPassed)
  /\ pc' = "settle"
  /\ UNCHANGED <<version, runs, cur, at, retried, gate, passed, budget, late, did, good>>

-----------------------------------------------------------------------------
(* Ending a phase and the run *)

\* Mutant: the run goes on after a failed phase.
NeverBlocks == FALSE

Blocks == ~ok /\ Current \notin Continue

\* Mutant: only the time limit is looked at, not last_error.
ExceededInTime == late

Exceeded == late \/ budget.error

\* The output is kept even of a failed phase. check_after_phase and last_error
\* come first, then a failure that may not be passed over.
SettlePhase ==
  /\ pc = "settle"
  /\ LET status == IF Exceeded THEN "budget_exceeded"
                   ELSE IF Blocks THEN "failed" ELSE "running"
     IN  /\ cur' = [cur EXCEPT !.outputs = @ \cup {Current},
                               !.ok = IF ok THEN @ \cup {Current} ELSE @,
                               !.status = status]
         /\ budget' = [budget EXCEPT !.error = @ \/ late]
         /\ IF status = "running" THEN pc' = "phase" /\ at' = at + 1
                                  ELSE pc' = "end" /\ UNCHANGED at
  /\ UNCHANGED <<version, runs, phase, late, did, good>>

\* Mutant: the status is not set when the loop over phases ends.
VerdictUnset == cur.status

Verdict == IF cur.ok = Phases THEN "completed" ELSE "completed_with_gate_failures"

AllPhases ==
  /\ pc = "phase"
  /\ at > Len(Order)
  /\ StopRun(Verdict)
  /\ UNCHANGED <<version, runs, at, phase, budget, late, did, good>>

Leave ==
  /\ pc' = "idle"
  /\ cur' = NewRun({})
  /\ at' = 1
  /\ retried' = 0 /\ ok' = FALSE /\ gate' = 1 /\ passed' = TRUE
  /\ budget' = NewBudget
  /\ late' = FALSE
  /\ did' = [calls |-> 0, commands |-> 0]

\* _persist
Save ==
  /\ pc = "end"
  /\ runs' = Append(runs, [status |-> cur.status, outputs |-> cur.outputs,
                          version |-> version])
  /\ Leave
  /\ UNCHANGED <<version, good>>

\* The time limit runs out.
Expire ==
  /\ pc \notin {"idle", "end"}
  /\ ~late
  /\ late' = TRUE
  /\ UNCHANGED <<version, runs, pc, cur, at, phase, budget, did, good>>

Crash ==
  /\ pc # "idle"
  /\ Leave
  /\ UNCHANGED <<version, runs, good>>

-----------------------------------------------------------------------------
Step ==
  \/ OutOfTime \/ ReusePhase \/ StartPhase
  \/ RefuseAttempt \/ Attempt \/ Retry \/ GiveUp
  \/ GateOutOfTime \/ CheckGate \/ CommandGate \/ GatesDone
  \/ SettlePhase \/ AllPhases \/ Save

Next ==
  \/ \E p \in Phases : Edit(p)
  \/ \E resume \in BOOLEAN : Start(resume)
  \/ Step \/ Expire \/ Crash

Spec == Init /\ [][Next]_vars

\* run() loops over phases with timeouts: a live process goes on.
FairSpec == Spec /\ WF_vars(Step)

-----------------------------------------------------------------------------
(* Properties *)

\* Whatever is retried, gated or refused, a run executes no more phases and
\* commands than its limits allow.
LimitsHold == ~Exceeds(did.calls, MaxToolCalls) /\ ~Exceeds(did.commands, MaxCommands)

\* Once a limit was passed, in whatever check found it, the run executes
\* nothing more, neither retries nor gates nor phases.
NothingAfterLimit == [][budget.error => did'.calls <= did.calls /\ did'.commands <= did.commands]_vars

\* And it never reports anything else.
ExceededIsReported == pc = "end" /\ budget.error => cur.status = "budget_exceeded"

\* In a run that reports completed, every phase that was executed succeeded in
\* its last attempt, and so did each of its gates.
CompletedMeansSucceeded ==
  pc = "end" /\ cur.status = "completed" => Phases \ cur.reused \subseteq good

\* A phase runs only on results: each phase it depends on was taken over, or
\* succeeded with its gates in this run, or is one whose failure may be passed over.
RunsOnResults ==
  pc = "attempt" => Deps[Current] \subseteq cur.reused \cup good \cup Continue

\* A resumed run takes over outputs of successful phases only.
ReusedSucceeded == cur.reused \subseteq good

\* A started run comes to an end.
RunEnds == pc # "idle" ~> pc = "idle"
=============================================================================
