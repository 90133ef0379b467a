-------------------------- MODULE LoopRunner_proofs --------------------------
(***************************************************************************)
(* Proofs about LoopRunner, for all phases, gates, retries and limits.     *)
(*                                                                         *)
(* The inductive invariant is TypeOK /\ Control /\ SaveControl /\          *)
(* LimitsInv, and ResultsInv for what the results mean. Control says at    *)
(* which steps there is a current phase, and SaveControl that a run that   *)
(* ends has a status to be saved with. LimitsInv relates what a run        *)
(* executed to what its budget counted, and says where a run can be after  *)
(* the budget refused something: at the gates only if it refused a         *)
(* command, so that it refuses every later one. ResultsInv says how far    *)
(* the results reach at each step, in the order of the phases.             *)
(***************************************************************************)
EXTENDS LoopRunner, SequenceTheorems, TLAPS

InPhase == {"attempt", "failed", "gates", "settle"}

\* A phase is run only while there is one.
Control == pc \in InPhase => at \in 1 .. Len(Order)

LimitsInv ==
  /\ did.calls <= budget.calls
  /\ did.commands <= budget.commands
  /\ LimitsHold
  /\ budget.error => pc \in {"gates", "settle", "end"}
  /\ budget.error /\ pc = "gates" => Exceeds(budget.commands, MaxCommands)
  /\ ExceededIsReported

\* What is known of the counters of a typed state.
LEMMA Counters ==
  ASSUME TypeOK
  PROVE  /\ budget.calls \in Nat /\ budget.commands \in Nat
         /\ budget.files \in Nat /\ budget.error \in BOOLEAN
         /\ did.calls \in Nat /\ did.commands \in Nat
         /\ MaxToolCalls \in Nat /\ MaxCommands \in Nat
BY PhasesAssumption DEF TypeOK

LEMMA CurrentPhase ==
  ASSUME at \in 1 .. Len(Order)
  PROVE  /\ Current \in Phases
         /\ Retries[Current] \in Nat
         /\ Gates[Current] \in Seq(GateKinds)
<1>1. Order \in Seq(Phases)
  BY OrderAssumption DEF ValidOrder
<1>2. Current \in Phases
  BY <1>1 DEF Current
<1>3. QED
  BY <1>2, PhasesAssumption

LEMMA NewRunType == ASSUME NEW taken \in SUBSET Phases PROVE NewRun(taken) \in Run
BY DEF NewRun, Run, Statuses

LEMMA NewBudgetType == NewBudget \in [calls : Nat, commands : Nat, files : Nat, error : BOOLEAN]
BY DEF NewBudget

LEMMA LeaveType ==
  ASSUME Leave
  PROVE  /\ pc' = "idle"
         /\ cur' \in Run
         /\ at' = 1
         /\ retried' = 0 /\ ok' \in BOOLEAN /\ gate' = 1 /\ passed' \in BOOLEAN
         /\ budget' = NewBudget
         /\ late' \in BOOLEAN
         /\ did' = [calls |-> 0, commands |-> 0]
BY NewRunType DEF Leave

LEMMA OrderLength == Len(Order) \in Nat
BY OrderAssumption, LenProperties DEF ValidOrder

LEMMA InitType == Init => TypeOK /\ Control
<1> SUFFICES ASSUME Init PROVE TypeOK /\ Control
  OBVIOUS
<1>1. version \in [Phases -> Nat]
  BY DEF Init
<1>2. runs \in Seq(SavedRun) /\ Len(runs) <= MaxRuns
  BY EmptySeq, PhasesAssumption DEF Init
<1>3. cur \in Run
  BY NewRunType DEF Init
<1>4. at \in 1 .. Len(Order) + 1
  BY OrderLength DEF Init
<1>5. /\ budget \in [calls : Nat, commands : Nat, files : Nat, error : BOOLEAN]
      /\ did \in [calls : Nat, commands : Nat]
  BY NewBudgetType DEF Init
<1>6. /\ pc = "idle" /\ retried = 0 /\ gate = 1 /\ good = {}
      /\ ok \in BOOLEAN /\ passed \in BOOLEAN /\ late \in BOOLEAN
  BY DEF Init
<1>7. QED
  BY <1>1, <1>2, <1>3, <1>4, <1>5, <1>6 DEF TypeOK, Control, InPhase

\* The fields of a typed state that steps update.
LEMMA RunFields ==
  ASSUME TypeOK
  PROVE  /\ cur.outputs \subseteq Phases /\ cur.ok \subseteq Phases
         /\ cur.reused \subseteq Phases /\ cur.status \in Statuses
BY DEF TypeOK, Run

LEMMA RunUpdate ==
  ASSUME TypeOK, NEW status \in Statuses, NEW outputs \in SUBSET Phases,
         NEW oks \in SUBSET Phases
  PROVE  /\ [cur EXCEPT !.status = status] \in Run
         /\ [cur EXCEPT !.ok = oks] \in Run
         /\ [cur EXCEPT !.outputs = outputs, !.ok = oks, !.status = status] \in Run
BY DEF TypeOK, Run

LEMMA BudgetUpdate ==
  ASSUME TypeOK, NEW calls \in Nat, NEW commands \in Nat, NEW files \in Nat,
         NEW error \in BOOLEAN
  PROVE  /\ [budget EXCEPT !.error = error] \in
              [calls : Nat, commands : Nat, files : Nat, error : BOOLEAN]
         /\ [budget EXCEPT !.commands = commands] \in
              [calls : Nat, commands : Nat, files : Nat, error : BOOLEAN]
         /\ [budget EXCEPT !.commands = commands, !.error = error] \in
              [calls : Nat, commands : Nat, files : Nat, error : BOOLEAN]
         /\ [budget EXCEPT !.calls = calls, !.commands = commands, !.error = error] \in
              [calls : Nat, commands : Nat, files : Nat, error : BOOLEAN]
BY DEF TypeOK

\* The attempts and gates of a phase are numbers.
LEMMA PhaseNumbers ==
  ASSUME TypeOK
  PROVE  retried \in Nat /\ gate \in Nat \ {0}
<1>1. ASSUME NEW p \in Phases PROVE Retries[p] \in Nat /\ Len(Gates[p]) \in Nat
  BY PhasesAssumption, LenProperties
<1>2. retried \in Nat
  BY <1>1 DEF TypeOK
<1>3. gate \in Nat \ {0}
  BY <1>1 DEF TypeOK
<1>4. QED
  BY <1>2, <1>3

\* A phase can be tried once more, and its next gate looked at.
LEMMA NextAttempt ==
  ASSUME TypeOK, at \in 1 .. Len(Order), retried < Retries[Current]
  PROVE  retried + 1 \in UNION {0 .. Retries[p] : p \in Phases}
<1>1. retried + 1 \in 0 .. Retries[Current]
  BY CurrentPhase, PhaseNumbers
<1>2. QED
  BY <1>1, CurrentPhase

LEMMA NextGate ==
  ASSUME TypeOK, at \in 1 .. Len(Order), gate <= Len(Gates[Current])
  PROVE  gate + 1 \in UNION {1 .. Len(Gates[p]) + 1 : p \in Phases}
<1>1. Len(Gates[Current]) \in Nat
  BY CurrentPhase, LenProperties
<1>2. gate + 1 \in 1 .. Len(Gates[Current]) + 1
  BY <1>1, PhaseNumbers
<1>3. QED
  BY <1>2, CurrentPhase

LEMMA CountersNext ==
  ASSUME TypeOK, at \in 1 .. Len(Order)
  PROVE  /\ Calls \in Nat /\ Commands \in Nat
         /\ Calls >= budget.calls /\ Commands >= budget.commands
         /\ GateCommands \in Nat
BY Counters DEF Calls, Commands, GateCommands

\* What an attempt adds to what was executed.
LEMMA Executed ==
  ASSUME NEW done \in Nat, NEW counted \in Nat, NEW next \in Nat, next >= counted
  PROVE  /\ done + next - counted \in Nat
         /\ done <= counted => done + next - counted <= next
OBVIOUS

LEMMA StartType ==
  ASSUME TypeOK, NEW resume \in BOOLEAN, Start(resume)
  PROVE  TypeOK' /\ Control'
<1>1. ASSUME NEW i \in Newest PROVE Compatible(runs[i]) \subseteq Phases
  <2>1. runs[i] \in SavedRun
    BY ElementOfSeq DEF Newest, Resumable, TypeOK
  <2>2. QED
    BY <2>1 DEF Compatible, SavedRun
<1>2. cur' \in Run
  BY <1>1, NewRunType DEF Start
<1>3. pc' = "phase" /\ at' \in 1 .. Len(Order) + 1
  BY OrderLength DEF Start
<1>4. /\ budget' \in [calls : Nat, commands : Nat, files : Nat, error : BOOLEAN]
      /\ did' \in [calls : Nat, commands : Nat]
  BY NewBudgetType DEF Start
<1>5. late' \in BOOLEAN /\ UNCHANGED <<version, runs, retried, ok, gate, passed, good>>
  BY DEF Start, phase
<1>6. QED
  BY <1>2, <1>3, <1>4, <1>5 DEF TypeOK, Control, InPhase

\* Type and control of the actions that run a phase.
LEMMA PhaseType ==
  ASSUME TypeOK, Control,
         \/ OutOfTime \/ ReusePhase \/ StartPhase \/ SettlePhase \/ AllPhases
  PROVE  TypeOK' /\ Control'
<1> DEFINE InOrder == at \in 1 .. Len(Order)
<1>1. at <= Len(Order) => InOrder /\ at + 1 \in 1 .. Len(Order) + 1
  BY OrderLength DEF TypeOK
<1>2. ASSUME OutOfTime PROVE TypeOK' /\ Control'
  <2>1. cur' \in Run /\ pc' = "end"
    BY <1>2, RunUpdate DEF OutOfTime, StopRun, Statuses
  <2>2. UNCHANGED <<version, runs, at, retried, ok, gate, passed, budget, late, did, good>>
    BY <1>2 DEF OutOfTime, phase
  <2>3. QED
    BY <2>1, <2>2 DEF TypeOK, Control, InPhase
<1>3. ASSUME ReusePhase PROVE TypeOK' /\ Control'
  <2>1. InOrder /\ at + 1 \in 1 .. Len(Order) + 1
    BY <1>1, <1>3 DEF ReusePhase
  <2>2. cur' \in Run
    BY <1>3, <2>1, CurrentPhase, RunFields, RunUpdate DEF ReusePhase
  <2>3. /\ at' = at + 1 /\ pc' = "phase"
        /\ UNCHANGED <<version, runs, retried, ok, gate, passed, budget, late, did, good>>
    BY <1>3 DEF ReusePhase, phase
  <2>4. QED
    BY <2>1, <2>2, <2>3 DEF TypeOK, Control, InPhase
<1>4. ASSUME StartPhase PROVE TypeOK' /\ Control'
  <2>1. InOrder
    BY <1>1, <1>4 DEF StartPhase
  <2>2. /\ pc' = "attempt" /\ retried' = 0 /\ ok' = FALSE /\ gate' = 1 /\ passed' = TRUE
        /\ UNCHANGED <<version, runs, cur, at, budget, late, did, good>>
    BY <1>4 DEF StartPhase
  <2>3. QED
    BY <2>1, <2>2 DEF TypeOK, Control, InPhase
<1>5. ASSUME SettlePhase PROVE TypeOK' /\ Control'
  <2> DEFINE status == IF Exceeded THEN "budget_exceeded"
                       ELSE IF Blocks THEN "failed" ELSE "running"
             outputs == cur.outputs \cup {Current}
             oks == IF ok THEN cur.ok \cup {Current} ELSE cur.ok
             error == budget.error \/ late
  <2>1. InOrder
    BY <1>5 DEF SettlePhase, Control, InPhase
  <2>2. status \in Statuses /\ outputs \in SUBSET Phases /\ oks \in SUBSET Phases
        /\ error \in BOOLEAN
    BY <2>1, CurrentPhase, RunFields, Counters DEF Statuses
  <2>3. /\ cur' = [cur EXCEPT !.outputs = outputs, !.ok = oks, !.status = status]
        /\ budget' = [budget EXCEPT !.error = error]
        /\ \/ pc' = "phase" /\ at' = at + 1
           \/ pc' = "end" /\ at' = at
        /\ UNCHANGED <<version, runs, retried, ok, gate, passed, late, did, good>>
    BY <1>5 DEF SettlePhase, phase
  <2>4. cur' \in Run
    <3> HIDE DEF status, outputs, oks
    <3>1. [cur EXCEPT !.outputs = outputs, !.ok = oks, !.status = status] \in Run
      BY <2>2, RunUpdate, Zenon
    <3>2. QED
      BY <2>3, <3>1, Zenon
  <2>5. budget' \in [calls : Nat, commands : Nat, files : Nat, error : BOOLEAN]
    <3> HIDE DEF error
    <3> QED  BY <2>2, <2>3, BudgetUpdate, Counters
  <2>6. pc' \in {"phase", "end"} /\ at' \in 1 .. Len(Order) + 1
    BY <1>1, <2>1, <2>3, OrderLength DEF TypeOK
  <2>7. UNCHANGED <<version, runs, retried, ok, gate, passed, late, did, good>>
    BY <2>3
  <2>8. QED
    BY <2>4, <2>5, <2>6, <2>7 DEF TypeOK, Control, InPhase
<1>6. ASSUME AllPhases PROVE TypeOK' /\ Control'
  <2>1. cur' \in Run /\ pc' = "end"
    BY <1>6, RunUpdate DEF AllPhases, StopRun, Verdict, Statuses
  <2>2. UNCHANGED <<version, runs, at, retried, ok, gate, passed, budget, late, did, good>>
    BY <1>6 DEF AllPhases, phase
  <2>3. QED
    BY <2>1, <2>2 DEF TypeOK, Control, InPhase
<1>7. QED
  BY <1>2, <1>3, <1>4, <1>5, <1>6

\* Type and control of the actions that attempt it.
LEMMA AttemptType ==
  ASSUME TypeOK, Control, RefuseAttempt \/ Attempt \/ Retry \/ GiveUp
  PROVE  TypeOK' /\ Control'
<1>1. at \in 1 .. Len(Order)
  BY DEF Control, InPhase, RefuseAttempt, Attempt, Retry, GiveUp
<1>2. ASSUME RefuseAttempt PROVE TypeOK' /\ Control'
  <2> DEFINE calls == IF late THEN budget.calls ELSE Calls
             commands == IF late \/ Exceeds(Calls, MaxToolCalls) THEN budget.commands
                                                                 ELSE Commands
  <2>1. calls \in Nat /\ commands \in Nat
    BY <1>1, Counters, CountersNext
  <2>2. budget' = [budget EXCEPT !.calls = calls, !.commands = commands, !.error = TRUE]
    BY <1>2 DEF RefuseAttempt
  <2>3. budget' \in [calls : Nat, commands : Nat, files : Nat, error : BOOLEAN]
    <3> HIDE DEF calls, commands
    <3> QED  BY <2>1, <2>2, BudgetUpdate, Counters
  <2>4. /\ pc' \in {"settle", "failed"} /\ ok' = FALSE
        /\ UNCHANGED <<version, runs, cur, at, retried, gate, passed, late, did, good>>
    BY <1>2 DEF RefuseAttempt, AfterFailure
  <2>5. QED
    BY <1>1, <2>3, <2>4 DEF TypeOK, Control, InPhase
<1>3. ASSUME Attempt PROVE TypeOK' /\ Control'
  <2>1. PICK success \in BOOLEAN, written \in 0 .. 2 :
          /\ budget' = [calls |-> Calls, commands |-> Commands,
                        files |-> budget.files + written,
                        error |-> budget.error \/ Exceeds(budget.files + written, MaxFiles)]
          /\ ok' = (success /\ ~Exceeds(budget.files + written, MaxFiles))
          /\ good' = IF success THEN good \cup {Current} ELSE good \ {Current}
    BY <1>3 DEF Attempt
  <2>2. /\ Calls \in Nat /\ Commands \in Nat /\ budget.files + written \in Nat
        /\ (budget.error \/ Exceeds(budget.files + written, MaxFiles)) \in BOOLEAN
    BY <1>1, Counters, CountersNext
  <2>3. budget' \in [calls : Nat, commands : Nat, files : Nat, error : BOOLEAN]
    BY <2>1, <2>2
  <2>4. ok' \in BOOLEAN /\ good' \subseteq Phases
    BY <1>1, <2>1, CurrentPhase DEF TypeOK
  <2>5. did' \in [calls : Nat, commands : Nat]
    <3>1. /\ did.calls + Calls - budget.calls \in Nat
          /\ did.commands + Commands - budget.commands \in Nat
      BY <1>1, Counters, CountersNext, Executed
    <3>2. QED
      BY <1>3, <3>1 DEF Attempt
  <2>6. /\ pc' \in {"gates", "settle", "failed"}
        /\ UNCHANGED <<version, runs, cur, at, retried, gate, passed, late>>
    BY <1>3 DEF Attempt, AfterFailure
  <2>7. QED
    BY <1>1, <2>3, <2>4, <2>5, <2>6 DEF TypeOK, Control, InPhase
<1>4. ASSUME Retry PROVE TypeOK' /\ Control'
  <2>1. retried' \in UNION {0 .. Retries[p] : p \in Phases}
    BY <1>1, <1>4, NextAttempt DEF Retry, RetriesLeft
  <2>2. /\ pc' = "attempt"
        /\ UNCHANGED <<version, runs, cur, at, ok, gate, passed, budget, late, did, good>>
    BY <1>4 DEF Retry
  <2>3. QED
    BY <1>1, <2>1, <2>2 DEF TypeOK, Control, InPhase
<1>5. ASSUME GiveUp PROVE TypeOK' /\ Control'
  <2>1. /\ pc' = "settle"
        /\ UNCHANGED <<version, runs, cur, at, retried, ok, gate, passed,
                       budget, late, did, good>>
    BY <1>5 DEF GiveUp, phase
  <2>2. QED
    BY <1>1, <2>1 DEF TypeOK, Control, InPhase
<1>6. QED
  BY <1>2, <1>3, <1>4, <1>5

\* Type and control of the actions at its gates.
LEMMA GateType ==
  ASSUME TypeOK, Control, GateOutOfTime \/ CheckGate \/ CommandGate \/ GatesDone
  PROVE  TypeOK' /\ Control'
<1>1. at \in 1 .. Len(Order)
  BY DEF Control, InPhase, GateOutOfTime, CheckGate, CommandGate, GatesDone
<1>2. ASSUME NEW result \in BOOLEAN, GateOutcome(result), gate <= Len(Gates[Current])
      PROVE  /\ passed' \in BOOLEAN /\ good' \subseteq Phases
             /\ gate' \in UNION {1 .. Len(Gates[p]) + 1 : p \in Phases}
  BY <1>1, <1>2, NextGate DEF GateOutcome, TypeOK
<1>3. ASSUME GateOutOfTime PROVE TypeOK' /\ Control'
  <2>1. budget' \in [calls : Nat, commands : Nat, files : Nat, error : BOOLEAN]
    BY <1>3, BudgetUpdate, Counters DEF GateOutOfTime
  <2>2. /\ ok' = FALSE /\ pc' = "settle"
        /\ UNCHANGED <<version, runs, cur, at, retried, gate, passed, late, did, good>>
    BY <1>3 DEF GateOutOfTime
  <2>3. QED
    BY <1>1, <2>1, <2>2 DEF TypeOK, Control, InPhase
<1>4. ASSUME CheckGate PROVE TypeOK' /\ Control'
  <2>1. PICK result \in BOOLEAN : GateOutcome(result)
    BY <1>4 DEF CheckGate, TypeOK
  <2>2. /\ passed' \in BOOLEAN /\ good' \subseteq Phases
        /\ gate' \in UNION {1 .. Len(Gates[p]) + 1 : p \in Phases}
    BY <1>2, <1>4, <2>1 DEF CheckGate
  <2>3. /\ pc' = "gates"
        /\ UNCHANGED <<version, runs, cur, at, retried, ok, budget, late, did>>
    BY <1>4 DEF CheckGate
  <2>4. QED
    BY <1>1, <2>2, <2>3 DEF TypeOK, Control, InPhase
<1>5. ASSUME CommandGate PROVE TypeOK' /\ Control'
  <2>1. PICK result \in BOOLEAN : GateOutcome(result)
    BY <1>5 DEF CommandGate
  <2>2. /\ passed' \in BOOLEAN /\ good' \subseteq Phases
        /\ gate' \in UNION {1 .. Len(Gates[p]) + 1 : p \in Phases}
    BY <1>2, <1>5, <2>1 DEF CommandGate
  <2>3. GateCommands \in Nat
    BY <1>1, CountersNext
  <2>4. budget' \in [calls : Nat, commands : Nat, files : Nat, error : BOOLEAN]
    <3>1. /\ [budget EXCEPT !.commands = GateCommands] \in
               [calls : Nat, commands : Nat, files : Nat, error : BOOLEAN]
          /\ [budget EXCEPT !.commands = GateCommands, !.error = TRUE] \in
               [calls : Nat, commands : Nat, files : Nat, error : BOOLEAN]
      BY <2>3, BudgetUpdate, Counters, Zenon
    <3>2. \/ budget' = [budget EXCEPT !.commands = GateCommands]
          \/ budget' = [budget EXCEPT !.commands = GateCommands, !.error = TRUE]
      BY <1>5, Zenon DEF CommandGate
    <3>3. QED
      BY <3>1, <3>2, Zenon
  <2>5. did' \in [calls : Nat, commands : Nat]
    <3>1. did \in [calls : Nat, commands : Nat]
      BY DEF TypeOK
    <3>2. [did EXCEPT !.commands = @ + 1] \in [calls : Nat, commands : Nat]
      BY <3>1
    <3>3. did' = did \/ did' = [did EXCEPT !.commands = @ + 1]
      BY <1>5, Zenon DEF CommandGate
    <3>4. QED
      BY <3>1, <3>2, <3>3, Zenon
  <2>6. pc' = "gates" /\ UNCHANGED <<version, runs, cur, at, retried, ok, late>>
    BY <1>5 DEF CommandGate
  <2>7. QED
    BY <1>1, <2>2, <2>4, <2>5, <2>6 DEF TypeOK, Control, InPhase
<1>6. ASSUME GatesDone PROVE TypeOK' /\ Control'
  <2>1. ok' \in BOOLEAN /\ pc' = "settle"
    BY <1>6 DEF GatesDone
  <2>2. UNCHANGED <<version, runs, cur, at, retried, gate, passed, budget, late, did, good>>
    BY <1>6 DEF GatesDone
  <2>3. QED
    BY <1>1, <2>1, <2>2 DEF TypeOK, Control, InPhase
<1>7. QED
  BY <1>3, <1>4, <1>5, <1>6

LEMMA NewBudgetFields ==
  NewBudget.calls = 0 /\ NewBudget.commands = 0 /\ NewBudget.error = FALSE
BY DEF NewBudget

\* Between a start and its end a run can still be saved, with its own status.
SaveControl ==
  /\ pc = "end" => cur.status # "running"
  /\ pc # "idle" => Len(runs) < MaxRuns

LEMMA SaveStep ==
  ASSUME TypeOK, SaveControl, [Next]_vars
  PROVE  SaveControl'
<1>1. cur \in Run
  BY DEF TypeOK
<1>2. ASSUME NEW status \in Statuses \ {"running"}, StopRun(status), runs' = runs, pc # "idle"
      PROVE  SaveControl'
  BY <1>1, <1>2 DEF SaveControl, StopRun, Run
<1>3. CASE OutOfTime
  BY <1>2, <1>3 DEF OutOfTime, Statuses
<1>4. CASE AllPhases
  BY <1>2, <1>4 DEF AllPhases, Verdict, Statuses
<1>5. CASE SettlePhase
  <2> DEFINE status == IF Exceeded THEN "budget_exceeded"
                       ELSE IF Blocks THEN "failed" ELSE "running"
  <2>1. cur'.status = status /\ (pc' = "end" => status # "running")
        /\ runs' = runs /\ pc # "idle"
    BY <1>1, <1>5 DEF SettlePhase, Run
  <2>2. QED
    BY <2>1 DEF SaveControl
<1>6. CASE \E resume \in BOOLEAN : Start(resume)
  BY <1>6 DEF Start, SaveControl
<1>7. CASE Save \/ Crash
  BY <1>7 DEF Save, Crash, Leave, SaveControl
<1>8. CASE \/ ReusePhase \/ StartPhase \/ RefuseAttempt \/ Attempt \/ Retry \/ GiveUp
           \/ GateOutOfTime \/ CheckGate \/ CommandGate \/ GatesDone
  <2>1. runs' = runs /\ pc # "idle" /\ pc' # "end"
    BY <1>8 DEF ReusePhase, StartPhase, RefuseAttempt, Attempt, Retry, GiveUp,
                GateOutOfTime, CheckGate, CommandGate, GatesDone, AfterFailure
  <2>2. QED
    BY <2>1 DEF SaveControl
<1>9. CASE Expire \/ UNCHANGED vars \/ \E p \in Phases : Edit(p)
  BY <1>9 DEF Expire, Edit, vars, phase, SaveControl
<1>10. QED
  BY <1>3, <1>4, <1>5, <1>6, <1>7, <1>8, <1>9 DEF Next, Step

\* Type and control of the actions around a run.
LEMMA RestType ==
  ASSUME TypeOK, Control, SaveControl,
         \/ \E p \in Phases : Edit(p)
         \/ Save \/ Expire \/ Crash
         \/ UNCHANGED vars
  PROVE  TypeOK' /\ Control'
<1>1. ASSUME NEW p \in Phases, Edit(p) PROVE TypeOK' /\ Control'
  <2>1. version' \in [Phases -> Nat]
    <3>1. version \in [Phases -> Nat]
      BY DEF TypeOK
    <3>2. [version EXCEPT ![p] = @ + 1] \in [Phases -> Nat]
      BY <3>1
    <3>3. version' = [version EXCEPT ![p] = @ + 1]
      BY <1>1, Zenon DEF Edit
    <3>4. QED
      BY <3>2, <3>3, Zenon
  <2>2. UNCHANGED <<runs, pc, cur, at, retried, ok, gate, passed, budget, late, did, good>>
    BY <1>1 DEF Edit, phase
  <2>3. QED
    BY <2>1, <2>2 DEF TypeOK, Control
<1>2. ASSUME Leave, version' = version, good' = good,
             runs' \in Seq(SavedRun), Len(runs') <= MaxRuns
      PROVE  TypeOK' /\ Control'
  <2>1. /\ pc' = "idle" /\ cur' \in Run /\ at' \in 1 .. Len(Order) + 1
        /\ retried' = 0 /\ gate' = 1
        /\ ok' \in BOOLEAN /\ passed' \in BOOLEAN /\ late' \in BOOLEAN
    BY <1>2, LeaveType, OrderLength
  <2>2. /\ budget' \in [calls : Nat, commands : Nat, files : Nat, error : BOOLEAN]
        /\ did' \in [calls : Nat, commands : Nat]
    BY <1>2, LeaveType, NewBudgetType
  <2>3. version' \in [Phases -> Nat] /\ good' \subseteq Phases
    BY <1>2 DEF TypeOK
  <2>4. QED
    BY <1>2, <2>1, <2>2, <2>3 DEF TypeOK, Control, InPhase
<1>3. ASSUME Save PROVE TypeOK' /\ Control'
  <2> DEFINE saved == [status |-> cur.status, outputs |-> cur.outputs, version |-> version]
  <2>1. saved \in SavedRun
    BY <1>3, RunFields DEF Save, SaveControl, SavedRun, TypeOK
  <2>2. runs' = Append(runs, saved)
    BY <1>3 DEF Save
  <2>3. runs' \in Seq(SavedRun) /\ Len(runs') = Len(runs) + 1 /\ Len(runs) \in Nat
    <3> HIDE DEF saved
    <3> QED  BY <2>1, <2>2, AppendProperties, LenProperties DEF TypeOK
  <2>4. Len(runs) < MaxRuns
    BY <1>3 DEF Save, SaveControl
  <2>5. QED
    BY <1>2, <1>3, <2>3, <2>4, PhasesAssumption DEF Save
<1>4. ASSUME Crash PROVE TypeOK' /\ Control'
  BY <1>2, <1>4 DEF Crash, TypeOK
<1>5. ASSUME Expire PROVE TypeOK' /\ Control'
  <2>1. /\ late' = TRUE
        /\ UNCHANGED <<version, runs, pc, cur, at, retried, ok, gate, passed,
                       budget, did, good>>
    BY <1>5 DEF Expire, phase
  <2>2. QED
    BY <2>1 DEF TypeOK, Control
<1>6. ASSUME UNCHANGED vars PROVE TypeOK' /\ Control'
  BY <1>6 DEF vars, phase, TypeOK, Control
<1>7. QED
  BY <1>1, <1>3, <1>4, <1>5, <1>6

LEMMA TypeStep ==
  ASSUME TypeOK, Control, SaveControl, [Next]_vars
  PROVE  TypeOK' /\ Control' /\ SaveControl'
<1>1. CASE \E resume \in BOOLEAN : Start(resume)
  BY <1>1, StartType, SaveStep
<1>2. CASE \E p \in Phases : Edit(p)
  BY <1>2, RestType, SaveStep
<1>3. CASE Step
  BY <1>3, PhaseType, AttemptType, GateType, RestType, SaveStep DEF Step
<1>4. CASE Expire \/ Crash \/ UNCHANGED vars
  BY <1>4, RestType, SaveStep
<1>5. QED
  BY <1>1, <1>2, <1>3, <1>4 DEF Next

\* Every variable keeps its type, the bounds of retries and gates included.
THEOREM TypeCorrect == Spec => []TypeOK
<1>1. Init => TypeOK /\ Control /\ SaveControl
  BY InitType DEF Init, SaveControl
<1>2. TypeOK /\ Control /\ SaveControl /\ [Next]_vars => (TypeOK /\ Control /\ SaveControl)'
  BY TypeStep
<1>3. QED
  BY <1>1, <1>2, PTL DEF Spec

-----------------------------------------------------------------------------
(* The limits *)

\* What LimitsInv says is unchanged where the counters are.
LEMMA LimitsKept ==
  ASSUME LimitsInv, UNCHANGED <<budget, did>>,
         budget.error => /\ pc' \in {"settle", "end"} \/ pc' = pc
                         /\ pc' = "end" => cur'.status = "budget_exceeded"
  PROVE  LimitsInv'
BY DEF LimitsInv, LimitsHold, Exceeds, ExceededIsReported

\* It holds of a run that counted nothing.
LEMMA LimitsFresh ==
  ASSUME budget' = NewBudget, did' = [calls |-> 0, commands |-> 0]
  PROVE  LimitsInv'
BY NewBudgetFields, PhasesAssumption DEF LimitsInv, LimitsHold, Exceeds, ExceededIsReported

LEMMA LimitsAttempt ==
  ASSUME TypeOK, Control, LimitsInv, Attempt
  PROVE  LimitsInv'
<1>1. at \in 1 .. Len(Order)
  BY DEF Control, InPhase, Attempt
<1>2. /\ budget'.calls = Calls /\ budget'.commands = Commands
      /\ pc' = "gates" => ~budget'.error
      /\ pc' = "gates" \/ pc' = AfterFailure
  <2>1. PICK success \in BOOLEAN, written \in 0 .. 2 :
          /\ budget' = [calls |-> Calls, commands |-> Commands,
                        files |-> budget.files + written,
                        error |-> budget.error \/ Exceeds(budget.files + written, MaxFiles)]
          /\ ok' = (success /\ ~Exceeds(budget.files + written, MaxFiles))
    BY DEF Attempt
  <2>2. ~budget.error
    BY DEF Attempt, LimitsInv
  <2>3. pc' = IF ok' THEN "gates" ELSE AfterFailure
    BY DEF Attempt
  <2>4. budget'.error = Exceeds(budget.files + written, MaxFiles)
    BY <2>1, <2>2 DEF Exceeds
  <2>5. AfterFailure # "gates"
    BY DEF AfterFailure
  <2>6. QED
    BY <2>1, <2>3, <2>4, <2>5
<1>3. /\ did'.calls = did.calls + Calls - budget.calls
      /\ did'.commands = did.commands + Commands - budget.commands
  BY DEF Attempt
<1>4. /\ did'.calls \in Nat /\ did'.calls <= Calls
      /\ did'.commands \in Nat /\ did'.commands <= Commands
  <2>1. did.calls <= budget.calls /\ did.commands <= budget.commands
    BY DEF LimitsInv
  <2>2. did'.calls \in Nat /\ did'.calls <= Calls
    BY <1>1, <1>3, <2>1, Counters, CountersNext, Executed
  <2>3. did'.commands \in Nat /\ did'.commands <= Commands
    BY <1>1, <1>3, <2>1, Counters, CountersNext, Executed
  <2>4. QED
    BY <2>2, <2>3
<1>5. ~Exceeds(Calls, MaxToolCalls) /\ ~Exceeds(Commands, MaxCommands)
  BY DEF Attempt, Refused
<1>6. LimitsHold'
  BY <1>1, <1>4, <1>5, Counters, CountersNext DEF LimitsHold, Exceeds
<1>7. budget'.error => pc' = "settle"
  BY <1>2 DEF AfterFailure
<1>8. pc' # "end"
  BY <1>2 DEF AfterFailure
<1>9. QED
  BY <1>2, <1>4, <1>6, <1>7, <1>8 DEF LimitsInv, ExceededIsReported

LEMMA LimitsRefused ==
  ASSUME TypeOK, Control, LimitsInv, RefuseAttempt
  PROVE  LimitsInv'
<1> DEFINE calls == IF late THEN budget.calls ELSE Calls
           commands == IF late \/ Exceeds(Calls, MaxToolCalls) THEN budget.commands
                                                               ELSE Commands
<1>1. at \in 1 .. Len(Order)
  BY DEF Control, InPhase, RefuseAttempt
<1>2. /\ calls \in Nat /\ commands \in Nat
      /\ budget.calls <= calls /\ budget.commands <= commands
  BY <1>1, Counters, CountersNext
<1>3. budget' = [budget EXCEPT !.calls = calls, !.commands = commands, !.error = TRUE]
  BY DEF RefuseAttempt
<1>4. budget'.calls = calls /\ budget'.commands = commands /\ budget'.error = TRUE
  <2> HIDE DEF calls, commands
  <2> QED  BY <1>3, Zenon DEF TypeOK
<1>5. did' = did /\ pc' = "settle"
  BY <1>4 DEF RefuseAttempt, AfterFailure
<1>6. did'.calls <= calls /\ did'.commands <= commands
  <2> HIDE DEF calls, commands
  <2> QED  BY <1>2, <1>5, Counters DEF LimitsInv
<1>7. QED
  <2> HIDE DEF calls, commands
  <2> QED  BY <1>4, <1>5, <1>6 DEF LimitsInv, LimitsHold, Exceeds, ExceededIsReported

LEMMA LimitsCommandGate ==
  ASSUME TypeOK, LimitsInv, CommandGate
  PROVE  LimitsInv'
<1>1. pc = "gates" /\ pc' = "gates"
  BY DEF CommandGate
<1>2. budget.commands \in Nat /\ GateCommands = budget.commands + 1
  BY Counters DEF GateCommands
<1>3. CASE Exceeds(GateCommands, MaxCommands)
  <2>1. /\ budget' = [budget EXCEPT !.commands = GateCommands, !.error = TRUE]
        /\ did' = did
    BY <1>3, Zenon DEF CommandGate
  <2>2. /\ budget'.calls = budget.calls /\ budget'.commands = GateCommands
        /\ budget'.error = TRUE
    BY <2>1, Zenon DEF TypeOK
  <2>3. QED
    BY <1>1, <1>2, <1>3, <2>1, <2>2, Counters
    DEF LimitsInv, LimitsHold, Exceeds, ExceededIsReported
<1>4. CASE ~Exceeds(GateCommands, MaxCommands)
  <2>1. /\ budget' = [budget EXCEPT !.commands = GateCommands]
        /\ did' = [did EXCEPT !.commands = @ + 1]
    BY <1>4, Zenon DEF CommandGate
  <2>2. /\ budget'.calls = budget.calls /\ budget'.commands = GateCommands
        /\ budget'.error = budget.error
    BY <2>1, Zenon DEF TypeOK
  <2>3. did'.calls = did.calls /\ did'.commands = did.commands + 1
    BY <2>1, Zenon DEF TypeOK
  <2>4. ~budget.error
    BY <1>1, <1>2, <1>4, Counters DEF LimitsInv, Exceeds
  <2>5. did'.commands <= GateCommands /\ did'.commands \in Nat
    BY <1>2, <2>3, Counters DEF LimitsInv
  <2>6. ~Exceeds(did'.commands, MaxCommands)
    BY <1>2, <1>4, <2>5, Counters DEF Exceeds
  <2>7. QED
    BY <1>1, <2>2, <2>3, <2>4, <2>5, <2>6 DEF LimitsInv, LimitsHold, Exceeds, ExceededIsReported
<1>5. QED
  BY <1>3, <1>4

LEMMA LimitsSettle ==
  ASSUME TypeOK, LimitsInv, SettlePhase
  PROVE  LimitsInv'
<1> DEFINE error == budget.error \/ late
<1>1. budget' = [budget EXCEPT !.error = error] /\ did' = did
  BY Zenon DEF SettlePhase
<1>2. budget'.calls = budget.calls /\ budget'.commands = budget.commands /\ budget'.error = error
  <2> HIDE DEF error
  <2> QED  BY <1>1, Zenon DEF TypeOK
<1>3. error => pc' = "end" /\ cur'.status = "budget_exceeded"
  BY DEF SettlePhase, Exceeded, TypeOK, Run
<1>4. QED
  BY <1>1, <1>2, <1>3 DEF LimitsInv, LimitsHold, Exceeds, ExceededIsReported

LEMMA LimitsStep ==
  ASSUME TypeOK, Control, LimitsInv, [Next]_vars
  PROVE  LimitsInv'
<1>1. CASE Attempt
  BY <1>1, LimitsAttempt
<1>2. CASE RefuseAttempt
  BY <1>2, LimitsRefused
<1>3. CASE CommandGate
  BY <1>3, LimitsCommandGate
<1>4. CASE SettlePhase
  BY <1>4, LimitsSettle
<1>5. CASE GateOutOfTime
  <2>1. budget' = [budget EXCEPT !.error = TRUE] /\ did' = did /\ pc' = "settle"
    BY <1>5 DEF GateOutOfTime
  <2>2. budget'.calls = budget.calls /\ budget'.commands = budget.commands
    BY <2>1, Zenon DEF TypeOK
  <2>3. QED
    BY <2>1, <2>2 DEF LimitsInv, LimitsHold, Exceeds, ExceededIsReported
<1>6. CASE \E resume \in BOOLEAN : Start(resume)
  BY <1>6, LimitsFresh DEF Start
<1>7. CASE Save \/ Crash
  BY <1>7, LimitsFresh DEF Save, Crash, Leave
<1>8. CASE \/ OutOfTime \/ ReusePhase \/ StartPhase \/ AllPhases \/ Retry \/ GiveUp
  <2>1. ~budget.error
    BY <1>8 DEF OutOfTime, ReusePhase, StartPhase, AllPhases, Retry, GiveUp, LimitsInv
  <2>2. UNCHANGED <<budget, did>>
    BY <1>8 DEF OutOfTime, ReusePhase, StartPhase, AllPhases, Retry, GiveUp
  <2>3. QED
    BY <2>1, <2>2, LimitsKept
<1>9. CASE CheckGate \/ GatesDone
  BY <1>9, LimitsKept DEF CheckGate, GatesDone
<1>10. CASE Expire \/ UNCHANGED vars \/ \E p \in Phases : Edit(p)
  <2>1. UNCHANGED <<budget, did, pc, cur>>
    BY <1>10 DEF Expire, Edit, vars
  <2>2. QED
    BY <2>1, LimitsKept DEF LimitsInv, ExceededIsReported
<1>11. QED
  BY <1>1, <1>2, <1>3, <1>4, <1>5, <1>6, <1>7, <1>8, <1>9, <1>10 DEF Next, Step

LimitsIInv == TypeOK /\ Control /\ SaveControl /\ LimitsInv

LEMMA LimitsInvariant == Spec => []LimitsIInv
<1>1. Init => LimitsIInv
  <2> SUFFICES ASSUME Init PROVE LimitsInv
    BY InitType DEF Init, SaveControl, LimitsIInv
  <2>1. budget = NewBudget /\ did = [calls |-> 0, commands |-> 0] /\ pc = "idle"
    BY DEF Init
  <2>2. QED
    BY <2>1, NewBudgetFields, PhasesAssumption
    DEF LimitsInv, LimitsHold, Exceeds, ExceededIsReported
<1>2. LimitsIInv /\ [Next]_vars => LimitsIInv'
  BY TypeStep, LimitsStep DEF LimitsIInv
<1>3. QED
  BY <1>1, <1>2, PTL DEF Spec

\* No run executes more phases or commands than its limits allow, whatever
\* its phases, gates and retries are.
THEOREM LimitsCorrect == Spec => []LimitsHold
<1>1. LimitsIInv => LimitsHold
  BY DEF LimitsIInv, LimitsInv
<1>2. QED
  BY <1>1, LimitsInvariant, PTL

\* A run that passed a limit says so.
THEOREM ReportCorrect == Spec => []ExceededIsReported
<1>1. LimitsIInv => ExceededIsReported
  BY DEF LimitsIInv, LimitsInv
<1>2. QED
  BY <1>1, LimitsInvariant, PTL

\* And executes nothing after it.
THEOREM NothingAfterCorrect == Spec => NothingAfterLimit
<1> DEFINE Executes == budget.error => did'.calls <= did.calls /\ did'.commands <= did.commands
<1>1. ASSUME LimitsIInv, [Next]_vars PROVE Executes \/ UNCHANGED vars
  <2>1. TypeOK /\ LimitsInv
    BY <1>1 DEF LimitsIInv
  <2> SUFFICES ASSUME budget.error, ~UNCHANGED vars
      PROVE did'.calls <= did.calls /\ did'.commands <= did.commands
    OBVIOUS
  <2>2. pc \in {"gates", "settle", "end"}
    BY <2>1 DEF LimitsInv
  <2>3. \/ did'.calls = 0 /\ did'.commands = 0
        \/ did' = did
    <3>1. CASE CommandGate
      <4>1. Exceeds(GateCommands, MaxCommands)
        BY <2>1, <3>1, Counters DEF CommandGate, GateCommands, LimitsInv, Exceeds
      <4>2. QED
        BY <3>1, <4>1 DEF CommandGate
    <3>2. CASE \/ GateOutOfTime \/ CheckGate \/ GatesDone \/ SettlePhase \/ Expire
      BY <3>2 DEF GateOutOfTime, CheckGate, GatesDone, SettlePhase, Expire
    <3>3. CASE Save \/ Crash
      BY <3>3 DEF Save, Crash, Leave
    <3>4. QED
      BY <1>1, <2>2, <3>1, <3>2, <3>3
      DEF Next, Step, Edit, Start, OutOfTime, ReusePhase, StartPhase, RefuseAttempt,
          Attempt, Retry, GiveUp, AllPhases
  <2>4. QED
    BY <2>1, <2>3, Counters
<1>2. QED
  BY <1>1, LimitsInvariant, PTL DEF Spec, NothingAfterLimit

-----------------------------------------------------------------------------
(* The results *)

\* The phases before the current one were taken over, succeeded or may be passed
\* over; those that count as successful were taken over or succeeded, and the
\* current one is not among them, so that it may fail again.
ResultsInv ==
  /\ pc # "idle" => /\ cur.ok \subseteq cur.reused \cup good
                    /\ \A i \in 1 .. Len(Order) :
                         i < at => Order[i] \in cur.reused \cup good \cup Continue
  /\ pc = "phase" \/ pc \in InPhase => \A i \in 1 .. Len(Order) : Order[i] \in cur.ok => i < at
  /\ pc \in {"failed", "settle"} /\ ok => Current \in good
  /\ pc = "gates" /\ ok /\ passed => Current \in good
  /\ pc = "end" /\ cur.status = "completed" => cur.ok = Phases

LEMMA OrderFacts ==
  /\ \A i, j \in 1 .. Len(Order) : Order[i] = Order[j] => i = j
  /\ \A p \in Phases : \E i \in 1 .. Len(Order) : Order[i] = p
  /\ \A i, j \in 1 .. Len(Order) : Order[i] \in Deps[Order[j]] => i < j
<1>1. Order \in Seq(Phases) /\ DOMAIN Order = 1 .. Len(Order)
  BY OrderAssumption, LenProperties DEF ValidOrder
<1>2. QED
  BY <1>1, OrderAssumption DEF ValidOrder, IsInjective, Range

\* The current phase succeeds or fails.
LEMMA ResultsInPhase ==
  ASSUME TypeOK, Control, ResultsInv, pc \in InPhase, pc' \in InPhase,
         UNCHANGED <<cur, at>>,
         good' \in {good, good \cup {Current}, good \ {Current}},
         pc' \in {"failed", "settle"} /\ ok' => Current \in good',
         pc' = "gates" /\ ok' /\ passed' => Current \in good'
  PROVE  ResultsInv'
<1>1. at \in 1 .. Len(Order) /\ Current' = Current
  BY DEF Control, Current
<1>2. pc # "idle" /\ pc' # "idle" /\ pc' # "end"
  BY DEF InPhase
<1>3. Current \notin cur.ok
  BY <1>1, OrderLength DEF ResultsInv, Current
<1>4. \A i \in 1 .. Len(Order) : i < at => Order[i] # Current
  BY <1>1, OrderLength, OrderFacts DEF Current
<1>5. cur.ok \subseteq cur.reused \cup good'
  BY <1>2, <1>3 DEF ResultsInv
<1>6. \A i \in 1 .. Len(Order) : i < at => Order[i] \in cur.reused \cup good' \cup Continue
  BY <1>2, <1>4 DEF ResultsInv
<1>7. \A i \in 1 .. Len(Order) : Order[i] \in cur.ok => i < at
  BY DEF ResultsInv
<1>8. QED
  BY <1>1, <1>2, <1>5, <1>6, <1>7 DEF ResultsInv

\* The next phase follows one that succeeded or may be passed over.
LEMMA ResultsOnward ==
  ASSUME TypeOK, ResultsInv, at \in 1 .. Len(Order), pc # "idle", pc' = "phase", at' = at + 1,
         good' = good, cur'.reused = cur.reused,
         Current \in cur.reused \cup good \cup Continue,
         cur'.ok \subseteq cur.ok \cup {Current}, cur'.ok \subseteq cur.reused \cup good,
         \A i \in 1 .. Len(Order) : Order[i] \in cur.ok => i < at
  PROVE  ResultsInv'
<1>1. ASSUME NEW i \in 1 .. Len(Order), i < at + 1 PROVE Order[i] \in cur.reused \cup good \cup Continue
  <2>1. i < at \/ i = at
    BY <1>1, OrderLength
  <2>2. QED
    BY <1>1, <2>1 DEF ResultsInv, Current
<1>2. ASSUME NEW i \in 1 .. Len(Order), Order[i] \in cur'.ok PROVE i < at + 1
  <2>1. Order[i] \in cur.ok \/ i = at
    BY <1>2, OrderFacts DEF Current
  <2>2. QED
    BY <2>1, OrderLength
<1>3. QED
  BY <1>1, <1>2 DEF ResultsInv, InPhase

LEMMA ResultsPhases ==
  ASSUME TypeOK, Control, ResultsInv,
         OutOfTime \/ ReusePhase \/ StartPhase \/ SettlePhase \/ AllPhases
  PROVE  ResultsInv'
<1>1. cur \in Run
  BY DEF TypeOK
<1>2. at \in 1 .. Len(Order) + 1 /\ (at <= Len(Order) => at \in 1 .. Len(Order))
  BY OrderLength DEF TypeOK
<1>3. ASSUME NEW status \in Statuses, StopRun(status), pc = "phase", UNCHANGED <<at, good>>,
             status = "completed" => cur.ok = Phases
      PROVE  ResultsInv'
  <2>1. /\ pc' = "end" /\ cur'.status = status /\ cur'.ok = cur.ok /\ cur'.reused = cur.reused
    BY <1>1, <1>3 DEF StopRun, Run
  <2>2. QED
    BY <1>3, <2>1 DEF ResultsInv, InPhase
<1>4. CASE OutOfTime
  BY <1>3, <1>4 DEF OutOfTime, Statuses
<1>5. CASE AllPhases
  BY <1>3, <1>5 DEF AllPhases, Verdict, Statuses
<1>6. CASE ReusePhase
  <2>1. /\ cur'.ok = cur.ok \cup {Current} /\ cur'.reused = cur.reused
        /\ Current \in cur.reused /\ pc = "phase" /\ pc' = "phase" /\ at' = at + 1 /\ good' = good
    BY <1>1, <1>6 DEF ReusePhase, Run
  <2>2. at \in 1 .. Len(Order)
    BY <1>2, <1>6 DEF ReusePhase
  <2>3. cur'.ok \subseteq cur.reused \cup good
    BY <2>1 DEF ResultsInv
  <2>4. \A i \in 1 .. Len(Order) : Order[i] \in cur.ok => i < at
    BY <2>1 DEF ResultsInv
  <2>5. QED
    BY <2>1, <2>2, <2>3, <2>4, ResultsOnward
<1>7. CASE StartPhase
  BY <1>7 DEF StartPhase, ResultsInv, InPhase
<1>8. CASE SettlePhase
  <2> DEFINE status == IF Exceeded THEN "budget_exceeded"
                       ELSE IF Blocks THEN "failed" ELSE "running"
             oks == IF ok THEN cur.ok \cup {Current} ELSE cur.ok
  <2>1. /\ pc = "settle" /\ good' = good
        /\ cur'.ok = oks /\ cur'.reused = cur.reused /\ cur'.status = status
        /\ IF status = "running" THEN pc' = "phase" /\ at' = at + 1 ELSE pc' = "end" /\ at' = at
    BY <1>1, <1>8 DEF SettlePhase, Run
  <2>2. at \in 1 .. Len(Order)
    BY <2>1 DEF Control, InPhase
  <2>3. oks \subseteq cur.ok \cup {Current} /\ oks \subseteq cur.reused \cup good
    BY <2>1 DEF ResultsInv
  <2>4. CASE status = "running"
    <3>1. ok \/ Current \in Continue
      BY <2>4 DEF Blocks
    <3>2. Current \in cur.reused \cup good \cup Continue
      BY <2>1, <3>1 DEF ResultsInv
    <3>3. \A i \in 1 .. Len(Order) : Order[i] \in cur.ok => i < at
      BY <2>1 DEF ResultsInv, InPhase
    <3> HIDE DEF status, oks
    <3>4. QED
      BY <2>1, <2>2, <2>3, <2>4, <3>2, <3>3, ResultsOnward
  <2>5. CASE status # "running"
    <3>1. status # "completed"
      OBVIOUS
    <3> HIDE DEF status, oks
    <3>2. pc' = "end" /\ at' = at
      BY <2>1, <2>5
    <3>3. \A i \in 1 .. Len(Order) : i < at => Order[i] \in cur.reused \cup good \cup Continue
      BY <2>1 DEF ResultsInv
    <3>4. QED
      BY <2>1, <2>3, <3>1, <3>2, <3>3 DEF ResultsInv, InPhase
  <2>6. QED
    BY <2>4, <2>5
<1>9. QED
  BY <1>4, <1>5, <1>6, <1>7, <1>8

LEMMA ResultsStep ==
  ASSUME TypeOK, Control, ResultsInv, [Next]_vars
  PROVE  ResultsInv'
<1>1. CASE OutOfTime \/ ReusePhase \/ StartPhase \/ SettlePhase \/ AllPhases
  BY <1>1, ResultsPhases
<1>2. CASE RefuseAttempt
  <2>1. /\ pc \in InPhase /\ pc' \in InPhase \ {"gates"} /\ ok' = FALSE /\ UNCHANGED <<cur, at, good>>
    BY <1>2 DEF RefuseAttempt, AfterFailure, InPhase
  <2>2. QED
    BY <2>1, ResultsInPhase
<1>3. CASE Attempt
  <2>1. PICK success \in BOOLEAN, over \in BOOLEAN :
          /\ ok' = (success /\ ~over)
          /\ good' = IF success THEN good \cup {Current} ELSE good \ {Current}
    BY <1>3 DEF Attempt, Exceeds
  <2>2. ok' \in BOOLEAN /\ (ok' => success)
    BY <2>1
  <2>3. good' \in {good \cup {Current}, good \ {Current}} /\ (ok' => Current \in good')
    BY <2>1, <2>2
  <2>4. /\ pc \in InPhase /\ pc' \in InPhase /\ UNCHANGED <<cur, at>>
    BY <1>3 DEF Attempt, AfterFailure, InPhase
  <2>5. QED
    BY <2>3, <2>4, ResultsInPhase
<1>4. CASE Retry
  <2>1. pc \in InPhase /\ pc' = "attempt" /\ pc' \in InPhase /\ UNCHANGED <<cur, at, good>>
    BY <1>4 DEF Retry, InPhase
  <2>2. QED
    BY <2>1, ResultsInPhase
<1>5. CASE GiveUp
  <2>1. /\ pc = "failed" /\ pc' = "settle" /\ pc \in InPhase /\ pc' \in InPhase
        /\ UNCHANGED <<cur, at, ok, good>>
    BY <1>5 DEF GiveUp, InPhase, phase
  <2>2. ok' => Current \in good'
    BY <2>1 DEF ResultsInv
  <2>3. QED
    BY <2>1, <2>2, ResultsInPhase
<1>6. CASE GateOutOfTime
  <2>1. /\ pc \in InPhase /\ pc' = "settle" /\ pc' \in InPhase /\ ok' = FALSE
        /\ UNCHANGED <<cur, at, good>>
    BY <1>6 DEF GateOutOfTime, InPhase
  <2>2. QED
    BY <2>1, ResultsInPhase
<1>7. CASE CheckGate \/ CommandGate
  <2>1. PICK result \in BOOLEAN : GateOutcome(result)
    BY <1>7 DEF CheckGate, CommandGate, TypeOK
  <2>2. /\ pc = "gates" /\ pc' = "gates" /\ pc \in InPhase /\ pc' \in InPhase
        /\ UNCHANGED <<cur, at, ok>>
    BY <1>7 DEF CheckGate, CommandGate, InPhase
  <2>3. good' \in {good, good \ {Current}}
    BY <2>1 DEF GateOutcome
  <2>4. ok' /\ passed' => Current \in good'
    <3>1. passed' => passed /\ result
      BY <2>1 DEF GateOutcome, TypeOK
    <3>2. result => good' = good
      BY <2>1 DEF GateOutcome
    <3>3. QED
      BY <2>2, <3>1, <3>2 DEF ResultsInv
  <2>5. QED
    BY <2>2, <2>3, <2>4, ResultsInPhase
<1>8. CASE GatesDone
  <2>1. /\ pc = "gates" /\ pc' = "settle" /\ pc \in InPhase /\ pc' \in InPhase
        /\ UNCHANGED <<cur, at, good>> /\ ok' = (ok /\ passed)
    BY <1>8 DEF GatesDone, GatesPassed, InPhase
  <2>2. ok' => Current \in good'
    BY <2>1 DEF ResultsInv, TypeOK
  <2>3. QED
    BY <2>1, <2>2, ResultsInPhase
<1>9. CASE \E resume \in BOOLEAN : Start(resume)
  <2>1. pc' = "phase" /\ at' = 1 /\ cur'.ok = {}
    BY <1>9 DEF Start, NewRun
  <2>2. \A i \in 1 .. Len(Order) : ~(i < 1)
    BY OrderLength
  <2>3. QED
    BY <2>1, <2>2 DEF ResultsInv, InPhase
<1>10. CASE Save \/ Crash
  BY <1>10 DEF Save, Crash, Leave, ResultsInv, InPhase
<1>11. CASE Expire \/ UNCHANGED vars \/ \E p \in Phases : Edit(p)
  <2>1. UNCHANGED <<pc, cur, at, phase, good>>
    BY <1>11, Zenon DEF Expire, Edit, vars
  <2>2. QED
    BY <2>1 DEF ResultsInv, Current, phase
<1>12. QED
  BY <1>1, <1>2, <1>3, <1>4, <1>5, <1>6, <1>7, <1>8, <1>9, <1>10, <1>11 DEF Next, Step

ResultsIInv == TypeOK /\ Control /\ SaveControl /\ ResultsInv

LEMMA ResultsInvariant == Spec => []ResultsIInv
<1>1. Init => ResultsIInv
  <2> SUFFICES ASSUME Init PROVE ResultsInv
    BY InitType DEF Init, SaveControl, ResultsIInv
  <2>1. QED
    BY DEF Init, ResultsInv, InPhase
<1>2. ResultsIInv /\ [Next]_vars => ResultsIInv'
  BY TypeStep, ResultsStep DEF ResultsIInv
<1>3. QED
  BY <1>1, <1>2, PTL DEF Spec

\* A run that reports completed executed nothing that failed last, in its phases
\* or in their gates, whatever was retried.
THEOREM CompletedCorrect == Spec => []CompletedMeansSucceeded
<1>1. ResultsIInv => CompletedMeansSucceeded
  BY DEF ResultsIInv, ResultsInv, CompletedMeansSucceeded
<1>2. QED
  BY <1>1, ResultsInvariant, PTL

\* No phase runs before those it depends on were taken over, succeeded with their
\* gates or failed with leave to go on.
THEOREM DependenciesCorrect == Spec => []RunsOnResults
<1>1. ASSUME ResultsIInv PROVE RunsOnResults
  <2> SUFFICES ASSUME pc = "attempt", NEW d \in Deps[Current]
               PROVE  d \in cur.reused \cup good \cup Continue
    BY DEF RunsOnResults
  <2>1. at \in 1 .. Len(Order)
    BY <1>1 DEF ResultsIInv, Control, InPhase
  <2>2. d \in Phases
    BY <2>1, CurrentPhase, PhasesAssumption
  <2>3. PICK i \in 1 .. Len(Order) : Order[i] = d
    BY <2>2, OrderFacts
  <2>4. i < at
    BY <2>1, <2>3, OrderFacts DEF Current
  <2>5. QED
    BY <1>1, <2>3, <2>4 DEF ResultsIInv, ResultsInv
<1>2. QED
  BY <1>1, ResultsInvariant, PTL
=============================================================================
