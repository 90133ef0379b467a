--------------------------- MODULE WorkflowEngine ---------------------------
(***************************************************************************)
(* The workflow engine of evolva/workflow/engine.py: nodes run one after   *)
(* the other in dependency order, each with retries and a condition; every *)
(* outcome is saved in the run's file; a failed node stops the run and the *)
(* completed nodes are compensated in reverse. A resumed run is a new run  *)
(* that takes over outputs from the newest usable run file.                *)
(*                                                                         *)
(* One instance of a workflow is modelled: a first run and the resumes     *)
(* that follow it. Between them the user may edit nodes; an edit is never  *)
(* undone. The process may die between any two steps. What a node does (a  *)
(* tool, a role, an agent turn, parallel branches) is one execution that   *)
(* succeeds or fails; templates, delays, logs and texts are left out.      *)
(***************************************************************************)
EXTENDS Integers, Sequences, FiniteSets, FiniteSetsExt, SequencesExt

CONSTANTS
  Nodes,         \* node ids
  Deps,          \* [Nodes -> SUBSET Nodes]: depends_on, after normalisation
  Order,         \* the execution order the planner found
  Retries,       \* [Nodes -> Nat]
  Continue,      \* nodes with continue_on_error
  Compensable,   \* nodes with a compensation tool
  When,          \* [Nodes -> condition]
  Unconditional, \* the condition of a node without "when"
  MaxRuns,       \* bound: run files
  MaxEdits       \* bound: edits of nodes between runs

ASSUME NodesAssumption ==
  /\ Deps \in [Nodes -> SUBSET Nodes]
  /\ Retries \in [Nodes -> Nat]
  /\ Continue \subseteq Nodes /\ Compensable \subseteq Nodes
  /\ When \in [Nodes -> [node : Nodes, ok : BOOLEAN] \cup {Unconditional}]
  /\ MaxRuns \in Nat /\ MaxEdits \in Nat

\* What _topological_order returns for an acyclic graph: every node once, and
\* after the nodes it depends on.
ValidOrder ==
  /\ Order \in Seq(Nodes) /\ IsInjective(Order) /\ Range(Order) = Nodes
  /\ \A i, j \in DOMAIN Order : Order[i] \in Deps[Order[j]] => i < j

ASSUME OrderAssumption == ValidOrder

VARIABLES
  version,   \* [Nodes -> Nat]: the node's fingerprint, changed by an edit
  runs,      \* run files, oldest first
  pc,        \* next step of the running run, or "idle"
  cur,       \* the running run in memory
  saved,     \* it has a file, the last of runs
  at,        \* position in Order
  retried,   \* retries of the current node so far
  result,    \* outcome of the current node
  todo,      \* nodes still to compensate
  ended,     \* the last run came to its own end
  ran,       \* [Nodes -> outcome]: of the node's last execution
  ranAt,     \* [Nodes -> Nat]: the version that was executed
  stale,     \* nodes one of whose dependencies was executed after them
  undone     \* nodes compensated since they last succeeded

work == <<cur, saved, at, retried, result, todo>>
world == <<ran, ranAt, stale, undone>>
vars == <<version, runs, pc, cur, saved, at, retried, result, todo, ended,
          ran, ranAt, stale, undone>>

Outcomes == {"none", "completed", "failed", "skipped"}
RunStatuses == {"running", "failed", "completed", "compensation_failed"}
Run == [outputs : Seq(Nodes), state : [Nodes -> Outcomes], reused : SUBSET Nodes]
RunFile == [run : Run, status : RunStatuses, version : [Nodes -> Nat]]
NewRun == [outputs |-> << >>, state |-> [n \in Nodes |-> "none"], reused |-> {}]

TypeOK ==
  /\ version \in [Nodes -> Nat]
  /\ runs \in Seq(RunFile) /\ Len(runs) <= MaxRuns
  /\ pc \in {"idle", "node", "execute", "record", "compensate"}
  /\ cur \in Run /\ IsInjective(cur.outputs)
  /\ saved \in BOOLEAN
  /\ at \in 1 .. Len(Order) + 1
  /\ retried \in Nat /\ (pc \in {"execute", "record"} => retried <= Retries[Order[at]])
  /\ result \in {"none", "completed", "failed"}
  /\ todo \in Seq(Nodes)
  /\ ended \in BOOLEAN
  /\ ran \in [Nodes -> {"none", "completed", "failed"}]
  /\ ranAt \in [Nodes -> Nat]
  /\ stale \subseteq Nodes
  /\ undone \subseteq Compensable

Init ==
  /\ version = [n \in Nodes |-> 0]
  /\ runs = << >>
  /\ pc = "idle"
  /\ cur = NewRun
  /\ saved = FALSE
  /\ at = 1
  /\ retried = 0
  /\ result = "none"
  /\ todo = << >>
  /\ ended = TRUE
  /\ ran = [n \in Nodes |-> "none"]
  /\ ranAt = [n \in Nodes |-> 0]
  /\ stale = {}
  /\ undone = {}

-----------------------------------------------------------------------------
(* Planning a run *)

\* Files _latest_run looks at: not those whose compensation failed.
Usable == {i \in DOMAIN runs : runs[i].status \in {"failed", "running", "completed"}}

\* Mutant: outputs are taken over whatever became of the dependencies.
ReusableAnyDeps(file) ==
  SelectSeq(file.run.outputs,
            LAMBDA n : file.run.state[n] = "completed" /\ file.version[n] = version[n])

\* Mutant: the dependencies are looked for among the newest outputs first.
ReusableReversed(file) ==
  FoldLeft(LAMBDA reusable, n :
             IF /\ file.run.state[n] = "completed"
                /\ file.version[n] = version[n]
                /\ Deps[n] \subseteq Range(reusable)
               THEN Append(reusable, n) ELSE reusable,
           << >>, Reverse(file.run.outputs))

\* _resume_outputs goes through the saved outputs in their order and takes a
\* node that completed, was not edited, and depends on taken nodes only.
Reusable(file) ==
  FoldLeft(LAMBDA reusable, n :
             IF /\ file.run.state[n] = "completed"
                /\ file.version[n] = version[n]
                /\ Deps[n] \subseteq Range(reusable)
               THEN Append(reusable, n) ELSE reusable,
           << >>, file.run.outputs)

Edit(n) ==
  /\ pc = "idle"
  /\ FoldFunction(LAMBDA v, sum : v + sum, 0, version) < MaxEdits
  /\ version' = [version EXCEPT ![n] = @ + 1]
  /\ UNCHANGED <<runs, pc, work, ended, world>>

\* run(): the first run starts from nothing, a resumed one from Reusable.
Start ==
  /\ pc = "idle"
  /\ Len(runs) < MaxRuns
  /\ LET taken == IF Usable = {} THEN << >> ELSE Reusable(runs[Max(Usable)])
     IN  cur' = [outputs |-> taken, reused |-> Range(taken),
                 state |-> [n \in Nodes |->
                              IF n \in Range(taken) THEN "completed" ELSE "none"]]
  /\ pc' = "node"
  /\ at' = 1
  /\ saved' = FALSE
  /\ ended' = FALSE
  /\ UNCHANGED <<version, runs, retried, result, todo, world>>

\* _persist: the run's file is replaced as a whole.
Persist(run, status) ==
  LET file == [run |-> run, status |-> status, version |-> version]
  IN  /\ runs' = IF saved THEN [runs EXCEPT ![Len(runs)] = file]
                  ELSE Append(runs, file)
      /\ saved' = TRUE

-----------------------------------------------------------------------------
(* Running the nodes *)

Current == Order[at]

\* _condition_allows: a node that has no outcome yet is not ok.
Allows(when) ==
  when # Unconditional
    => when.ok = (cur.state[when.node] \in {"completed", "skipped"})

\* A reused node only saves the run.
ReuseNode ==
  /\ pc = "node"
  /\ at <= Len(Order)
  /\ Current \in cur.reused
  /\ Persist(cur, "running")
  /\ at' = at + 1
  /\ UNCHANGED <<version, pc, cur, retried, result, todo, ended, world>>

\* A skipped node has an empty output, and nothing is saved.
SkipNode ==
  /\ pc = "node"
  /\ at <= Len(Order)
  /\ Current \notin cur.reused
  /\ ~Allows(When[Current])
  /\ cur' = [cur EXCEPT !.outputs = Append(@, Current),
                        !.state[Current] = "skipped"]
  /\ at' = at + 1
  /\ UNCHANGED <<version, runs, pc, saved, retried, result, todo, ended, world>>

StartNode ==
  /\ pc = "node"
  /\ at <= Len(Order)
  /\ Current \notin cur.reused
  /\ Allows(When[Current])
  /\ pc' = "execute"
  /\ retried' = 0
  /\ UNCHANGED <<version, runs, cur, saved, at, result, todo, ended, world>>

\* One attempt of the node.
Attempt ==
  /\ pc = "execute"
  /\ pc' = "record"
  /\ result' \in {"completed", "failed"}
  /\ ran' = [ran EXCEPT ![Current] = result']
  /\ ranAt' = [ranAt EXCEPT ![Current] = version[Current]]
  /\ stale' = (stale \ {Current}) \cup {n \in Nodes : Current \in Deps[n]}
  /\ undone' = undone \ {Current}
  /\ UNCHANGED <<version, runs, cur, saved, at, retried, todo, ended>>

\* Mutant: the loop runs until the node succeeds.
AttemptAgain == result = "failed"

\* Mutant: one retry too many.
OneMore == result = "failed" /\ retried <= Retries[Current]

\* The loop over attempts goes on after a failure while retries are left.
RetriesLeft == result = "failed" /\ retried < Retries[Current]

\* The next attempt. The count is bounded just above what the loop allows.
Retry ==
  /\ pc = "record"
  /\ RetriesLeft
  /\ pc' = "execute"
  /\ retried' = Min({retried + 1, Retries[Current] + 1})
  /\ UNCHANGED <<version, runs, cur, saved, at, result, todo, ended, world>>

\* Mutant: compensation runs in the order of completion.
CompletedForward(run) ==
  FoldLeft(LAMBDA done, n : IF run.state[n] = "completed" THEN Append(done, n) ELSE done,
           << >>, run.outputs)

\* The completed nodes, reused ones too, last first.
CompletedReverse(run) ==
  FoldLeft(LAMBDA done, n : IF run.state[n] = "completed" THEN <<n>> \o done ELSE done,
           << >>, run.outputs)

\* The outcome is saved; a failure that may not be passed over ends the run
\* with compensation.
RecordNode ==
  /\ pc = "record"
  /\ ~RetriesLeft
  /\ LET run == [cur EXCEPT !.outputs = Append(@, Current),
                            !.state[Current] = result]
     IN  /\ cur' = run
         /\ Persist(run, IF result = "completed" THEN "running" ELSE "failed")
         /\ IF result = "failed" /\ Current \notin Continue
              THEN pc' = "compensate" /\ todo' = CompletedReverse(run) /\ UNCHANGED at
              ELSE pc' = "node" /\ at' = at + 1 /\ UNCHANGED todo
  /\ result' = "completed"
  /\ UNCHANGED <<version, retried, ended, world>>

\* Mutant: the last compensation decides.
LastVerdict(ok) == ok

\* ok = ok and result.ok, kept in result.
Verdict(ok) == ok /\ result = "completed"

\* One compensation; nodes without one are passed over.
CompensateNode ==
  /\ pc = "compensate"
  /\ todo # << >>
  /\ IF Head(todo) \in Compensable
       THEN \E ok \in BOOLEAN :
              /\ undone' = IF ok THEN undone \cup {Head(todo)} ELSE undone
              /\ result' = IF Verdict(ok) THEN "completed" ELSE "failed"
       ELSE UNCHANGED <<undone, result>>
  /\ todo' = Tail(todo)
  /\ UNCHANGED <<version, runs, pc, cur, saved, at, retried, ended, ran, ranAt, stale>>

Leave ==
  /\ pc' = "idle"
  /\ cur' = NewRun
  /\ at' = 1
  /\ retried' = 0
  /\ result' = "none"
  /\ todo' = << >>

\* The run ends: after the last node it is completed, whatever was passed over.
Complete ==
  /\ pc = "node"
  /\ at > Len(Order)
  /\ Persist(cur, "completed")
  /\ Leave
  /\ ended' = TRUE
  /\ UNCHANGED <<version, world>>

Fail ==
  /\ pc = "compensate"
  /\ todo = << >>
  /\ Persist(cur, IF result = "completed" THEN "failed" ELSE "compensation_failed")
  /\ Leave
  /\ ended' = TRUE
  /\ UNCHANGED <<version, world>>

Crash ==
  /\ pc # "idle"
  /\ Leave
  /\ saved' = FALSE
  /\ UNCHANGED <<version, runs, ended, world>>

-----------------------------------------------------------------------------
Step == \/ ReuseNode \/ SkipNode \/ StartNode \/ Attempt \/ Retry \/ RecordNode
        \/ CompensateNode \/ Complete \/ Fail

Next == (\E n \in Nodes : Edit(n)) \/ Start \/ Step \/ Crash

Spec == Init /\ [][Next]_vars

\* Nodes have timeouts and run() loops over them: a live process goes on.
FairSpec == Spec /\ WF_vars(Step)

-----------------------------------------------------------------------------
(* Properties *)

\* Whatever a run takes over is current: the node's last execution succeeded,
\* in the version the workflow has now, and none of its dependencies was
\* executed since. This holds over crashes, edits, skipped and failed nodes,
\* and when the newest file is passed over for an older one.
ReusedIsCurrent ==
  \A n \in cur.reused : ran[n] = "completed" /\ ranAt[n] = version[n] /\ n \notin stale

\* And nothing is executed again needlessly: when a run starts, a completed
\* unedited node of the file it continues is taken over if all it depends on
\* is, so the order of the saved outputs never hides one.
ReuseIsMaximal ==
  pc = "node" /\ ~saved /\ Usable # {} =>
    LET file == runs[Max(Usable)]
    IN  \A n \in Nodes :
          /\ file.run.state[n] = "completed" /\ file.version[n] = version[n]
          /\ Deps[n] \subseteq cur.reused
          => n \in cur.reused

\* No node is compensated before one that depends on it.
CompensatesDependentsFirst ==
  \A i, j \in DOMAIN todo : i < j => todo[i] \notin Deps[todo[j]]

\* A run that ended as failed has undone every completed node that can be
\* undone; if one was not, the run says compensation_failed.
FailedIsCompensated ==
  ended /\ runs # << >> /\ Last(runs).status = "failed" =>
    \A n \in Compensable :
      Last(runs).run.state[n] = "completed" => n \in undone

\* A run that ended as completed has the effect of every completed node.
CompletedIsInEffect ==
  ended /\ runs # << >> /\ Last(runs).status = "completed" =>
    \A n \in Compensable :
      Last(runs).run.state[n] = "completed" => n \notin undone

\* A started run comes to an end.
RunEnds == pc # "idle" ~> pc = "idle"
=============================================================================
