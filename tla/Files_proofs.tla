----------------------------- MODULE Files_proofs -----------------------------
(***************************************************************************)
(* Proofs about state files that several processes use: the saved plan of  *)
(* a loop (LoopDraft) and the JSON and JSON lines files of storage.py      *)
(* (Stores). The machines share no state; each part below has its own      *)
(* inductive invariant.                                                    *)
(***************************************************************************)
EXTENDS LoopDraft, Stores, DataLemmas, SequenceTheorems

-----------------------------------------------------------------------------
(***************************************************************************)
(* Proofs about LoopDraft, for any processes, plans, limits and commands.  *)
(* While one process at a time uses the saved plan, only a confirmed       *)
(* specification runs: RunsWhatWasConfirmed is not inductive, and LdInv    *)
(* adds that the file holds a whole draft, that a draft in the file that   *)
(* is ready to run is the confirmed one, and that whatever a process is    *)
(* about to execute or to save as ready is that one, too. And a plan that  *)
(* builds passes the dry run: PlansValidate is not inductive, and PvInv    *)
(* adds that every plan in the file, or about to be saved, is one the      *)
(* planner made (PlanOK), of which the phases depend on phases before them *)
(* (Ordered), so that no circle can close.                                 *)
(***************************************************************************)

IsDraft(draft) == draft = Draft(draft.plan, draft.questions, draft.status)

\* The specifications process p will execute or save as confirmed.
Executes(p) == \/ ldProcess[p].pc \in {"marking", "running"}
               \/ ldProcess[p].then = "running" \/ ldProcess[p].run # NoSpec
Saves(p) == ldProcess[p].pc \in {"saving", "writing"}
Held(p) ==
  (IF Executes(p) THEN {ldProcess[p].run} ELSE {})
  \cup (IF Saves(p) /\ ldProcess[p].draft.status = "ready_to_run"
          THEN {ldProcess[p].draft.spec} ELSE {})

LdShapes ==
  /\ ldProcess = [p \in LdProcesses |-> ldProcess[p]]
  /\ \A p \in LdProcesses :
       LET x == ldProcess[p] IN
       /\ x.then \in {"idle", "running"}
       /\ x.pc = "idle" => x.then = "idle" /\ x.run = NoSpec
       /\ Saves(p) => IsDraft(x.draft)
  /\ LdLoaded => IsDraft(ldFile)

\* While no two processes use the file at once: what is about to be executed or
\* saved as confirmed was confirmed, and is what the file says if it can be
\* read; when it cannot, nobody else has anything.
LdAlone ==
  /\ LdLoaded /\ ldFile.status = "ready_to_run" => ldFile.spec = ldConfirmed
  /\ \A p \in LdProcesses :
       /\ \A spec \in Held(p) : spec = ldConfirmed /\ (LdLoaded => spec = ldFile.spec)
       /\ Saves(p) /\ Executes(p) => ldProcess[p].draft.spec = ldProcess[p].run
       /\ ldProcess[p].pc = "writing" =>
            /\ ldFile = LdTorn
            /\ \A q \in LdProcesses \ {p} : Held(q) = {} /\ ldProcess[q].pc # "writing"

LdInv == LdShapes /\ (~ldOverlap => LdAlone)

LEMMA DraftFields ==
  ASSUME NEW plan, NEW questions, NEW status
  PROVE  LET draft == Draft(plan, questions, status) IN
         /\ IsDraft(draft) /\ draft.plan = plan /\ draft.status = status
         /\ draft.spec = Synthesized(plan)
BY DEF Draft, IsDraft

LEMMA DraftMarked ==
  ASSUME NEW draft, IsDraft(draft), NEW status
  PROVE  LET marked == [draft EXCEPT !.status = status] IN
         /\ IsDraft(marked) /\ marked.status = status /\ marked.spec = draft.spec
         /\ marked.plan = draft.plan
<1> DEFINE marked == [draft EXCEPT !.status = status]
<1>1. draft = [plan |-> draft.plan, questions |-> draft.questions, status |-> draft.status,
               spec |-> Synthesized(draft.plan)]
  BY DEF IsDraft, Draft
<1>2. marked = [plan |-> draft.plan, questions |-> draft.questions, status |-> status,
                spec |-> Synthesized(draft.plan)]
  BY <1>1
<1>3. draft.spec = Synthesized(draft.plan)
  BY <1>1
<1>4. marked = Draft(draft.plan, draft.questions, status)
  BY <1>2 DEF Draft
<1> HIDE DEF marked
<1>5. QED
  BY <1>3, <1>4, DraftFields DEF IsDraft, marked

\* One process moves.
LEMMA ProcessSet ==
  ASSUME LdShapes, NEW p \in LdProcesses, NEW x, ldProcess' = [ldProcess EXCEPT ![p] = x]
  PROVE  /\ ldProcess' = [q \in LdProcesses |-> ldProcess'[q]] /\ ldProcess'[p] = x
         /\ \A q \in LdProcesses \ {p} :
              /\ ldProcess'[q] = ldProcess[q] /\ Held(q)' = Held(q)
              /\ Saves(q)' = Saves(q) /\ Executes(q)' = Executes(q)
<1>1. ldProcess = [q \in LdProcesses |-> ldProcess[q]]
  BY DEF LdShapes
<1>2. /\ ldProcess' = [q \in LdProcesses |-> ldProcess'[q]] /\ ldProcess'[p] = x
      /\ \A q \in LdProcesses \ {p} : ldProcess'[q] = ldProcess[q]
  BY <1>1
<1>3. \A q \in LdProcesses \ {p} : Saves(q)' = Saves(q) /\ Executes(q)' = Executes(q)
  BY <1>2 DEF Saves, Executes
<1>4. \A q \in LdProcesses \ {p} : Held(q)' = Held(q)
  BY <1>2, <1>3 DEF Held
<1>5. QED
  BY <1>2, <1>3, <1>4

\* A process that has nothing to do any more.
LEMMA Idles ==
  LdIdle.pc = "idle" /\ LdIdle.then = "idle" /\ LdIdle.run = NoSpec
BY DEF LdIdle, LdDoes

LEMMA LdInitInvariant == LdInit => LdInv
<1> SUFFICES ASSUME LdInit PROVE LdInv
  OBVIOUS
<1>1. \A p \in LdProcesses : ldProcess[p] = LdIdle
  BY DEF LdInit
<1>2. ~LdLoaded
  BY DEF LdInit, LdLoaded
<1>3. \A p \in LdProcesses : ~Saves(p) /\ ~Executes(p) /\ Held(p) = {}
  BY <1>1, Idles DEF Saves, Executes, Held
<1>4. LdShapes
  <2>1. ldProcess = [p \in LdProcesses |-> ldProcess[p]]
    BY DEF LdInit
  <2>2. QED
    BY <1>1, <1>2, <1>3, <2>1, Idles DEF LdShapes
<1>5. LdAlone
  BY <1>1, <1>2, <1>3, Idles DEF LdAlone
<1>6. QED
  BY <1>4, <1>5 DEF LdInv

\* A process goes on to save a draft. If it saves it as confirmed, or executes,
\* the draft has the specification of the file.
LEMMA SavesKeeps ==
  ASSUME LdInv, NEW p \in LdProcesses, NEW draft, NEW then, LdSaves(p, draft, then),
         UNCHANGED <<ldFile, ldOverlap>>,
         IsDraft(draft), then \in {"idle", "running"},
         ldProcess[p].pc \in {"idle", "marking", "running"},
         then = "running" => ldProcess[p].pc # "idle",
         ldProcess[p].pc # "idle" => LdLoaded /\ draft.spec = ldFile.spec,
         draft.status = "ready_to_run" => LdLoaded /\ draft.spec = ldFile.spec,
         ~ldOverlap /\ draft.status = "ready_to_run" => ldConfirmed' = ldFile.spec,
         ldConfirmed' = ldConfirmed \/ (LdLoaded /\ ldConfirmed' = ldFile.spec)
  PROVE  LdInv'
<1> DEFINE old == ldProcess[p]
           new == LdDoes("saving", draft, then, old.run)
<1>1. LdShapes
  BY DEF LdInv
<1>2. ldProcess' = [ldProcess EXCEPT ![p] = new]
  BY DEF LdSaves
<1>3. /\ new.pc = "saving" /\ new.draft = draft /\ new.then = then /\ new.run = old.run
  BY DEF LdDoes
<1> HIDE DEF new
<1>4. /\ ldProcess' = [q \in LdProcesses |-> ldProcess'[q]] /\ ldProcess'[p] = new
      /\ \A q \in LdProcesses \ {p} :
           /\ ldProcess'[q] = ldProcess[q] /\ Held(q)' = Held(q)
           /\ Saves(q)' = Saves(q) /\ Executes(q)' = Executes(q)
  BY <1>1, <1>2, ProcessSet
<1>5. LdLoaded' = LdLoaded
  BY DEF LdLoaded
<1>6. LdShapes'
  <2>1. ASSUME NEW q \in LdProcesses
        PROVE  LET x == ldProcess'[q] IN
               /\ x.then \in {"idle", "running"}
               /\ x.pc = "idle" => x.then = "idle" /\ x.run = NoSpec
               /\ Saves(q)' => IsDraft(x.draft)
    <3>1. CASE q = p
      BY <1>3, <1>4, <3>1
    <3>2. CASE q # p
      BY <1>1, <1>4, <3>2 DEF LdShapes
    <3>3. QED
      BY <3>1, <3>2
  <2>2. LdLoaded' => IsDraft(ldFile')
    BY <1>1, <1>5 DEF LdShapes
  <2>3. QED
    BY <1>4, <2>1, <2>2 DEF LdShapes, IsDraft
<1>7. ASSUME ~ldOverlap' PROVE LdAlone'
  <2>1. LdAlone
    BY <1>7 DEF LdInv
  <2>2. Executes(p)' => Executes(p) /\ ldProcess[p].pc # "idle"
    BY <1>1, <1>3, <1>4 DEF Executes, LdShapes
  <2>3. Executes(p)' => old.run = ldConfirmed' /\ LdLoaded /\ old.run = ldFile.spec
    <3>1. Executes(p) => old.run \in Held(p)
      BY DEF Held
    <3>2. QED
      BY <2>1, <2>2, <3>1 DEF LdAlone
  <2>4. ASSUME NEW s \in Held(p)' PROVE s = ldConfirmed' /\ LdLoaded /\ s = ldFile.spec
    <3>1. \/ Executes(p)' /\ s = old.run
          \/ draft.status = "ready_to_run" /\ s = draft.spec
      BY <1>3, <1>4 DEF Held
    <3>2. QED
      BY <1>7, <2>3, <3>1
  <2>5. LdLoaded' /\ ldFile'.status = "ready_to_run" => ldFile'.spec = ldConfirmed'
    BY <1>5, <2>1 DEF LdAlone
  <2>6. ASSUME NEW q \in LdProcesses
        PROVE  \A s \in Held(q)' : s = ldConfirmed' /\ (LdLoaded' => s = ldFile'.spec)
    <3>1. CASE q = p
      BY <2>4, <3>1
    <3>2. CASE q # p
      BY <1>4, <1>5, <2>1, <3>2 DEF LdAlone
    <3>3. QED
      BY <3>1, <3>2
  <2>7. ASSUME NEW q \in LdProcesses, Saves(q)', Executes(q)'
        PROVE  ldProcess'[q].draft.spec = ldProcess'[q].run
    <3>1. CASE q = p
      BY <1>3, <1>4, <2>2, <2>3, <2>7, <3>1
    <3>2. CASE q # p
      BY <1>4, <2>1, <2>7, <3>2 DEF LdAlone
    <3>3. QED
      BY <3>1, <3>2
  <2>8. ASSUME NEW q \in LdProcesses, ldProcess'[q].pc = "writing"
        PROVE  /\ ldFile' = LdTorn
               /\ \A r \in LdProcesses \ {q} : Held(r)' = {} /\ ldProcess'[r].pc # "writing"
    <3>1. q # p /\ ldProcess[q].pc = "writing"
      BY <1>3, <1>4, <2>8
    <3>2. /\ ldFile = LdTorn
          /\ \A r \in LdProcesses \ {q} : Held(r) = {} /\ ldProcess[r].pc # "writing"
      BY <2>1, <3>1 DEF LdAlone
    <3>3. ~LdLoaded
      BY <3>2 DEF LdLoaded
    <3>4. Held(p)' = {} /\ ldProcess'[p].pc # "writing"
      BY <1>3, <1>4, <2>4, <3>3
    <3>5. QED
      BY <1>4, <3>2, <3>4
  <2>9. QED
    BY <2>5, <2>6, <2>7, <2>8 DEF LdAlone
<1>8. QED
  BY <1>6, <1>7 DEF LdInv

\* A process ends what it does without a write.
LEMMA IdlesKeeps ==
  ASSUME LdInv, NEW p \in LdProcesses, ldProcess' = [ldProcess EXCEPT ![p] = LdIdle],
         UNCHANGED <<ldFile, ldConfirmed, ldOverlap>>
  PROVE  LdInv'
<1>1. LdShapes /\ LdLoaded' = LdLoaded
  BY DEF LdInv, LdLoaded
<1>2. /\ ldProcess' = [q \in LdProcesses |-> ldProcess'[q]] /\ ldProcess'[p] = LdIdle
      /\ \A q \in LdProcesses \ {p} :
           /\ ldProcess'[q] = ldProcess[q] /\ Held(q)' = Held(q)
           /\ Saves(q)' = Saves(q) /\ Executes(q)' = Executes(q)
  BY <1>1, ProcessSet
<1>3. ~Saves(p)' /\ ~Executes(p)'
  BY <1>2, Idles DEF Saves, Executes
<1>4. Held(p)' = {}
  BY <1>3 DEF Held
<1>5. LdShapes'
  <2>1. ASSUME NEW q \in LdProcesses
        PROVE  LET x == ldProcess'[q] IN
               /\ x.then \in {"idle", "running"}
               /\ x.pc = "idle" => x.then = "idle" /\ x.run = NoSpec
               /\ Saves(q)' => IsDraft(x.draft)
    BY <1>1, <1>2, <1>3, Idles DEF LdShapes
  <2>2. QED
    BY <1>1, <1>2, <2>1 DEF LdShapes, IsDraft
<1>6. ASSUME ~ldOverlap' PROVE LdAlone'
  <2>1. LdAlone
    BY <1>6 DEF LdInv
  <2>2. QED
    BY <1>1, <1>2, <1>3, <1>4, <2>1, Idles DEF LdAlone
<1>7. QED
  BY <1>5, <1>6 DEF LdInv

LEMMA LdStutterKeeps == LdInv /\ UNCHANGED <<ldFile, ldProcess, ldConfirmed, ldOverlap>> => LdInv'
BY DEF LdInv, LdShapes, LdAlone, LdLoaded, Held, Saves, Executes, IsDraft

\* What the file says, once more: a copy of its draft with another status.
LEMMA FileMarked ==
  ASSUME LdInv, LdLoaded, NEW status
  PROVE  LET marked == [ldFile EXCEPT !.status = status] IN
         /\ IsDraft(marked) /\ marked.status = status /\ marked.spec = ldFile.spec
         /\ marked.plan = ldFile.plan
BY DraftMarked DEF LdInv, LdShapes

\* A draft made anew awaits confirmation: it is saved, or does not build.
LEMMA AwaitsKeeps ==
  ASSUME LdInv, NEW p \in LdProcesses, LdUser(p), NEW plan, NEW questions,
         LdMakes(p, Draft(plan, questions, "awaiting_confirmation")),
         UNCHANGED <<ldFile, ldConfirmed, ldOverlap>>
  PROVE  LdInv'
<1> DEFINE draft == Draft(plan, questions, "awaiting_confirmation")
<1>1. IsDraft(draft) /\ draft.status = "awaiting_confirmation"
  BY DraftFields
<1>2. ldProcess[p].pc = "idle"
  BY DEF LdUser
<1>3. LdSaves(p, draft, "idle") \/ UNCHANGED ldProcess
  BY DEF LdMakes
<1> HIDE DEF draft
<1>4. QED
  BY <1>1, <1>2, <1>3, SavesKeeps, LdStutterKeeps

LEMMA LdPlanKeeps ==
  ASSUME LdInv, NEW p \in LdProcesses, NEW plan, NEW questions, LdPlan(p, plan, questions)
  PROVE  LdInv'
BY AwaitsKeeps DEF LdPlan

LEMMA LdReviseKeeps ==
  ASSUME LdInv, NEW p \in LdProcesses, NEW asks, NEW tests, LdRevise(p, asks, tests)
  PROVE  LdInv'
BY AwaitsKeeps DEF LdRevise, Revised

LEMMA LdApproveKeeps == ASSUME LdInv, NEW p \in LdProcesses, LdApprove(p) PROVE LdInv'
BY AwaitsKeeps DEF LdApprove

LEMMA LdConfirmKeeps == ASSUME LdInv, NEW p \in LdProcesses, LdConfirm(p) PROVE LdInv'
<1> DEFINE draft == Draft(ldFile.plan, ldFile.questions, Verdict(ldFile))
<1>1. /\ ldProcess[p].pc = "idle" /\ LdLoaded /\ LdMakes(p, draft)
      /\ ldConfirmed' = IF LoopBuilds(draft.spec) /\ draft.status = "ready_to_run"
                        THEN draft.spec ELSE ldConfirmed
      /\ UNCHANGED <<ldFile, ldOverlap>>
  BY DEF LdConfirm, LdUser
<1>2. IsDraft(draft) /\ draft.spec = Synthesized(ldFile.plan)
  BY DraftFields
<1>3. ldFile.spec = Synthesized(ldFile.plan)
  <2>1. IsDraft(ldFile)
    BY <1>1 DEF LdInv, LdShapes
  <2>2. QED
    BY <2>1, DraftFields DEF IsDraft
<1> HIDE DEF draft
<1>4. CASE LoopBuilds(draft.spec)
  <2>1. LdSaves(p, draft, "idle")
    BY <1>1, <1>4 DEF LdMakes
  <2>2. ldConfirmed' = IF draft.status = "ready_to_run" THEN draft.spec ELSE ldConfirmed
    BY <1>1, <1>4
  <2>3. QED
    BY <1>1, <1>2, <1>3, <2>1, <2>2, SavesKeeps
<1>5. CASE ~LoopBuilds(draft.spec)
  BY <1>1, <1>5, LdStutterKeeps DEF LdMakes
<1>6. QED
  BY <1>4, <1>5

LEMMA LdSaveLoopKeeps == ASSUME LdInv, NEW p \in LdProcesses, LdSaveLoop(p) PROVE LdInv'
<1>1. /\ ldProcess[p].pc = "idle" /\ LdLoaded /\ LdSaves(p, ldFile, "idle")
      /\ UNCHANGED <<ldFile, ldConfirmed, ldOverlap>>
  BY DEF LdSaveLoop, LdUser
<1>2. IsDraft(ldFile)
  BY <1>1 DEF LdInv, LdShapes
<1>3. ~ldOverlap /\ ldFile.status = "ready_to_run" => ldConfirmed' = ldFile.spec
  BY <1>1 DEF LdInv, LdAlone
<1>4. QED
  BY <1>1, <1>2, <1>3, SavesKeeps

\* The draft of the file is marked by the process that executes it.
LEMMA LdMarkKeeps ==
  ASSUME LdInv, NEW p \in LdProcesses, NEW from \in {"marking", "running"}, NEW status,
         NEW then \in {"idle", "running"}, LdMark(p, from, status, then)
  PROVE  LdInv'
<1> DEFINE draft == [ldFile EXCEPT !.status = status]
<1>1. ldProcess[p].pc = from /\ UNCHANGED <<ldFile, ldConfirmed, ldOverlap>>
  BY DEF LdMark
<1>2. CASE ~LdLoaded
  BY <1>1, <1>2, IdlesKeeps DEF LdMark
<1>3. CASE LdLoaded
  <2>1. LdSaves(p, draft, then)
    BY <1>3 DEF LdMark
  <2>2. IsDraft(draft) /\ draft.spec = ldFile.spec
    BY <1>3, FileMarked
  <2>3. ~ldOverlap => ldConfirmed' = ldFile.spec /\ draft.spec = ldProcess[p].run
    <3>1. ldProcess[p].run \in Held(p)
      BY <1>1 DEF Held, Executes
    <3>2. QED
      BY <1>1, <1>3, <2>2, <3>1 DEF LdInv, LdAlone
  <2> HIDE DEF draft
  <2>4. QED
    BY <1>1, <1>3, <2>1, <2>2, <2>3, SavesKeeps
<1>4. QED
  BY <1>2, <1>3

LEMMA LdCrashKeeps == ASSUME LdInv, NEW p \in LdProcesses, LdCrash(p) PROVE LdInv'
BY IdlesKeeps DEF LdCrash

LEMMA LdExecuteKeeps == ASSUME LdInv, NEW p \in LdProcesses, LdExecute(p) PROVE LdInv'
<1> DEFINE new == LdDoes("marking", LdNone, "idle", ldFile.spec)
<1>1. /\ ldProcess[p].pc = "idle" /\ LdLoaded /\ ldFile.status = "ready_to_run"
      /\ ldProcess' = [ldProcess EXCEPT ![p] = new]
      /\ UNCHANGED <<ldFile, ldConfirmed, ldOverlap>>
  BY DEF LdExecute, LdUser
<1>2. new.pc = "marking" /\ new.then = "idle" /\ new.run = ldFile.spec
  BY DEF LdDoes
<1> HIDE DEF new
<1>3. LdShapes /\ LdLoaded' = LdLoaded
  BY <1>1 DEF LdInv, LdLoaded
<1>4. /\ ldProcess' = [q \in LdProcesses |-> ldProcess'[q]] /\ ldProcess'[p] = new
      /\ \A q \in LdProcesses \ {p} :
           /\ ldProcess'[q] = ldProcess[q] /\ Held(q)' = Held(q)
           /\ Saves(q)' = Saves(q) /\ Executes(q)' = Executes(q)
  BY <1>1, <1>3, ProcessSet
<1>5. ~Saves(p)' /\ Held(p)' \subseteq {ldFile.spec}
  BY <1>2, <1>4 DEF Saves, Held
<1>6. LdShapes'
  <2>1. ASSUME NEW q \in LdProcesses
        PROVE  LET x == ldProcess'[q] IN
               /\ x.then \in {"idle", "running"}
               /\ x.pc = "idle" => x.then = "idle" /\ x.run = NoSpec
               /\ Saves(q)' => IsDraft(x.draft)
    BY <1>2, <1>3, <1>4, <1>5 DEF LdShapes
  <2>2. QED
    BY <1>1, <1>3, <1>4, <2>1 DEF LdShapes, IsDraft
<1>7. ASSUME ~ldOverlap' PROVE LdAlone'
  <2>1. LdAlone /\ ldFile.spec = ldConfirmed
    BY <1>1, <1>7 DEF LdInv, LdAlone
  <2>2. \A q \in LdProcesses : ldProcess[q].pc # "writing"
    BY <1>1, <2>1 DEF LdAlone, LdLoaded
  <2>3. QED
    BY <1>1, <1>2, <1>3, <1>4, <1>5, <2>1, <2>2 DEF LdAlone
<1>8. QED
  BY <1>6, <1>7 DEF LdInv

-----------------------------------------------------------------------------
(* Writes *)

\* Others have nothing when the file is written and no overlap is noted.
LEMMA OthersIdle ==
  ASSUME LdShapes, NEW p \in LdProcesses, LdWrites(p), ~ldOverlap',
         NEW q \in LdProcesses \ {p}
  PROVE  ldProcess[q].pc = "idle" /\ ~Saves(q) /\ ~Executes(q) /\ Held(q) = {} /\ ~ldOverlap
<1>1. ldProcess[q].pc = "idle" /\ ~ldOverlap
  BY DEF LdWrites
<1>2. ~Saves(q) /\ ~Executes(q)
  BY <1>1 DEF LdShapes, Saves, Executes
<1>3. QED
  BY <1>1, <1>2 DEF Held

LEMMA LdCancelKeeps == ASSUME LdInv, NEW p \in LdProcesses, LdCancel(p) PROVE LdInv'
<1>1. /\ ldProcess[p].pc = "idle" /\ ldFile' = LdNone /\ LdWrites(p)
      /\ UNCHANGED <<ldProcess, ldConfirmed>>
  BY DEF LdCancel, LdUser
<1>2. LdShapes /\ ~LdLoaded'
  BY <1>1 DEF LdInv, LdLoaded
<1>3. LdShapes'
  BY <1>1, <1>2 DEF LdShapes, Saves, IsDraft
<1>4. ASSUME ~ldOverlap' PROVE LdAlone'
  <2>1. ~Saves(p) /\ ~Executes(p) /\ Held(p) = {}
    BY <1>1, <1>2 DEF LdShapes, Saves, Executes, Held
  <2>2. \A q \in LdProcesses :
          ldProcess[q].pc = "idle" /\ ~Saves(q) /\ ~Executes(q) /\ Held(q) = {}
    BY <1>1, <1>2, <1>4, <2>1, OthersIdle
  <2>3. \A q \in LdProcesses :
          ldProcess'[q].pc = "idle" /\ ~Saves(q)' /\ ~Executes(q)' /\ Held(q)' = {}
    BY <1>1, <2>2 DEF Saves, Executes, Held
  <2>4. QED
    BY <1>2, <2>3 DEF LdAlone
<1>5. QED
  BY <1>3, <1>4 DEF LdInv

LEMMA LdTruncateKeeps == ASSUME LdInv, NEW p \in LdProcesses, LdTruncate(p) PROVE LdInv'
<1> DEFINE old == ldProcess[p]
           new == LdDoes("writing", old.draft, old.then, old.run)
<1>1. /\ old.pc = "saving" /\ ldFile' = LdTorn /\ LdWrites(p) /\ ldConfirmed' = ldConfirmed
      /\ ldProcess' = [ldProcess EXCEPT ![p] = new]
  BY DEF LdTruncate
<1>2. new.pc = "writing" /\ new.draft = old.draft /\ new.then = old.then /\ new.run = old.run
  BY DEF LdDoes
<1> HIDE DEF new
<1>3. LdShapes /\ ~LdLoaded'
  BY <1>1 DEF LdInv, LdLoaded
<1>4. /\ ldProcess' = [q \in LdProcesses |-> ldProcess'[q]] /\ ldProcess'[p] = new
      /\ \A q \in LdProcesses \ {p} :
           /\ ldProcess'[q] = ldProcess[q] /\ Held(q)' = Held(q)
           /\ Saves(q)' = Saves(q) /\ Executes(q)' = Executes(q)
  BY <1>1, <1>3, ProcessSet
<1>5. /\ Saves(p) /\ Saves(p)' /\ Executes(p)' = Executes(p)
  BY <1>1, <1>2, <1>4 DEF Saves, Executes
<1>6. Held(p)' = Held(p)
  BY <1>2, <1>4, <1>5 DEF Held
<1>7. LdShapes'
  <2>1. ASSUME NEW q \in LdProcesses
        PROVE  LET x == ldProcess'[q] IN
               /\ x.then \in {"idle", "running"}
               /\ x.pc = "idle" => x.then = "idle" /\ x.run = NoSpec
               /\ Saves(q)' => IsDraft(x.draft)
    BY <1>2, <1>3, <1>4, <1>5 DEF LdShapes
  <2>2. QED
    BY <1>3, <1>4, <2>1 DEF LdShapes, IsDraft
<1>8. ASSUME ~ldOverlap' PROVE LdAlone'
  <2>1. \A q \in LdProcesses \ {p} :
          ldProcess[q].pc = "idle" /\ ~Saves(q) /\ ~Executes(q) /\ Held(q) = {}
    BY <1>1, <1>3, <1>8, OthersIdle
  <2>2. ~ldOverlap
    BY <1>1, <1>8 DEF LdWrites
  <2>3. LdAlone
    BY <2>2 DEF LdInv
  <2>4. QED
    BY <1>1, <1>2, <1>3, <1>4, <1>5, <1>6, <2>1, <2>3 DEF LdAlone
<1>9. QED
  BY <1>7, <1>8 DEF LdInv

LEMMA LdWriteKeeps == ASSUME LdInv, NEW p \in LdProcesses, LdWrite(p) PROVE LdInv'
<1> DEFINE old == ldProcess[p]
           new == IF old.then = "idle" THEN LdIdle ELSE LdDoes("running", LdNone, old.then, old.run)
<1>1. /\ old.pc = "writing" /\ ldFile' = old.draft /\ UNCHANGED <<ldConfirmed, ldOverlap>>
      /\ ldProcess' = [ldProcess EXCEPT ![p] = new]
  BY DEF LdWrite
<1>2. \/ new.pc = "idle" /\ new.then = "idle" /\ new.run = NoSpec
      \/ new.pc = "running" /\ new.then = old.then /\ new.run = old.run /\ old.then # "idle"
  BY Idles DEF LdDoes
<1> HIDE DEF new
<1>3. LdShapes
  BY DEF LdInv
<1>4. /\ ldProcess' = [q \in LdProcesses |-> ldProcess'[q]] /\ ldProcess'[p] = new
      /\ \A q \in LdProcesses \ {p} :
           /\ ldProcess'[q] = ldProcess[q] /\ Held(q)' = Held(q)
           /\ Saves(q)' = Saves(q) /\ Executes(q)' = Executes(q)
  BY <1>1, <1>3, ProcessSet
<1>5. Saves(p) /\ IsDraft(old.draft) /\ ~Saves(p)'
  BY <1>1, <1>2, <1>3, <1>4 DEF Saves, LdShapes
<1>6. LdShapes'
  <2>1. ASSUME NEW q \in LdProcesses
        PROVE  LET x == ldProcess'[q] IN
               /\ x.then \in {"idle", "running"}
               /\ x.pc = "idle" => x.then = "idle" /\ x.run = NoSpec
               /\ Saves(q)' => IsDraft(x.draft)
    BY <1>2, <1>3, <1>4, <1>5 DEF LdShapes
  <2>2. QED
    BY <1>1, <1>4, <1>5, <2>1 DEF LdShapes, IsDraft
<1>7. ASSUME ~ldOverlap' PROVE LdAlone'
  <2>1. LdAlone
    BY <1>1, <1>7 DEF LdInv
  <2>2. \A q \in LdProcesses \ {p} : Held(q)' = {} /\ ldProcess'[q].pc # "writing"
    BY <1>1, <1>4, <2>1 DEF LdAlone
  <2>3. ldFile'.status = "ready_to_run" => ldFile'.spec = ldConfirmed'
    <3>1. old.draft.status = "ready_to_run" => old.draft.spec \in Held(p)
      BY <1>5 DEF Held
    <3>2. QED
      BY <1>1, <2>1, <3>1 DEF LdAlone
  <2>4. ASSUME NEW s \in Held(p)' PROVE s = ldConfirmed' /\ s = ldFile'.spec
    <3>1. CASE new.pc = "idle" /\ new.then = "idle" /\ new.run = NoSpec
      <4>1. ~Executes(p)'
        BY <1>4, <3>1 DEF Executes
      <4>2. QED
        BY <1>5, <4>1 DEF Held
    <3>2. CASE new.pc = "running" /\ new.run = old.run /\ old.then # "idle"
      <4>1. s = old.run
        BY <1>4, <1>5, <3>2 DEF Held
      <4>2. Executes(p)
        BY <1>3, <3>2 DEF Executes, LdShapes
      <4>3. old.run \in Held(p)
        BY <4>2 DEF Held
      <4>4. old.draft.spec = old.run /\ old.run = ldConfirmed
        BY <1>5, <2>1, <4>2, <4>3 DEF LdAlone
      <4>5. QED
        BY <1>1, <4>1, <4>4
    <3>3. QED
      BY <1>2, <3>1, <3>2
  <2>5. ASSUME NEW q \in LdProcesses \ {p}, Saves(q)', Executes(q)'
        PROVE  ldProcess'[q].draft.spec = ldProcess'[q].run
    BY <1>4, <2>1, <2>5 DEF LdAlone
  <2>6. \A q \in LdProcesses : ldProcess'[q].pc # "writing"
    BY <1>4, <1>5, <2>2 DEF Saves
  <2>7. QED
    BY <1>5, <2>2, <2>3, <2>4, <2>5, <2>6 DEF LdAlone
<1>8. QED
  BY <1>6, <1>7 DEF LdInv

LEMMA LdNextKeeps == LdInv /\ [LdNext]_ldVars => LdInv'
<1> SUFFICES ASSUME LdInv, [LdNext]_ldVars PROVE LdInv'
  OBVIOUS
<1>1. CASE LdNext
  <2>1. PICK p \in LdProcesses :
          \/ \E analysis \in Analyses, found \in LdFound :
               \/ LdPlan(p, HeuristicPlan(analysis[1], found), analysis[2])
               \/ \E plan \in LdPlans :
                    LdPlan(p, NormalizedPlan(analysis[1], plan, found), analysis[2])
          \/ \E asks \in BOOLEAN, tests \in BOOLEAN : LdRevise(p, asks, tests)
          \/ LdApprove(p) \/ LdConfirm(p) \/ LdSaveLoop(p) \/ LdCancel(p)
          \/ LdTruncate(p) \/ LdWrite(p)
          \/ LdExecute(p)
          \/ LdMark(p, "marking", "running", "running")
          \/ \E status \in {"completed", "ready_to_run"} : LdMark(p, "running", status, "idle")
          \/ LdCrash(p)
    BY <1>1 DEF LdNext
  <2>2. ASSUME NEW plan, NEW questions, LdPlan(p, plan, questions) PROVE LdInv'
    BY <2>2, LdPlanKeeps
  <2>3. ASSUME NEW asks \in BOOLEAN, NEW tests \in BOOLEAN, LdRevise(p, asks, tests) PROVE LdInv'
    BY <2>3, LdReviseKeeps
  <2>4. ASSUME LdMark(p, "marking", "running", "running") PROVE LdInv'
    BY <2>4, LdMarkKeeps
  <2>5. ASSUME NEW status, LdMark(p, "running", status, "idle") PROVE LdInv'
    BY <2>5, LdMarkKeeps
  <2>6. QED
    BY <2>1, <2>2, <2>3, <2>4, <2>5, LdApproveKeeps, LdConfirmKeeps, LdSaveLoopKeeps,
       LdCancelKeeps, LdTruncateKeeps, LdWriteKeeps, LdExecuteKeeps, LdCrashKeeps
<1>2. CASE UNCHANGED ldVars
  BY <1>2, LdStutterKeeps DEF ldVars
<1>3. QED
  BY <1>1, <1>2

\* Nothing is executed but the specification of the last confirm, with no open
\* question and not revised since, whatever crashes or fails in between, as long
\* as no two processes use the draft file at once (LoopDraftSession, loop_cmd).
THEOREM OnlyConfirmedRuns == LdSpec => []RunsWhatWasConfirmed
<1>1. LdInv => RunsWhatWasConfirmed
  BY DEF LdInv, LdAlone, RunsWhatWasConfirmed, Held, Executes
<1>2. QED
  BY <1>1, LdInitInvariant, LdNextKeeps, PTL DEF LdSpec

-----------------------------------------------------------------------------
(* Plans that validate: what the planner makes of a plan *)

\* Only safe commands are kept (sanitize_command_candidates).
LEMMA SanitizedSafe ==
  ASSUME NEW commands, IsSequence(commands)
  PROVE  Sanitized(commands) \in Seq(SafeCommands)
<1> DEFINE n == Len(commands)
           B == Seq(SafeCommands)
           Op(k, kept) == IF commands[k] \notin SafeCommands \/ commands[k] \in Range(kept)
                             \/ Len(kept) = 8
                          THEN kept ELSE Append(kept, commands[k])
           step == [k \in 1 .. n |-> [kept \in B |-> Op(k, kept)]]
           Table(g) == g = [t \in SUBSET (1 .. n) |->
                              IF t = {} THEN << >> ELSE Op(Max(t), g[t \ {Max(t)}])]
           iter == CHOOSE g : Table(g)
<1>1. n \in Nat /\ DOMAIN commands = 1 .. n
  BY DEF IsSequence
<1>2. Sanitized(commands) = iter[1 .. n]
  BY <1>1 DEF Sanitized, FoldLeft, MapThenFoldSet
<1>3. ASSUME NEW k \in 1 .. n, NEW kept \in B PROVE Op(k, kept) \in B
  OBVIOUS
<1>4. step \in [1 .. n -> [B -> B]] /\ << >> \in B /\ n \in Nat
  BY <1>1, <1>3
<1>5. \E g : Table(g)
  <2>1. PICK g \in [SUBSET (1 .. n) -> B] : \A t \in SUBSET (1 .. n) : Folded(g, t, << >>, step)
    <3> HIDE DEF step, B, n
    <3>1. QED
      BY <1>4, FoldTable
  <2>2. ASSUME NEW t \in SUBSET (1 .. n), t # {} PROVE g[t] = Op(Max(t), g[t \ {Max(t)}])
    <3>1. Max(t) \in 1 .. n /\ t \ {Max(t)} \in SUBSET (1 .. n)
      <4> HIDE DEF n
      <4>1. QED
        BY <1>1, <2>2, MaxOfBounded
    <3>2. g[t \ {Max(t)}] \in B
      BY <2>1, <3>1
    <3>3. g[t] = step[Max(t)][g[t \ {Max(t)}]]
      BY <2>1, <2>2 DEF Folded
    <3> HIDE DEF Op, n, B
    <3>4. QED
      BY <3>1, <3>2, <3>3
  <2>3. ASSUME NEW t \in SUBSET (1 .. n), t = {} PROVE g[t] = << >>
    BY <2>1, <2>3 DEF Folded
  <2> HIDE DEF Op, n
  <2>4. \A t \in SUBSET (1 .. n) : g[t] = IF t = {} THEN << >> ELSE Op(Max(t), g[t \ {Max(t)}])
    BY <2>2, <2>3
  <2>5. g = [t \in SUBSET (1 .. n) |-> g[t]]
    BY <2>1
  <2>6. Table(g)
    BY <2>4, <2>5, Zenon
  <2>7. QED
    BY <2>6
<1>6. Table(iter)
  BY <1>5
<1> HIDE DEF iter
<1>7. iter[{}] = << >>
  BY <1>6
<1>8. ASSUME NEW t \in SUBSET (1 .. n), t # {}, iter[t \ {Max(t)}] \in B
      PROVE  iter[t] = step[Max(t)][iter[t \ {Max(t)}]]
  <2> HIDE DEF Op, n, B
  <2>1. Max(t) \in 1 .. n
    BY <1>1, <1>8, MaxOfBounded
  <2>2. iter[t] = Op(Max(t), iter[t \ {Max(t)}])
    BY <1>6, <1>8
  <2>3. QED
    BY <1>8, <2>1, <2>2
<1>9. PICK h \in [0 .. n -> B] :
        /\ h[0] = << >> /\ h[n] = iter[1 .. n]
        /\ \A k \in 1 .. n : h[k] = step[k][h[k - 1]]
  <2>1. IsFold(iter, n, B, << >>, step)
    BY <1>7, <1>8, Zenon DEF IsFold
  <2> HIDE DEF step, n, B
  <2>2. QED
    BY <1>4, <2>1, FoldUnrolls
<1>10. h[n] \in B
  BY <1>1
<1>11. QED
  BY <1>2, <1>9, <1>10

\* The command to verify with is one of the candidates (choose_primary_command).
LEMMA PrimaryIsOne ==
  ASSUME NEW intent, NEW S, NEW commands \in Seq(S), commands # << >>
  PROVE  Primary(intent, commands) \in Range(commands)
<1> DEFINE preferred == CASE intent = "web_feature" -> <<"build", "test", "lint">>
                          [] intent = "release"     -> <<"venv", "build">>
                          [] intent \in {"bugfix", "code_feature"} -> <<"venv", "pytest", "test">>
                          [] OTHER -> commands
           known == {i \in DOMAIN preferred : preferred[i] \in Range(commands)}
<1>1. Primary(intent, commands) = IF known = {} THEN Head(commands) ELSE preferred[Min(known)]
  BY Zenon DEF Primary
<1>2. Head(commands) \in Range(commands)
  BY DEF Range
<1>3. ASSUME known # {} PROVE Min(known) \in known
  <2>1. \E n \in Nat : DOMAIN preferred = 1 .. n
    <3>1. DOMAIN <<"build", "test", "lint">> = 1 .. 3 /\ DOMAIN <<"venv", "build">> = 1 .. 2
          /\ DOMAIN <<"venv", "pytest", "test">> = 1 .. 3
          /\ DOMAIN commands = 1 .. Len(commands) /\ Len(commands) \in Nat /\ 2 \in Nat /\ 3 \in Nat
      OBVIOUS
    <3>2. \/ preferred = <<"build", "test", "lint">> \/ preferred = <<"venv", "build">>
          \/ preferred = <<"venv", "pytest", "test">> \/ preferred = commands
      OBVIOUS
    <3> HIDE DEF preferred
    <3>3. QED
      BY <3>1, <3>2, Zenon
  <2>2. PICK n \in Nat : DOMAIN preferred = 1 .. n
    BY <2>1
  <2> HIDE DEF preferred
  <2>3. known \subseteq 1 .. n
    BY <2>2
  <2> HIDE DEF known
  <2>4. QED
    BY <1>3, <2>3, MinOfBounded
<1> HIDE DEF preferred
<1>4. QED
  BY <1>1, <1>2, <1>3

\* A plan the planner makes, whatever the model plans and the user asks for.
PlanOK(plan) ==
  /\ plan = [intent |-> plan.intent, phases |-> plan.phases, limits |-> plan.limits,
             commands |-> plan.commands, rev |-> plan.rev]
  /\ IsSequence(plan.phases) /\ Len(plan.phases) >= 2
  /\ IsSequence(plan.commands)
  /\ plan.limits \in [total : Nat, retries : Nat, commands : Nat] /\ plan.limits.total >= 3

\* Every phase depends on phases before it.
Ordered(phases) ==
  \A i \in DOMAIN phases : phases[i].deps \subseteq {phases[j].id : j \in 1 .. i - 1}

\* Cutting a plan short leaves a sequence.
LEMMA LimitedPrefix ==
  ASSUME NEW phases, IsSequence(phases), NEW total \in Nat
  PROVE  LET cut == Limited(phases, total) IN
         /\ Len(cut) = ClampTo(0, total, Len(phases)) /\ Len(cut) \in Nat
         /\ DOMAIN cut = 1 .. Len(cut) /\ IsSequence(cut)
<1>1. phases \in Seq(Range(phases)) /\ Len(phases) \in Nat
  BY DEF IsSequence
<1>2. ClampTo(0, total, Len(phases)) \in 0 .. Len(phases)
  BY <1>1 DEF ClampTo
<1> DEFINE m == ClampTo(0, total, Len(phases))
           cut == SubSeq(phases, 1, m)
<1> HIDE DEF m
<1>3. m \in 0 .. Len(phases)
  BY <1>2 DEF m
<1>4. /\ cut \in Seq(Range(phases)) /\ Len(cut) = m
  BY <1>1, <1>3
<1> HIDE DEF cut
<1>5. IsSequence(cut)
  BY <1>4 DEF IsSequence, Range
<1>6. QED
  BY <1>4, <1>5 DEF Limited, cut, m

SpecIds(plan) == {plan.phases[i].id : i \in DOMAIN plan.phases}
                 \cup {Append(plan.phases[i].id, i) : i \in DOMAIN plan.phases}
VerifiesWith(plan) == Primary(plan.intent, Sanitized(plan.commands))
SpecRecords(plan) ==
  [id : SpecIds(plan), deps : SUBSET SpecIds(plan), command : {"", VerifiesWith(plan)},
   retries : {0, LdRetries(plan.limits)}]

\* Without a command there is nothing to verify with, and only then.
LEMMA NothingToVerifyWith ==
  ASSUME NEW plan, PlanOK(plan)
  PROVE  /\ Sanitized(plan.commands) # << >> =>
              /\ VerifiesWith(plan) \in Range(Sanitized(plan.commands))
              /\ VerifiesWith(plan) # ""
         /\ Sanitized(plan.commands) = << >> => VerifiesWith(plan) = ""
<1>1. Sanitized(plan.commands) \in Seq(SafeCommands)
  BY SanitizedSafe DEF PlanOK
<1>2. ASSUME Sanitized(plan.commands) # << >>
      PROVE  VerifiesWith(plan) \in Range(Sanitized(plan.commands))
  BY <1>1, <1>2, PrimaryIsOne DEF VerifiesWith
<1>3. Range(Sanitized(plan.commands)) \subseteq SafeCommands
  BY <1>1 DEF Range
<1>4. "" \notin SafeCommands
  BY DEF SafeCommands
<1>5. Sanitized(plan.commands) = << >> => VerifiesWith(plan) = ""
  BY Zenon DEF VerifiesWith, Primary
<1>6. QED
  BY <1>2, <1>3, <1>4, <1>5

SpecStates(plan) == [known : SUBSET SpecIds(plan), out : Seq(SpecRecords(plan))]

\* The phase is a check and there is nothing to check with.
Dropped(plan, k) == /\ plan.phases[k].kind = "tool" /\ plan.phases[k].check
                    /\ Sanitized(plan.commands) = << >>

\* What one phase of the draft adds.
PhaseAdds(plan, k, done, next) ==
  /\ next \in SpecStates(plan)
  /\ next.known = done.known \cup {Unused(plan.phases[k].id, k, done.known)}
  /\ Dropped(plan, k) => next.out = done.out
  /\ ~Dropped(plan, k) => \E spec \in SpecRecords(plan) :
       /\ next.out = Append(done.out, spec)
       /\ spec.id = Unused(plan.phases[k].id, k, done.known)
       /\ spec.deps \subseteq done.known

\* A phase of the draft becomes at most one phase of the loop, and is dropped only
\* when it verifies and there is no command (_phases_from_draft).
LEMMA SpecPhaseAdds ==
  ASSUME NEW plan, PlanOK(plan), NEW k \in DOMAIN plan.phases, NEW done \in SpecStates(plan)
  PROVE  PhaseAdds(plan, k, done, SpecPhase(plan, done, k))
<1>0. done \in [known : SUBSET SpecIds(plan), out : Seq(SpecRecords(plan))]
  BY DEF SpecStates
<1> DEFINE phase == plan.phases[k]
           id == Unused(phase.id, k, done.known)
           cmd == VerifiesWith(plan)
           shell == phase.kind = "tool" /\ (phase.check \/ cmd # "")
           tries == IF shell \/ id = <<"implementation">> THEN LdRetries(plan.limits) ELSE 0
           spec == SpecOf(id, phase.deps \cap done.known, IF shell THEN cmd ELSE "", tries)
           out == IF shell /\ cmd = "" THEN done.out ELSE Append(done.out, spec)
           next == SpecPhase(plan, done, k)
           dropped == Dropped(plan, k)
<1>1. next = [known |-> done.known \cup {id}, out |-> out]
  BY DEF SpecPhase, VerifiesWith
<1>2. id \in SpecIds(plan)
  BY DEF Unused, SpecIds
<1>3. spec = [id |-> id, deps |-> phase.deps \cap done.known,
              command |-> IF shell THEN cmd ELSE "", retries |-> tries]
  BY DEF SpecOf
<1>4. spec \in SpecRecords(plan) /\ spec.id = id /\ spec.deps \subseteq done.known
  <2> DEFINE deps == phase.deps \cap done.known
             command == IF shell THEN cmd ELSE ""
  <2>1. deps \in SUBSET SpecIds(plan) /\ deps \subseteq done.known
    BY <1>0
  <2>2. command \in {"", VerifiesWith(plan)}
    OBVIOUS
  <2>3. tries \in {0, LdRetries(plan.limits)}
    OBVIOUS
  <2>4. spec = [id |-> id, deps |-> deps, command |-> command, retries |-> tries]
    BY <1>3
  <2> HIDE DEF id, shell, deps, command, tries, spec
  <2>5. QED
    BY <1>2, <2>1, <2>2, <2>3, <2>4 DEF SpecRecords
<1>5. (shell /\ cmd = "") <=> dropped
  BY NothingToVerifyWith DEF Dropped
<1> HIDE DEF id, spec, shell, cmd, dropped, next
<1>6. next.known = done.known \cup {id} /\ next.out = out
  BY <1>1
<1>7. dropped => out = done.out
  BY <1>5
<1>8. ~dropped => out = Append(done.out, spec)
  BY <1>5
<1>9. out \in Seq(SpecRecords(plan))
  <2>1. done.out \in Seq(SpecRecords(plan)) /\ spec \in SpecRecords(plan)
    BY <1>0, <1>4
  <2>2. Append(done.out, spec) \in Seq(SpecRecords(plan))
    BY <2>1
  <2>3. QED
    BY <1>7, <1>8, <2>1, <2>2
<1> HIDE DEF out
<1>10. next \in [known : SUBSET SpecIds(plan), out : Seq(SpecRecords(plan))]
  BY <1>0, <1>1, <1>2, <1>9
<1>11. QED
  BY <1>4, <1>6, <1>7, <1>8, <1>10 DEF id, dropped, next, PhaseAdds, SpecStates

\* A phase put at the end, depending on phases that are there, keeps the order.
LEMMA OrderedAppend ==
  ASSUME NEW S, NEW out \in Seq(S), Ordered(out), NEW spec, spec.deps \subseteq LdIds(out)
  PROVE  LET more == Append(out, spec) IN
         /\ Ordered(more) /\ LdIds(more) = LdIds(out) \cup {spec.id}
         /\ Len(more) = Len(out) + 1 /\ more # << >>
<1> DEFINE n == Len(out)
           more == Append(out, spec)
<1>1. n \in Nat /\ DOMAIN out = 1 .. n
  OBVIOUS
<1>2. /\ Len(more) = n + 1 /\ DOMAIN more = 1 .. n + 1 /\ more[n + 1] = spec
      /\ \A i \in 1 .. n : more[i] = out[i]
  OBVIOUS
<1> HIDE DEF n, more
<1>3. LdIds(out) = {more[j].id : j \in 1 .. n}
  BY <1>1, <1>2 DEF LdIds
<1>4. ASSUME NEW i \in 1 .. n + 1 PROVE more[i].deps \subseteq {more[j].id : j \in 1 .. i - 1}
  <2>1. CASE i = n + 1
    <3>1. i - 1 = n
      BY <1>1, <2>1
    <3>2. QED
      BY <1>2, <1>3, <2>1, <3>1
  <2>2. CASE i # n + 1
    <3>1. i \in 1 .. n /\ \A j \in 1 .. i - 1 : j \in 1 .. n
      BY <1>1, <2>2
    <3>2. out[i].deps \subseteq {out[j].id : j \in 1 .. i - 1}
      BY <1>1, <3>1 DEF Ordered
    <3>3. QED
      BY <1>2, <3>1, <3>2
  <2>3. QED
    BY <2>1, <2>2
<1>5. Ordered(more)
  BY <1>2, <1>4 DEF Ordered
<1>6. LdIds(more) = LdIds(out) \cup {spec.id}
  <2>1. LdIds(more) = {more[j].id : j \in 1 .. n + 1}
    BY <1>2 DEF LdIds
  <2>2. 1 .. n + 1 = (1 .. n) \cup {n + 1}
    BY <1>1
  <2>3. QED
    BY <1>2, <1>3, <2>1, <2>2
<1>7. more # << >>
  BY <1>1, <1>2
<1>8. QED
  BY <1>2, <1>5, <1>6, <1>7 DEF n, more

\* The phases made of those of the draft, before a report is added.
SpecOut(plan) ==
  FoldLeftDomain(LAMBDA done, i : SpecPhase(plan, done, i), [known |-> {}, out |-> << >>],
                 Limited(plan.phases, plan.limits.total)).out

\* Unless a check is dropped that another phase follows, the phases that
\* _phases_from_draft makes depend on phases before them.
LEMMA SpecOutSound ==
  ASSUME NEW plan, PlanOK(plan), ~DroppedCheck(plan)
  PROVE  LET out == SpecOut(plan) IN
         /\ out \in Seq(SpecRecords(plan)) /\ out # << >>
         /\ Len(out) <= plan.limits.total /\ Ordered(out)
<1> DEFINE cut == Limited(plan.phases, plan.limits.total)
           n == Len(cut)
           B == SpecStates(plan)
           places == [i \in DOMAIN cut |-> i]
           Op(k, done) == SpecPhase(plan, done, places[k])
           start == [known |-> {}, out |-> << >>]
           step == [k \in 1 .. n |-> [done \in B |-> Op(k, done)]]
           Table(g) == g = [t \in SUBSET (1 .. n) |->
                              IF t = {} THEN start ELSE Op(Max(t), g[t \ {Max(t)}])]
           iter == CHOOSE g : Table(g)
<1>1. /\ n \in Nat /\ DOMAIN cut = 1 .. n /\ n <= plan.limits.total /\ n >= 2
      /\ n <= Len(plan.phases) /\ DOMAIN plan.phases = 1 .. Len(plan.phases)
      /\ Len(plan.phases) \in Nat
  <2>1. plan.limits.total \in Nat /\ plan.limits.total >= 3 /\ Len(plan.phases) >= 2
        /\ IsSequence(plan.phases)
    BY DEF PlanOK
  <2>2. Len(plan.phases) \in Nat /\ DOMAIN plan.phases = 1 .. Len(plan.phases)
    BY <2>1 DEF IsSequence
  <2>3. n \in Nat /\ DOMAIN cut = 1 .. n /\ n = ClampTo(0, plan.limits.total, Len(plan.phases))
    <3> HIDE DEF cut
    <3>1. QED
      BY <2>1, LimitedPrefix DEF cut
  <2> HIDE DEF n, cut
  <2>4. QED
    BY <2>1, <2>2, <2>3 DEF ClampTo
<1>2. SpecOut(plan) = iter[1 .. n].out
  BY <1>1 DEF SpecOut, FoldLeftDomain, FoldLeft, MapThenFoldSet
<1>0. start \in B
  BY DEF SpecStates
<1>3. ASSUME NEW k \in 1 .. n, NEW done \in B PROVE Op(k, done) \in B
  <2>1. k \in DOMAIN plan.phases
    <3> HIDE DEF n
    <3>1. QED
      BY <1>1
  <2>2. places[k] = k
    BY <1>1
  <2> HIDE DEF n, places
  <2>3. SpecPhase(plan, done, k) \in B
    BY <2>1, SpecPhaseAdds DEF PhaseAdds
  <2>4. QED
    BY <2>2, <2>3
<1>4. step \in [1 .. n -> [B -> B]] /\ start \in B /\ n \in Nat
  BY <1>0, <1>1, <1>3
<1>5. \E g : Table(g)
  <2>1. PICK g \in [SUBSET (1 .. n) -> B] : \A t \in SUBSET (1 .. n) : Folded(g, t, start, step)
    <3> HIDE DEF step, B, n, start, Table, Op
    <3>1. QED
      BY <1>4, FoldTable
  <2>2. ASSUME NEW t \in SUBSET (1 .. n), t # {} PROVE g[t] = Op(Max(t), g[t \ {Max(t)}])
    <3>1. Max(t) \in 1 .. n /\ t \ {Max(t)} \in SUBSET (1 .. n)
      <4> HIDE DEF n
      <4>1. QED
        BY <1>1, <2>2, MaxOfBounded
    <3>2. g[t \ {Max(t)}] \in B
      BY <2>1, <3>1
    <3>3. g[t] = step[Max(t)][g[t \ {Max(t)}]]
      BY <2>1, <2>2 DEF Folded
    <3> HIDE DEF Op, n, B
    <3>4. QED
      BY <3>1, <3>2, <3>3
  <2>3. ASSUME NEW t \in SUBSET (1 .. n), t = {} PROVE g[t] = start
    BY <2>1, <2>3 DEF Folded
  <2> HIDE DEF Op, n
  <2>4. \A t \in SUBSET (1 .. n) : g[t] = IF t = {} THEN start ELSE Op(Max(t), g[t \ {Max(t)}])
    BY <2>2, <2>3
  <2>5. g = [t \in SUBSET (1 .. n) |-> g[t]]
    BY <2>1
  <2>6. Table(g)
    BY <2>4, <2>5, Zenon
  <2>7. QED
    BY <2>6
<1>6. Table(iter)
  BY <1>5
<1> HIDE DEF iter
<1>7. iter[{}] = start
  BY <1>6
<1>8. ASSUME NEW t \in SUBSET (1 .. n), t # {}, iter[t \ {Max(t)}] \in B
      PROVE  iter[t] = step[Max(t)][iter[t \ {Max(t)}]]
  <2> HIDE DEF Op, n, B
  <2>1. Max(t) \in 1 .. n
    BY <1>1, <1>8, MaxOfBounded
  <2>2. iter[t] = Op(Max(t), iter[t \ {Max(t)}])
    BY <1>6, <1>8
  <2>3. QED
    BY <1>8, <2>1, <2>2
<1>9. PICK h \in [0 .. n -> B] :
        /\ h[0] = start /\ h[n] = iter[1 .. n]
        /\ \A k \in 1 .. n : h[k] = step[k][h[k - 1]]
  <2>1. IsFold(iter, n, B, start, step)
    BY <1>7, <1>8, Zenon DEF IsFold
  <2> HIDE DEF step, n, B, start, Table, Op
  <2>2. QED
    BY <1>4, <2>1, FoldUnrolls
<1> DEFINE Good(k) == /\ Len(h[k].out) <= k /\ Ordered(h[k].out)
                      /\ k < n => h[k].known = LdIds(h[k].out)
                      /\ 1 <= k => h[k].out # << >>
           T == {k \in 0 .. n : Good(k)}
<1>10. 0 \in T
  <2>1. h[0].known = {} /\ h[0].out = << >>
    BY <1>9
  <2>2. Len(h[0].out) = 0 /\ Ordered(h[0].out) /\ LdIds(h[0].out) = {}
    BY <2>1 DEF Ordered, LdIds
  <2> HIDE DEF n
  <2>3. Good(0) /\ 0 \in 0 .. n
    BY <1>1, <2>1, <2>2
  <2> HIDE DEF Good
  <2>4. QED
    BY <2>3
<1>11. ASSUME NEW k \in 0 .. n - 1, k \in T PROVE k + 1 \in T
  <2>0. places[k + 1] = k + 1
    BY <1>1
  <2> HIDE DEF n, cut, places
  <2> DEFINE done == h[k]
  <2>1. k + 1 \in 1 .. n /\ k + 1 \in DOMAIN plan.phases /\ (k + 1) - 1 = k /\ k \in 0 .. n
    BY <1>1
  <2>2. done \in B /\ h[k + 1] = SpecPhase(plan, done, k + 1)
    <3>1. done \in B /\ h[k + 1] = step[k + 1][done]
      BY <1>9, <2>1
    <3> HIDE DEF done, B, Op
    <3>2. h[k + 1] = Op(k + 1, done)
      BY <2>1, <3>1
    <3>3. QED
      BY <2>0, <3>1, <3>2 DEF Op
  <2>3. PhaseAdds(plan, k + 1, done, h[k + 1])
    BY <2>1, <2>2, SpecPhaseAdds
  <2>4. /\ done.out \in Seq(SpecRecords(plan)) /\ Len(done.out) <= k /\ Len(done.out) \in Nat
        /\ Ordered(done.out) /\ done.known = LdIds(done.out) /\ (1 <= k => done.out # << >>)
    BY <1>1, <1>11, <2>2 DEF SpecStates
  <2> HIDE DEF done
  <2>5. CASE Dropped(plan, k + 1)
    <3>1. ~ (k + 1 \in 1 .. Len(plan.phases) - 1)
      BY <2>5 DEF DroppedCheck, Dropped
    <3>2. ~ (k + 1 < n) /\ 1 <= k
      BY <1>1, <2>1, <3>1
    <3>3. h[k + 1].out = done.out /\ Len(done.out) <= k + 1
      BY <2>1, <2>3, <2>4, <2>5 DEF PhaseAdds
    <3>4. Good(k + 1) /\ k + 1 \in 0 .. n
      BY <2>1, <2>4, <3>2, <3>3
    <3> HIDE DEF Good
    <3>5. QED
      BY <3>4
  <2>6. CASE ~Dropped(plan, k + 1)
    <3>1. PICK spec \in SpecRecords(plan) :
            /\ h[k + 1].out = Append(done.out, spec)
            /\ spec.deps \subseteq done.known
            /\ h[k + 1].known = done.known \cup {spec.id}
      BY <2>3, <2>6 DEF PhaseAdds
    <3>2. /\ Ordered(h[k + 1].out) /\ LdIds(h[k + 1].out) = LdIds(done.out) \cup {spec.id}
          /\ Len(h[k + 1].out) = Len(done.out) + 1 /\ h[k + 1].out # << >>
      BY <2>4, <3>1, OrderedAppend
    <3>3. Len(h[k + 1].out) <= k + 1
      BY <2>1, <2>4, <3>2
    <3>4. h[k + 1].known = LdIds(h[k + 1].out)
      BY <2>4, <3>1, <3>2
    <3>5. Good(k + 1) /\ k + 1 \in 0 .. n
      BY <2>1, <3>2, <3>3, <3>4
    <3> HIDE DEF Good
    <3>6. QED
      BY <3>5
  <2>7. QED
    BY <2>5, <2>6
<1>12. Good(n) /\ h[n] \in B
  <2> HIDE DEF T, n
  <2>1. 0 .. n \subseteq T
    BY <1>1, <1>10, <1>11, NumberInduction
  <2>2. n \in 0 .. n
    BY <1>1
  <2>3. n \in T
    BY <2>1, <2>2
  <2>4. QED
    BY <2>2, <2>3 DEF T
<1>13. SpecOut(plan) = h[n].out
  BY <1>2, <1>9
<1> HIDE DEF n
<1>14. h[n].out \in Seq(SpecRecords(plan))
  BY <1>12 DEF SpecStates
<1>15. Len(h[n].out) <= plan.limits.total
  <2>1. plan.limits.total \in Nat
    BY DEF PlanOK
  <2>2. Len(h[n].out) \in Nat /\ Len(h[n].out) <= n
    BY <1>12, <1>14
  <2>3. QED
    BY <1>1, <2>1, <2>2
<1>16. h[n].out # << >> /\ Ordered(h[n].out)
  BY <1>1, <1>12
<1> HIDE DEF B, step, iter
<1>17. QED
  BY <1>13, <1>14, <1>15, <1>16

\* The phases of the specification: each after those it depends on, no more than
\* there is room for, with an allowed command and no more retries than allowed.
LEMMA SpecPhasesSound ==
  ASSUME NEW plan, PlanOK(plan), ~DroppedCheck(plan)
  PROVE  LET phases == SpecPhases(plan) IN
         /\ \E n \in Nat : DOMAIN phases = 1 .. n /\ Len(phases) = n /\ n <= plan.limits.total
         /\ phases # << >> /\ Ordered(phases)
         /\ \A i \in DOMAIN phases : /\ phases[i].command \in {"", VerifiesWith(plan)}
                                     /\ phases[i].retries \in {0, LdRetries(plan.limits)}
<1> DEFINE out == SpecOut(plan)
           total == plan.limits.total
           report == SpecOf(<<"final_report">>, {Last(out).id}, "", 0)
           phases == SpecPhases(plan)
<1>1. /\ out \in Seq(SpecRecords(plan)) /\ out # << >>
      /\ Len(out) <= total /\ Ordered(out) /\ total \in Nat
  BY SpecOutSound DEF PlanOK
<1>2. phases = IF LacksReport(out, total) THEN Append(out, report) ELSE out
  BY <1>1, Zenon DEF SpecPhases, SpecOut
<1>3. \A i \in DOMAIN out : /\ out[i].command \in {"", VerifiesWith(plan)}
                            /\ out[i].retries \in {0, LdRetries(plan.limits)}
  <2> HIDE DEF out
  <2>1. \A spec \in SpecRecords(plan) : /\ spec.command \in {"", VerifiesWith(plan)}
                                        /\ spec.retries \in {0, LdRetries(plan.limits)}
    BY DEF SpecRecords
  <2>2. \A i \in DOMAIN out : out[i] \in SpecRecords(plan)
    BY <1>1
  <2>3. QED
    BY <2>1, <2>2
<1> HIDE DEF out, total, phases
<1>4. CASE ~LacksReport(out, total)
  <2>1. phases = out
    BY <1>2, <1>4
  <2>2. DOMAIN out = 1 .. Len(out) /\ Len(out) \in Nat
    BY <1>1
  <2>3. QED
    BY <1>1, <1>3, <2>1, <2>2 DEF phases, total
<1>5. CASE LacksReport(out, total)
  <2>1. phases = Append(out, report)
    BY <1>2, <1>5
  <2>2. /\ report.command = "" /\ report.retries = 0 /\ report.deps = {Last(out).id}
    BY DEF SpecOf
  <2>3. Len(out) \in Nat /\ Len(out) + 1 <= total /\ Len(out) + 1 \in Nat
        /\ Len(out) \in DOMAIN out
    BY <1>1, <1>5 DEF LacksReport
  <2>4. Last(out).id \in LdIds(out)
    BY <2>3 DEF Last, LdIds
  <2> HIDE DEF report
  <2>5. Ordered(phases) /\ phases # << >> /\ Len(phases) = Len(out) + 1
    BY <1>1, <2>1, <2>2, <2>4, OrderedAppend
  <2>6. /\ DOMAIN phases = 1 .. Len(out) + 1 /\ phases[Len(out) + 1] = report
        /\ \A i \in 1 .. Len(out) : i \in DOMAIN out /\ phases[i] = out[i]
    BY <1>1, <2>1
  <2>7. ASSUME NEW i \in DOMAIN phases
        PROVE  /\ phases[i].command \in {"", VerifiesWith(plan)}
               /\ phases[i].retries \in {0, LdRetries(plan.limits)}
    <3>1. CASE i = Len(out) + 1
      BY <2>2, <2>6, <3>1
    <3>2. CASE i # Len(out) + 1
      <4>1. i \in 1 .. Len(out)
        BY <2>3, <2>6, <3>2
      <4>2. QED
        BY <1>3, <2>6, <4>1
    <3>3. QED
      BY <3>1, <3>2
  <2>8. QED
    BY <2>3, <2>5, <2>6, <2>7 DEF phases, total
<1>6. QED
  BY <1>4, <1>5

\* Phases that only depend on phases before them do not depend on themselves.
LEMMA OrderedIsAcyclic ==
  ASSUME NEW n \in Nat, NEW phases, DOMAIN phases = 1 .. n, Ordered(phases),
         \A i, j \in DOMAIN phases : phases[i].id = phases[j].id => i = j
  PROVE  ~Cyclic(phases)
<1>1. SUFFICES ASSUME NEW S \in SUBSET (1 .. n), S # {},
                      \A i \in S : \E j \in S : phases[j].id \in phases[i].deps
               PROVE  FALSE
  BY DEF Cyclic
<1>2. PICK m \in S : \A k \in S : m <= k
  <2>1. S \in SUBSET Nat
    OBVIOUS
  <2>2. QED
    BY <1>1, <2>1, LeastNumber
<1>3. PICK j \in S : phases[j].id \in phases[m].deps
  BY <1>1
<1>4. PICK l \in 1 .. m - 1 : phases[j].id = phases[l].id
  BY <1>3 DEF Ordered
<1>5. l \in 1 .. n /\ j = l
  BY <1>4
<1>6. QED
  BY <1>2, <1>5

\* A specification that builds passes validate_loop_spec.
LEMMA DryRunPasses ==
  ASSUME NEW plan, PlanOK(plan), ~DroppedCheck(plan), LoopBuilds(Synthesized(plan)),
         \A f \in DOMAIN plan.limits : plan.limits[f] # 0
  PROVE  SpecErrors(Synthesized(plan)) = {}
<1> DEFINE spec == Synthesized(plan)
           phases == SpecPhases(plan)
<1>1. /\ spec.phases = phases /\ spec.allowed = Range(Sanitized(plan.commands))
      /\ spec.limits = plan.limits
  BY DEF Synthesized
<1>2. /\ phases # << >> /\ Ordered(phases)
      /\ \A i \in DOMAIN phases : /\ phases[i].command \in {"", VerifiesWith(plan)}
                                  /\ phases[i].retries \in {0, LdRetries(plan.limits)}
  BY SpecPhasesSound
<1>3. PICK n \in Nat : DOMAIN phases = 1 .. n /\ Len(phases) = n /\ n <= plan.limits.total
  BY SpecPhasesSound
<1>4. plan.limits \in [total : Nat, retries : Nat, commands : Nat]
  BY DEF PlanOK
<1> HIDE DEF phases, spec
<1>5. ~Cyclic(spec.phases)
  <2>1. \A i, j \in DOMAIN phases : phases[i].id = phases[j].id => i = j
    BY <1>1 DEF LoopBuilds, spec
  <2>2. QED
    BY <1>1, <1>2, <1>3, <2>1, OrderedIsAcyclic
<1>6. ~ (Len(spec.phases) > spec.limits.total)
  BY <1>1, <1>3, <1>4
<1>7. \A i \in DOMAIN spec.phases : ~ (spec.phases[i].retries > spec.limits.retries)
  <2>1. LdRetries(plan.limits) \in Nat /\ LdRetries(plan.limits) <= plan.limits.retries
    BY <1>4 DEF LdRetries
  <2>2. \A r \in {0, LdRetries(plan.limits)} : ~ (r > plan.limits.retries)
    BY <1>4, <2>1
  <2>3. \A i \in DOMAIN phases : phases[i].retries \in {0, LdRetries(plan.limits)}
    BY <1>2
  <2>4. \A i \in DOMAIN phases : ~ (phases[i].retries > plan.limits.retries)
    BY <2>2, <2>3
  <2>5. QED
    BY <1>1, <2>4
<1>8. \A i \in DOMAIN spec.phases : spec.phases[i].command \in spec.allowed \cup {""}
  BY <1>1, <1>2, NothingToVerifyWith
<1>9. QED
  BY <1>1, <1>2, <1>5, <1>6, <1>7, <1>8 DEF SpecErrors, spec

-----------------------------------------------------------------------------
(* Plans of the template and of the model *)

\* What the planner makes of lists are lists.
LEMMA FunctionIsSequence ==
  ASSUME NEW n \in Nat, NEW f, f = [i \in 1 .. n |-> f[i]]
  PROVE  IsSequence(f) /\ Len(f) = n
<1>1. \A i \in 1 .. n : f[i] \in Range(f)
  BY DEF Range
<1>2. f \in [1 .. n -> Range(f)]
  BY <1>1
<1>3. QED
  BY <1>2 DEF IsSequence

LEMMA SeqIsSequence ==
  ASSUME NEW S, NEW s \in Seq(S)
  PROVE  IsSequence(s) /\ Len(s) \in Nat /\ DOMAIN s = 1 .. Len(s)
BY DEF IsSequence, Range

LEMMA SequenceFacts ==
  ASSUME NEW s, IsSequence(s), NEW e
  PROVE  /\ Len(s) \in Nat /\ DOMAIN s = 1 .. Len(s)
         /\ IsSequence(Append(s, e)) /\ Len(Append(s, e)) = Len(s) + 1
         /\ IsSequence(<<e>> \o s) /\ Len(<<e>> \o s) = Len(s) + 1 /\ (<<e>> \o s)[1] = e
<1>1. s \in Seq(Range(s) \cup {e})
  BY DEF IsSequence
<1>2. <<e>> \in Seq(Range(s) \cup {e}) /\ Len(<<e>>) = 1 /\ <<e>>[1] = e
  OBVIOUS
<1> DEFINE S == Range(s) \cup {e}
           one == <<e>>
<1> HIDE DEF S, one
<1>3. Append(s, e) \in Seq(S) /\ Len(Append(s, e)) = Len(s) + 1
  BY <1>1 DEF S
<1>4. one \o s \in Seq(S) /\ Len(one \o s) = Len(s) + 1 /\ (one \o s)[1] = e
  BY <1>1, <1>2 DEF S, one
<1>5. QED
  BY <1>1, <1>3, <1>4, SeqIsSequence DEF S, one

\* draft_phases_for
LEMMA TemplateOK ==
  ASSUME NEW intent
  PROVE  IsSequence(Template(intent)) /\ Len(Template(intent)) >= 2
<1> DEFINE body == CASE intent = "analysis" -> <<"analysis">>
                     [] intent = "release"  -> <<"design_plan", "verification">>
                     [] intent = "docs"     -> <<"design_plan", "implementation">>
                     [] OTHER               -> <<"design_plan", "implementation", "verification">>
           Names == {"context_scan", "analysis", "design_plan", "implementation", "verification",
                     "final_report"}
           names == <<"context_scan">> \o body \o <<"final_report">>
<1>1. body \in Seq(Names)
  <2>1. /\ <<"analysis">> \in Seq(Names) /\ <<"design_plan", "verification">> \in Seq(Names)
        /\ <<"design_plan", "implementation">> \in Seq(Names)
        /\ <<"design_plan", "implementation", "verification">> \in Seq(Names)
    OBVIOUS
  <2>2. \/ body = <<"analysis">> \/ body = <<"design_plan", "verification">>
        \/ body = <<"design_plan", "implementation">>
        \/ body = <<"design_plan", "implementation", "verification">>
    OBVIOUS
  <2> HIDE DEF body
  <2>3. QED
    BY <2>1, <2>2, Zenon
<1>2. Template(intent) = Chain(names)
  BY Zenon DEF Template
<1> HIDE DEF body
<1>3. names \in Seq(Names) /\ Len(names) = Len(body) + 2
  <2> DEFINE first == <<"context_scan">>
             last == <<"final_report">>
             start == first \o body
  <2>1. first \in Seq(Names) /\ Len(first) = 1 /\ last \in Seq(Names) /\ Len(last) = 1
    OBVIOUS
  <2> HIDE DEF first, last, Names, start, names
  <2>2. start \in Seq(Names)
    BY <1>1, <2>1, ConcatProperties, Zenon DEF start
  <2>3. Len(start) = Len(first) + Len(body)
    BY <1>1, <2>1, ConcatProperties, Zenon DEF start
  <2>4. names \in Seq(Names)
    BY <2>1, <2>2, ConcatProperties, Zenon DEF start, names, first, last
  <2>5. Len(names) = Len(start) + Len(last)
    BY <2>1, <2>2, ConcatProperties, Zenon DEF start, names, first, last
  <2>6. Len(body) \in Nat
    BY <1>1
  <2>7. QED
    BY <2>1, <2>3, <2>4, <2>5, <2>6
<1> HIDE DEF names
<1>4. Len(names) \in Nat /\ Len(names) >= 2 /\ DOMAIN names = 1 .. Len(names)
  BY <1>1, <1>3
<1> DEFINE chain == Chain(names)
           n == Len(names)
<1>5. chain = [i \in 1 .. n |-> chain[i]] /\ n \in Nat
  BY <1>4 DEF Chain
<1> HIDE DEF chain, n
<1>6. IsSequence(chain) /\ Len(chain) = n
  BY <1>5, FunctionIsSequence
<1>7. QED
  BY <1>2, <1>4, <1>6 DEF chain, n

\* _normalize_phases
LEMMA NormalizedIsSequence ==
  ASSUME NEW phases, IsSequence(phases), NEW total \in Nat
  PROVE  IsSequence(Normalized(phases, total))
<1> DEFINE cut == Limited(phases, total)
           n == Len(cut)
           D == DOMAIN phases
           Ids == {phases[i].id : i \in D} \cup {Append(phases[i].id, i) : i \in D}
           Rec == [id : Ids, kind : {phases[i].kind : i \in D}, check : {phases[i].check : i \in D},
                   deps : SUBSET UNION {phases[i].deps : i \in D}]
           B == Seq(Rec)
           places == [i \in DOMAIN cut |-> i]
           Op(k, done) == Append(done, NormalizedPhase(phases[places[k]], places[k], done))
           step == [k \in 1 .. n |-> [done \in B |-> Op(k, done)]]
           Table(g) == g = [t \in SUBSET (1 .. n) |->
                              IF t = {} THEN << >> ELSE Op(Max(t), g[t \ {Max(t)}])]
           iter == CHOOSE g : Table(g)
<1>0. Len(phases) \in Nat /\ D = 1 .. Len(phases)
  BY DEF IsSequence
<1>1. n \in Nat /\ DOMAIN cut = 1 .. n /\ n <= Len(phases)
  <2>1. n \in Nat /\ DOMAIN cut = 1 .. n /\ n = ClampTo(0, total, Len(phases))
    <3> HIDE DEF cut
    <3>1. QED
      BY LimitedPrefix DEF cut
  <2>2. Len(phases) \in Nat
    BY <1>0
  <2> HIDE DEF n, cut, D
  <2>3. QED
    BY <2>1, <2>2 DEF ClampTo
<1>2. Normalized(phases, total) = iter[1 .. n]
  BY <1>1 DEF Normalized, FoldLeftDomain, FoldLeft, MapThenFoldSet
<1>3. ASSUME NEW k \in 1 .. n, NEW done \in B PROVE Op(k, done) \in B
  <2>1. places[k] = k /\ k \in D
    <3>1. places[k] = k
      BY <1>1
    <3> HIDE DEF n, D, places
    <3>2. QED
      BY <1>0, <1>1, <3>1
  <2> DEFINE phase == NormalizedPhase(phases[k], k, done)
  <2>2. /\ Unused(phases[k].id, k, LdIds(done)) \in Ids
        /\ phases[k].deps \cap LdIds(done) \in SUBSET UNION {phases[i].deps : i \in D}
    BY <2>1 DEF Unused
  <2>3. phase \in Rec
    <3> HIDE DEF D, Ids
    <3>1. QED
      BY <2>1, <2>2 DEF NormalizedPhase
  <2> HIDE DEF phase, Rec, n, places
  <2>4. Append(done, phase) \in B
    BY <2>3
  <2>5. QED
    BY <2>1, <2>4 DEF phase
<1>4. step \in [1 .. n -> [B -> B]] /\ << >> \in B /\ n \in Nat
  <2> HIDE DEF Op, Rec, n
  <2>1. << >> \in B
    OBVIOUS
  <2>2. QED
    BY <1>1, <1>3, <2>1
<1>5. \E g : Table(g)
  <2>1. PICK g \in [SUBSET (1 .. n) -> B] : \A t \in SUBSET (1 .. n) : Folded(g, t, << >>, step)
    <3> HIDE DEF step, B, n, Table, Op, iter, cut, places, Rec
    <3>1. QED
      BY <1>4, FoldTable
  <2>2. ASSUME NEW t \in SUBSET (1 .. n), t # {} PROVE g[t] = Op(Max(t), g[t \ {Max(t)}])
    <3>1. Max(t) \in 1 .. n /\ t \ {Max(t)} \in SUBSET (1 .. n)
      <4> HIDE DEF n
      <4>1. QED
        BY <1>1, <2>2, MaxOfBounded
    <3>2. g[t \ {Max(t)}] \in B
      BY <2>1, <3>1
    <3>3. g[t] = step[Max(t)][g[t \ {Max(t)}]]
      BY <2>1, <2>2 DEF Folded
    <3> HIDE DEF Op, n, B
    <3>4. QED
      BY <3>1, <3>2, <3>3
  <2>3. ASSUME NEW t \in SUBSET (1 .. n), t = {} PROVE g[t] = << >>
    BY <2>1, <2>3 DEF Folded
  <2> HIDE DEF Op, n
  <2>4. \A t \in SUBSET (1 .. n) : g[t] = IF t = {} THEN << >> ELSE Op(Max(t), g[t \ {Max(t)}])
    BY <2>2, <2>3
  <2>5. g = [t \in SUBSET (1 .. n) |-> g[t]]
    BY <2>1
  <2>6. Table(g)
    BY <2>4, <2>5, Zenon
  <2>7. QED
    BY <2>6
<1>6. Table(iter)
  BY <1>5
<1> HIDE DEF iter
<1>7. iter[{}] = << >>
  BY <1>6
<1>8. ASSUME NEW t \in SUBSET (1 .. n), t # {}, iter[t \ {Max(t)}] \in B
      PROVE  iter[t] = step[Max(t)][iter[t \ {Max(t)}]]
  <2> HIDE DEF Op, n, B
  <2>1. Max(t) \in 1 .. n
    BY <1>1, <1>8, MaxOfBounded
  <2>2. iter[t] = Op(Max(t), iter[t \ {Max(t)}])
    BY <1>6, <1>8
  <2>3. QED
    BY <1>8, <2>1, <2>2
<1>9. PICK h \in [0 .. n -> B] :
        /\ h[0] = << >> /\ h[n] = iter[1 .. n]
        /\ \A k \in 1 .. n : h[k] = step[k][h[k - 1]]
  <2>1. IsFold(iter, n, B, << >>, step)
    BY <1>7, <1>8, Zenon DEF IsFold
  <2> HIDE DEF step, n, B, Table, Op, iter, cut, places, Rec
  <2>2. QED
    BY <1>4, <2>1, FoldUnrolls
<1>10. h[n] \in B
  BY <1>1
<1> HIDE DEF B, n
<1>11. Normalized(phases, total) \in B
  BY <1>2, <1>9, <1>10
<1> HIDE DEF Rec
<1>12. QED
  BY <1>11, SeqIsSequence DEF B

\* ensure_required_phases: at least two phases are left, whatever the model plans.
LEMMA WithContextOK ==
  ASSUME NEW phases, IsSequence(phases)
  PROVE  LET scanned == WithContext(phases) IN
         IsSequence(scanned) /\ Len(scanned) >= 1 /\ <<"context_scan">> \in LdIds(scanned)
<1>1. CASE <<"context_scan">> \in LdIds(phases)
  <2>1. Len(phases) \in Nat /\ DOMAIN phases = 1 .. Len(phases)
    BY SequenceFacts
  <2>2. Len(phases) >= 1
    BY <1>1, <2>1 DEF LdIds
  <2>3. QED
    BY <1>1, <2>2 DEF WithContext
<1>2. CASE <<"context_scan">> \notin LdIds(phases)
  <2> DEFINE phase == DraftPhase("context_scan", "agent", {})
             scanned == <<phase>> \o phases
  <2>1. phase.id = <<"context_scan">>
    BY DEF DraftPhase
  <2> HIDE DEF phase
  <2>2. /\ Len(phases) \in Nat /\ IsSequence(scanned) /\ Len(scanned) = Len(phases) + 1
        /\ scanned[1] = phase
    BY SequenceFacts
  <2> HIDE DEF scanned
  <2>3. DOMAIN scanned = 1 .. Len(scanned)
    BY <2>2, SequenceFacts
  <2>4. Len(scanned) >= 1 /\ 1 \in DOMAIN scanned
    BY <2>2, <2>3
  <2>5. <<"context_scan">> \in LdIds(scanned)
    BY <2>1, <2>2, <2>4 DEF LdIds
  <2>6. QED
    BY <1>2, <2>2, <2>4, <2>5 DEF WithContext, scanned, phase
<1>3. QED
  BY <1>1, <1>2

LEMMA InsertAtOK ==
  ASSUME NEW s, IsSequence(s), NEW e, NEW at \in 1 .. Len(s) + 1
  PROVE  IsSequence(InsertAt(s, at, e)) /\ Len(InsertAt(s, at, e)) = Len(s) + 1
<1> DEFINE S == Range(s) \cup {e}
           left == SubSeq(s, 1, at - 1)
           right == SubSeq(s, at, Len(s))
           one == <<e>>
           most == left \o one
<1>1. s \in Seq(S) /\ Len(s) \in Nat /\ one \in Seq(S) /\ Len(one) = 1
  <2>1. s \in Seq(S) /\ Len(s) \in Nat
    BY DEF IsSequence
  <2>2. e \in S
    OBVIOUS
  <2> HIDE DEF S
  <2>3. QED
    BY <2>1, <2>2
<1> HIDE DEF S
<1>2. left \in Seq(S) /\ Len(left) = at - 1
  BY <1>1
<1>3. right \in Seq(S) /\ Len(right) = Len(s) - at + 1
  BY <1>1
<1> HIDE DEF left, right, one, most
<1>4. most \in Seq(S)
  BY <1>1, <1>2, ConcatProperties, Zenon DEF most
<1>5. Len(most) = Len(left) + Len(one)
  BY <1>1, <1>2, ConcatProperties, Zenon DEF most
<1>6. most \o right \in Seq(S)
  BY <1>3, <1>4, ConcatProperties, Zenon
<1>7. Len(most \o right) = Len(most) + Len(right)
  BY <1>3, <1>4, ConcatProperties, Zenon
<1>8. InsertAt(s, at, e) = most \o right
  BY DEF InsertAt, most, left, right, one
<1>9. Len(most \o right) = Len(s) + 1
  BY <1>1, <1>2, <1>3, <1>5, <1>7
<1>10. QED
  BY <1>6, <1>8, <1>9, SeqIsSequence

LEMMA TwoIdsTwoPhases ==
  ASSUME NEW phases, IsSequence(phases), NEW a \in LdIds(phases), NEW b \in LdIds(phases), a # b
  PROVE  Len(phases) >= 2
<1>1. Len(phases) \in Nat /\ DOMAIN phases = 1 .. Len(phases)
  BY SequenceFacts
<1>2. PICK i, j \in 1 .. Len(phases) : phases[i].id = a /\ phases[j].id = b
  BY <1>1 DEF LdIds
<1>3. QED
  BY <1>1, <1>2

LEMMA WithDesignOK ==
  ASSUME NEW phases, IsSequence(phases), Len(phases) >= 1, <<"context_scan">> \in LdIds(phases),
         NEW intent
  PROVE  IsSequence(WithDesign(phases, intent)) /\ Len(WithDesign(phases, intent)) >= 2
<1> DEFINE reports == {i \in DOMAIN phases : phases[i].id = <<"final_report">>}
           at == IF reports = {} THEN Len(phases) + 1
                 ELSE CHOOSE i \in reports : \A j \in reports : i <= j
           analysis == DraftPhase("analysis", "agent", Before(phases, Len(phases) + 1))
           design == DraftPhase("design_plan", "agent", Before(phases, at))
           result == WithDesign(phases, intent)
<1>1. Len(phases) \in Nat /\ DOMAIN phases = 1 .. Len(phases)
  BY SequenceFacts
<1>2. result = IF intent = "analysis"
               THEN IF <<"analysis">> \in LdIds(phases) THEN phases ELSE Append(phases, analysis)
               ELSE IF {<<"design_plan">>, <<"plan">>} \cap LdIds(phases) # {} THEN phases
                    ELSE InsertAt(phases, at, design)
  BY DEF WithDesign
<1>3. at \in 1 .. Len(phases) + 1
  <2>1. CASE reports = {}
    BY <1>1, <2>1
  <2>2. CASE reports # {}
    <3>1. reports \in SUBSET Nat /\ reports \subseteq 1 .. Len(phases)
      BY <1>1
    <3> HIDE DEF reports
    <3>2. \E i \in reports : \A j \in reports : i <= j
      BY <2>2, <3>1, LeastNumber
    <3>3. at \in reports
      BY <2>2, <3>2
    <3> HIDE DEF at
    <3>4. QED
      BY <1>1, <3>1, <3>3
  <2>3. QED
    BY <2>1, <2>2
<1> HIDE DEF at, analysis, design, result
<1>4. IsSequence(InsertAt(phases, at, design)) /\ Len(InsertAt(phases, at, design)) >= 2
  <2>1. IsSequence(InsertAt(phases, at, design))
        /\ Len(InsertAt(phases, at, design)) = Len(phases) + 1
    BY <1>3, InsertAtOK
  <2>2. QED
    BY <1>1, <2>1
<1>5. IsSequence(Append(phases, analysis)) /\ Len(Append(phases, analysis)) >= 2
  <2>1. IsSequence(Append(phases, analysis)) /\ Len(Append(phases, analysis)) = Len(phases) + 1
    BY SequenceFacts
  <2>2. QED
    BY <1>1, <2>1
<1>6. ASSUME \E name \in {"analysis", "design_plan", "plan"} : <<name>> \in LdIds(phases)
      PROVE  Len(phases) >= 2
  <2>1. PICK name \in {"analysis", "design_plan", "plan"} : <<name>> \in LdIds(phases)
    BY <1>6
  <2>2. <<name>> # <<"context_scan">>
    OBVIOUS
  <2>3. QED
    BY <2>1, <2>2, TwoIdsTwoPhases
<1>7. QED
  BY <1>2, <1>4, <1>5, <1>6 DEF result

LEMMA RequiredOK ==
  ASSUME NEW phases, IsSequence(phases), NEW intent, NEW total \in Nat, total >= 3
  PROVE  IsSequence(Required(phases, intent, total)) /\ Len(Required(phases, intent, total)) >= 2
<1> DEFINE scanned == WithContext(phases)
           designed == IF Len(scanned) < total THEN WithDesign(scanned, intent) ELSE scanned
           reported == IF Len(designed) < total THEN WithReport(designed) ELSE designed
           linked(i) ==
             LET deps == reported[i].deps \cap {reported[j].id : j \in 1 .. i - 1} IN
             [reported[i] EXCEPT !.deps =
               IF deps = {} /\ reported[i].id # <<"context_scan">> THEN Before(reported, i) ELSE deps]
           all == [i \in DOMAIN reported |-> linked(i)]
<1>1. IsSequence(scanned) /\ Len(scanned) >= 1 /\ <<"context_scan">> \in LdIds(scanned)
      /\ Len(scanned) \in Nat
  BY WithContextOK, SequenceFacts
<1>2. IsSequence(designed) /\ Len(designed) >= 2
  <2> HIDE DEF scanned
  <2>1. QED
    BY <1>1, WithDesignOK
<1>3. IsSequence(reported) /\ Len(reported) >= 2 /\ Len(reported) \in Nat
      /\ DOMAIN reported = 1 .. Len(reported)
  <2> HIDE DEF designed
  <2> DEFINE report == DraftPhase("final_report", "agent", Before(designed, Len(designed) + 1))
             more == Append(designed, report)
  <2>1. reported = designed \/ reported = more
    BY DEF WithReport
  <2>2. IsSequence(more) /\ Len(more) = Len(designed) + 1 /\ Len(designed) \in Nat
    <3> HIDE DEF report
    <3>1. QED
      BY <1>2, SequenceFacts
  <2> HIDE DEF more, reported
  <2>3. IsSequence(reported) /\ Len(reported) >= 2
    BY <1>2, <2>1, <2>2
  <2>4. QED
    BY <2>3, SequenceFacts
<1> DEFINE n == Len(reported)
<1>4. all = [i \in 1 .. n |-> all[i]]
  <2> HIDE DEF linked, reported
  <2>1. QED
    BY <1>3
<1>5. Required(phases, intent, total) = Limited(all, total)
  BY DEF Required
<1> HIDE DEF all, reported
<1>6. IsSequence(all) /\ Len(all) = n
  <2> HIDE DEF n
  <2>1. n \in Nat
    BY <1>3 DEF n
  <2>2. QED
    BY <1>4, <2>1, FunctionIsSequence
<1>7. IsSequence(Limited(all, total)) /\ Len(Limited(all, total)) = ClampTo(0, total, n)
  BY <1>6, LimitedPrefix
<1>8. ClampTo(0, total, n) >= 2
  BY <1>3 DEF ClampTo
<1>9. QED
  BY <1>5, <1>7, <1>8

LEMMA ConcatIsSequence ==
  ASSUME NEW s, IsSequence(s), NEW t, IsSequence(t)
  PROVE  IsSequence(s \o t)
<1> DEFINE S == Range(s) \cup Range(t)
<1>1. s \in Seq(S) /\ t \in Seq(S)
  BY DEF IsSequence
<1> HIDE DEF S
<1>2. s \o t \in Seq(S)
  BY <1>1, ConcatProperties, Zenon
<1>3. QED
  BY <1>2, SeqIsSequence

\* repo_validation_candidates_for
LEMMA RepoCommandsOK ==
  ASSUME NEW intent, NEW found \in LdFound
  PROVE  IsSequence(RepoCommands(intent, found))
<1>1. CommandsFor(intent) \in Seq(SafeCommands)
  <2>1. /\ <<"build", "lint", "test">> \in Seq(SafeCommands) /\ << >> \in Seq(SafeCommands)
        /\ <<"venv", "build">> \in Seq(SafeCommands) /\ <<"venv", "pytest">> \in Seq(SafeCommands)
    BY DEF SafeCommands
  <2>2. QED
    BY <2>1 DEF CommandsFor
<1>2. IsSequence(CommandsFor(intent))
  BY <1>1, SeqIsSequence
<1>3. IsSequence(found)
  BY LdAssumption
<1>4. QED
  BY <1>2, <1>3 DEF RepoCommands

\* A plan has the five parts it is made of.
LEMMA PlanMade ==
  ASSUME NEW intent, NEW phases, IsSequence(phases), Len(phases) >= 2,
         NEW limits \in [total : Nat, retries : Nat, commands : Nat], limits.total >= 3,
         NEW commands, IsSequence(commands), NEW rev
  PROVE  PlanOK([intent |-> intent, phases |-> phases, limits |-> limits,
                 commands |-> commands, rev |-> rev])
BY DEF PlanOK

\* The two ways to plan: create_draft without a model, and _normalize.
LEMMA HeuristicPlanOK ==
  ASSUME NEW intent, NEW found \in LdFound
  PROVE  PlanOK(HeuristicPlan(intent, found))
<1>1. /\ LimitsFor(intent) \in [total : Nat, retries : Nat, commands : Nat]
      /\ LimitsFor(intent).total >= 3
  BY DEF LimitsFor
<1>2. IsSequence(Template(intent)) /\ Len(Template(intent)) >= 2
  BY TemplateOK
<1>3. IsSequence(RepoCommands(intent, found))
  BY RepoCommandsOK
<1>4. QED
  BY <1>1, <1>2, <1>3, PlanMade DEF HeuristicPlan

LEMMA NormalizedPlanOK ==
  ASSUME NEW intent, NEW plan \in LdPlans, NEW found \in LdFound
  PROVE  PlanOK(NormalizedPlan(intent, plan, found))
<1> DEFINE limits == Clamped(plan.limits)
           local == RepoCommands(intent, found)
           phases == Required(Normalized(plan.phases, limits.total), intent, limits.total)
           commands == IF local # << >> THEN local ELSE Sanitized(plan.commands)
<1>1. /\ IsSequence(plan.phases) /\ IsSequence(plan.commands)
      /\ plan.limits \in [total : Int, retries : Int, commands : Int]
  BY LdAssumption
<1>2. limits \in [total : Nat, retries : Nat, commands : Nat] /\ limits.total >= 3
  BY <1>1 DEF Clamped, ClampTo
<1> HIDE DEF limits
<1>3. limits.total \in Nat /\ limits.total >= 3
  BY <1>2
<1>4. IsSequence(Normalized(plan.phases, limits.total))
  BY <1>1, <1>3, NormalizedIsSequence
<1>5. IsSequence(phases) /\ Len(phases) >= 2
  BY <1>3, <1>4, RequiredOK
<1>6. IsSequence(Sanitized(plan.commands))
  BY <1>1, SanitizedSafe, SeqIsSequence
<1>7. IsSequence(commands)
  BY <1>6, RepoCommandsOK
<1>8. NormalizedPlan(intent, plan, found) =
        [intent |-> intent, phases |-> phases, limits |-> limits, commands |-> commands, rev |-> 0]
  BY DEF NormalizedPlan, limits
<1> HIDE DEF local, phases, commands
<1>9. QED
  BY <1>2, <1>5, <1>7, <1>8, PlanMade

\* revise_draft and accept_user_review keep what the planner made.
LEMMA FeedbackOK ==
  ASSUME NEW plan, PlanOK(plan), NEW tests
  PROVE  PlanOK(Feedback(plan, tests)) /\ PlanOK([plan EXCEPT !.rev = @ + 1])
<1> DEFINE more == IF tests /\ plan.intent = "web_feature"
                   THEN plan.commands \o Missing("test", plan.commands)
                          \o Missing("lint", plan.commands)
                   ELSE plan.commands
<1>1. \A c, s : IsSequence(Missing(c, s))
  <2>1. ASSUME NEW c, NEW s PROVE IsSequence(Missing(c, s))
    <3>1. <<c>> \in Seq({c}) /\ << >> \in Seq({c})
      OBVIOUS
    <3>2. IsSequence(<<c>>) /\ IsSequence(<< >>)
      BY <3>1, SeqIsSequence
    <3>3. QED
      BY <3>2 DEF Missing
  <2>2. QED
    BY <2>1
<1>2. /\ IsSequence(plan.phases) /\ Len(plan.phases) >= 2 /\ IsSequence(plan.commands)
      /\ plan.limits \in [total : Nat, retries : Nat, commands : Nat] /\ plan.limits.total >= 3
  BY DEF PlanOK
<1>3. IsSequence(more)
  <2>1. IsSequence(plan.commands \o Missing("test", plan.commands))
    BY <1>1, <1>2, ConcatIsSequence
  <2>2. IsSequence((plan.commands \o Missing("test", plan.commands))
                     \o Missing("lint", plan.commands))
    BY <1>1, <2>1, ConcatIsSequence
  <2>3. QED
    BY <1>2, <2>2
<1>4. plan = [intent |-> plan.intent, phases |-> plan.phases, limits |-> plan.limits,
              commands |-> plan.commands, rev |-> plan.rev]
  BY DEF PlanOK
<1>5. Feedback(plan, tests) = [intent |-> plan.intent, phases |-> plan.phases,
        limits |-> plan.limits, commands |-> more, rev |-> plan.rev + 1]
  <2>1. Feedback(plan, tests) = [plan EXCEPT !.rev = plan.rev + 1, !.commands = more]
    BY Zenon DEF Feedback
  <2> HIDE DEF more
  <2>2. QED
    BY <1>4, <2>1
<1>6. [plan EXCEPT !.rev = @ + 1] = [intent |-> plan.intent, phases |-> plan.phases,
        limits |-> plan.limits, commands |-> plan.commands, rev |-> plan.rev + 1]
  BY <1>4
<1> HIDE DEF more
<1>7. PlanOK(Feedback(plan, tests))
  BY <1>2, <1>3, <1>5, PlanMade
<1>8. PlanOK([plan EXCEPT !.rev = @ + 1])
  BY <1>2, <1>6, PlanMade
<1>9. QED
  BY <1>7, <1>8

-----------------------------------------------------------------------------
(* Drafts *)

\* A draft with a plan the planner made, which failed the dry run for no other
\* reason than PlansValidate allows.
FailsWithReason(draft) ==
  draft.status = "dry_run_failed" =>
    \/ \E f \in DOMAIN draft.plan.limits : draft.plan.limits[f] = 0
    \/ DroppedCheck(draft.plan)
DraftOK(draft) == PlanOK(draft.plan) /\ FailsWithReason(draft)

PvInv ==
  /\ LdLoaded => DraftOK(ldFile)
  /\ \A p \in LdProcesses : Saves(p) => DraftOK(ldProcess[p].draft)

\* The invariant is kept by each command of the user and each step of a save.
LEMMA PvInitInvariant == LdInit => PvInv
BY Idles DEF LdInit, LdLoaded, PvInv, Saves

\* A process goes on to save a draft, or to do something else.
LEMMA PvKeeps ==
  ASSUME LdInv, PvInv, NEW p \in LdProcesses, NEW x, ldProcess' = [ldProcess EXCEPT ![p] = x],
         ldFile' = ldFile, x.pc \in {"saving", "writing"} => DraftOK(x.draft)
  PROVE  PvInv'
<1>1. /\ ldProcess'[p] = x
      /\ \A q \in LdProcesses \ {p} : ldProcess'[q] = ldProcess[q] /\ Saves(q)' = Saves(q)
  BY ProcessSet DEF LdInv
<1>2. Saves(p)' => x.pc \in {"saving", "writing"}
  BY <1>1 DEF Saves
<1>3. \A q \in LdProcesses : Saves(q)' => DraftOK(ldProcess'[q].draft)
  BY <1>1, <1>2 DEF PvInv
<1>4. LdLoaded' => DraftOK(ldFile')
  BY DEF PvInv, LdLoaded
<1>5. QED
  BY <1>3, <1>4 DEF PvInv, DraftOK, FailsWithReason

LEMMA PvSavesKeeps ==
  ASSUME LdInv, PvInv, NEW p \in LdProcesses, NEW draft, DraftOK(draft), NEW then,
         LdSaves(p, draft, then), ldFile' = ldFile
  PROVE  PvInv'
<1> DEFINE x == LdDoes("saving", draft, then, ldProcess[p].run)
<1>1. ldProcess' = [ldProcess EXCEPT ![p] = x]
  BY DEF LdSaves
<1>2. x.draft = draft
  BY DEF LdDoes
<1> HIDE DEF x
<1>3. QED
  BY <1>1, <1>2, PvKeeps

LEMMA PvIdlesKeeps ==
  ASSUME LdInv, PvInv, NEW p \in LdProcesses, ldProcess' = [ldProcess EXCEPT ![p] = LdIdle],
         ldFile' = ldFile
  PROVE  PvInv'
BY PvKeeps, Idles

LEMMA PvStutterKeeps == PvInv /\ UNCHANGED <<ldFile, ldProcess>> => PvInv'
BY DEF PvInv, LdLoaded, Saves, DraftOK, FailsWithReason

LEMMA PvMakesKeeps ==
  ASSUME LdInv, PvInv, NEW p \in LdProcesses, NEW plan, PlanOK(plan), NEW questions,
         LdMakes(p, Draft(plan, questions, "awaiting_confirmation")), ldFile' = ldFile
  PROVE  PvInv'
<1> DEFINE draft == Draft(plan, questions, "awaiting_confirmation")
<1>1. draft.plan = plan /\ draft.status = "awaiting_confirmation"
  BY DraftFields
<1>2. LdSaves(p, draft, "idle") \/ UNCHANGED ldProcess
  BY DEF LdMakes
<1> HIDE DEF draft
<1>3. DraftOK(draft)
  BY <1>1 DEF DraftOK, FailsWithReason
<1>4. QED
  BY <1>2, <1>3, PvSavesKeeps, PvStutterKeeps

LEMMA PvReviseKeeps ==
  ASSUME LdInv, PvInv, NEW p \in LdProcesses, NEW asks, NEW tests, LdRevise(p, asks, tests)
  PROVE  PvInv'
<1>1. PlanOK(ldFile.plan) /\ ldFile' = ldFile
  BY DEF LdRevise, PvInv, DraftOK
<1>2. QED
  BY <1>1, FeedbackOK, PvMakesKeeps DEF LdRevise, Revised

LEMMA PvApproveKeeps == ASSUME LdInv, PvInv, NEW p \in LdProcesses, LdApprove(p) PROVE PvInv'
<1>1. PlanOK(ldFile.plan) /\ ldFile' = ldFile
  BY DEF LdApprove, PvInv, DraftOK
<1>2. QED
  BY <1>1, FeedbackOK, PvMakesKeeps DEF LdApprove

\* Of a draft that builds, the dry run finds nothing else wrong.
LEMMA PvConfirmKeeps == ASSUME LdInv, PvInv, NEW p \in LdProcesses, LdConfirm(p) PROVE PvInv'
<1> DEFINE draft == Draft(ldFile.plan, ldFile.questions, Verdict(ldFile))
<1>1. PlanOK(ldFile.plan) /\ LdMakes(p, draft) /\ ldFile' = ldFile
  BY DEF LdConfirm, PvInv, DraftOK
<1>2. /\ draft.plan = ldFile.plan /\ draft.status = Verdict(ldFile)
      /\ draft.spec = Synthesized(ldFile.plan)
  BY DraftFields
<1> HIDE DEF draft
<1>3. CASE LoopBuilds(draft.spec)
  <2>1. LdSaves(p, draft, "idle")
    BY <1>1, <1>3 DEF LdMakes
  <2>2. draft.status = "dry_run_failed" => SpecErrors(Synthesized(ldFile.plan)) # {}
    BY <1>2 DEF Verdict
  <2>3. FailsWithReason(draft)
    BY <1>1, <1>2, <1>3, <2>2, DryRunPasses DEF FailsWithReason
  <2>4. QED
    BY <1>1, <1>2, <2>1, <2>3, PvSavesKeeps DEF DraftOK
<1>4. CASE ~LoopBuilds(draft.spec)
  BY <1>1, <1>4, PvStutterKeeps DEF LdMakes
<1>5. QED
  BY <1>3, <1>4

LEMMA PvSaveLoopKeeps == ASSUME LdInv, PvInv, NEW p \in LdProcesses, LdSaveLoop(p) PROVE PvInv'
BY PvSavesKeeps DEF LdSaveLoop, PvInv

LEMMA PvMarkKeeps ==
  ASSUME LdInv, PvInv, NEW p \in LdProcesses, NEW from, NEW status, status # "dry_run_failed",
         NEW then, LdMark(p, from, status, then)
  PROVE  PvInv'
<1> DEFINE draft == [ldFile EXCEPT !.status = status]
<1>1. CASE LdLoaded
  <2>1. LdSaves(p, draft, then) /\ ldFile' = ldFile
    BY <1>1 DEF LdMark
  <2>2. draft.plan = ldFile.plan /\ draft.status = status
    BY <1>1, FileMarked
  <2> HIDE DEF draft
  <2>3. DraftOK(draft)
    BY <1>1, <2>2 DEF PvInv, DraftOK, FailsWithReason
  <2>4. QED
    BY <2>1, <2>3, PvSavesKeeps
<1>2. CASE ~LdLoaded
  BY <1>2, PvIdlesKeeps DEF LdMark
<1>3. QED
  BY <1>1, <1>2

LEMMA PvExecuteKeeps == ASSUME LdInv, PvInv, NEW p \in LdProcesses, LdExecute(p) PROVE PvInv'
<1> DEFINE x == LdDoes("marking", LdNone, "idle", ldFile.spec)
<1>1. ldProcess' = [ldProcess EXCEPT ![p] = x] /\ ldFile' = ldFile
  BY DEF LdExecute
<1>2. x.pc = "marking"
  BY DEF LdDoes
<1> HIDE DEF x
<1>3. QED
  BY <1>1, <1>2, PvKeeps

LEMMA PvCancelKeeps == ASSUME LdInv, PvInv, NEW p \in LdProcesses, LdCancel(p) PROVE PvInv'
<1>1. ldFile' = LdNone /\ ldProcess' = ldProcess
  BY DEF LdCancel
<1>2. ~LdLoaded'
  BY <1>1 DEF LdLoaded
<1>3. QED
  BY <1>1, <1>2 DEF PvInv, Saves, DraftOK, FailsWithReason

LEMMA PvTruncateKeeps == ASSUME LdInv, PvInv, NEW p \in LdProcesses, LdTruncate(p) PROVE PvInv'
<1> DEFINE x == LdDoes("writing", ldProcess[p].draft, ldProcess[p].then, ldProcess[p].run)
<1>1. /\ ldProcess' = [ldProcess EXCEPT ![p] = x] /\ ldFile' = LdTorn
      /\ ldProcess[p].pc = "saving"
  BY DEF LdTruncate
<1>2. x.draft = ldProcess[p].draft
  BY DEF LdDoes
<1> HIDE DEF x
<1>3. DraftOK(x.draft) /\ ~LdLoaded'
  BY <1>1, <1>2 DEF PvInv, Saves, LdLoaded
<1>4. /\ ldProcess'[p] = x
      /\ \A q \in LdProcesses \ {p} : ldProcess'[q] = ldProcess[q] /\ Saves(q)' = Saves(q)
  BY <1>1, ProcessSet DEF LdInv
<1>5. QED
  BY <1>3, <1>4 DEF PvInv, DraftOK, FailsWithReason

LEMMA PvWriteKeeps == ASSUME LdInv, PvInv, NEW p \in LdProcesses, LdWrite(p) PROVE PvInv'
<1> DEFINE old == ldProcess[p]
           x == IF old.then = "idle" THEN LdIdle ELSE LdDoes("running", LdNone, old.then, old.run)
<1>1. /\ ldProcess' = [ldProcess EXCEPT ![p] = x] /\ ldFile' = old.draft /\ old.pc = "writing"
  BY DEF LdWrite
<1>2. x.pc \in {"idle", "running"}
  BY Idles DEF LdDoes
<1> HIDE DEF x
<1>3. DraftOK(ldFile')
  BY <1>1 DEF PvInv, Saves
<1>4. /\ ldProcess'[p] = x
      /\ \A q \in LdProcesses \ {p} : ldProcess'[q] = ldProcess[q] /\ Saves(q)' = Saves(q)
  BY <1>1, ProcessSet DEF LdInv
<1>5. ~Saves(p)'
  BY <1>2, <1>4 DEF Saves
<1>6. QED
  BY <1>3, <1>4, <1>5 DEF PvInv, DraftOK, FailsWithReason

LEMMA PvNextKeeps == LdInv /\ PvInv /\ [LdNext]_ldVars => PvInv'
<1> SUFFICES ASSUME LdInv, PvInv, [LdNext]_ldVars PROVE PvInv'
  OBVIOUS
<1>1. CASE LdNext
  <2>1. PICK p \in LdProcesses :
          \/ \E analysis \in Analyses, found \in LdFound :
               \/ LdPlan(p, HeuristicPlan(analysis[1], found), analysis[2])
               \/ \E plan \in LdPlans :
                    LdPlan(p, NormalizedPlan(analysis[1], plan, found), analysis[2])
          \/ \E asks \in BOOLEAN, tests \in BOOLEAN : LdRevise(p, asks, tests)
          \/ LdApprove(p) \/ LdConfirm(p) \/ LdSaveLoop(p) \/ LdCancel(p)
          \/ LdTruncate(p) \/ LdWrite(p)
          \/ LdExecute(p)
          \/ LdMark(p, "marking", "running", "running")
          \/ \E status \in {"completed", "ready_to_run"} : LdMark(p, "running", status, "idle")
          \/ LdCrash(p)
    BY <1>1 DEF LdNext
  <2>2. ASSUME NEW plan, PlanOK(plan), NEW questions, LdPlan(p, plan, questions) PROVE PvInv'
    BY <2>2, PvMakesKeeps DEF LdPlan
  <2>3. ASSUME NEW analysis \in Analyses, NEW found \in LdFound,
               LdPlan(p, HeuristicPlan(analysis[1], found), analysis[2])
        PROVE  PvInv'
    BY <2>2, <2>3, HeuristicPlanOK
  <2>4. ASSUME NEW analysis \in Analyses, NEW found \in LdFound, NEW plan \in LdPlans,
               LdPlan(p, NormalizedPlan(analysis[1], plan, found), analysis[2])
        PROVE  PvInv'
    BY <2>2, <2>4, NormalizedPlanOK
  <2>5. ASSUME NEW asks \in BOOLEAN, NEW tests \in BOOLEAN, LdRevise(p, asks, tests) PROVE PvInv'
    BY <2>5, PvReviseKeeps
  <2>6. ASSUME LdMark(p, "marking", "running", "running") PROVE PvInv'
    BY <2>6, PvMarkKeeps
  <2>7. ASSUME NEW status \in {"completed", "ready_to_run"}, LdMark(p, "running", status, "idle")
        PROVE  PvInv'
    BY <2>7, PvMarkKeeps
  <2>8. ASSUME LdCrash(p) PROVE PvInv'
    BY <2>8, PvIdlesKeeps DEF LdCrash
  <2>9. QED
    BY <2>1, <2>3, <2>4, <2>5, <2>6, <2>7, <2>8, PvApproveKeeps, PvConfirmKeeps,
       PvSaveLoopKeeps, PvCancelKeeps, PvTruncateKeeps, PvWriteKeeps, PvExecuteKeeps
<1>2. CASE UNCHANGED ldVars
  BY <1>2, PvStutterKeeps DEF ldVars
<1>3. QED
  BY <1>1, <1>2

\* Whatever the model plans and however the draft is revised, confirming it finds
\* no error in its specification that the planner let through, but a limit of zero
\* or a verification that was dropped for want of a command (create_draft,
\* revise_draft, confirm_draft, validate_loop_spec).
THEOREM PlansAlwaysValidate == LdSpec => []PlansValidate
<1>1. PvInv => PlansValidate
  <2>1. SUFFICES ASSUME PvInv, ldFile.status = "dry_run_failed"
                 PROVE  \/ \E f \in DOMAIN ldFile.plan.limits : ldFile.plan.limits[f] = 0
                        \/ DroppedCheck(ldFile.plan)
    BY DEF PlansValidate
  <2>2. LdNone.status # "dry_run_failed" /\ LdTorn.status # "dry_run_failed"
    BY DEF LdNone, LdTorn
  <2>3. LdLoaded
    BY <2>1, <2>2 DEF LdLoaded
  <2>4. QED
    BY <2>1, <2>3 DEF PvInv, DraftOK, FailsWithReason
<1>2. QED
  BY <1>1, LdInitInvariant, LdNextKeeps, PvInitInvariant, PvNextKeeps, PTL DEF LdSpec

-----------------------------------------------------------------------------
(***************************************************************************)
(* Proofs about Stores, for any threads and limits: what was added is      *)
(* kept. AddedIsKept is not inductive: StInv says the same of every list   *)
(* somebody has read and is about to write back, which is why a record     *)
(* that comes between the two has to be exposed, and that an update still  *)
(* holds the lock and the file as it read it.                              *)
(***************************************************************************)

Rec == [number : Nat, closed : BOOLEAN]

\* Records of distinct numbers that were given out.
Numbered(records) ==
  /\ records \in Seq(Rec)
  /\ \A i \in DOMAIN records : records[i].number \in 1 .. stAdded
  /\ \A i, j \in DOMAIN records : records[i].number = records[j].number => i = j

\* What AddedIsKept says of the file, said of any list of records.
Has(records, n, closed) ==
  \E i \in DOMAIN records : records[i].number = n /\ (n \in closed => records[i].closed)
Kept(records) ==
  \A n \in 1 .. stAdded \ (stRemoved \cup stExposed) : Has(records, n, stClosed)

\* An update has the lock and the file; a rewriting has a list that is as good.
OperationOK(p) ==
  LET operation == stProc[p] IN
  /\ operation.pc \in {"idle", "update", "read", "rewrite"}
  /\ operation.pc = "update" =>
       /\ stLock = p /\ stKind \in StUpdated /\ operation.read = stFile
       /\ operation.op = "add" \/ (stKind = "todo" /\ operation.op \in {"close", "clear"})
       /\ operation.op = "close" => operation.target \in Numbers(stFile)
  /\ operation.pc \in {"read", "rewrite"} => stKind \in StAppended
  /\ operation.pc = "rewrite" =>
       /\ operation.op \in {"close", "prune"}
       /\ operation.op = "close" => operation.target \in Numbers(operation.read)
       /\ Numbered(operation.read) /\ Kept(operation.read)

StInv ==
  /\ stKind \in StUpdated \cup StAppended
  /\ stProc = [p \in StProcs |-> stProc[p]]
  /\ stAdded \in Nat /\ stClosed \subseteq 1 .. stAdded
  /\ Numbered(stFile) /\ Kept(stFile)
  /\ \A p \in StProcs : OperationOK(p)

-----------------------------------------------------------------------------
(* Lists of records *)

Distinct(records) ==
  \A i, j \in DOMAIN records : records[i].number = records[j].number => i = j
From(result, records) ==
  \A i \in DOMAIN result : \E j \in DOMAIN records : result[i] = records[j]

LEMMA NumbersOf ==
  ASSUME NEW records, NEW n
  PROVE  n \in Numbers(records) <=> \E i \in DOMAIN records : records[i].number = n
BY DEF Numbers, ToSet

LEMMA TrimmedKeeps ==
  ASSUME NEW records \in Seq(Rec), Distinct(records)
  PROVE  LET result == Trimmed(records) IN
         /\ result \in Seq(Rec) /\ Distinct(result) /\ From(result, records)
         /\ records # << >> => \E i \in DOMAIN result : result[i] = records[Len(records)]
<1> DEFINE n == Len(records)
           d == n - StMaxKept
           result == LastKept(records)
<1>1. n \in Nat /\ DOMAIN records = 1 .. n /\ StMaxKept \in Nat \ {0}
      /\ \A i \in 1 .. n : records[i] \in Rec
  BY StAssumption
<1> HIDE DEF n
<1>2. CASE n > StMaxKept
  <2>1. Trimmed(records) = result
    BY <1>2 DEF Trimmed, n
  <2>2. d \in Nat /\ d < n /\ n - d = StMaxKept
    BY <1>1, <1>2
  <2>3. /\ DOMAIN result = 1 .. StMaxKept /\ Len(result) = StMaxKept
        /\ result = [i \in 1 .. StMaxKept |-> result[i]]
        /\ \A i \in 1 .. StMaxKept : result[i] = records[i + d] /\ i + d \in 1 .. n
    <3>1. result = SubSeq(records, d + 1, n)
      BY DEF LastKept, n
    <3>2. d + 1 \in 1 .. n + 1 /\ n \in 0 .. n
      BY <1>1, <2>2
    <3>3. result = [i \in 1 .. n - (d + 1) + 1 |-> records[i + (d + 1) - 1]]
      BY <1>1, <2>2, <3>1
    <3>4. n - (d + 1) + 1 = StMaxKept
      BY <1>1, <2>2
    <3>5. \A i \in 1 .. StMaxKept : i + (d + 1) - 1 = i + d /\ i + d \in 1 .. n
      BY <1>1, <2>2
    <3> HIDE DEF d, result
    <3>6. result = [i \in 1 .. StMaxKept |-> records[i + d]]
      BY <3>3, <3>4, <3>5
    <3>7. QED
      BY <1>1, <3>5, <3>6
  <2> HIDE DEF d, result
  <2>4. result \in Seq(Rec)
    <3>1. \A i \in 1 .. StMaxKept : result[i] \in Rec
      BY <1>1, <2>3
    <3>2. result \in [1 .. StMaxKept -> Rec]
      BY <2>3, <3>1
    <3>3. QED
      BY <1>1, <3>2
  <2>5. Distinct(result)
    <3>1. SUFFICES ASSUME NEW i \in 1 .. StMaxKept, NEW j \in 1 .. StMaxKept,
                          result[i].number = result[j].number
                   PROVE  i = j
      BY <2>3 DEF Distinct
    <3>2. i + d = j + d
      BY <1>1, <2>3, <3>1 DEF Distinct
    <3>3. QED
      BY <1>1, <2>2, <3>2
  <2>6. From(result, records)
    BY <1>1, <2>3 DEF From
  <2>7. StMaxKept \in DOMAIN result /\ result[StMaxKept] = records[n]
    BY <1>1, <2>2, <2>3
  <2>8. QED
    BY <2>1, <2>4, <2>5, <2>6, <2>7 DEF n
<1>3. CASE ~(n > StMaxKept)
  <2>1. Trimmed(records) = records
    BY <1>3 DEF Trimmed, n
  <2>2. records # << >> => n \in DOMAIN records
    <3>1. records # << >> => n # 0
      BY DEF n
    <3>2. QED
      BY <1>1, <3>1
  <2>3. QED
    BY <2>1, <2>2 DEF From, n
<1>4. QED
  BY <1>2, <1>3

LEMMA ClearedKeeps ==
  ASSUME NEW records \in Seq(Rec), Distinct(records)
  PROVE  LET result == TodoCleared(records) IN
         result \in Seq(Rec) /\ Distinct(result) /\ From(result, records)
<1> DEFINE n == Len(records)
           B == Seq(Rec)
           Op(k, r) == IF records[k].closed THEN r ELSE Append(r, records[k])
           step == [k \in 1 .. n |-> [r \in B |-> Op(k, r)]]
           Table(g) == g = [t \in SUBSET (1 .. n) |->
                              IF t = {} THEN << >> ELSE Op(Max(t), g[t \ {Max(t)}])]
           iter == CHOOSE g : Table(g)
<1>1. n \in Nat /\ DOMAIN records = 1 .. n /\ \A i \in 1 .. n : records[i] \in Rec
  OBVIOUS
<1>2. TodoCleared(records) = iter[1 .. n]
  BY <1>1 DEF TodoCleared, FoldLeft, MapThenFoldSet
<1>3. ASSUME NEW k \in 1 .. n, NEW r \in B PROVE Op(k, r) \in B
  <2>1. records[k] \in Rec
    BY <1>1
  <2> HIDE DEF n
  <2>2. Append(r, records[k]) \in B
    BY <2>1
  <2>3. QED
    BY <2>2
<1>4. step \in [1 .. n -> [B -> B]] /\ << >> \in B /\ n \in Nat
  BY <1>1, <1>3
<1>5. \E g : Table(g)
  <2>1. PICK g \in [SUBSET (1 .. n) -> B] : \A t \in SUBSET (1 .. n) : Folded(g, t, << >>, step)
    <3> HIDE DEF step, B, n
    <3>1. QED
      BY <1>4, FoldTable
  <2>2. ASSUME NEW t \in SUBSET (1 .. n), t # {} PROVE g[t] = Op(Max(t), g[t \ {Max(t)}])
    <3>1. Max(t) \in 1 .. n /\ t \ {Max(t)} \in SUBSET (1 .. n)
      BY <1>1, <2>2, MaxOfBounded
    <3>2. g[t \ {Max(t)}] \in B
      BY <2>1, <3>1
    <3>3. g[t] = step[Max(t)][g[t \ {Max(t)}]]
      BY <2>1, <2>2 DEF Folded
    <3> HIDE DEF Op
    <3>4. QED
      BY <3>1, <3>2, <3>3
  <2>3. ASSUME NEW t \in SUBSET (1 .. n), t = {} PROVE g[t] = << >>
    BY <2>1, <2>3 DEF Folded
  <2> HIDE DEF Op
  <2>4. \A t \in SUBSET (1 .. n) : g[t] = IF t = {} THEN << >> ELSE Op(Max(t), g[t \ {Max(t)}])
    BY <2>2, <2>3
  <2>5. g = [t \in SUBSET (1 .. n) |-> g[t]]
    BY <2>1
  <2>6. Table(g)
    BY <2>4, <2>5, Zenon
  <2>7. QED
    BY <2>6
<1>6. Table(iter)
  BY <1>5
<1> HIDE DEF iter
<1>7. iter[{}] = << >>
  BY <1>6
<1>8. ASSUME NEW t \in SUBSET (1 .. n), t # {}, iter[t \ {Max(t)}] \in B
      PROVE  iter[t] = step[Max(t)][iter[t \ {Max(t)}]]
  <2>1. Max(t) \in 1 .. n
    BY <1>1, <1>8, MaxOfBounded
  <2> HIDE DEF Op
  <2>2. iter[t] = Op(Max(t), iter[t \ {Max(t)}])
    BY <1>6, <1>8
  <2>3. QED
    BY <1>8, <2>1, <2>2
<1>9. PICK h \in [0 .. n -> B] :
        /\ h[0] = << >> /\ h[n] = iter[1 .. n]
        /\ \A k \in 1 .. n : h[k] = step[k][h[k - 1]]
  <2>1. IsFold(iter, n, B, << >>, step)
    BY <1>7, <1>8, Zenon DEF IsFold
  <2> HIDE DEF step, n, B
  <2>2. QED
    BY <1>4, <2>1, FoldUnrolls
<1> DEFINE Early(k) == \A i \in DOMAIN h[k] : \E j \in 1 .. k : h[k][i] = records[j]
           T == {k \in 0 .. n : Distinct(h[k]) /\ Early(k)}
<1>10. 0 \in T
  <2>1. h[0] = << >> /\ DOMAIN h[0] = {} /\ 0 \in 0 .. n
    BY <1>1, <1>9
  <2>2. QED
    BY <2>1 DEF Distinct
<1>11. ASSUME NEW k \in 0 .. n - 1, k \in T PROVE k + 1 \in T
  <2>1. k + 1 \in 1 .. n /\ k \in 0 .. n /\ k + 1 \in 0 .. n /\ (k + 1) - 1 = k /\ k \in Nat
    BY <1>1
  <2>2. h[k + 1] = Op(k + 1, h[k]) /\ h[k] \in B
    BY <1>9, <2>1
  <2>3. CASE h[k + 1] = h[k]
    BY <1>11, <2>1, <2>3
  <2>4. CASE h[k + 1] = Append(h[k], records[k + 1])
    <3> DEFINE old == h[k]
               new == h[k + 1]
               m == Len(old)
    <3>1. /\ m \in Nat /\ DOMAIN old = 1 .. m /\ DOMAIN new = 1 .. m + 1
          /\ new[m + 1] = records[k + 1] /\ \A i \in 1 .. m : new[i] = old[i]
      BY <2>2, <2>4
    <3>2. Early(k) /\ Distinct(old)
      BY <1>11
    <3> HIDE DEF old, new, m
    <3>3. ASSUME NEW i \in 1 .. m PROVE new[i].number # records[k + 1].number
      <4>1. PICK j \in 1 .. k : old[i] = records[j]
        BY <3>1, <3>2 DEF old
      <4>2. j # k + 1 /\ j \in DOMAIN records /\ k + 1 \in DOMAIN records
        BY <1>1, <2>1
      <4>3. QED
        BY <3>1, <4>1, <4>2 DEF Distinct
    <3>4. Distinct(new)
      <4>1. SUFFICES ASSUME NEW i \in 1 .. m + 1, NEW j \in 1 .. m + 1,
                            new[i].number = new[j].number
                     PROVE  i = j
        BY <3>1 DEF Distinct
      <4>2. CASE i \in 1 .. m /\ j \in 1 .. m
        BY <3>1, <3>2, <4>1, <4>2 DEF Distinct
      <4>3. CASE i = m + 1 \/ j = m + 1
        BY <3>1, <3>3, <4>1, <4>3
      <4>4. QED
        BY <3>1, <4>2, <4>3
    <3>5. Early(k + 1)
      <4>1. SUFFICES ASSUME NEW i \in 1 .. m + 1 PROVE \E j \in 1 .. k + 1 : new[i] = records[j]
        BY <3>1 DEF new
      <4>2. CASE i = m + 1
        BY <2>1, <3>1, <4>2
      <4>3. CASE i \in 1 .. m
        <5>1. PICK j \in 1 .. k : old[i] = records[j]
          BY <3>1, <3>2, <4>3 DEF old
        <5>2. j \in 1 .. k + 1
          BY <2>1
        <5>3. QED
          BY <3>1, <4>3, <5>1, <5>2
      <4>4. QED
        BY <3>1, <4>2, <4>3
    <3>6. QED
      BY <2>1, <3>4, <3>5 DEF new
  <2>5. QED
    BY <2>2, <2>3, <2>4
<1> HIDE DEF T
<1>12. 0 .. n \subseteq T
  BY <1>1, <1>10, <1>11, NumberInduction
<1>13. n \in T
  BY <1>1, <1>12
<1> HIDE DEF iter, step
<1>14. Distinct(h[n]) /\ From(h[n], records)
  BY <1>1, <1>13 DEF T, From
<1>15. QED
  BY <1>1, <1>2, <1>9, <1>14

LEMMA FromKeeps ==
  ASSUME NEW records, NEW result, Distinct(records), From(result, records),
         NEW n \in Numbers(result), NEW closed, Has(records, n, closed)
  PROVE  Has(result, n, closed)
<1>1. PICK i \in DOMAIN result : result[i].number = n
  BY NumbersOf
<1>2. PICK j \in DOMAIN records : result[i] = records[j]
  BY DEF From
<1>3. PICK k \in DOMAIN records : records[k].number = n /\ (n \in closed => records[k].closed)
  BY DEF Has
<1>4. j = k
  BY <1>1, <1>2, <1>3 DEF Distinct
<1>5. QED
  BY <1>1, <1>2, <1>3, <1>4 DEF Has

LEMMA ItemClosedKeeps ==
  ASSUME NEW records \in Seq(Rec), Distinct(records), NEW n
  PROVE  LET result == ItemClosed(records, n) IN
         /\ result \in Seq(Rec) /\ Distinct(result) /\ Numbers(result) = Numbers(records)
         /\ \A m, closed : Has(records, m, closed) => Has(result, m, closed \cup {n})
<1> DEFINE result == ItemClosed(records, n)
<1>1. \A i \in DOMAIN records : records[i] \in Rec
  OBVIOUS
<1>2. DOMAIN result = DOMAIN records /\ Len(records) \in Nat /\ DOMAIN records = 1 .. Len(records)
  BY DEF ItemClosed
<1>3. ASSUME NEW i \in DOMAIN records
      PROVE  /\ result[i] \in Rec /\ result[i].number = records[i].number
             /\ result[i].closed <=> records[i].closed \/ records[i].number = n
  <2>1. result[i] = IF records[i].number = n THEN [records[i] EXCEPT !.closed = TRUE] ELSE records[i]
    BY DEF ItemClosed
  <2>2. records[i] \in Rec
    BY <1>1
  <2>3. QED
    BY <2>1, <2>2 DEF Rec
<1>4. result = [i \in 1 .. Len(records) |-> result[i]]
  BY <1>2 DEF ItemClosed
<1> HIDE DEF result
<1>5. result \in [1 .. Len(records) -> Rec]
  BY <1>2, <1>3, <1>4
<1>6. result \in Seq(Rec)
  BY <1>2, <1>5
<1>7. Distinct(result)
  BY <1>2, <1>3 DEF Distinct
<1>8. Numbers(result) = Numbers(records)
  <2>1. \A m : m \in Numbers(result) <=> m \in Numbers(records)
    BY <1>2, <1>3, NumbersOf
  <2>2. QED
    BY <2>1
<1>9. ASSUME NEW m, NEW closed, Has(records, m, closed) PROVE Has(result, m, closed \cup {n})
  <2>1. PICK i \in DOMAIN records : records[i].number = m /\ (m \in closed => records[i].closed)
    BY <1>9 DEF Has
  <2>2. result[i].number = m /\ (m \in closed \cup {n} => result[i].closed) /\ i \in DOMAIN result
    BY <1>2, <1>3, <2>1
  <2>3. QED
    BY <2>2 DEF Has
<1>10. QED
  BY <1>6, <1>7, <1>8, <1>9 DEF result

\* A record more, the newest.
LEMMA AddedKeeps ==
  ASSUME stAdded \in Nat, stClosed \subseteq 1 .. stAdded, NEW records, Numbered(records)
  PROVE  LET result == Append(records, NewRecord) IN
         /\ result \in Seq(Rec) /\ Distinct(result)
         /\ \A i \in DOMAIN result : result[i].number \in 1 .. stAdded + 1
         /\ result # << >> /\ result[Len(result)].number = stAdded + 1
         /\ \A n : Has(records, n, stClosed) => Has(result, n, stClosed)
         /\ Has(result, stAdded + 1, stClosed)
<1> DEFINE result == Append(records, NewRecord)
           m == Len(records)
<1>1. records \in Seq(Rec) /\ m \in Nat /\ DOMAIN records = 1 .. m
  BY DEF Numbered
<1>2. NewRecord \in Rec /\ NewRecord.number = stAdded + 1
  BY DEF NewRecord, Rec
<1>3. result \in Seq(Rec)
  <2> HIDE DEF m
  <2>1. QED
    BY <1>1, <1>2
<1>4. /\ DOMAIN result = 1 .. m + 1 /\ Len(result) = m + 1 /\ result[m + 1] = NewRecord
      /\ \A i \in 1 .. m : result[i] = records[i]
  BY <1>1
<1>5. result # << >>
  BY <1>1
<1> HIDE DEF result, m
<1>6. \A i \in 1 .. m : records[i].number \in 1 .. stAdded
  BY <1>1 DEF Numbered
<1>7. ASSUME NEW i \in DOMAIN result PROVE result[i].number \in 1 .. stAdded + 1
  BY <1>1, <1>2, <1>4, <1>6
<1>8. Distinct(result)
  <2>1. SUFFICES ASSUME NEW i \in 1 .. m + 1, NEW j \in 1 .. m + 1, result[i].number = result[j].number
                 PROVE  i = j
    BY <1>4 DEF Distinct
  <2>2. CASE i \in 1 .. m /\ j \in 1 .. m
    BY <1>1, <1>4, <2>1, <2>2 DEF Numbered
  <2>3. CASE i = m + 1 \/ j = m + 1
    BY <1>1, <1>2, <1>4, <1>6, <2>1, <2>3
  <2>4. QED
    BY <1>1, <2>2, <2>3
<1>9. ASSUME NEW n, Has(records, n, stClosed) PROVE Has(result, n, stClosed)
  <2>1. PICK i \in 1 .. m : records[i].number = n /\ (n \in stClosed => records[i].closed)
    BY <1>1, <1>9 DEF Has
  <2>2. i \in DOMAIN result
    BY <1>1, <1>4
  <2>3. QED
    BY <1>4, <2>1, <2>2 DEF Has
<1>10. Has(result, stAdded + 1, stClosed)
  <2>1. m + 1 \in DOMAIN result /\ stAdded + 1 \notin stClosed
    BY <1>1, <1>4
  <2>2. QED
    BY <1>2, <1>4, <2>1 DEF Has
<1>11. QED
  BY <1>2, <1>3, <1>4, <1>5, <1>7, <1>8, <1>9, <1>10 DEF result

-----------------------------------------------------------------------------
(* What an operation makes of a list it may trust *)

Adds(operation) == IF operation.op = "add" THEN stAdded + 1 ELSE stAdded
Closes(operation) ==
  IF operation.op = "close" THEN stClosed \cup {operation.target} ELSE stClosed

LEMMA ResultKeeps ==
  ASSUME StInv, NEW p \in StProcs, stProc[p].pc \in {"update", "rewrite"}
  PROVE  LET operation == stProc[p]
             result    == StResult(operation)
         IN /\ result \in Seq(Rec) /\ Distinct(result)
            /\ \A i \in DOMAIN result : result[i].number \in 1 .. Adds(operation)
            /\ \A n \in Numbers(result) :
                 Has(operation.read, n, stClosed) => Has(result, n, Closes(operation))
            /\ operation.op = "add" => Has(result, stAdded + 1, Closes(operation))
<1> DEFINE operation == stProc[p]
           read == operation.read
           result == StResult(operation)
<1>1. /\ stAdded \in Nat /\ stClosed \subseteq 1 .. stAdded /\ OperationOK(p)
      /\ Numbered(read)
  <2>1. OperationOK(p) /\ Numbered(stFile)
    BY DEF StInv
  <2>2. QED
    BY <2>1 DEF StInv, OperationOK
<1>2. read \in Seq(Rec) /\ Distinct(read) /\ \A i \in DOMAIN read : read[i].number \in 1 .. stAdded
  BY <1>1 DEF Numbered, Distinct
<1>3. \/ operation.op = "add" /\ stKind \in StUpdated
      \/ operation.op \in {"close", "clear", "prune"}
  BY <1>1 DEF OperationOK
<1>4. ASSUME NEW list, From(list, read) PROVE \A i \in DOMAIN list : list[i].number \in 1 .. stAdded
  BY <1>2, <1>4 DEF From
<1>5. CASE operation.op = "add" /\ stKind \in StUpdated
  <2> DEFINE more == Append(read, NewRecord)
  <2>1. /\ more \in Seq(Rec) /\ Distinct(more)
        /\ \A i \in DOMAIN more : more[i].number \in 1 .. stAdded + 1
        /\ more # << >> /\ more[Len(more)].number = stAdded + 1
        /\ \A n : Has(read, n, stClosed) => Has(more, n, stClosed)
        /\ Has(more, stAdded + 1, stClosed)
    BY <1>1, AddedKeeps
  <2>2. Adds(operation) = stAdded + 1 /\ Closes(operation) = stClosed
    BY <1>5 DEF Adds, Closes
  <2> HIDE DEF more
  <2>3. CASE stKind \in {"session", "todo"}
    <3>1. result = more
      BY <1>5, <2>3 DEF StResult, SessionAppended, TodoAdded, more
    <3>2. QED
      BY <2>1, <2>2, <3>1
  <2>4. CASE stKind = "context"
    <3>1. result = Trimmed(more)
      BY <1>5, <2>4 DEF StResult, ContextAdded, more
    <3>2. /\ result \in Seq(Rec) /\ Distinct(result) /\ From(result, more)
          /\ \E i \in DOMAIN result : result[i] = more[Len(more)]
      BY <2>1, <3>1, TrimmedKeeps
    <3> HIDE DEF result
    <3>3. \A i \in DOMAIN result : result[i].number \in 1 .. stAdded + 1
      BY <2>1, <3>2 DEF From
    <3>4. stAdded + 1 \in Numbers(result)
      BY <2>1, <3>2, NumbersOf
    <3>5. ASSUME NEW n \in Numbers(result), Has(more, n, stClosed) PROVE Has(result, n, stClosed)
      BY <2>1, <3>2, <3>5, FromKeeps
    <3>6. Has(result, stAdded + 1, stClosed)
      BY <2>1, <3>4, <3>5
    <3>7. QED
      BY <2>1, <2>2, <3>2, <3>3, <3>5, <3>6 DEF result
  <2>5. QED
    BY <1>5, <2>3, <2>4 DEF StUpdated
<1>6. CASE operation.op = "close"
  <2>1. result = ItemClosed(read, operation.target)
    BY <1>6 DEF StResult
  <2>2. Adds(operation) = stAdded /\ Closes(operation) = stClosed \cup {operation.target}
    BY <1>6 DEF Adds, Closes
  <2>3. /\ result \in Seq(Rec) /\ Distinct(result) /\ Numbers(result) = Numbers(read)
        /\ \A n : Has(read, n, stClosed) => Has(result, n, stClosed \cup {operation.target})
    BY <1>2, <2>1, ItemClosedKeeps
  <2> HIDE DEF result, read
  <2>4. ASSUME NEW i \in DOMAIN result PROVE result[i].number \in 1 .. stAdded
    <3>1. result[i].number \in Numbers(read)
      BY <2>3, NumbersOf
    <3>2. QED
      BY <1>2, <3>1, NumbersOf
  <2>5. QED
    BY <1>6, <2>2, <2>3, <2>4 DEF result, read
<1>7. CASE operation.op \in {"clear", "prune"}
  <2>1. Adds(operation) = stAdded /\ Closes(operation) = stClosed
    BY <1>7 DEF Adds, Closes
  <2>2. result = IF operation.op = "clear" THEN TodoCleared(read) ELSE Trimmed(read)
    BY <1>7 DEF StResult, Pruned
  <2>3. result \in Seq(Rec) /\ Distinct(result) /\ From(result, read)
    <3>1. TodoCleared(read) \in Seq(Rec) /\ Distinct(TodoCleared(read)) /\ From(TodoCleared(read), read)
      BY <1>2, ClearedKeeps
    <3>2. Trimmed(read) \in Seq(Rec) /\ Distinct(Trimmed(read)) /\ From(Trimmed(read), read)
      BY <1>2, TrimmedKeeps
    <3>3. QED
      BY <2>2, <3>1, <3>2
  <2> HIDE DEF result, read
  <2>4. \A n \in Numbers(result) : Has(read, n, stClosed) => Has(result, n, stClosed)
    BY <1>2, <2>3, FromKeeps
  <2>5. QED
    BY <1>4, <1>7, <2>1, <2>3, <2>4 DEF result, read
<1>8. QED
  BY <1>3, <1>5, <1>6, <1>7

-----------------------------------------------------------------------------
(* Steps *)

\* The operations the step is not about: what it adds or closes next to a
\* rewriting is exposed.
LEMMA OthersKeep ==
  ASSUME StInv, NEW q \in StProcs, stProc'[q] = stProc[q], stKind' = stKind,
         stProc[q].pc = "update" => stLock' = stLock /\ stFile' = stFile,
         stAdded' \in Nat, stAdded <= stAdded',
         stRemoved \subseteq stRemoved', stExposed \subseteq stExposed',
         stProc[q].pc = "rewrite" =>
           /\ \A n \in 1 .. stAdded' : n \in 1 .. stAdded \/ n \in stExposed'
           /\ \A n \in stClosed' : n \in stClosed \/ n \in stExposed'
  PROVE  OperationOK(q)'
<1> DEFINE operation == stProc[q]
           read == operation.read
<1>1. OperationOK(q) /\ stAdded \in Nat
  BY DEF StInv
<1>2. CASE operation.pc = "rewrite"
  <2>1. Numbered(read) /\ Kept(read)
    BY <1>1, <1>2 DEF OperationOK
  <2>2. \A n \in 1 .. stAdded : n \in 1 .. stAdded'
    BY <1>1
  <2>3. Numbered(read)'
    <3>1. read' = read
      OBVIOUS
    <3> HIDE DEF read
    <3>2. QED
      BY <2>1, <2>2, <3>1 DEF Numbered
  <2>4. Kept(read)'
    <3>1. SUFFICES ASSUME NEW n \in 1 .. stAdded', n \notin stRemoved', n \notin stExposed'
                   PROVE  Has(read, n, stClosed)'
      BY DEF Kept
    <3>2. n \in 1 .. stAdded /\ n \notin stRemoved /\ n \notin stExposed
          /\ (n \in stClosed' => n \in stClosed)
      BY <1>2, <3>1
    <3>3. Has(read, n, stClosed)
      BY <2>1, <3>2 DEF Kept
    <3>4. read' = read
      OBVIOUS
    <3> HIDE DEF read
    <3>5. QED
      BY <3>2, <3>3, <3>4 DEF Has
  <2>5. QED
    BY <1>1, <1>2, <2>3, <2>4 DEF OperationOK
<1>3. CASE operation.pc # "rewrite"
  BY <1>1, <1>3 DEF OperationOK
<1>4. QED
  BY <1>2, <1>3

LEMMA IdleIsOK ==
  ASSUME NEW q, stProc[q].pc = "idle" \/ (stProc[q].pc = "read" /\ stKind \in StAppended)
  PROVE  OperationOK(q)
BY DEF OperationOK

LEMMA SetsOne ==
  ASSUME StInv, NEW p \in StProcs, NEW operation, StSet(p, operation)
  PROVE  /\ stProc' = [q \in StProcs |-> stProc'[q]] /\ stProc'[p] = operation
         /\ \A q \in StProcs \ {p} : stProc'[q] = stProc[q]
BY DEF StInv, StSet

LEMMA UpdateBeginsKeeps ==
  ASSUME StInv, NEW p \in StProcs, NEW op \in StOps, NEW n, UpdateBegins(p, op, n)
  PROVE  StInv'
<1> DEFINE new == [StIdle(0) EXCEPT !.pc = "update", !.op = op, !.target = n, !.read = stFile]
<1>1. new.pc = "update" /\ new.op = op /\ new.target = n /\ new.read = stFile
  BY DEF StIdle
<1>2. /\ UNCHANGED <<stKind, stFile, stAdded, stClosed, stRemoved, stExposed>>
      /\ stLock = StNobody /\ stLock' = p /\ StSet(p, new)
      /\ StOffers(op) /\ (op = "close" => n \in Numbers(stFile))
  BY DEF UpdateBegins, stContent, LockFree
<1> HIDE DEF new
<1>3. stProc' = [q \in StProcs |-> stProc'[q]] /\ stProc'[p] = new
      /\ \A q \in StProcs \ {p} : stProc'[q] = stProc[q]
  BY <1>2, SetsOne
<1>4. OperationOK(p)'
  <2>1. stKind \in StUpdated /\ (op = "add" \/ (stKind = "todo" /\ op \in {"close", "clear"}))
    BY <1>2 DEF StOffers, StUpdated
  <2>2. n \in Numbers(stFile) => n \in Numbers(stFile)'
    BY <1>2 DEF Numbers, ToSet
  <2>3. QED
    BY <1>1, <1>2, <1>3, <2>1, <2>2 DEF OperationOK
<1>5. ASSUME NEW q \in StProcs \ {p} PROVE OperationOK(q)'
  <2>1. stProc[q].pc # "update"
    BY <1>2, StAssumption DEF StInv, OperationOK
  <2>2. stAdded \in Nat
    BY DEF StInv
  <2>3. QED
    BY <1>2, <1>3, <2>1, <2>2, OthersKeep
<1>6. Numbered(stFile)' /\ Kept(stFile)'
  BY <1>2 DEF StInv, Numbered, Kept, Has
<1>7. QED
  BY <1>2, <1>3, <1>4, <1>5, <1>6 DEF StInv

\* The file when an operation that may trust its list replaces it.
LEMMA ReplacedKeeps ==
  ASSUME StInv, NEW p \in StProcs, stProc[p].pc \in {"update", "rewrite"},
         stFile' = StResult(stProc[p]), stAdded' = Adds(stProc[p]), stClosed' = Closes(stProc[p]),
         stRemoved' = stRemoved \cup (Numbers(stProc[p].read) \ Numbers(StResult(stProc[p]))),
         stExposed \subseteq stExposed'
  PROVE  /\ Numbered(stFile)' /\ Kept(stFile)' /\ stAdded' \in Nat /\ stAdded <= stAdded'
         /\ stClosed' \subseteq 1 .. stAdded'
<1> DEFINE operation == stProc[p]
           read == operation.read
           result == StResult(operation)
<1>1. /\ result \in Seq(Rec) /\ Distinct(result)
      /\ \A i \in DOMAIN result : result[i].number \in 1 .. Adds(operation)
      /\ \A n \in Numbers(result) :
           Has(read, n, stClosed) => Has(result, n, Closes(operation))
      /\ operation.op = "add" => Has(result, stAdded + 1, Closes(operation))
  BY ResultKeeps
<1>2. /\ Numbered(read) /\ Kept(read)
      /\ operation.op = "close" => operation.target \in Numbers(read)
      /\ stAdded \in Nat /\ stClosed \subseteq 1 .. stAdded
  <2>1. OperationOK(p) /\ Numbered(stFile) /\ Kept(stFile)
    BY DEF StInv
  <2>2. QED
    BY <2>1 DEF StInv, OperationOK
<1>3. /\ stAdded' \in {stAdded, stAdded + 1}
      /\ stAdded' = stAdded + 1 => operation.op = "add"
  BY <1>2 DEF Adds
<1>4. stClosed' \subseteq 1 .. stAdded'
  <2>1. \A n \in Numbers(read) : n \in 1 .. stAdded
    BY <1>2, NumbersOf DEF Numbered
  <2>2. stClosed' \subseteq 1 .. stAdded
    BY <1>2, <2>1 DEF Closes
  <2>3. QED
    BY <1>2, <1>3, <2>2
<1> HIDE DEF result, operation, read
<1>5. /\ stFile' = result /\ stAdded' = Adds(operation) /\ stClosed' = Closes(operation)
      /\ stRemoved' = stRemoved \cup (Numbers(read) \ Numbers(result))
  BY DEF result, operation, read
<1>6. Numbered(stFile)'
  BY <1>1, <1>5 DEF Numbered, Distinct
<1>7. Kept(stFile)'
  <2>1. SUFFICES ASSUME NEW n \in 1 .. stAdded', n \notin stRemoved', n \notin stExposed'
                 PROVE  Has(result, n, Closes(operation))
    BY <1>5 DEF Kept, Has
  <2>2. CASE n \in 1 .. stAdded
    <3>1. Has(read, n, stClosed)
      BY <1>2, <2>1, <2>2 DEF Kept
    <3>2. n \in Numbers(read)
      BY <3>1, NumbersOf DEF Has
    <3>3. n \in Numbers(result)
      BY <1>5, <2>1, <3>2
    <3>4. QED
      BY <1>1, <3>1, <3>3
  <2>3. CASE n \notin 1 .. stAdded
    <3>1. n = stAdded + 1 /\ operation.op = "add"
      BY <1>2, <1>3, <2>1, <2>3
    <3>2. QED
      BY <1>1, <3>1
  <2>4. QED
    BY <2>2, <2>3
<1>8. QED
  BY <1>2, <1>3, <1>4, <1>6, <1>7

LEMMA UpdateEndsKeeps ==
  ASSUME StInv, NEW p \in StProcs, UpdateEnds(p)
  PROVE  StInv'
<1>1. /\ stProc[p].pc = "update" /\ stFile' = StResult(stProc[p])
      /\ stAdded' = Adds(stProc[p]) /\ stClosed' = Closes(stProc[p])
      /\ stRemoved' = stRemoved \cup (Numbers(stProc[p].read) \ Numbers(StResult(stProc[p])))
      /\ StSet(p, StIdle(0)) /\ UNCHANGED <<stKind, stExposed>>
  BY DEF UpdateEnds, Adds, Closes
<1>2. /\ Numbered(stFile)' /\ Kept(stFile)' /\ stAdded' \in Nat /\ stAdded <= stAdded'
      /\ stClosed' \subseteq 1 .. stAdded'
  BY <1>1, ReplacedKeeps
<1>3. stProc' = [q \in StProcs |-> stProc'[q]] /\ stProc'[p] = StIdle(0)
      /\ \A q \in StProcs \ {p} : stProc'[q] = stProc[q]
  BY <1>1, SetsOne
<1>4. stKind \in StUpdated /\ stLock = p
  BY <1>1 DEF StInv, OperationOK
<1>5. ASSUME NEW q \in StProcs \ {p} PROVE OperationOK(q)'
  <2>1. stProc[q].pc # "update" /\ stProc[q].pc # "rewrite"
    BY <1>4 DEF StInv, OperationOK, StUpdated, StAppended
  <2>2. QED
    BY <1>1, <1>2, <1>3, <2>1, OthersKeep
<1>6. OperationOK(p)'
  BY <1>3 DEF OperationOK, StIdle
<1>7. QED
  BY <1>1, <1>2, <1>3, <1>5, <1>6 DEF StInv

LEMMA RewritesKeeps ==
  ASSUME StInv, NEW p \in StProcs, Rewrites(p)
  PROVE  StInv'
<1>1. /\ stProc[p].pc = "rewrite" /\ stFile' = StResult(stProc[p])
      /\ stClosed' = Closes(stProc[p])
      /\ stRemoved' = stRemoved \cup (Numbers(stProc[p].read) \ Numbers(StResult(stProc[p])))
      /\ stExposed' = IF stProc[p].op = "close" /\ Overlapped(p)
                      THEN stExposed \cup {stProc[p].target} ELSE stExposed
      /\ StSet(p, StIdle(0)) /\ UNCHANGED <<stKind, stAdded>>
  BY DEF Rewrites, Closes
<1>2. stProc[p].op # "add" /\ stKind \in StAppended
  BY <1>1 DEF StInv, OperationOK
<1>3. stAdded' = Adds(stProc[p]) /\ stExposed \subseteq stExposed'
  BY <1>1, <1>2 DEF Adds
<1>4. /\ Numbered(stFile)' /\ Kept(stFile)' /\ stAdded' \in Nat /\ stAdded <= stAdded'
      /\ stClosed' \subseteq 1 .. stAdded'
  BY <1>1, <1>3, ReplacedKeeps
<1>5. stProc' = [q \in StProcs |-> stProc'[q]] /\ stProc'[p] = StIdle(0)
      /\ \A q \in StProcs \ {p} : stProc'[q] = stProc[q]
  BY <1>1, SetsOne
<1>6. ASSUME NEW q \in StProcs \ {p} PROVE OperationOK(q)'
  <2>1. stProc[q].pc # "update"
    BY <1>2 DEF StInv, OperationOK, StUpdated, StAppended
  <2>2. ASSUME stProc[q].pc = "rewrite", NEW n \in stClosed' PROVE n \in stClosed \/ n \in stExposed'
    BY <1>1, <2>2 DEF Closes, Overlapped
  <2>3. QED
    BY <1>1, <1>3, <1>4, <1>5, <2>1, <2>2, OthersKeep
<1>7. OperationOK(p)'
  BY <1>5 DEF OperationOK, StIdle
<1>8. QED
  BY <1>1, <1>4, <1>5, <1>6, <1>7 DEF StInv

LEMMA StAppendKeeps ==
  ASSUME StInv, NEW p \in StProcs, StAppend(p)
  PROVE  StInv'
<1> DEFINE after == AfterAppend(stProc[p].writes)
<1>1. /\ stKind \in StAppended /\ stAdded' = stAdded + 1
      /\ stFile' = IF stTorn THEN stFile ELSE Append(stFile, NewRecord)
      /\ stExposed' = IF stTorn \/ Overlapped(p) THEN stExposed \cup {stAdded + 1} ELSE stExposed
      /\ StSet(p, after) /\ UNCHANGED <<stKind, stLock, stClosed, stRemoved>>
  BY DEF StAppend
<1>2. stAdded \in Nat /\ stClosed \subseteq 1 .. stAdded /\ Numbered(stFile) /\ Kept(stFile)
  BY DEF StInv
<1>3. after.pc \in {"idle", "read"}
  BY DEF AfterAppend, StIdle
<1> HIDE DEF after
<1>4. stProc' = [q \in StProcs |-> stProc'[q]] /\ stProc'[p] = after
      /\ \A q \in StProcs \ {p} : stProc'[q] = stProc[q]
  BY <1>1, SetsOne
<1>5. stAdded' \in Nat /\ stAdded <= stAdded' /\ stClosed' \subseteq 1 .. stAdded'
      /\ \A n \in 1 .. stAdded' : n \in 1 .. stAdded \/ n = stAdded + 1
  BY <1>1, <1>2
<1>6. ASSUME NEW q \in StProcs \ {p} PROVE OperationOK(q)'
  <2>1. stProc[q].pc # "update"
    BY <1>1 DEF StInv, OperationOK, StUpdated, StAppended
  <2>2. ASSUME stProc[q].pc = "rewrite", NEW n \in 1 .. stAdded' PROVE n \in 1 .. stAdded \/ n \in stExposed'
    BY <1>1, <1>5, <2>2 DEF Overlapped
  <2>3. stRemoved \subseteq stRemoved' /\ stExposed \subseteq stExposed' /\ stClosed' = stClosed
    BY <1>1
  <2>4. QED
    BY <1>1, <1>4, <1>5, <2>1, <2>2, <2>3, OthersKeep
<1>7. OperationOK(p)'
  <2>1. stProc'[p].pc \in {"idle", "read"} /\ stKind' \in StAppended
    BY <1>1, <1>3, <1>4
  <2>2. QED
    BY <2>1 DEF OperationOK
<1>8. Numbered(stFile)' /\ Kept(stFile)'
  <2>1. CASE stTorn
    <3>1. stFile' = stFile /\ stExposed' = stExposed \cup {stAdded + 1}
      BY <1>1, <2>1
    <3>2. Numbered(stFile)'
      BY <1>2, <1>5, <3>1 DEF Numbered
    <3>3. Kept(stFile)'
      BY <1>1, <1>2, <1>5, <3>1 DEF Kept, Has
    <3>4. QED
      BY <3>2, <3>3
  <2>2. CASE ~stTorn
    <3> DEFINE more == Append(stFile, NewRecord)
    <3>1. /\ more \in Seq(Rec) /\ Distinct(more)
          /\ \A i \in DOMAIN more : more[i].number \in 1 .. stAdded + 1
          /\ \A n : Has(stFile, n, stClosed) => Has(more, n, stClosed)
          /\ Has(more, stAdded + 1, stClosed)
      BY <1>2, AddedKeeps
    <3>2. stFile' = more
      BY <1>1, <2>2
    <3> HIDE DEF more
    <3>3. Numbered(stFile)'
      BY <1>1, <3>1, <3>2 DEF Numbered, Distinct
    <3>4. ASSUME NEW n \in 1 .. stAdded', n \notin stRemoved', n \notin stExposed'
          PROVE  Has(more, n, stClosed)
      <4>1. n \notin stRemoved /\ n \notin stExposed
        BY <1>1, <3>4
      <4>2. QED
        BY <1>2, <1>5, <3>1, <4>1 DEF Kept
    <3>5. Kept(stFile)'
      BY <1>1, <3>2, <3>4 DEF Kept, Has
    <3>6. QED
      BY <3>3, <3>5
  <2>3. QED
    BY <2>1, <2>2
<1>9. QED
  BY <1>1, <1>4, <1>5, <1>6, <1>7, <1>8 DEF StInv

\* A reader that finds the file broken puts it aside and has read nothing.
LEMMA PutAsideKeeps ==
  ASSUME StInv, PutAside, UNCHANGED <<stAdded, stClosed, stExposed>>
  PROVE  /\ Numbered(stFile)' /\ Kept(stFile)' /\ stRemoved \subseteq stRemoved'
         /\ Decoded # << >> => UNCHANGED <<stFile, stRemoved>> /\ Decoded = stFile
<1>1. Numbered(stFile) /\ Kept(stFile)
  BY DEF StInv
<1>2. CASE stGarbled
  <2>1. stFile' = << >> /\ stRemoved' = stRemoved \cup Numbers(stFile) /\ Decoded = << >>
    BY <1>2 DEF PutAside, Decoded
  <2>2. Numbered(stFile)'
    BY <2>1 DEF Numbered
  <2>3. \A n : Has(stFile, n, stClosed) => n \in Numbers(stFile)
    BY NumbersOf DEF Has
  <2>4. Kept(stFile)'
    BY <1>1, <2>1, <2>3 DEF Kept
  <2>5. QED
    BY <2>1, <2>2, <2>4
<1>3. CASE ~stGarbled
  <2>1. UNCHANGED <<stFile, stRemoved>> /\ Decoded = stFile
    BY <1>3 DEF PutAside, Decoded, stContent
  <2>2. Numbered(stFile)' /\ Kept(stFile)'
    BY <1>1, <2>1 DEF Numbered, Kept, Has
  <2>3. QED
    BY <2>1, <2>2
<1>4. QED
  BY <1>2, <1>3

\* A reader goes on to rewrite what it read, or is done.
LEMMA ReaderKeeps ==
  ASSUME StInv, NEW p \in StProcs, NEW new, stKind \in StAppended, PutAside, StSet(p, new),
         UNCHANGED <<stKind, stLock, stAdded, stClosed, stExposed>>,
         \/ new.pc = "idle"
         \/ /\ new.pc = "rewrite" /\ new.op \in {"close", "prune"} /\ new.read = Decoded
            /\ Decoded # << >> /\ (new.op = "close" => new.target \in Numbers(Decoded))
  PROVE  StInv'
<1>1. /\ Numbered(stFile)' /\ Kept(stFile)' /\ stRemoved \subseteq stRemoved'
      /\ Decoded # << >> => UNCHANGED <<stFile, stRemoved>> /\ Decoded = stFile
  BY PutAsideKeeps
<1>2. stProc' = [q \in StProcs |-> stProc'[q]] /\ stProc'[p] = new
      /\ \A q \in StProcs \ {p} : stProc'[q] = stProc[q]
  BY SetsOne
<1>3. ASSUME NEW q \in StProcs \ {p} PROVE OperationOK(q)'
  <2>1. stProc[q].pc # "update"
    BY DEF StInv, OperationOK, StUpdated, StAppended
  <2>2. stAdded \in Nat
    BY DEF StInv
  <2>3. QED
    BY <1>1, <1>2, <2>1, <2>2, OthersKeep
<1>4. OperationOK(p)'
  <2>1. CASE new.pc = "idle"
    BY <1>2, <2>1 DEF OperationOK
  <2>2. CASE new.pc = "rewrite"
    <3>1. /\ new.op \in {"close", "prune"} /\ new.read = stFile' /\ UNCHANGED <<stFile, stRemoved>>
          /\ new.op = "close" => new.target \in Numbers(stFile)
      BY <1>1, <2>2
    <3>2. stProc'[p].read = stFile'
      BY <1>2, <3>1
    <3>3. Numbered(stProc[p].read)'
      BY <1>1, <3>2 DEF Numbered
    <3>4. Kept(stProc[p].read)'
      BY <1>1, <3>2 DEF Kept, Has
    <3>5. stProc'[p].op = "close" => (stProc[p].target \in Numbers(stProc[p].read))'
      <4>1. Numbers(stFile)' = Numbers(stFile)
        BY <3>1 DEF Numbers, ToSet
      <4>2. Numbers(stProc[p].read)' = Numbers(stFile)'
        BY <3>2 DEF Numbers, ToSet
      <4>3. QED
        BY <1>2, <3>1, <4>1, <4>2
    <3>6. QED
      BY <1>2, <2>2, <3>1, <3>3, <3>4, <3>5 DEF OperationOK
  <2>3. QED
    BY <2>1, <2>2
<1>5. QED
  BY <1>1, <1>2, <1>3, <1>4 DEF StInv

LEMMA CloseReadsKeeps ==
  ASSUME StInv, NEW p \in StProcs, NEW n, CloseReads(p, n)
  PROVE  StInv'
<1> DEFINE going == [StIdle(0) EXCEPT !.pc = "rewrite", !.op = "close", !.target = n, !.read = Decoded]
           new == IF n \in Numbers(Decoded) THEN going ELSE StIdle(0)
<1>1. /\ stKind = "memory" /\ PutAside /\ StSet(p, new)
      /\ UNCHANGED <<stKind, stLock, stAdded, stClosed, stExposed>>
  BY DEF CloseReads
<1>2. stKind \in StAppended
  BY <1>1 DEF StAppended
<1>3. /\ going.pc = "rewrite" /\ going.op = "close" /\ going.target = n /\ going.read = Decoded
      /\ StIdle(0).pc = "idle"
  BY DEF StIdle
<1>4. n \in Numbers(Decoded) => Decoded # << >>
  BY NumbersOf
<1>5. \/ new.pc = "idle"
      \/ /\ new.pc = "rewrite" /\ new.op \in {"close", "prune"} /\ new.read = Decoded
         /\ Decoded # << >> /\ (new.op = "close" => new.target \in Numbers(Decoded))
  <2> HIDE DEF going
  <2>1. QED
    BY <1>3, <1>4
<1> HIDE DEF new
<1>6. QED
  BY <1>1, <1>2, <1>5, ReaderKeeps

LEMMA PruneReadsKeeps ==
  ASSUME StInv, NEW p \in StProcs, PruneReads(p)
  PROVE  StInv'
<1> DEFINE going == [StIdle(0) EXCEPT !.pc = "rewrite", !.op = "prune", !.read = Decoded]
           new == IF Len(Decoded) > StMaxKept THEN going ELSE StIdle(0)
<1>1. /\ stProc[p].pc = "read" /\ PutAside /\ StSet(p, new)
      /\ UNCHANGED <<stKind, stLock, stAdded, stClosed, stExposed>>
  BY DEF PruneReads
<1>2. stKind \in StAppended
  BY <1>1 DEF StInv, OperationOK
<1>3. /\ going.pc = "rewrite" /\ going.op = "prune" /\ going.read = Decoded
      /\ StIdle(0).pc = "idle"
  BY DEF StIdle
<1>4. Len(Decoded) > StMaxKept => Decoded # << >>
  BY StAssumption
<1>5. \/ new.pc = "idle"
      \/ /\ new.pc = "rewrite" /\ new.op \in {"close", "prune"} /\ new.read = Decoded
         /\ Decoded # << >> /\ (new.op = "close" => new.target \in Numbers(Decoded))
  <2> HIDE DEF going
  <2>1. QED
    BY <1>3, <1>4
<1> HIDE DEF new
<1>6. QED
  BY <1>1, <1>2, <1>5, ReaderKeeps

LEMMA StTearKeeps ==
  ASSUME StInv, NEW p \in StProcs, NEW character, StTear(p, character)
  PROVE  StInv'
BY DEF StTear, StInv, OperationOK, Numbered, Kept, Has

LEMMA StDiesKeeps ==
  ASSUME StInv, NEW p \in StProcs, StDies(p)
  PROVE  StInv'
<1>1. /\ StSet(p, StIdle(0)) /\ stLock' = IF stLock = p THEN StNobody ELSE stLock
      /\ UNCHANGED <<stKind, stFile, stAdded, stClosed, stRemoved, stExposed>>
  BY DEF StDies, stContent
<1>2. stProc' = [q \in StProcs |-> stProc'[q]] /\ stProc'[p] = StIdle(0)
      /\ \A q \in StProcs \ {p} : stProc'[q] = stProc[q]
  BY <1>1, SetsOne
<1>3. ASSUME NEW q \in StProcs \ {p} PROVE OperationOK(q)'
  <2>1. stProc[q].pc = "update" => stLock' = stLock
    BY <1>1 DEF StInv, OperationOK
  <2>2. stAdded \in Nat
    BY DEF StInv
  <2>3. QED
    BY <1>1, <1>2, <2>1, <2>2, OthersKeep
<1>4. OperationOK(p)'
  BY <1>2 DEF OperationOK, StIdle
<1>5. Numbered(stFile)' /\ Kept(stFile)'
  BY <1>1 DEF StInv, Numbered, Kept, Has
<1>6. QED
  BY <1>1, <1>2, <1>3, <1>4, <1>5 DEF StInv

LEMMA StInitOK == StInit => StInv
<1>1. StInit => Numbered(stFile) /\ Kept(stFile)
  BY DEF StInit, Numbered, Kept
<1>2. StInit => \A p \in StProcs : OperationOK(p)
  BY DEF StInit, OperationOK, StIdle
<1>3. QED
  BY <1>1, <1>2 DEF StInit, StInv

LEMMA StNextKeeps == StInv /\ [StNext]_stVars => StInv'
<1> SUFFICES ASSUME StInv, [StNext]_stVars PROVE StInv'
  OBVIOUS
<1>1. CASE UNCHANGED stVars
  BY <1>1 DEF stVars, stContent, StInv, OperationOK, Numbered, Kept, Has
<1>2. CASE StNext
  BY <1>2, UpdateBeginsKeeps, UpdateEndsKeeps, StAppendKeeps, StTearKeeps, CloseReadsKeeps,
     PruneReadsKeeps, RewritesKeeps, StDiesKeeps DEF StNext
<1>3. QED
  BY <1>1, <1>2

\* Every list of records that somebody has in hand to write back, and the file,
\* always hold what they must.
THEOREM StoresInvariant == StSpec => []StInv
<1>1. StInit => StInv
  BY StInitOK
<1>2. StInv /\ [StNext]_stVars => StInv'
  BY StNextKeeps
<1>3. QED
  BY <1>1, <1>2, PTL DEF StSpec

\* What was added stays and what was closed stays closed, whatever the threads
\* and however many, but for the window between an unlocked read and the write
\* that follows it, and for what is removed on purpose (storage.py).
THEOREM AddedRecordsAreKept == StSpec => []AddedIsKept
<1>1. StInv => AddedIsKept
  BY DEF StInv, Kept, Has, AddedIsKept
<1>2. QED
  BY <1>1, StoresInvariant, PTL
=============================================================================
