----------------------------- MODULE Tools_proofs -----------------------------
(***************************************************************************)
(* Proofs about what a turn reaches through its tools: the policy in front *)
(* of them (ToolGate), snapshots and rollback of a command (Sandbox), the  *)
(* MCP servers (Mcp) and the repository index (RepoIndex). The machines    *)
(* share no state; each part below has its own inductive invariant.        *)
(***************************************************************************)
EXTENDS ToolGate, Sandbox, Mcp, RepoIndex, DataLemmas, FiniteSetTheorems, SequenceTheorems

-----------------------------------------------------------------------------
(***************************************************************************)
(* Proofs about ToolGate, for any threads, calls and configurations: every *)
(* run of a tool is covered by an answer of its own.                       *)
(*                                                                         *)
(* RunsOnConsent counts runs that are over. TgInv counts the threads about *)
(* to run as well: each of them has consumed an answer already, which no   *)
(* other thread can use. What is approved for the session is what the user *)
(* allowed for it.                                                         *)
(***************************************************************************)

TgProgress == [pc : {"idle", "checked", "asking", "run"}, call : TgCalls, outcome : TgOutcomes]

\* Threads about to run the call.
About(c) == {t \in TgThreads : tgThread[t].pc = "run" /\ tgThread[t].call = c}

Due(thread, c) == IF thread.pc = "run" /\ thread.call = c THEN 1 ELSE 0

\* Nobody has to be asked before every run.
Standing(c) == tgConfig.assumeYes \/ c \in tgSession \/ ~NeedsConsent(c)

Covered(c) ==
  /\ IsFiniteSet(About(c))
  /\ ~Standing(c) => tgRuns[c] + Cardinality(About(c)) <= tgOnce[c]

TgInv ==
  /\ TgTypeOK
  /\ tgApproved = tgSession
  /\ \A c \in TgCalls : Covered(c)

USE TgAssumption

-----------------------------------------------------------------------------

LEMMA TgInitHolds == TgInit => TgInv
<1> SUFFICES ASSUME TgInit PROVE TgInv
  OBVIOUS
<1> DEFINE any == CHOOSE c \in TgCalls : TRUE
           idle == [pc |-> "idle", call |-> any, outcome |-> "none"]
<1>1. any \in TgCalls
  OBVIOUS
<1> HIDE DEF any
<1>2. idle \in TgProgress /\ idle.pc = "idle"
  BY <1>1 DEF TgProgress, TgOutcomes
<1>3. tgThread = [t \in TgThreads |-> idle]
  BY DEF TgInit, any
<1> HIDE DEF idle
<1>4. tgThread \in [TgThreads -> TgProgress] /\ \A t \in TgThreads : tgThread[t].pc = "idle"
  BY <1>2, <1>3
<1>5. tgCalled \in 0 .. TgMaxCalls
  BY DEF TgInit
<1>6. TgTypeOK /\ tgApproved = tgSession
  BY <1>4, <1>5 DEF TgInit, TgTypeOK, TgProgress
<1>7. ASSUME NEW c \in TgCalls PROVE Covered(c)
  <2>1. About(c) = {}
    BY <1>4 DEF About
  <2>2. IsFiniteSet(About(c)) /\ Cardinality(About(c)) = 0
    BY <2>1, FS_EmptySet
  <2>3. tgRuns[c] = 0 /\ tgOnce[c] = 0
    BY DEF TgInit
  <2>4. QED
    BY <2>2, <2>3 DEF Covered
<1>8. QED
  BY <1>6, <1>7 DEF TgInv

\* One thread moves: it is counted with the call it is about to run.
LEMMA Counted ==
  ASSUME TgInv, NEW t \in TgThreads, NEW next \in TgProgress, NEW c \in TgCalls,
         tgThread' = [tgThread EXCEPT ![t] = next]
  PROVE  /\ IsFiniteSet(About(c)')
         /\ Cardinality(About(c)) \in Nat
         /\ Cardinality(About(c)') = Cardinality(About(c)) - Due(tgThread[t], c) + Due(next, c)
<1> DEFINE others == About(c) \ {t}
<1>1. tgThread \in [TgThreads -> TgProgress] /\ IsFiniteSet(About(c))
  BY DEF TgInv, TgTypeOK, TgProgress, Covered
<1>2. IsFiniteSet(others) /\ Cardinality(About(c)) \in Nat /\ Cardinality(others) \in Nat
  BY <1>1, FS_RemoveElement, FS_CardinalityType
<1>3. Cardinality(others) = IF t \in About(c) THEN Cardinality(About(c)) - 1 ELSE Cardinality(About(c))
  BY <1>1, FS_RemoveElement
<1>4. Cardinality(others \cup {t}) = Cardinality(others) + 1 /\ IsFiniteSet(others \cup {t})
  BY <1>2, FS_AddElement
<1>5. About(c)' = IF next.pc = "run" /\ next.call = c THEN others \cup {t} ELSE others
  <2>1. \A u \in TgThreads : tgThread'[u] = IF u = t THEN next ELSE tgThread[u]
    BY <1>1
  <2>2. About(c)' = {u \in TgThreads : tgThread'[u].pc = "run" /\ tgThread'[u].call = c}
    BY DEF About
  <2>3. QED
    BY <2>1, <2>2 DEF About
<1>6. t \in About(c) <=> tgThread[t].pc = "run" /\ tgThread[t].call = c
  BY DEF About
<1> HIDE DEF others
<1>7. QED
  BY <1>2, <1>3, <1>4, <1>5, <1>6 DEF Due

\* A step that lets no thread run a call that needs an answer.
LEMMA NoneAdmitted ==
  ASSUME TgInv, NEW t \in TgThreads, NEW next \in TgProgress,
         tgThread' = [tgThread EXCEPT ![t] = next],
         tgThread[t].pc # "run",
         UNCHANGED <<tgConfig, tgOnce, tgRuns>>,
         tgSession \subseteq tgSession',
         \A c \in TgCalls : next.pc = "run" /\ next.call = c => Standing(c)'
  PROVE  \A c \in TgCalls : Covered(c)'
<1> SUFFICES ASSUME NEW c \in TgCalls PROVE Covered(c)'
  OBVIOUS
<1>1. /\ IsFiniteSet(About(c)')
      /\ Cardinality(About(c)) \in Nat
      /\ Cardinality(About(c)') = Cardinality(About(c)) - Due(tgThread[t], c) + Due(next, c)
  BY Counted
<1>2. ASSUME ~Standing(c)' PROVE tgRuns'[c] + Cardinality(About(c)') <= tgOnce'[c]
  <2>1. ~Standing(c)
    BY <1>2, Zenon DEF Standing, NeedsConsent, PolicyConfirms
  <2>2. ~(next.pc = "run" /\ next.call = c)
    BY <1>2
  <2>3. Cardinality(About(c)') = Cardinality(About(c))
    BY <1>1, <2>2 DEF Due
  <2>4. QED
    BY <2>1, <2>3 DEF TgInv, Covered
<1>3. QED
  BY <1>1, <1>2 DEF Covered

-----------------------------------------------------------------------------
(* Actions *)

\* The types of the part of the state that changes.
LEMMA TypesKept ==
  ASSUME TgInv, NEW t \in TgThreads, NEW next \in TgProgress,
         tgThread' = [tgThread EXCEPT ![t] = next], tgConfig' = tgConfig,
         tgApproved' = tgSession', tgSession' \subseteq TgCalls,
         tgCalled' \in 0 .. TgMaxCalls,
         tgOnce' \in [TgCalls -> Nat], tgRuns' \in [TgCalls -> Nat]
  PROVE  TgTypeOK'
<1>1. tgThread' \in [TgThreads -> TgProgress]
  BY DEF TgInv, TgTypeOK, TgProgress
<1>2. QED
  BY <1>1 DEF TgInv, TgTypeOK, TgProgress

LEMMA Typed ==
  ASSUME TgInv, NEW t \in TgThreads
  PROVE  /\ tgThread[t] \in TgProgress
         /\ tgThread[t].call \in TgCalls
         /\ tgSession \subseteq TgCalls /\ tgApproved = tgSession
         /\ tgCalled \in 0 .. TgMaxCalls
         /\ tgOnce \in [TgCalls -> Nat] /\ tgRuns \in [TgCalls -> Nat]
BY DEF TgInv, TgTypeOK, TgProgress

\* A call that needs no answer runs at once.
LEMMA CheckKeeps ==
  ASSUME TgInv, NEW t \in TgThreads, NEW call \in TgCalls, NEW audited \in BOOLEAN,
         TgCheck(t, call, audited)
  PROVE  TgInv'
<1>1. PICK next \in TgProgress :
        /\ tgThread' = [tgThread EXCEPT ![t] = next]
        /\ next.pc = "run" => next.call = call /\ ~NeedsConsent(call)
  <2> DEFINE error == [pc |-> "idle", call |-> call, outcome |-> "error"]
             denied == [pc |-> "idle", call |-> call, outcome |-> "denied"]
             asks == [pc |-> "checked", call |-> call, outcome |-> "none"]
             runs == [pc |-> "run", call |-> call, outcome |-> "none"]
  <2>1. error \in TgProgress /\ denied \in TgProgress /\ asks \in TgProgress /\ runs \in TgProgress
    BY DEF TgProgress, TgOutcomes
  <2>2. \/ tgThread' = [tgThread EXCEPT ![t] = error]
        \/ tgThread' = [tgThread EXCEPT ![t] = denied]
        \/ tgThread' = [tgThread EXCEPT ![t] = asks]
        \/ tgThread' = [tgThread EXCEPT ![t] = runs] /\ ~NeedsConsent(call)
    BY DEF TgCheck
  <2>3. error.pc # "run" /\ denied.pc # "run" /\ asks.pc # "run" /\ runs.call = call
    OBVIOUS
  <2> HIDE DEF error, denied, asks, runs
  <2>4. QED
    BY <2>1, <2>2, <2>3
<1>2. /\ UNCHANGED <<tgConfig, tgApproved, tgOnce, tgSession, tgRuns>>
      /\ tgThread[t].pc = "idle"
      /\ tgCalled < TgMaxCalls /\ tgCalled' = tgCalled + 1
  BY DEF TgCheck
<1>3. TgTypeOK' /\ tgApproved' = tgSession'
  <2>1. tgCalled' \in 0 .. TgMaxCalls
    BY <1>2, Typed
  <2>2. /\ tgApproved' = tgSession' /\ tgSession' \subseteq TgCalls /\ tgConfig' = tgConfig
        /\ tgOnce' \in [TgCalls -> Nat] /\ tgRuns' \in [TgCalls -> Nat]
    BY <1>2, Typed
  <2>3. QED
    BY <1>1, <2>1, <2>2, TypesKept
<1>4. \A c \in TgCalls : next.pc = "run" /\ next.call = c => Standing(c)'
  BY <1>1, Zenon DEF Standing, NeedsConsent, PolicyConfirms
<1>5. \A c \in TgCalls : Covered(c)'
  BY <1>1, <1>2, <1>4, NoneAdmitted
<1>6. QED
  BY <1>3, <1>5 DEF TgInv

LEMMA ConsultKeeps ==
  ASSUME TgInv, NEW t \in TgThreads, TgConsult(t) PROVE TgInv'
<1> DEFINE pc == IF tgConfig.assumeYes \/ tgThread[t].call \in tgApproved THEN "run" ELSE "asking"
           next == [tgThread[t] EXCEPT !.pc = pc]
<1>1. tgThread' = [tgThread EXCEPT ![t] = next]
  BY DEF TgConsult, TgGoes
<1>2. next \in TgProgress /\ next.pc = pc /\ next.call = tgThread[t].call
  BY Typed DEF TgProgress
<1>3. UNCHANGED <<tgConfig, tgApproved, tgCalled, tgOnce, tgSession, tgRuns>> /\ tgThread[t].pc = "checked"
  BY DEF TgConsult
<1> HIDE DEF next
<1>4. TgTypeOK' /\ tgApproved' = tgSession'
  BY <1>1, <1>2, <1>3, Typed, TypesKept
<1>5. \A c \in TgCalls : next.pc = "run" /\ next.call = c => Standing(c)'
  BY <1>2, <1>3, Typed DEF Standing
<1>6. \A c \in TgCalls : Covered(c)'
  BY <1>1, <1>2, <1>3, <1>5, NoneAdmitted
<1>7. QED
  BY <1>4, <1>6 DEF TgInv

\* An answer for once admits one run of one thread.
LEMMA AnswerKeeps ==
  ASSUME TgInv, NEW t \in TgThreads, NEW answer \in {"once", "session", "deny"}, TgAnswer(t, answer)
  PROVE  TgInv'
<1> DEFINE call == tgThread[t].call
           next == IF answer = "deny" THEN [tgThread[t] EXCEPT !.pc = "idle", !.outcome = "refused"]
                                      ELSE [tgThread[t] EXCEPT !.pc = "run"]
<1>1. tgThread' = [tgThread EXCEPT ![t] = next]
  BY DEF TgAnswer, TgReturns, TgGoes
<1>2. next \in TgProgress /\ next.call = call /\ (next.pc = "run" <=> answer # "deny")
  BY Typed DEF TgProgress, TgOutcomes
<1>3. /\ UNCHANGED <<tgConfig, tgCalled, tgRuns>> /\ tgThread[t].pc = "asking"
      /\ tgApproved' = IF answer = "session" THEN tgApproved \cup {call} ELSE tgApproved
      /\ tgSession' = IF answer = "session" THEN tgSession \cup {call} ELSE tgSession
      /\ tgOnce' = IF answer = "once" THEN [tgOnce EXCEPT ![call] = tgOnce[call] + 1] ELSE tgOnce
  BY DEF TgAnswer, ApprovedBy
<1> HIDE DEF next
<1>4. tgOnce' \in [TgCalls -> Nat] /\ call \in TgCalls
  BY <1>3, Typed
<1>5. TgTypeOK' /\ tgApproved' = tgSession' /\ tgSession \subseteq tgSession'
  BY <1>1, <1>2, <1>3, <1>4, Typed, TypesKept
<1>6. CASE answer # "once"
  <2>1. \A c \in TgCalls : next.pc = "run" /\ next.call = c => Standing(c)'
    BY <1>2, <1>3, <1>6 DEF Standing
  <2>2. \A c \in TgCalls : Covered(c)'
    BY <1>1, <1>2, <1>3, <1>5, <1>6, <2>1, NoneAdmitted
  <2>3. QED
    BY <1>5, <2>2 DEF TgInv
<1>7. CASE answer = "once"
  <2>1. ASSUME NEW c \in TgCalls PROVE Covered(c)'
    <3>1. /\ IsFiniteSet(About(c)')
          /\ Cardinality(About(c)) \in Nat
          /\ Cardinality(About(c)') = Cardinality(About(c)) - Due(tgThread[t], c) + Due(next, c)
      BY <1>1, <1>2, Counted
    <3>2. Due(tgThread[t], c) = 0 /\ Due(next, c) = IF c = call THEN 1 ELSE 0
      BY <1>2, <1>3, <1>7 DEF Due
    <3>3. tgOnce'[c] = IF c = call THEN tgOnce[c] + 1 ELSE tgOnce[c]
      BY <1>3, <1>7, Typed
    <3>4. tgRuns'[c] = tgRuns[c] /\ tgRuns[c] \in Nat /\ tgOnce[c] \in Nat
      BY <1>3, Typed
    <3>5. Standing(c)' <=> Standing(c)
      BY <1>3, <1>7, Zenon DEF Standing, NeedsConsent, PolicyConfirms
    <3>6. ~Standing(c) => tgRuns[c] + Cardinality(About(c)) <= tgOnce[c]
      BY DEF TgInv, Covered
    <3> HIDE DEF call
    <3>7. ~Standing(c)' => tgRuns'[c] + Cardinality(About(c)') <= tgOnce'[c]
      BY <3>1, <3>2, <3>3, <3>4, <3>5, <3>6
    <3>8. QED
      BY <3>1, <3>7 DEF Covered
  <2>2. QED
    BY <1>5, <2>1 DEF TgInv
<1>8. QED
  BY <1>6, <1>7

\* The thread that was admitted has run.
LEMMA RunKeeps ==
  ASSUME TgInv, NEW t \in TgThreads, NEW outcome \in {"ok", "failed", "error"}, TgRun(t, outcome)
  PROVE  TgInv'
<1> DEFINE call == tgThread[t].call
           next == [tgThread[t] EXCEPT !.pc = "idle", !.outcome = outcome]
<1>1. tgThread' = [tgThread EXCEPT ![t] = next]
  BY DEF TgRun, TgReturns
<1>2. next \in TgProgress /\ next.pc = "idle"
  BY Typed DEF TgProgress, TgOutcomes
<1>3. /\ UNCHANGED <<tgConfig, tgApproved, tgCalled, tgOnce, tgSession>> /\ tgThread[t].pc = "run"
      /\ tgRuns' = [tgRuns EXCEPT ![call] = tgRuns[call] + 1]
  BY DEF TgRun
<1> HIDE DEF next
<1>4. tgRuns' \in [TgCalls -> Nat] /\ call \in TgCalls
  BY <1>3, Typed
<1>5. TgTypeOK' /\ tgApproved' = tgSession'
  BY <1>1, <1>2, <1>3, <1>4, Typed, TypesKept
<1>6. ASSUME NEW c \in TgCalls PROVE Covered(c)'
  <2>1. /\ IsFiniteSet(About(c)')
        /\ Cardinality(About(c)) \in Nat
        /\ Cardinality(About(c)') = Cardinality(About(c)) - Due(tgThread[t], c) + Due(next, c)
    BY <1>1, <1>2, Counted
  <2>2. Due(next, c) = 0 /\ Due(tgThread[t], c) = IF c = call THEN 1 ELSE 0
    BY <1>2, <1>3 DEF Due
  <2>3. tgRuns'[c] = IF c = call THEN tgRuns[c] + 1 ELSE tgRuns[c]
    BY <1>3, Typed
  <2>4. tgOnce'[c] = tgOnce[c] /\ tgRuns[c] \in Nat /\ tgOnce[c] \in Nat
    BY <1>3, Typed
  <2>5. Standing(c)' <=> Standing(c)
    BY <1>3, Zenon DEF Standing, NeedsConsent, PolicyConfirms
  <2>6. ~Standing(c) => tgRuns[c] + Cardinality(About(c)) <= tgOnce[c]
    BY DEF TgInv, Covered
  <2> HIDE DEF call
  <2>7. ~Standing(c)' => tgRuns'[c] + Cardinality(About(c)') <= tgOnce'[c]
    BY <2>1, <2>2, <2>3, <2>4, <2>5, <2>6
  <2>8. QED
    BY <2>1, <2>7 DEF Covered
<1>7. QED
  BY <1>5, <1>6 DEF TgInv

-----------------------------------------------------------------------------
(* Theorems *)

LEMMA TgStepKeeps == TgInv /\ [TgNext]_tgVars => TgInv'
<1> SUFFICES ASSUME TgInv, [TgNext]_tgVars PROVE TgInv'
  OBVIOUS
<1>1. CASE UNCHANGED tgVars
  <2>1. TgTypeOK' /\ tgApproved' = tgSession'
    BY <1>1 DEF tgVars, TgInv, TgTypeOK
  <2>2. ASSUME NEW c \in TgCalls PROVE Covered(c)'
    <3>1. About(c)' = About(c) /\ (Standing(c)' <=> Standing(c))
      BY <1>1, Zenon DEF tgVars, About, Standing, NeedsConsent, PolicyConfirms
    <3>2. tgRuns' = tgRuns /\ tgOnce' = tgOnce /\ Covered(c)
      BY <1>1 DEF tgVars, TgInv
    <3>3. QED
      BY <3>1, <3>2 DEF Covered
  <2>3. QED
    BY <2>1, <2>2 DEF TgInv
<1>2. QED
  BY <1>1, CheckKeeps, ConsultKeeps, AnswerKeeps, RunKeeps DEF TgNext

LEMMA TgAlways == TgSpec => []TgInv
BY TgInitHolds, TgStepKeeps, PTL DEF TgSpec

\* However many threads share the approvals of a session: a tool that needs
\* consent never runs more often than the user allowed it once, unless it was
\* allowed for the session or assume_yes is set (EvolvaAgent._call_tool).
THEOREM RunsOnConsentAlways == TgSpec => []RunsOnConsent
<1>1. TgInv => RunsOnConsent
  <2> SUFFICES ASSUME TgInv, NEW c \in TgCalls, tgRuns[c] > tgOnce[c] PROVE Standing(c)
    BY Zenon DEF RunsOnConsent, Standing
  <2>1. Cardinality(About(c)) \in Nat /\ tgRuns[c] \in Nat /\ tgOnce[c] \in Nat
    BY FS_CardinalityType DEF TgInv, TgTypeOK, Covered
  <2>2. ~Standing(c) => tgRuns[c] + Cardinality(About(c)) <= tgOnce[c]
    BY DEF TgInv, Covered
  <2>3. QED
    BY <2>1, <2>2
<1>2. QED
  BY <1>1, TgAlways, PTL

HIDE TgAssumption

-----------------------------------------------------------------------------
(***************************************************************************)
(* A proof about Sandbox, for any files, roots, sizes, commands and        *)
(* backends: a complete rollback undoes what the command did.              *)
(*                                                                         *)
(* RollbackUndoes is about the end of a rollback; SbInv adds what its      *)
(* first half, which deletes, has achieved when the second begins, and     *)
(* that nothing writes in between unless a process was left behind.        *)
(***************************************************************************)

SbInv ==
  /\ sbFiles = [p \in SbPaths |-> sbFiles[p]]
  /\ sbRolled => sbPc = "idle"
  /\ sbPc = "removed" /\ ~sbLeft => \A p \in SbRooted \ sbSaved : sbFiles[p] = SbAbsent
  /\ RollbackUndoes

USE SbAssumption

LEMMA SbInitHolds == SbInit => SbInv
BY DEF SbInit, SbInv, RollbackUndoes

LEMMA SbStepKeeps == SbInv /\ [SbNext]_sbVars => SbInv'
<1> SUFFICES ASSUME SbInv, [SbNext]_sbVars PROVE SbInv'
  OBVIOUS
<1>1. CASE UNCHANGED sbVars
  BY <1>1 DEF sbVars, SbInv, RollbackUndoes
<1>2. ASSUME NEW p \in SbPaths, NEW c, NEW tool, SbFileTool(tool, p, c) PROVE SbInv'
  BY <1>2 DEF SbFileTool, SbPut, SbInv, RollbackUndoes
<1>3. ASSUME NEW request, SbStart(request) PROVE SbInv'
  BY <1>3 DEF SbStart, SbInv, RollbackUndoes
<1>4. ASSUME NEW p \in SbPaths, NEW c, SbProcessWrites(p, c) PROVE SbInv'
  BY <1>4 DEF SbProcessWrites, SbPut, SbInv, RollbackUndoes
<1>5. CASE SbSucceed
  BY <1>5 DEF SbSucceed, SbInv, RollbackUndoes
<1>6. ASSUME NEW left \in BOOLEAN, SbFail(left) PROVE SbInv'
  BY <1>6 DEF SbFail, SbInv, RollbackUndoes
<1>7. CASE SbRemoveUnknown
  BY <1>7 DEF SbRemoveUnknown, SbInv, RollbackUndoes
<1>8. CASE SbWriteBack
  BY <1>8 DEF SbWriteBack, SbInv, RollbackUndoes
<1>9. QED
  BY <1>1, <1>2, <1>3, <1>4, <1>5, <1>6, <1>7, <1>8 DEF SbNext

\* Whatever the files and whatever snapshot() had to skip: after a complete
\* rollback every file the snapshot holds is as before the command and every
\* file the command made under the roots is gone, unless a process outlived a
\* command that timed out (Sandbox.snapshot, SandboxSnapshot.restore).
THEOREM RollbackUndoesAlways == SbSpec => []RollbackUndoes
<1>1. SbInv => RollbackUndoes
  BY DEF SbInv
<1>2. QED
  BY <1>1, SbInitHolds, SbStepKeeps, PTL DEF SbSpec

HIDE SbAssumption

-----------------------------------------------------------------------------
(***************************************************************************)
(* Proofs about Mcp, for any threads and any bounds: an answer reaches the *)
(* request it answers.                                                     *)
(*                                                                         *)
(* AnswersMatch is not inductive. McpInv adds that a thread at work has a  *)
(* client, that no message carries an id its client has yet to give, and   *)
(* that the messages with the id a thread waits for are answers to its     *)
(* last request. The steps are told apart only by what they do to one      *)
(* client: Evolves says that its ids grow and that a message it did not    *)
(* have before carries a new one, and from that alone the threads that do  *)
(* not move keep what they had.                                            *)
(***************************************************************************)

\* The message is in the pipes of the process.
Holds(proc, m) == m \in proc.asked \/ \E i \in 1 .. Len(proc.out) : proc.out[i] = m

\* The client of a thread that is not idle.
IsMade(c, made) == c \in McpClients /\ c <= made

AtWork == \A t \in McpThreads : mcpThread[t].pc # "idle" => IsMade(mcpThread[t].client, mcpMade)

\* A client that is not made yet has given no id.
Unmade ==
  /\ mcpClient <= mcpMade
  /\ \A c \in McpClients : mcpMade < c => mcpOf[c].next = 1

IdsGiven == \A c \in McpClients : \A m \in McpMessage : Holds(mcpOf[c].proc, m) => m.id < mcpOf[c].next

\* What a waiting thread can find in the pipes of its client.
Awaits(thread, t, client) ==
  /\ thread.id < client.next
  /\ \A m \in McpMessage : Holds(client.proc, m) /\ m.id = thread.id => m.by = <<t, thread.sent>>

Awaited == \A t \in McpThreads : McpWaiting(t) => Awaits(mcpThread[t], t, mcpOf[mcpThread[t].client])

McpInv == McpTypeOK /\ AtWork /\ Unmade /\ IdsGiven /\ Awaited /\ AnswersMatch

\* From client a to client b in one step.
Evolves(a, b) ==
  /\ a.next <= b.next
  /\ \A m \in McpMessage : Holds(b.proc, m) => m.id < b.next /\ (Holds(a.proc, m) \/ a.next <= m.id)

-----------------------------------------------------------------------------
(* Clients *)

LEMMA NoProcessType == NoProcess \in McpProcess /\ \A m : ~Holds(NoProcess, m)
BY EmptySeq DEF NoProcess, McpProcess, Holds

LEMMA NewProcessType == NewProcess \in McpProcess /\ \A m : ~Holds(NewProcess, m)
<1>1. NewProcess \in McpProcess
  BY NoProcessType DEF NewProcess, McpProcess
<1>2. NewProcess.asked = NoProcess.asked /\ NewProcess.out = NoProcess.out
  BY NoProcessType DEF NewProcess, McpProcess
<1>3. QED
  BY <1>1, <1>2, NoProcessType DEF Holds

LEMMA NewClientType ==
  ASSUME NEW config \in Nat
  PROVE  NewClient(config) \in ClientObject /\ \A m : ~Holds(NewClient(config).proc, m)
BY NoProcessType DEF NewClient, ClientObject

\* A client as it was, or with fewer messages, evolves.
LEMMA Fewer ==
  ASSUME NEW a \in ClientObject, NEW b \in ClientObject,
         \A m \in McpMessage : Holds(a.proc, m) => m.id < a.next,
         b.next = a.next,
         \A m \in McpMessage : Holds(b.proc, m) => Holds(a.proc, m)
  PROVE  Evolves(a, b)
BY DEF Evolves, ClientObject

LEMMA ClosedType ==
  ASSUME NEW a \in ClientObject
  PROVE  /\ McpClosed(a) \in ClientObject
         /\ [McpClosed(a) EXCEPT !.lock = McpFree] \in ClientObject
         /\ \A m : ~Holds(McpClosed(a).proc, m)
         /\ \A m : ~Holds([McpClosed(a) EXCEPT !.lock = McpFree].proc, m)
         /\ McpClosed(a).next = a.next
         /\ [McpClosed(a) EXCEPT !.lock = McpFree].next = a.next
BY NoProcessType DEF McpClosed, ClientObject

LEMMA StartedType ==
  ASSUME NEW a \in ClientObject
  PROVE  /\ McpStarted(a) \in McpProcess
         /\ \A m : Holds(McpStarted(a), m) => Holds(a.proc, m)
BY NewProcessType DEF McpStarted, ClientObject

\* Reading a message leaves the others.
LEMMA TailHolds ==
  ASSUME NEW proc \in McpProcess, proc.out # << >>,
         NEW rest, rest = [proc EXCEPT !.out = Tail(proc.out)]
  PROVE  /\ rest \in McpProcess
         /\ \A m : Holds(rest, m) => Holds(proc, m)
         /\ Head(proc.out) \in McpMessage
         /\ Holds(proc, Head(proc.out))
<1>1. proc.out \in Seq(McpMessage) /\ proc.asked \in SUBSET McpMessage
  BY DEF McpProcess
<1>2. /\ Tail(proc.out) \in Seq(McpMessage)
      /\ Len(Tail(proc.out)) = Len(proc.out) - 1
      /\ \A i \in 1 .. Len(Tail(proc.out)) : Tail(proc.out)[i] = proc.out[i + 1]
      /\ Len(proc.out) \in Nat \ {0}
  BY <1>1, HeadTailProperties, LenProperties, EmptySeq
<1>3. rest \in McpProcess
  BY <1>2, Zenon DEF McpProcess
<1>4. rest.out = Tail(proc.out) /\ rest.asked = proc.asked
  BY DEF McpProcess
<1>5. ASSUME NEW m, Holds(rest, m) PROVE Holds(proc, m)
  <2>1. CASE m \in rest.asked
    BY <2>1, <1>4 DEF Holds
  <2>2. ASSUME NEW i \in 1 .. Len(rest.out), rest.out[i] = m PROVE Holds(proc, m)
    <3>1. i + 1 \in 1 .. Len(proc.out)
      BY <1>2, <1>4
    <3>2. proc.out[i + 1] = m
      BY <2>2, <1>2, <1>4
    <3>3. QED
      BY <3>1, <3>2 DEF Holds
  <2>3. QED
    BY <1>5, <2>1, <2>2 DEF Holds
<1>6. Head(proc.out) = proc.out[1] /\ 1 \in 1 .. Len(proc.out)
  BY <1>1, <1>2, HeadTailProperties
<1>7. Head(proc.out) \in McpMessage /\ Holds(proc, Head(proc.out))
  BY <1>1, <1>6, ElementOfSeq DEF Holds
<1>8. QED
  BY <1>3, <1>5, <1>7

\* A server that answers moves a message, one that dies forgets some.
LEMMA AnswerHolds ==
  ASSUME NEW proc \in McpProcess, NEW n \in proc.asked,
         NEW next, next = [proc EXCEPT !.asked = @ \ {n}, !.out = Append(@, n)]
  PROVE  next \in McpProcess /\ \A m : Holds(next, m) => Holds(proc, m)
<1>1. proc.out \in Seq(McpMessage) /\ proc.asked \in SUBSET McpMessage /\ n \in McpMessage
  BY DEF McpProcess
<1>2. /\ Append(proc.out, n) \in Seq(McpMessage)
      /\ Len(Append(proc.out, n)) = Len(proc.out) + 1
      /\ \A i \in 1 .. Len(proc.out) : Append(proc.out, n)[i] = proc.out[i]
      /\ Append(proc.out, n)[Len(proc.out) + 1] = n
      /\ Len(proc.out) \in Nat
  BY <1>1, AppendProperties, LenProperties
<1>3. next.asked = proc.asked \ {n} /\ next.out = Append(proc.out, n)
  BY DEF McpProcess
<1>4. next \in McpProcess
  BY <1>1, <1>2 DEF McpProcess
<1>5. ASSUME NEW m, Holds(next, m) PROVE Holds(proc, m)
  <2>1. CASE m \in next.asked
    BY <2>1, <1>3 DEF Holds
  <2>2. ASSUME NEW i \in 1 .. Len(next.out), next.out[i] = m PROVE Holds(proc, m)
    <3>1. CASE i = Len(proc.out) + 1
      BY <2>2, <3>1, <1>2, <1>3 DEF Holds
    <3>2. CASE i # Len(proc.out) + 1
      <4>1. i \in 1 .. Len(proc.out)
        BY <3>2, <1>2, <1>3
      <4>2. proc.out[i] = m
        BY <4>1, <2>2, <1>2, <1>3
      <4>3. QED
        BY <4>1, <4>2 DEF Holds
    <3>3. QED
      BY <3>1, <3>2
  <2>3. QED
    BY <1>5, <2>1, <2>2 DEF Holds
<1>6. QED
  BY <1>4, <1>5

-----------------------------------------------------------------------------
(* Steps *)

RegistryType ==
  /\ mcpEdits \in Nat /\ mcpFile \in Nat /\ mcpServer \in Nat
  /\ mcpCache \in [file : Nat, memory : Nat]
  /\ mcpMade \in Nat /\ mcpClient \in {0} \cup McpClients /\ mcpClient <= mcpMade

\* The clients of the next state are typed and evolved from those of this one.
ClientsEvolve ==
  /\ mcpOf' \in [McpClients -> ClientObject]
  /\ \A c \in McpClients : Evolves(mcpOf[c], mcpOf'[c])
  /\ mcpMade' \in {mcpMade, mcpMade + 1}
  /\ \A c \in McpClients : mcpMade' < c => mcpOf'[c].next = mcpOf[c].next

\* A new state of thread t that needs no other.
Fits(t, thread) ==
  /\ thread \in McpOperation
  /\ thread.pc # "idle" => IsMade(thread.client, mcpMade')
  /\ thread.pc \in {"opening", "waiting"} => Awaits(thread, t, mcpOf'[thread.client])
  /\ thread.pc \in {"notify", "answered"} => thread.answer = <<t, thread.sent>>

LEMMA SameClients ==
  ASSUME McpInv, UNCHANGED mcpOf, mcpMade' \in {mcpMade, mcpMade + 1}
  PROVE  ClientsEvolve
<1>1. mcpOf \in [McpClients -> ClientObject] /\ IdsGiven
  BY DEF McpInv, McpTypeOK
<1>2. ASSUME NEW c \in McpClients PROVE Evolves(mcpOf[c], mcpOf'[c])
  BY <1>1, Fewer DEF IdsGiven
<1>3. QED
  BY <1>1, <1>2 DEF ClientsEvolve

LEMMA OneClient ==
  ASSUME McpInv, NEW c \in McpClients, NEW b \in ClientObject, Evolves(mcpOf[c], b),
         mcpOf' = [mcpOf EXCEPT ![c] = b], mcpMade' \in {mcpMade, mcpMade + 1},
         c <= mcpMade' \/ b.next = mcpOf[c].next
  PROVE  ClientsEvolve
<1>1. mcpOf \in [McpClients -> ClientObject] /\ IdsGiven
  BY DEF McpInv, McpTypeOK
<1>2. mcpOf' \in [McpClients -> ClientObject]
  BY <1>1
<1>3. ASSUME NEW d \in McpClients PROVE Evolves(mcpOf[d], mcpOf'[d])
  <2>1. CASE d = c
    BY <2>1, <1>1
  <2>2. CASE d # c
    <3>1. mcpOf'[d] = mcpOf[d]
      BY <2>2, <1>1
    <3>2. QED
      BY <3>1, <1>1, Fewer DEF IdsGiven
  <2>3. QED
    BY <2>1, <2>2
<1>4. ASSUME NEW d \in McpClients, mcpMade' < d PROVE mcpOf'[d].next = mcpOf[d].next
  <2>1. CASE d = c
    <3>1. ~(c <= mcpMade')
      BY <1>4, <2>1 DEF McpInv, McpTypeOK, McpClients
    <3>2. QED
      BY <3>1, <2>1, <1>1
  <2>2. CASE d # c
    BY <2>2, <1>1
  <2>3. QED
    BY <2>1, <2>2
<1>5. QED
  BY <1>2, <1>3, <1>4 DEF ClientsEvolve

\* A thread that does not move keeps what it had.
LEMMA ThreadKept ==
  ASSUME McpInv, ClientsEvolve, NEW t \in McpThreads
  PROVE  Fits(t, mcpThread[t])
<1> DEFINE thread == mcpThread[t]
           c == mcpThread[t].client
<1>1. thread \in McpOperation /\ (thread.pc # "idle" => IsMade(c, mcpMade'))
  BY DEF McpInv, McpTypeOK, AtWork, IsMade, ClientsEvolve, McpClients
<1>2. thread.pc \in {"notify", "answered"} => thread.answer = <<t, thread.sent>>
  BY DEF McpInv, AnswersMatch
<1>3. ASSUME thread.pc \in {"opening", "waiting"} PROVE Awaits(thread, t, mcpOf'[c])
  <2>1. c \in McpClients
    BY <1>1, <1>3 DEF IsMade
  <2>2. Awaits(thread, t, mcpOf[c])
    BY <1>3 DEF McpInv, Awaited, McpWaiting
  <2>3. Evolves(mcpOf[c], mcpOf'[c])
    BY <2>1 DEF ClientsEvolve
  <2>4. mcpOf[c].next \in Nat /\ mcpOf'[c].next \in Nat /\ thread.id \in Nat
    BY <1>1, <2>1 DEF McpInv, McpTypeOK, ClientsEvolve, ClientObject, McpOperation
  <2>5. thread.id < mcpOf'[c].next
    BY <2>2, <2>3, <2>4 DEF Awaits, Evolves
  <2>6. ASSUME NEW m \in McpMessage, Holds(mcpOf'[c].proc, m), m.id = thread.id
        PROVE  m.by = <<t, thread.sent>>
    <3>1. Holds(mcpOf[c].proc, m) \/ mcpOf[c].next <= m.id
      BY <2>3, <2>6 DEF Evolves
    <3>2. Holds(mcpOf[c].proc, m)
      BY <3>1, <2>2, <2>4, <2>6 DEF Awaits
    <3>3. QED
      BY <3>2, <2>2, <2>6 DEF Awaits
  <2>7. QED
    BY <2>5, <2>6 DEF Awaits
<1>4. QED
  BY <1>1, <1>2, <1>3 DEF Fits

LEMMA IdsKept == McpInv /\ ClientsEvolve => IdsGiven'
BY DEF ClientsEvolve, Evolves, IdsGiven

\* What every step has to show.
LEMMA Kept ==
  ASSUME McpInv, ClientsEvolve, RegistryType',
         mcpThread' \in [McpThreads -> McpOperation],
         \A t \in McpThreads : Fits(t, mcpThread'[t])
  PROVE  McpInv'
<1>1. McpTypeOK'
  BY DEF McpTypeOK, RegistryType, ClientsEvolve
<1>2. AtWork' /\ AnswersMatch'
  BY DEF AtWork, AnswersMatch, Fits
<1>3. Unmade'
  <2>1. ASSUME NEW c \in McpClients, mcpMade' < c PROVE mcpOf'[c].next = 1
    <3>1. mcpMade < c
      BY <2>1 DEF McpInv, McpTypeOK, ClientsEvolve, McpClients
    <3>2. QED
      BY <2>1, <3>1 DEF McpInv, Unmade, ClientsEvolve
  <2>2. QED
    BY <2>1 DEF Unmade, RegistryType
<1>4. Awaited'
  BY DEF Awaited, McpWaiting, Awaits, Fits
<1>5. QED
  BY <1>1, <1>2, <1>3, <1>4, IdsKept DEF McpInv

\* One thread moves.
LEMMA OneThread ==
  ASSUME McpInv, ClientsEvolve, RegistryType',
         NEW t \in McpThreads, NEW thread, Fits(t, thread),
         mcpThread' = [mcpThread EXCEPT ![t] = thread]
  PROVE  McpInv'
<1>1. mcpThread \in [McpThreads -> McpOperation]
  BY DEF McpInv, McpTypeOK
<1>2. mcpThread' \in [McpThreads -> McpOperation]
  BY <1>1 DEF Fits
<1>3. ASSUME NEW u \in McpThreads PROVE Fits(u, mcpThread'[u])
  <2>1. CASE u = t
    BY <2>1, <1>1
  <2>2. CASE u # t
    BY <2>2, <1>1, ThreadKept
  <2>3. QED
    BY <2>1, <2>2
<1>4. QED
  BY <1>2, <1>3, Kept

\* No thread moves.
LEMMA NoThread ==
  ASSUME McpInv, ClientsEvolve, RegistryType', UNCHANGED mcpThread
  PROVE  McpInv'
<1>1. mcpThread \in [McpThreads -> McpOperation]
  BY DEF McpInv, McpTypeOK
<1>2. QED
  BY <1>1, ThreadKept, Kept

LEMMA SameRegistry == McpInv /\ UNCHANGED mcpRegistry => RegistryType' /\ mcpMade' = mcpMade
BY DEF McpInv, McpTypeOK, Unmade, RegistryType, mcpRegistry

LEMMA IdleFits ==
  ASSUME NEW t \in McpThreads, NEW sent \in Nat
  PROVE  Fits(t, McpIdle(t, sent))
BY DEF Fits, McpIdle, McpOperation, McpSteps

-----------------------------------------------------------------------------
(* Actions *)

LEMMA InitHolds == McpInit => McpInv
<1> SUFFICES ASSUME McpInit PROVE McpInv
  OBVIOUS
<1>1. /\ mcpOf \in [McpClients -> ClientObject]
      /\ \A c \in McpClients : mcpOf[c].next = 1 /\ \A m : ~Holds(mcpOf[c].proc, m)
  BY NewClientType DEF McpInit, NewClient
<1>2. \A t \in McpThreads : McpIdle(t, 0) \in McpOperation /\ McpIdle(t, 0).pc = "idle"
  BY DEF McpIdle, McpOperation, McpSteps
<1>3. mcpThread \in [McpThreads -> McpOperation] /\ \A t \in McpThreads : mcpThread[t].pc = "idle"
  BY <1>2 DEF McpInit
<1>4. mcpEdits \in Nat
  BY DEF McpInit
<1>5. McpTypeOK
  BY <1>1, <1>3, <1>4 DEF McpTypeOK, McpInit
<1>6. AtWork /\ Unmade /\ IdsGiven /\ Awaited /\ AnswersMatch
  BY <1>1, <1>3 DEF AtWork, Unmade, IdsGiven, Awaited, AnswersMatch, McpWaiting, McpInit
<1>7. QED
  BY <1>5, <1>6 DEF McpInv

\* The thread that acts and its client.
LEMMA Acting ==
  ASSUME McpInv, NEW t \in McpThreads
  PROVE  /\ mcpThread[t] \in McpOperation
         /\ mcpThread[t].sent \in Nat
         /\ mcpThread[t].pc # "idle" =>
              /\ IsMade(mcpThread[t].client, mcpMade)
              /\ mcpThread[t].client \in McpClients
              /\ mcpOf[mcpThread[t].client] \in ClientObject
BY DEF McpInv, McpTypeOK, AtWork, IsMade, McpOperation

LEMMA Given ==
  ASSUME McpInv, NEW c \in McpClients
  PROVE  /\ mcpOf[c] \in ClientObject
         /\ mcpOf[c].next \in Nat
         /\ mcpOf[c].proc \in McpProcess
         /\ \A m \in McpMessage : Holds(mcpOf[c].proc, m) => m.id < mcpOf[c].next
BY DEF McpInv, McpTypeOK, IdsGiven, ClientObject

\* A client that is closed, released or both.
LEMMA Quieter ==
  ASSUME McpInv, NEW c \in McpClients, NEW b \in ClientObject,
         b.next = mcpOf[c].next,
         \A m \in McpMessage : Holds(b.proc, m) => Holds(mcpOf[c].proc, m)
  PROVE  Evolves(mcpOf[c], b)
BY Given, Fewer

LEMMA EditFileKeeps ==
  ASSUME McpInv, NEW registers \in BOOLEAN, McpEditFile(registers) PROVE McpInv'
<1>1. RegistryType' /\ UNCHANGED <<mcpMade, mcpOf, mcpThread>>
  BY DEF McpEditFile, McpInv, McpTypeOK, Unmade, RegistryType
<1>2. QED
  BY <1>1, SameClients, NoThread

LEMMA EditMemoryKeeps ==
  ASSUME McpInv, McpEditMemory PROVE McpInv'
<1>1. RegistryType' /\ UNCHANGED <<mcpMade, mcpThread>>
  BY DEF McpEditMemory, McpInv, McpTypeOK, RegistryType
<1>2. ASSUME NEW d \in McpClients
      PROVE  /\ mcpOf'[d] \in ClientObject
             /\ Evolves(mcpOf[d], mcpOf'[d])
             /\ mcpOf'[d].next = mcpOf[d].next
  <2>1. mcpOf'[d] = McpClosed(mcpOf[d]) \/ mcpOf'[d] = mcpOf[d]
    BY DEF McpEditMemory, ClosedClient
  <2>2. QED
    BY <2>1, Given, ClosedType, Quieter
<1>3. mcpOf' = [d \in McpClients |-> mcpOf'[d]]
  BY DEF McpEditMemory, ClosedClient
<1>4. ClientsEvolve
  BY <1>1, <1>2, <1>3 DEF ClientsEvolve
<1>5. QED
  BY <1>1, <1>4, NoThread

LEMMA CrashKeeps ==
  ASSUME McpInv, McpCrash PROVE McpInv'
<1>1. RegistryType' /\ mcpMade' = mcpMade
  BY DEF McpCrash, McpInv, McpTypeOK, RegistryType
<1>2. ASSUME NEW d \in McpClients
      PROVE  /\ mcpOf'[d] \in ClientObject
             /\ Evolves(mcpOf[d], mcpOf'[d])
             /\ mcpOf'[d].next = mcpOf[d].next
  <2>1. mcpOf'[d] = [McpClosed(mcpOf[d]) EXCEPT !.lock = McpFree]
    BY DEF McpCrash
  <2>2. QED
    BY <2>1, Given, ClosedType, Quieter
<1>3. mcpOf' = [d \in McpClients |-> mcpOf'[d]]
  BY DEF McpCrash
<1>4. ClientsEvolve
  BY <1>1, <1>2, <1>3 DEF ClientsEvolve
<1>5. \A t \in McpThreads : Fits(t, mcpThread'[t])
  BY Acting, IdleFits DEF McpCrash
<1>6. mcpThread' \in [McpThreads -> McpOperation]
  BY <1>5 DEF McpCrash, Fits
<1>7. QED
  BY <1>1, <1>4, <1>5, <1>6, Kept

LEMMA BeginKeeps ==
  ASSUME McpInv, NEW t \in McpThreads, NEW op \in {"list", "call"}, McpBegin(t, op)
  PROVE  McpInv'
<1> DEFINE c == IF mcpClient = 0 THEN mcpMade + 1 ELSE mcpClient
           thread == [mcpThread[t] EXCEPT !.pc = "initialize", !.op = op, !.client = c]
<1>1. mcpMade \in Nat /\ mcpClient \in {0} \cup McpClients /\ McpMaxClients \in Nat /\ mcpServer \in Nat
  BY McpAssumption DEF McpInv, McpTypeOK
<1>2. c \in McpClients
  BY <1>1 DEF McpBegin, McpClients
<1>3. RegistryType' /\ c <= mcpMade' /\ mcpMade' \in {mcpMade, mcpMade + 1}
  BY <1>1, <1>2 DEF McpBegin, McpInv, McpTypeOK, Unmade, RegistryType, McpClients
<1>4. mcpThread' = [mcpThread EXCEPT ![t] = thread]
  BY DEF McpBegin
<1>5. ClientsEvolve
  <2>1. CASE mcpClient = 0
    <3>1. mcpOf' = [mcpOf EXCEPT ![c] = NewClient(mcpServer)]
      BY <2>1 DEF McpBegin
    <3>2. mcpOf[c].next = 1
      BY <2>1, <1>1, <1>2 DEF McpInv, Unmade
    <3>3. NewClient(mcpServer).next = 1
      BY DEF NewClient
    <3>4. NewClient(mcpServer) \in ClientObject /\ Evolves(mcpOf[c], NewClient(mcpServer))
      BY <1>1, <3>2, <3>3, NewClientType DEF Evolves
    <3> HIDE DEF c
    <3>5. QED
      BY <1>2, <1>3, <3>1, <3>4, OneClient
  <2>2. CASE mcpClient # 0
    BY <2>2, <1>3, SameClients DEF McpBegin
  <2>3. QED
    BY <2>1, <2>2
<1> HIDE DEF c
<1>6. Fits(t, thread)
  <2>1. "initialize" \in McpSteps /\ c \in Nat
    BY <1>2 DEF McpSteps, McpClients
  <2>2. mcpThread[t] \in McpOperation
    BY Acting
  <2>3. thread \in McpOperation
    BY <2>1, <2>2, Zenon DEF McpOperation
  <2>4. thread.pc = "initialize" /\ thread.client = c
    BY <2>2 DEF McpOperation
  <2> HIDE DEF thread
  <2>5. QED
    BY <1>2, <1>3, <2>3, <2>4 DEF Fits, IsMade
<1> HIDE DEF thread
<1>7. QED
  BY <1>3, <1>4, <1>5, <1>6, OneThread

LEMMA AlreadyInitializedKeeps ==
  ASSUME McpInv, NEW t \in McpThreads, AlreadyInitialized(t) PROVE McpInv'
<1> DEFINE thread == [mcpThread[t] EXCEPT !.pc = "request"]
<1>1. RegistryType' /\ mcpMade' = mcpMade
  BY SameRegistry DEF AlreadyInitialized
<1>2. ClientsEvolve
  BY <1>1, SameClients DEF AlreadyInitialized
<1>3. mcpThread' = [mcpThread EXCEPT ![t] = thread]
  BY DEF AlreadyInitialized
<1>4. Fits(t, thread)
  <2>1. "request" \in McpSteps
    BY DEF McpSteps
  <2>2. mcpThread[t] \in McpOperation /\ IsMade(mcpThread[t].client, mcpMade')
    BY <1>1, Acting DEF AlreadyInitialized
  <2>3. thread \in McpOperation
    BY <2>1, <2>2, Zenon DEF McpOperation
  <2>4. thread.pc = "request" /\ thread.client = mcpThread[t].client
    BY <2>2 DEF McpOperation
  <2> HIDE DEF thread
  <2>5. QED
    BY <2>2, <2>3, <2>4 DEF Fits
<1> HIDE DEF thread
<1>5. QED
  BY <1>1, <1>2, <1>3, <1>4, OneThread

\* A request carries an id nobody has, and only the thread that sent it waits
\* for that id.
LEMMA SendKeeps ==
  ASSUME McpInv, NEW t \in McpThreads, McpSend(t) PROVE McpInv'
<1> DEFINE old    == mcpThread[t]
           c      == old.client
           a      == mcpOf[c]
           new    == [id |-> a.next, by |-> <<t, old.sent + 1>>]
           proc   == [McpStarted(a) EXCEPT !.asked = McpStarted(a).asked \cup {new}]
           b      == [a EXCEPT !.lock = t, !.next = a.next + 1, !.started = TRUE, !.proc = proc]
           pc     == IF old.pc = "request" THEN "waiting" ELSE "opening"
           thread == [old EXCEPT !.pc = pc, !.id = a.next, !.sent = old.sent + 1]
<1>1. RegistryType' /\ mcpMade' = mcpMade
  BY SameRegistry DEF McpSend
<1>2. old \in McpOperation /\ old.sent \in Nat /\ old.sent + 1 \in Nat /\ IsMade(c, mcpMade')
  BY <1>1, Acting DEF McpSend
<1>3. /\ c \in McpClients
      /\ a \in ClientObject /\ a.next \in Nat /\ a.next + 1 \in Nat
      /\ \A m \in McpMessage : Holds(a.proc, m) => m.id < a.next
  BY <1>2, Given DEF IsMade
<1>4. mcpOf' = [mcpOf EXCEPT ![c] = b] /\ mcpThread' = [mcpThread EXCEPT ![t] = thread]
  BY DEF McpSend
<1>5. new \in McpMessage /\ new.id = a.next /\ new.by = <<t, old.sent + 1>>
  BY <1>2, <1>3 DEF McpMessage
<1> HIDE DEF new
<1>6. /\ proc \in McpProcess
      /\ \A m : Holds(proc, m) => m = new \/ Holds(a.proc, m)
  <2>1. McpStarted(a) \in McpProcess /\ \A m : Holds(McpStarted(a), m) => Holds(a.proc, m)
    BY <1>3, StartedType
  <2>2. proc \in McpProcess
    BY <1>5, <2>1 DEF McpProcess
  <2>3. proc.asked = McpStarted(a).asked \cup {new} /\ proc.out = McpStarted(a).out
    BY <2>1 DEF McpProcess
  <2>4. QED
    BY <2>1, <2>2, <2>3 DEF Holds
<1> HIDE DEF proc
<1>7. b \in ClientObject /\ b.next = a.next + 1 /\ b.proc = proc
  <2>1. t \in McpThreads \cup {McpFree}
    OBVIOUS
  <2>2. QED
    BY <1>3, <1>6, <2>1 DEF ClientObject
<1> HIDE DEF b
<1>8. Evolves(a, b)
  <2>1. ASSUME NEW m \in McpMessage, Holds(b.proc, m)
        PROVE  m.id < b.next /\ (Holds(a.proc, m) \/ a.next <= m.id)
    <3>1. CASE m = new
      BY <3>1, <1>3, <1>5, <1>7
    <3>2. CASE Holds(a.proc, m)
      <4>1. m.id < a.next /\ m.id \in Nat
        BY <3>2, <1>3 DEF McpMessage
      <4>2. QED
        BY <4>1, <3>2, <1>3, <1>7
    <3>3. QED
      BY <2>1, <3>1, <3>2, <1>6, <1>7
  <2>2. QED
    BY <2>1, <1>3, <1>7 DEF Evolves
<1>9. pc \in McpSteps /\ pc \in {"opening", "waiting"}
  BY DEF McpSteps
<1> HIDE DEF pc
<1>10. thread \in McpOperation
  BY <1>2, <1>3, <1>9, Zenon DEF McpOperation
<1>11. thread.pc = pc /\ thread.client = c /\ thread.id = a.next /\ thread.sent = old.sent + 1
  BY <1>2 DEF McpOperation
<1> HIDE DEF thread
<1>12. mcpOf'[c] = b
  BY <1>3, <1>4 DEF McpInv, McpTypeOK
<1>13. Awaits(thread, t, mcpOf'[c])
  <2>1. thread.id < b.next
    BY <1>3, <1>7, <1>11
  <2>2. ASSUME NEW m \in McpMessage, Holds(b.proc, m), m.id = thread.id
        PROVE  m.by = <<t, thread.sent>>
    <3>1. ~Holds(a.proc, m)
      BY <1>3, <1>11, <2>2
    <3>2. m = new
      BY <3>1, <2>2, <1>6, <1>7
    <3>3. QED
      BY <3>2, <1>5, <1>11
  <2>3. QED
    BY <2>1, <2>2, <1>12 DEF Awaits
<1>14. Fits(t, thread)
  BY <1>2, <1>9, <1>10, <1>11, <1>13 DEF Fits
<1> HIDE DEF old, a, c
<1>15. ClientsEvolve
  BY <1>1, <1>2, <1>3, <1>4, <1>7, <1>8, OneClient DEF IsMade, a
<1>16. QED
  BY <1>1, <1>4, <1>14, <1>15, OneThread

\* A message with the id is the answer, another is dropped.
LEMMA ReceiveKeeps ==
  ASSUME McpInv, NEW t \in McpThreads, McpReceive(t) PROVE McpInv'
<1> DEFINE old    == mcpThread[t]
           c      == old.client
           a      == mcpOf[c]
           first  == Head(a.proc.out)
           rest   == [a.proc EXCEPT !.out = Tail(a.proc.out)]
           read   == [a EXCEPT !.proc = rest]
           freed  == [a EXCEPT !.proc = rest, !.lock = McpFree]
           pc     == IF old.pc = "opening" THEN "notify" ELSE "answered"
           thread == [old EXCEPT !.pc = pc, !.answer = first.by]
<1>1. RegistryType' /\ mcpMade' = mcpMade
  BY SameRegistry DEF McpReceive
<1>2. old.pc \in {"opening", "waiting"} /\ a.proc.out # << >>
  BY DEF McpReceive, McpWaiting
<1>3. old \in McpOperation /\ old.id \in Nat /\ IsMade(c, mcpMade') /\ Awaits(old, t, a)
  BY <1>1, <1>2, Acting DEF McpInv, Awaited, McpWaiting, McpOperation
<1>4. c \in McpClients /\ a \in ClientObject /\ a.proc \in McpProcess
  BY <1>3, Given DEF IsMade
<1>5. /\ rest \in McpProcess
      /\ \A m : Holds(rest, m) => Holds(a.proc, m)
      /\ first \in McpMessage /\ Holds(a.proc, first)
  BY <1>2, <1>4, TailHolds
<1>6. \/ /\ first.id = old.id
         /\ mcpOf' = [mcpOf EXCEPT ![c] = freed]
         /\ mcpThread' = [mcpThread EXCEPT ![t] = thread]
      \/ /\ mcpOf' = [mcpOf EXCEPT ![c] = read]
         /\ UNCHANGED mcpThread
  BY DEF McpReceive, IsAnswer
<1> HIDE DEF rest, first
<1>7. /\ read \in ClientObject /\ read.next = a.next /\ read.proc = rest
      /\ freed \in ClientObject /\ freed.next = a.next /\ freed.proc = rest
  BY <1>4, <1>5 DEF ClientObject
<1> HIDE DEF read, freed
<1>8. Evolves(a, read) /\ Evolves(a, freed)
  BY <1>4, <1>5, <1>7, Quieter
<1>9. ASSUME first.id = old.id PROVE Fits(t, thread)
  <2>1. first.by = <<t, old.sent>> /\ first.by \in McpThreads \X Nat
    BY <1>3, <1>5, <1>9 DEF Awaits, McpMessage
  <2>2. pc \in McpSteps /\ pc \in {"notify", "answered"}
    BY DEF McpSteps
  <2> HIDE DEF pc
  <2>3. thread \in McpOperation
    BY <1>3, <2>1, <2>2, Zenon DEF McpOperation
  <2>4. thread.pc = pc /\ thread.client = c /\ thread.sent = old.sent /\ thread.answer = first.by
    BY <1>3 DEF McpOperation
  <2> HIDE DEF thread
  <2>5. QED
    BY <1>3, <2>1, <2>2, <2>3, <2>4 DEF Fits
<1> HIDE DEF thread, old, a, c
<1>10. ClientsEvolve
  BY <1>1, <1>4, <1>6, <1>7, <1>8, OneClient DEF a
<1>11. QED
  BY <1>1, <1>6, <1>9, <1>10, OneThread, NoThread

LEMMA TimeOutKeeps ==
  ASSUME McpInv, NEW t \in McpThreads, McpTimeOut(t) PROVE McpInv'
<1> DEFINE c == mcpThread[t].client
           b == [McpClosed(mcpOf[c]) EXCEPT !.lock = McpFree]
<1>1. RegistryType' /\ mcpMade' = mcpMade
  BY SameRegistry DEF McpTimeOut
<1>2. c \in McpClients
  BY Acting DEF McpTimeOut, McpWaiting
<1>3. b \in ClientObject /\ b.next = mcpOf[c].next /\ Evolves(mcpOf[c], b)
  BY <1>2, Given, ClosedType, Quieter
<1>4. mcpOf' = [mcpOf EXCEPT ![c] = b] /\ mcpThread' = [mcpThread EXCEPT ![t] = McpIdle(t, mcpThread[t].sent)]
  BY DEF McpTimeOut, McpAbandon
<1> HIDE DEF b, c
<1>5. ClientsEvolve
  BY <1>1, <1>2, <1>3, <1>4, OneClient
<1>6. QED
  BY <1>1, <1>4, <1>5, Acting, IdleFits, OneThread

\* The request is abandoned, its answer may still come: the id is not given again.
LEMMA FailReadKeeps ==
  ASSUME McpInv, NEW t \in McpThreads, FailRead(t) PROVE McpInv'
<1> DEFINE c == mcpThread[t].client
           b == [mcpOf[c] EXCEPT !.lock = McpFree]
<1>1. RegistryType' /\ mcpMade' = mcpMade
  BY SameRegistry DEF FailRead
<1>2. c \in McpClients
  BY Acting DEF FailRead, McpWaiting
<1>3. b \in ClientObject /\ b.next = mcpOf[c].next /\ b.proc = mcpOf[c].proc
  BY <1>2, Given DEF ClientObject
<1>4. Evolves(mcpOf[c], b)
  BY <1>2, <1>3, Quieter
<1>5. mcpOf' = [mcpOf EXCEPT ![c] = b] /\ mcpThread' = [mcpThread EXCEPT ![t] = McpIdle(t, mcpThread[t].sent)]
  BY DEF FailRead, McpAbandon
<1> HIDE DEF b, c
<1>6. ClientsEvolve
  BY <1>1, <1>2, <1>3, <1>4, <1>5, OneClient
<1>7. QED
  BY <1>1, <1>5, <1>6, Acting, IdleFits, OneThread

LEMMA NotifyKeeps ==
  ASSUME McpInv, NEW t \in McpThreads, NotifyInitialized(t) PROVE McpInv'
<1> DEFINE old    == mcpThread[t]
           c      == old.client
           a      == mcpOf[c]
           b      == [a EXCEPT !.proc = McpStarted(a), !.started = TRUE, !.initialized = TRUE]
           thread == [old EXCEPT !.pc = "request"]
<1>1. RegistryType' /\ mcpMade' = mcpMade
  BY SameRegistry DEF NotifyInitialized
<1>2. old \in McpOperation /\ IsMade(c, mcpMade') /\ c \in McpClients /\ a \in ClientObject
  BY <1>1, Acting DEF NotifyInitialized
<1>3. b \in ClientObject /\ b.next = a.next /\ b.proc = McpStarted(a)
  BY <1>2, StartedType DEF ClientObject
<1>4. Evolves(a, b)
  BY <1>2, <1>3, StartedType, Quieter
<1>5. mcpOf' = [mcpOf EXCEPT ![c] = b] /\ mcpThread' = [mcpThread EXCEPT ![t] = thread]
  BY DEF NotifyInitialized
<1>6. Fits(t, thread)
  <2>1. "request" \in McpSteps
    BY DEF McpSteps
  <2>2. thread \in McpOperation
    BY <1>2, <2>1, Zenon DEF McpOperation
  <2>3. thread.pc = "request" /\ thread.client = c
    BY <1>2 DEF McpOperation
  <2> HIDE DEF thread
  <2>4. QED
    BY <1>2, <2>2, <2>3 DEF Fits
<1> HIDE DEF b, thread, old, a, c
<1>7. ClientsEvolve
  BY <1>1, <1>2, <1>3, <1>4, <1>5, OneClient DEF a
<1>8. QED
  BY <1>1, <1>5, <1>6, <1>7, OneThread

LEMMA FinishKeeps ==
  ASSUME McpInv, NEW t \in McpThreads, McpFinish(t) PROVE McpInv'
<1>1. mcpOf[mcpThread[t].client].config \in Nat
  BY Acting DEF McpFinish, ClientObject
<1>2. mcpCache' \in [file : Nat, memory : Nat]
  BY <1>1 DEF McpFinish, McpInv, McpTypeOK
<1>3. RegistryType' /\ UNCHANGED <<mcpMade, mcpOf>>
  BY <1>2 DEF McpFinish, McpInv, McpTypeOK, Unmade, RegistryType
<1>4. mcpThread' = [mcpThread EXCEPT ![t] = McpIdle(t, mcpThread[t].sent)]
  BY DEF McpFinish, McpAbandon
<1>5. QED
  BY <1>3, <1>4, SameClients, Acting, IdleFits, OneThread

LEMMA ServerKeeps ==
  ASSUME McpInv, NEW c \in McpClients, McpAnswer(c) \/ McpDie(c) PROVE McpInv'
<1> DEFINE a == mcpOf[c]
<1>1. RegistryType' /\ mcpMade' = mcpMade /\ UNCHANGED mcpThread
  BY SameRegistry DEF McpAnswer, McpDie
<1>2. a \in ClientObject /\ a.proc \in McpProcess
  BY Given
<1>3. PICK proc : /\ mcpOf' = [mcpOf EXCEPT ![c] = [a EXCEPT !.proc = proc]]
                  /\ proc \in McpProcess
                  /\ \A m : Holds(proc, m) => Holds(a.proc, m)
  <2>1. CASE McpAnswer(c)
    <3>1. PICK m \in a.proc.asked :
            mcpOf' = [mcpOf EXCEPT ![c] = [a EXCEPT !.proc =
              [a.proc EXCEPT !.asked = a.proc.asked \ {m}, !.out = Append(a.proc.out, m)]]]
      BY <2>1 DEF McpAnswer
    <3> DEFINE moved == [a.proc EXCEPT !.asked = a.proc.asked \ {m}, !.out = Append(a.proc.out, m)]
    <3>2. moved \in McpProcess /\ \A n : Holds(moved, n) => Holds(a.proc, n)
      <4> HIDE DEF a
      <4>1. QED
        BY <1>2, AnswerHolds
    <3> HIDE DEF moved
    <3>3. mcpOf' = [mcpOf EXCEPT ![c] = [a EXCEPT !.proc = moved]]
      BY <3>1 DEF moved
    <3>4. QED
      BY <3>2, <3>3
  <2>2. CASE McpDie(c)
    <3> DEFINE dead == [a.proc EXCEPT !.alive = FALSE, !.asked = {}]
    <3>1. mcpOf' = [mcpOf EXCEPT ![c] = [a EXCEPT !.proc = dead]]
      BY <2>2 DEF McpDie
    <3>2. dead \in McpProcess /\ dead.asked = {} /\ dead.out = a.proc.out
      BY <1>2 DEF McpProcess
    <3> HIDE DEF dead
    <3>3. QED
      BY <3>1, <3>2 DEF Holds
  <2>3. QED
    BY <2>1, <2>2
<1> DEFINE b == [a EXCEPT !.proc = proc]
<1>4. b \in ClientObject /\ b.next = a.next /\ b.proc = proc
  BY <1>2, <1>3 DEF ClientObject
<1>5. Evolves(a, b)
  BY <1>3, <1>4, Quieter
<1>6. mcpOf' = [mcpOf EXCEPT ![c] = b]
  BY <1>3
<1> HIDE DEF b
<1>7. ClientsEvolve
  BY <1>1, <1>4, <1>5, <1>6, OneClient
<1>8. QED
  BY <1>1, <1>7, NoThread

-----------------------------------------------------------------------------
(* Theorems *)

LEMMA StepKeeps == McpInv /\ [McpNext]_mcpVars => McpInv'
<1> SUFFICES ASSUME McpInv, [McpNext]_mcpVars PROVE McpInv'
  OBVIOUS
<1>1. CASE UNCHANGED mcpVars
  <2>1. UNCHANGED <<mcpRegistry, mcpOf, mcpThread>>
    BY <1>1 DEF mcpVars, mcpRegistry
  <2>2. QED
    BY <2>1, SameRegistry, SameClients, NoThread
<1>2. CASE \E registers \in BOOLEAN : McpEditFile(registers)
  BY <1>2, EditFileKeeps
<1>3. CASE McpEditMemory
  BY <1>3, EditMemoryKeeps
<1>4. CASE McpCrash
  BY <1>4, CrashKeeps
<1>5. ASSUME NEW t \in McpThreads,
             \/ \E op \in {"list", "call"} : McpBegin(t, op)
             \/ AlreadyInitialized(t) \/ McpSend(t) \/ McpReceive(t) \/ McpTimeOut(t)
             \/ FailRead(t) \/ NotifyInitialized(t) \/ McpFinish(t)
      PROVE  McpInv'
  BY <1>5, BeginKeeps, AlreadyInitializedKeeps, SendKeeps, ReceiveKeeps, TimeOutKeeps,
     FailReadKeeps, NotifyKeeps, FinishKeeps
<1>6. CASE \E c \in McpClients : McpAnswer(c) \/ McpDie(c)
  BY <1>6, ServerKeeps
<1>7. QED
  BY <1>1, <1>2, <1>3, <1>4, <1>5, <1>6 DEF McpNext

LEMMA Always == McpSpec => []McpInv
BY InitHolds, StepKeeps, PTL DEF McpSpec

\* The manager's state has its types, however many threads use it, however
\* often it is edited and whatever its processes do (MCPManager, MCPClient).
THEOREM McpTyped == McpSpec => []McpTypeOK
<1>1. McpInv => McpTypeOK
  BY DEF McpInv
<1>2. QED
  BY <1>1, Always, PTL

\* For any number of threads, clients, requests and edits, a request is answered
\* by the answer to it: a late answer, left in the pipe by a request that failed
\* or sent to a process since replaced, is never taken for it (MCPClient.request).
THEOREM AnswersMatched == McpSpec => []AnswersMatch
<1>1. McpInv => AnswersMatch
  BY DEF McpInv
<1>2. QED
  BY <1>1, Always, PTL

-----------------------------------------------------------------------------
(***************************************************************************)
(* Proofs about RepoIndex, for any files, threads, edits and uses: what a  *)
(* search answers from is not older than the search.                       *)
(*                                                                         *)
(* SearchIsCurrent speaks of the end of a search. RiInv follows each use   *)
(* from file to file: what has been looked at is current, what has not is  *)
(* blank. It holds because of one fact about every snapshot, also those in *)
(* the two files: Sound, no text is older than the stamp recorded with it, *)
(* so that a text taken over by its stamp is not older than the file.      *)
(***************************************************************************)

SoundAt(s, k) ==
  /\ s.stamp[k] = RiUnknown <=> s.text[k] = RiUnknown
  /\ s.stamp[k] <= s.text[k]
Sound(s) == \A k \in RiPaths : SoundAt(s, k)
Blank(s, k) == s.stamp[k] = RiUnknown /\ s.text[k] = RiUnknown

Current(use, s, k) == IF s.text[k] = RiUnknown THEN k \in use.lost ELSE use.since[k] <= s.text[k]
Done(use, k) == SoundAt(use.new, k) /\ Current(use, use.new, k)

\* The use knows no file to be newer than it is, and misses none unknowingly.
Noted(use, file) ==
  \A k \in RiPaths :
    /\ use.since[k] <= file[k].version
    /\ k \notin use.listed \/ ~file[k].there => k \in use.lost

Checking(use) == \A k \in RiPaths : Blank(use.new, k) /\ (k < use.at => Current(use, use.old, k))
Looking(use) == \A k \in RiPaths : IF k < use.at THEN Done(use, k) ELSE Blank(use.new, k)
Reading(use, file) ==
  /\ \A k \in RiPaths : (k < use.at => Done(use, k)) /\ (k > use.at => Blank(use.new, k))
  /\ use.since[use.at] <= use.new.stamp[use.at]
  /\ use.new.stamp[use.at] <= file[use.at].version
  /\ use.new.stamp[use.at] # RiUnknown

ByStep(use, file) ==
  /\ use.pc = "check" => Checking(use)
  /\ use.pc = "stat" => Looking(use)
  /\ use.pc = "read" => Reading(use, file)
  /\ use.pc \in {"built", "writing", "written"} => \A k \in RiPaths : Done(use, k)
  /\ use.pc = "served" => \A k \in RiPaths : Current(use, use.new, k)

UseOK(use, file) ==
  /\ use \in RiUse
  /\ use.pc # "idle" => use.at \in RiPaths /\ Sound(use.old) /\ Noted(use, file) /\ ByStep(use, file)

ContentOK(content) == content \in RiContent /\ Sound(content.snapshot)
FileOK == riFile \in [RiPaths -> [version : RiVersions, there : BOOLEAN]]

RiInv ==
  /\ FileOK
  /\ riEdits \in RiVersions
  /\ \A k \in RiPaths : riFile[k].version <= riEdits
  /\ ContentOK(riIndex) /\ ContentOK(riTemp)
  /\ riThread = [t \in RiThreads |-> riThread[t]]
  /\ \A t \in RiThreads : UseOK(riThread[t], riFile)

USE RiAssumption

-----------------------------------------------------------------------------
(* Snapshots and files *)

LEMMA EmptySnapshotOK ==
  /\ EmptySnapshot \in RiSnapshot /\ Sound(EmptySnapshot)
  /\ \A k \in RiPaths : Blank(EmptySnapshot, k)
BY DEF EmptySnapshot, NoFiles, RiSnapshot, Sound, SoundAt, Blank, RiUnknown

LEMMA ContentsOK ==
  /\ ContentOK(NoContent) /\ ContentOK(Garbled)
  /\ \A s \in RiSnapshot : Sound(s) => ContentOK(Written(s))
<1>1. ContentOK(NoContent)
  BY EmptySnapshotOK DEF ContentOK, NoContent, RiContent
<1>2. Garbled \in RiContent /\ Garbled.snapshot = NoContent.snapshot
  BY <1>1 DEF ContentOK, Garbled, RiContent
<1>3. ASSUME NEW s \in RiSnapshot, Sound(s) PROVE ContentOK(Written(s))
  BY <1>3 DEF ContentOK, Written, RiContent
<1>4. QED
  BY <1>1, <1>2, <1>3 DEF ContentOK

LEMMA IdleOK == ASSUME NEW file PROVE UseOK(RiIdle, file)
<1>1. 0 \in RiVersions
  BY DEF RiVersions
<1>2. RiIdle \in RiUse
  BY <1>1, EmptySnapshotOK DEF RiIdle, RiUse, RiSteps
<1>3. RiIdle.pc = "idle"
  BY DEF RiIdle
<1>4. QED
  BY <1>2, <1>3 DEF UseOK

LEMMA RiInitHolds == RiInit => RiInv
<1> SUFFICES ASSUME RiInit PROVE RiInv
  OBVIOUS
<1>1. 0 \in RiVersions
  BY DEF RiVersions
<1>2. FileOK /\ riEdits \in RiVersions /\ \A k \in RiPaths : riFile[k].version <= riEdits
  BY <1>1 DEF RiInit, FileOK
<1>3. QED
  BY <1>2, ContentsOK, IdleOK DEF RiInit, RiInv

-----------------------------------------------------------------------------
(* Steps *)

\* Thread t moves; files that are used stay as they are.
LEMMA OneUse ==
  ASSUME RiInv, NEW t \in RiThreads, NEW use, UseOK(use, riFile),
         riThread' = [riThread EXCEPT ![t] = use],
         UNCHANGED <<riFile, riEdits>>, ContentOK(riIndex'), ContentOK(riTemp')
  PROVE  RiInv'
<1>1. \A u \in RiThreads : UseOK(riThread'[u], riFile)
  BY DEF RiInv
<1>2. riThread' = [u \in RiThreads |-> riThread'[u]]
  BY DEF RiInv
<1>3. FileOK' /\ riEdits' \in RiVersions /\ \A k \in RiPaths : riFile'[k].version <= riEdits'
  BY DEF RiInv, FileOK
<1>4. QED
  BY <1>1, <1>2, <1>3 DEF RiInv

\* What a use has seen does not depend on where its text goes.
LEMMA OtherTarget ==
  ASSUME NEW file, NEW use, UseOK(use, file), NEW next \in RiUse,
         next.pc = use.pc, next.at = use.at, next.listed = use.listed, next.old = use.old,
         next.new = use.new, next.since = use.since, next.lost = use.lost
  PROVE  UseOK(next, file)
BY DEF UseOK, Noted, ByStep, Checking, Looking, Reading, Done, Current

LEMMA EditKeeps ==
  ASSUME RiInv, NEW k \in RiPaths, NEW there \in BOOLEAN, RiEdit(k, there) PROVE RiInv'
<1> DEFINE changed == [version |-> riEdits + 1, there |-> there]
<1>1. /\ riEdits \in RiVersions /\ riEdits + 1 \in RiVersions
      /\ riFile \in [RiPaths -> [version : RiVersions, there : BOOLEAN]]
      /\ \A j \in RiPaths : riFile[j].version \in Int /\ riFile[j].version <= riEdits
  BY DEF RiInv, FileOK, RiEdit, RiVersions
<1>2. riFile' = [riFile EXCEPT ![k] = changed] /\ changed \in [version : RiVersions, there : BOOLEAN]
  BY <1>1 DEF RiEdit
<1>3. /\ changed.version = riEdits + 1 /\ changed.there = there
  OBVIOUS
<1> HIDE DEF changed
<1>4. FileOK' /\ riEdits' \in RiVersions
  BY <1>1, <1>2 DEF FileOK, RiEdit
<1>5. \A j \in RiPaths : riFile'[j].version <= riEdits' /\ riFile[j].version <= riFile'[j].version
  BY <1>1, <1>2, <1>3 DEF RiEdit, RiVersions
<1>6. \A j \in RiPaths : ~riFile'[j].there => ~riFile[j].there \/ (j = k /\ ~there)
  BY <1>1, <1>2, <1>3
<1>7. ASSUME NEW t \in RiThreads PROVE UseOK(riThread'[t], riFile')
  <2> DEFINE use == riThread[t]
             next == riThread'[t]
  <2>1. UseOK(use, riFile) /\ use \in RiUse
    BY DEF RiInv, UseOK
  <2>2. next = IF there THEN use ELSE [use EXCEPT !.lost = use.lost \cup {k}]
    BY DEF RiEdit
  <2>3. /\ next \in RiUse
        /\ next.pc = use.pc /\ next.at = use.at /\ next.listed = use.listed /\ next.old = use.old
        /\ next.new = use.new /\ next.since = use.since
        /\ use.lost \subseteq next.lost /\ (~there => k \in next.lost)
    BY <2>1, <2>2 DEF RiUse
  <2> HIDE DEF next, use
  <2>4. CASE use.pc = "idle"
    BY <2>3, <2>4 DEF UseOK, next
  <2>5. CASE use.pc # "idle"
    <3>1. use.at \in RiPaths /\ Sound(use.old) /\ Noted(use, riFile) /\ ByStep(use, riFile)
      BY <2>1, <2>5 DEF UseOK
    <3>2. \A j \in RiPaths : use.since[j] \in Int
      BY <2>1 DEF RiUse, RiVersions
    <3>3. \A j \in RiPaths : riFile'[j].version \in Int
      BY <1>4 DEF FileOK, RiVersions
    <3>4. Noted(next, riFile')
      BY <3>1, <3>2, <3>3, <2>3, <1>1, <1>5, <1>6 DEF Noted
    <3>5. \A s, j : Current(use, s, j) => Current(next, s, j)
      BY <2>3 DEF Current
    <3>6. \A j : Done(use, j) => Done(next, j)
      BY <2>3, <3>5 DEF Done
    <3>7. use.new.stamp[use.at] \in Int
      BY <2>1, <3>1 DEF RiUse, RiSnapshot, RiVersions, RiUnknown
    <3>8. use.new.stamp[use.at] <= riFile[use.at].version => use.new.stamp[use.at] <= riFile'[use.at].version
      BY <3>1, <3>3, <3>7, <1>1, <1>5
    <3>9. ByStep(next, riFile')
      <4>1. (use.pc = "check" => Checking(next)) /\ (use.pc = "stat" => Looking(next))
        BY <2>3, <3>1, <3>5, <3>6 DEF ByStep, Checking, Looking
      <4>2. use.pc = "read" => Reading(next, riFile')
        BY <2>3, <3>1, <3>6, <3>8 DEF ByStep, Reading
      <4>3. QED
        BY <4>1, <4>2, <2>3, <3>1, <3>5, <3>6 DEF ByStep
    <3>10. QED
      BY <2>3, <3>1, <3>4, <3>9 DEF UseOK, next
  <2>6. QED
    BY <2>4, <2>5
<1>8. riThread' = [t \in RiThreads |-> riThread'[t]]
  BY DEF RiEdit
<1>9. ContentOK(riIndex') /\ ContentOK(riTemp')
  BY DEF RiEdit, RiInv
<1>10. QED
  BY <1>4, <1>5, <1>7, <1>8, <1>9 DEF RiInv

\* Several threads move.
LEMMA SomeUses ==
  ASSUME RiInv, \A u \in RiThreads : UseOK(riThread'[u], riFile),
         riThread' = [u \in RiThreads |-> riThread'[u]],
         UNCHANGED <<riFile, riEdits>>, ContentOK(riIndex'), ContentOK(riTemp')
  PROVE  RiInv'
<1>1. FileOK' /\ riEdits' \in RiVersions /\ \A k \in RiPaths : riFile'[k].version <= riEdits'
  BY DEF RiInv, FileOK
<1>2. QED
  BY <1>1 DEF RiInv

LEMMA LoadedOK == RiInv => Loaded \in RiSnapshot /\ Sound(Loaded)
BY EmptySnapshotOK DEF RiInv, ContentOK, RiContent, Loaded

LEMMA BegunOK ==
  ASSUME RiInv, NEW search \in BOOLEAN, NEW pc \in {"stat", "check"},
         NEW old \in RiSnapshot, Sound(old)
  PROVE  UseOK(Begun(search, pc, old), riFile)
<1> DEFINE use == Begun(search, pc, old)
           since == [k \in RiPaths |-> riFile[k].version]
           lost == RiPaths \ Existing
<1>1. riFile \in [RiPaths -> [version : RiVersions, there : BOOLEAN]]
  BY DEF RiInv, FileOK
<1>2. RiIdle \in RiUse /\ pc \in RiSteps
  BY IdleOK DEF UseOK, RiSteps
<1>3. since \in [RiPaths -> RiVersions] /\ Existing \in SUBSET RiPaths /\ lost \in SUBSET RiPaths
  BY <1>1 DEF Existing
<1> HIDE DEF since, lost
<1>4. use = [RiIdle EXCEPT !.pc = pc, !.search = search, !.old = old, !.listed = Existing,
                           !.since = since, !.lost = lost]
  BY DEF Begun, since, lost
<1>5. use \in RiUse
  BY <1>2, <1>3, <1>4, Zenon DEF RiUse
<1>6. /\ use.pc = pc /\ use.old = old /\ use.listed = Existing /\ use.since = since /\ use.lost = lost
      /\ use.at = 1 /\ use.new = EmptySnapshot
  BY <1>2, <1>4 DEF RiUse, RiIdle
<1> HIDE DEF use
<1>7. Noted(use, riFile)
  <2>1. ASSUME NEW k \in RiPaths PROVE use.since[k] <= riFile[k].version
    BY <1>1, <1>6 DEF since, RiVersions
  <2>2. ASSUME NEW k \in RiPaths, k \notin use.listed \/ ~riFile[k].there PROVE k \in use.lost
    BY <2>2, <1>6 DEF Existing, lost
  <2>3. QED
    BY <2>1, <2>2 DEF Noted
<1>8. 1 \in RiPaths /\ \A k \in RiPaths : ~(k < 1)
  BY DEF RiPaths
<1>9. Checking(use) /\ Looking(use)
  BY <1>6, <1>8, EmptySnapshotOK DEF Checking, Looking
<1>10. UseOK(use, riFile)
  BY <1>5, <1>6, <1>7, <1>8, <1>9 DEF UseOK, ByStep
<1>11. QED
  BY <1>10 DEF use

LEMMA BuildKeeps ==
  ASSUME RiInv, NEW t \in RiThreads, NEW incremental \in BOOLEAN, RiBuild(t, incremental)
  PROVE  RiInv'
<1> DEFINE old == IF incremental THEN Loaded ELSE EmptySnapshot
<1>1. old \in RiSnapshot /\ Sound(old)
  BY LoadedOK, EmptySnapshotOK
<1>2. riThread' = [riThread EXCEPT ![t] = Begun(FALSE, "stat", old)]
  BY DEF RiBuild, Using
<1> HIDE DEF old
<1>3. UseOK(Begun(FALSE, "stat", old), riFile)
  BY <1>1, BegunOK
<1>4. UNCHANGED <<riFile, riEdits, riIndex, riTemp>> /\ ContentOK(riIndex) /\ ContentOK(riTemp)
  BY DEF RiBuild, RiInv
<1>5. QED
  BY <1>2, <1>3, <1>4, OneUse

LEMMA SearchKeeps ==
  ASSUME RiInv, NEW t \in RiThreads, NEW young \in BOOLEAN, RiSearch(t, young) PROVE RiInv'
<1> DEFINE pc == IF young /\ riIndex.valid THEN "check" ELSE "stat"
<1>1. pc \in {"stat", "check"}
  OBVIOUS
<1>2. riThread' = [riThread EXCEPT ![t] = Begun(TRUE, pc, Loaded)]
  BY DEF RiSearch, Using
<1> HIDE DEF pc
<1>3. UseOK(Begun(TRUE, pc, Loaded), riFile)
  BY <1>1, LoadedOK, BegunOK
<1>4. UNCHANGED <<riFile, riEdits, riIndex, riTemp>> /\ ContentOK(riIndex) /\ ContentOK(riTemp)
  BY DEF RiSearch, RiInv
<1>5. QED
  BY <1>2, <1>3, <1>4, OneUse

\* A use under way.
LEMMA InUse ==
  ASSUME RiInv, NEW t \in RiThreads, riThread[t].pc # "idle"
  PROVE  LET use == riThread[t]
         IN  /\ use \in RiUse /\ use.at \in RiPaths /\ use.old \in RiSnapshot /\ use.new \in RiSnapshot
             /\ Sound(use.old) /\ Noted(use, riFile) /\ ByStep(use, riFile)
             /\ \A k \in RiPaths : use.since[k] \in RiVersions
BY DEF RiInv, UseOK, RiUse

\* What the stamp of a file says of it.
LEMMA StampSays ==
  ASSUME RiInv, NEW k \in RiPaths
  PROVE  /\ Stamp(k) \in RiVersions \cup {RiUnknown}
         /\ Stamp(k) = RiUnknown => ~riFile[k].there
         /\ Stamp(k) # RiUnknown => Stamp(k) = riFile[k].version
BY DEF RiInv, FileOK, Stamp, RiVersions, RiUnknown

LEMMA SeenSays ==
  ASSUME RiInv, NEW use \in RiUse, use.at \in RiPaths, Noted(use, riFile)
  PROVE  /\ Seen(use) \in RiVersions \cup {RiUnknown}
         /\ Seen(use) = RiUnknown => use.at \in use.lost
         /\ Seen(use) # RiUnknown => use.since[use.at] <= Seen(use) /\ Seen(use) = riFile[use.at].version
BY StampSays DEF Seen, Noted

\* A snapshot entry with the stamp seen is current.
LEMMA Matches ==
  ASSUME RiInv, NEW use \in RiUse, use.at \in RiPaths, Noted(use, riFile),
         NEW s \in RiSnapshot, SoundAt(s, use.at), s.stamp[use.at] = Seen(use)
  PROVE  Current(use, s, use.at)
<1>1. /\ s.text[use.at] \in Int /\ use.since[use.at] \in Int /\ Seen(use) \in Int
  BY SeenSays DEF RiUse, RiSnapshot, RiVersions, RiUnknown
<1>2. CASE Seen(use) = RiUnknown
  BY <1>2, SeenSays DEF SoundAt, Current
<1>3. CASE Seen(use) # RiUnknown
  BY <1>1, <1>3, SeenSays DEF SoundAt, Current
<1>4. QED
  BY <1>2, <1>3

-----------------------------------------------------------------------------
(* From file to file *)

LEMMA LookKeeps == ASSUME RiInv, NEW t \in RiThreads, RiCheck(t) PROVE RiInv'
<1> DEFINE use == riThread[t]
           stale == [use EXCEPT !.pc = "stat", !.at = 1, !.listed = Existing, !.old = Loaded]
           more == [use EXCEPT !.at = use.at + 1]
           served == [use EXCEPT !.pc = "served", !.new = use.old]
           next == IF Seen(use) # use.old.stamp[use.at] THEN stale
                   ELSE IF use.at < RiFiles THEN more ELSE served
<1>1. /\ use.pc = "check" /\ riThread' = [riThread EXCEPT ![t] = next]
      /\ UNCHANGED <<riFile, riEdits, riIndex, riTemp>> /\ ContentOK(riIndex) /\ ContentOK(riTemp)
  BY DEF RiCheck, Using, RiInv
<1>2. /\ use \in RiUse /\ use.at \in RiPaths /\ use.old \in RiSnapshot
      /\ Sound(use.old) /\ Noted(use, riFile) /\ Checking(use)
  BY <1>1, InUse DEF ByStep
<1> HIDE DEF use
<1>3. ASSUME Seen(use) = use.old.stamp[use.at] PROVE Current(use, use.old, use.at)
  BY <1>2, <1>3, Matches DEF Sound
<1>4. UseOK(stale, riFile)
  <2>1. "stat" \in RiSteps /\ 1 \in Nat /\ Existing \in SUBSET RiPaths /\ Loaded \in RiSnapshot /\ Sound(Loaded)
    BY LoadedOK DEF RiSteps, Existing
  <2>2. stale \in RiUse
    BY <1>2, <2>1, Zenon DEF RiUse
  <2>3. /\ stale.pc = "stat" /\ stale.at = 1 /\ stale.listed = Existing /\ stale.old = Loaded
        /\ stale.new = use.new /\ stale.since = use.since /\ stale.lost = use.lost
    BY <1>2 DEF RiUse
  <2> HIDE DEF stale
  <2>4. Noted(stale, riFile)
    BY <1>2, <2>3 DEF Noted, Existing
  <2>5. 1 \in RiPaths /\ \A k \in RiPaths : ~(k < 1)
    BY DEF RiPaths
  <2>6. Looking(stale)
    BY <1>2, <2>3, <2>5 DEF Looking, Checking
  <2>7. QED
    BY <2>1, <2>2, <2>3, <2>4, <2>5, <2>6 DEF UseOK, ByStep
<1>5. ASSUME Seen(use) = use.old.stamp[use.at], use.at < RiFiles PROVE UseOK(more, riFile)
  <2>1. use.at + 1 \in RiPaths /\ use.at + 1 \in Nat
    BY <1>2, <1>5 DEF RiPaths
  <2>2. more \in RiUse
    BY <1>2, <2>1, Zenon DEF RiUse
  <2>3. /\ more.pc = use.pc /\ more.at = use.at + 1 /\ more.listed = use.listed /\ more.old = use.old
        /\ more.new = use.new /\ more.since = use.since /\ more.lost = use.lost
    BY <1>2 DEF RiUse
  <2> HIDE DEF more
  <2>4. Noted(more, riFile)
    BY <1>2, <2>3 DEF Noted
  <2>5. Checking(more)
    <3>1. \A k \in RiPaths : k < use.at + 1 => k < use.at \/ k = use.at
      BY <1>2 DEF RiPaths
    <3>2. QED
      BY <3>1, <1>2, <1>3, <1>5, <2>3 DEF Checking, Current
  <2>6. QED
    BY <1>1, <1>2, <2>1, <2>2, <2>3, <2>4, <2>5 DEF UseOK, ByStep, use
<1>6. ASSUME Seen(use) = use.old.stamp[use.at], ~(use.at < RiFiles) PROVE UseOK(served, riFile)
  <2>1. "served" \in RiSteps
    BY DEF RiSteps
  <2>2. served \in RiUse
    BY <1>2, <2>1, Zenon DEF RiUse
  <2>3. /\ served.pc = "served" /\ served.at = use.at /\ served.listed = use.listed
        /\ served.old = use.old /\ served.new = use.old
        /\ served.since = use.since /\ served.lost = use.lost
    BY <1>2 DEF RiUse
  <2> HIDE DEF served
  <2>4. Noted(served, riFile)
    BY <1>2, <2>3 DEF Noted
  <2>5. \A k \in RiPaths : k < use.at \/ k = use.at
    BY <1>2, <1>6 DEF RiPaths
  <2>6. \A k \in RiPaths : Current(served, served.new, k)
    BY <1>2, <1>3, <1>6, <2>3, <2>5 DEF Checking, Current
  <2>7. QED
    BY <1>2, <2>2, <2>3, <2>4, <2>6 DEF UseOK, ByStep
<1> HIDE DEF stale, more, served
<1>7. UseOK(next, riFile)
  BY <1>4, <1>5, <1>6
<1> HIDE DEF next
<1>8. QED
  BY <1>1, <1>7, OneUse

LEMMA RecordedSays ==
  ASSUME NEW use \in RiUse, use.at \in RiPaths, NEW stamp \in RiVersions \cup {RiUnknown},
         NEW text \in RiVersions \cup {RiUnknown}
  PROVE  LET next == Recorded(use, stamp, text)
         IN  /\ next \in RiUse
             /\ next.pc = use.pc /\ next.at = use.at /\ next.listed = use.listed
             /\ next.old = use.old /\ next.since = use.since /\ next.lost = use.lost
             /\ next.new \in RiSnapshot
             /\ next.new.stamp[use.at] = stamp /\ next.new.text[use.at] = text
             /\ \A k \in RiPaths : k # use.at =>
                  next.new.stamp[k] = use.new.stamp[k] /\ next.new.text[k] = use.new.text[k]
<1> DEFINE next == Recorded(use, stamp, text)
           new == [stamp |-> [use.new.stamp EXCEPT ![use.at] = stamp],
                   text  |-> [use.new.text EXCEPT ![use.at] = text]]
<1>1. use.new \in RiSnapshot
  BY DEF RiUse
<1>2. /\ new \in RiSnapshot
      /\ new.stamp[use.at] = stamp /\ new.text[use.at] = text
      /\ \A k \in RiPaths : k # use.at =>
           new.stamp[k] = use.new.stamp[k] /\ new.text[k] = use.new.text[k]
  BY <1>1 DEF RiSnapshot
<1>3. next = [use EXCEPT !.new = new]
  BY DEF Recorded
<1> HIDE DEF new
<1>4. next \in RiUse
  BY <1>2, <1>3, Zenon DEF RiUse
<1>5. /\ next.pc = use.pc /\ next.at = use.at /\ next.listed = use.listed /\ next.new = new
      /\ next.old = use.old /\ next.since = use.since /\ next.lost = use.lost
  BY <1>3 DEF RiUse
<1> HIDE DEF next
<1>6. QED
  BY <1>2, <1>4, <1>5 DEF next

\* All the files up to this one are done.
LEMMA OnwardOK ==
  ASSUME NEW use \in RiUse, use.at \in RiPaths, Sound(use.old), Noted(use, riFile),
         \A k \in RiPaths : (k <= use.at => Done(use, k)) /\ (k > use.at => Blank(use.new, k))
  PROVE  UseOK(Onward(use), riFile)
<1> DEFINE more == [use EXCEPT !.pc = "stat", !.at = use.at + 1]
           built == [use EXCEPT !.pc = "built"]
<1>1. "stat" \in RiSteps /\ "built" \in RiSteps
  BY DEF RiSteps
<1>2. ASSUME use.at < RiFiles PROVE UseOK(more, riFile)
  <2>1. use.at + 1 \in RiPaths /\ use.at + 1 \in Nat
    BY <1>2 DEF RiPaths
  <2>2. more \in RiUse
    BY <1>1, <2>1, Zenon DEF RiUse
  <2>3. /\ more.pc = "stat" /\ more.at = use.at + 1 /\ more.listed = use.listed /\ more.old = use.old
        /\ more.new = use.new /\ more.since = use.since /\ more.lost = use.lost
    BY DEF RiUse
  <2> HIDE DEF more
  <2>4. Noted(more, riFile)
    BY <2>3 DEF Noted
  <2>5. Looking(more)
    <3>1. \A k \in RiPaths : (k < use.at + 1 => k <= use.at) /\ (~(k < use.at + 1) => k > use.at)
      BY DEF RiPaths
    <3>2. QED
      BY <3>1, <2>3 DEF Looking, Done, Current
  <2>6. QED
    BY <2>1, <2>2, <2>3, <2>4, <2>5 DEF UseOK, ByStep
<1>3. ASSUME ~(use.at < RiFiles) PROVE UseOK(built, riFile)
  <2>1. built \in RiUse
    BY <1>1, Zenon DEF RiUse
  <2>2. /\ built.pc = "built" /\ built.at = use.at /\ built.listed = use.listed /\ built.old = use.old
        /\ built.new = use.new /\ built.since = use.since /\ built.lost = use.lost
    BY DEF RiUse
  <2> HIDE DEF built
  <2>3. Noted(built, riFile)
    BY <2>2 DEF Noted
  <2>4. \A k \in RiPaths : k <= use.at
    BY <1>3 DEF RiPaths
  <2>5. \A k \in RiPaths : Done(built, k)
    BY <2>2, <2>4 DEF Done, Current
  <2>6. QED
    BY <2>1, <2>2, <2>3, <2>5 DEF UseOK, ByStep
<1>4. Onward(use) = IF use.at < RiFiles THEN more ELSE built
  BY DEF Onward
<1> HIDE DEF more, built
<1>5. QED
  BY <1>2, <1>3, <1>4

\* An entry is recorded, sound and current, and the use goes on.
LEMMA RecordedOnward ==
  ASSUME NEW use \in RiUse, use.at \in RiPaths, Sound(use.old), Noted(use, riFile),
         \A k \in RiPaths : (k < use.at => Done(use, k)) /\ (k > use.at => Blank(use.new, k)),
         NEW stamp \in RiVersions \cup {RiUnknown}, NEW text \in RiVersions \cup {RiUnknown},
         stamp = RiUnknown <=> text = RiUnknown, stamp <= text,
         IF text = RiUnknown THEN use.at \in use.lost ELSE use.since[use.at] <= text
  PROVE  UseOK(Onward(Recorded(use, stamp, text)), riFile)
<1> DEFINE next == Recorded(use, stamp, text)
<1>1. /\ next \in RiUse
      /\ next.at = use.at /\ next.listed = use.listed
      /\ next.old = use.old /\ next.since = use.since /\ next.lost = use.lost
      /\ next.new.stamp[use.at] = stamp /\ next.new.text[use.at] = text
      /\ \A k \in RiPaths : k # use.at =>
           next.new.stamp[k] = use.new.stamp[k] /\ next.new.text[k] = use.new.text[k]
  BY RecordedSays
<1> HIDE DEF next
<1>2. Noted(next, riFile)
  BY <1>1 DEF Noted
<1>3. Done(next, use.at)
  BY <1>1 DEF Done, SoundAt, Current
<1>4. ASSUME NEW k \in RiPaths
      PROVE  (k <= use.at => Done(next, k)) /\ (k > use.at => Blank(next.new, k))
  <2>1. CASE k = use.at
    <3>1. ~(k > use.at)
      BY <2>1 DEF RiPaths
    <3>2. QED
      BY <2>1, <3>1, <1>3
  <2>2. CASE k # use.at
    <3>1. k <= use.at => k < use.at
      BY <2>2 DEF RiPaths
    <3>2. Done(use, k) => Done(next, k)
      BY <2>2, <1>1 DEF Done, SoundAt, Current
    <3>3. Blank(use.new, k) => Blank(next.new, k)
      BY <2>2, <1>1 DEF Blank
    <3>4. QED
      BY <3>1, <3>2, <3>3
  <2>3. QED
    BY <2>1, <2>2
<1>5. UseOK(Onward(next), riFile)
  BY <1>1, <1>2, <1>4, OnwardOK
<1>6. QED
  BY <1>5 DEF next

LEMMA StatKeeps == ASSUME RiInv, NEW t \in RiThreads, RiStat(t) PROVE RiInv'
<1> DEFINE use == riThread[t]
           stamp == Seen(use)
           taken == Onward(Recorded(use, stamp, use.old.text[use.at]))
           seen == Recorded(use, stamp, RiUnknown)
           opens == [seen EXCEPT !.pc = "read"]
           next == IF stamp = RiUnknown THEN Onward(use)
                   ELSE IF use.old.stamp[use.at] = stamp THEN taken ELSE opens
<1>1. /\ use.pc = "stat" /\ riThread' = [riThread EXCEPT ![t] = next]
      /\ UNCHANGED <<riFile, riEdits, riIndex, riTemp>> /\ ContentOK(riIndex) /\ ContentOK(riTemp)
  BY DEF RiStat, Using, RiInv
<1>2. /\ use \in RiUse /\ use.at \in RiPaths /\ use.old \in RiSnapshot
      /\ Sound(use.old) /\ Noted(use, riFile) /\ Looking(use)
  BY <1>1, InUse DEF ByStep
<1> HIDE DEF use
<1>3. \A k \in RiPaths : /\ k < use.at => Done(use, k)
                         /\ k > use.at => Blank(use.new, k)
                         /\ k = use.at => Blank(use.new, k)
  <2>1. \A k \in RiPaths : (k > use.at => ~(k < use.at)) /\ (k = use.at => ~(k < use.at))
    BY <1>2 DEF RiPaths
  <2>2. QED
    BY <1>2, <2>1 DEF Looking
<1>4. /\ stamp \in RiVersions \cup {RiUnknown}
      /\ stamp = RiUnknown => use.at \in use.lost
      /\ stamp # RiUnknown => use.since[use.at] <= stamp /\ stamp = riFile[use.at].version
  BY <1>2, SeenSays
<1> HIDE DEF stamp
<1>5. ASSUME stamp = RiUnknown PROVE UseOK(Onward(use), riFile)
  <2>1. Done(use, use.at)
    BY <1>2, <1>3, <1>4, <1>5 DEF Done, SoundAt, Current, Blank, RiUnknown
  <2>2. \A k \in RiPaths : k <= use.at => k < use.at \/ k = use.at
    BY <1>2 DEF RiPaths
  <2>3. QED
    BY <1>2, <1>3, <2>1, <2>2, OnwardOK
<1>6. ASSUME stamp # RiUnknown, use.old.stamp[use.at] = stamp PROVE UseOK(taken, riFile)
  <2> DEFINE text == use.old.text[use.at]
  <2>1. text \in RiVersions \cup {RiUnknown}
    BY <1>2 DEF RiSnapshot
  <2>2. (stamp = RiUnknown <=> text = RiUnknown) /\ stamp <= text
    BY <1>2, <1>6 DEF Sound, SoundAt
  <2>3. use.since[use.at] \in Int /\ stamp \in Int /\ text \in Int
    BY <1>2, <1>4, <2>1 DEF RiUse, RiVersions, RiUnknown
  <2> HIDE DEF text
  <2>4. use.since[use.at] <= text
    BY <1>4, <1>6, <2>2, <2>3
  <2>5. UseOK(Onward(Recorded(use, stamp, text)), riFile)
    BY <1>2, <1>3, <1>4, <1>6, <2>1, <2>2, <2>4, RecordedOnward
  <2>6. QED
    BY <2>5 DEF text
<1>7. ASSUME stamp # RiUnknown PROVE UseOK(opens, riFile)
  <2>1. /\ seen \in RiUse
        /\ seen.at = use.at /\ seen.listed = use.listed
        /\ seen.old = use.old /\ seen.since = use.since /\ seen.lost = use.lost
        /\ seen.new.stamp[use.at] = stamp
        /\ \A k \in RiPaths : k # use.at =>
             seen.new.stamp[k] = use.new.stamp[k] /\ seen.new.text[k] = use.new.text[k]
    BY <1>2, <1>4, RecordedSays
  <2> HIDE DEF seen
  <2>2. "read" \in RiSteps
    BY DEF RiSteps
  <2>3. opens \in RiUse
    BY <2>1, <2>2, Zenon DEF RiUse
  <2>4. /\ opens.pc = "read" /\ opens.at = use.at /\ opens.listed = use.listed /\ opens.old = use.old
        /\ opens.new = seen.new /\ opens.since = use.since /\ opens.lost = use.lost
    BY <2>1 DEF RiUse
  <2> HIDE DEF opens
  <2>5. Noted(opens, riFile)
    BY <1>2, <2>4 DEF Noted
  <2>6. riFile[use.at].version \in Int
    BY <1>2 DEF RiInv, FileOK, RiVersions
  <2>7. \A k \in RiPaths : (k < use.at => k # use.at) /\ (k > use.at => k # use.at)
    BY <1>2 DEF RiPaths
  <2>8. Reading(opens, riFile)
    BY <1>3, <1>4, <1>7, <2>1, <2>4, <2>6, <2>7 DEF Reading, Done, SoundAt, Current, Blank
  <2>9. QED
    BY <1>2, <2>3, <2>4, <2>5, <2>8 DEF UseOK, ByStep
<1> HIDE DEF taken, opens
<1>8. UseOK(next, riFile)
  BY <1>5, <1>6, <1>7
<1> HIDE DEF next
<1>9. QED
  BY <1>1, <1>8, OneUse

LEMMA ReadKeeps == ASSUME RiInv, NEW t \in RiThreads, RiRead(t) PROVE RiInv'
<1> DEFINE use == riThread[t]
           stamp == use.new.stamp[use.at]
           text == Stamp(use.at)
           gone == Onward(Recorded(use, RiUnknown, RiUnknown))
           there == Onward(Recorded(use, stamp, text))
           next == IF text = RiUnknown THEN gone ELSE there
<1>1. /\ use.pc = "read" /\ riThread' = [riThread EXCEPT ![t] = next]
      /\ UNCHANGED <<riFile, riEdits, riIndex, riTemp>> /\ ContentOK(riIndex) /\ ContentOK(riTemp)
  BY DEF RiRead, Using, RiInv
<1>2. /\ use \in RiUse /\ use.at \in RiPaths /\ use.new \in RiSnapshot
      /\ Sound(use.old) /\ Noted(use, riFile) /\ Reading(use, riFile)
  BY <1>1, InUse DEF ByStep
<1> HIDE DEF use
<1>3. \A k \in RiPaths : (k < use.at => Done(use, k)) /\ (k > use.at => Blank(use.new, k))
  BY <1>2 DEF Reading
<1>4. /\ text \in RiVersions \cup {RiUnknown}
      /\ text = RiUnknown => use.at \in use.lost
      /\ text # RiUnknown => text = riFile[use.at].version
  BY <1>2, StampSays DEF Noted
<1>5. /\ stamp \in RiVersions \cup {RiUnknown} /\ stamp # RiUnknown
      /\ use.since[use.at] <= stamp /\ stamp <= riFile[use.at].version
  BY <1>2 DEF Reading, RiSnapshot
<1>6. /\ use.since[use.at] \in Int /\ stamp \in Int /\ text \in Int
  BY <1>2, <1>4, <1>5 DEF RiUse, RiVersions, RiUnknown
<1> HIDE DEF stamp, text
<1>7. ASSUME text = RiUnknown PROVE UseOK(gone, riFile)
  <2>1. RiUnknown <= RiUnknown
    BY DEF RiUnknown
  <2>2. QED
    BY <1>2, <1>3, <1>4, <1>7, <2>1, RecordedOnward
<1>8. ASSUME text # RiUnknown PROVE UseOK(there, riFile)
  <2>1. stamp <= text /\ use.since[use.at] <= text
    BY <1>4, <1>5, <1>6, <1>8
  <2>2. QED
    BY <1>2, <1>3, <1>4, <1>5, <1>8, <2>1, RecordedOnward
<1> HIDE DEF gone, there
<1>9. UseOK(next, riFile)
  BY <1>7, <1>8
<1> HIDE DEF next
<1>10. QED
  BY <1>1, <1>9, OneUse

-----------------------------------------------------------------------------
(* Writing the index *)

\* A build that is complete stays so while it is written and when it is served.
LEMMA DoneOK ==
  ASSUME RiInv, NEW t \in RiThreads, riThread[t].pc \in {"built", "writing", "written"},
         NEW next \in RiUse, next.pc \in {"writing", "written", "served"},
         next.at = riThread[t].at, next.listed = riThread[t].listed, next.old = riThread[t].old,
         next.new = riThread[t].new, next.since = riThread[t].since, next.lost = riThread[t].lost
  PROVE  UseOK(next, riFile)
<1> DEFINE use == riThread[t]
<1>1. /\ use.at \in RiPaths /\ Sound(use.old) /\ Noted(use, riFile)
      /\ \A k \in RiPaths : Done(use, k)
  BY InUse DEF ByStep
<1> HIDE DEF use
<1>2. /\ next.at = use.at /\ next.listed = use.listed /\ next.old = use.old
      /\ next.new = use.new /\ next.since = use.since /\ next.lost = use.lost
  BY DEF use
<1>3. Noted(next, riFile)
  BY <1>1, <1>2 DEF Noted
<1>4. \A k \in RiPaths : Done(next, k) /\ Current(next, next.new, k)
  BY <1>1, <1>2 DEF Done, Current
<1>5. QED
  BY <1>1, <1>2, <1>3, <1>4 DEF UseOK, ByStep

LEMMA WriteBeginsKeeps == ASSUME RiInv, NEW t \in RiThreads, WriteBegins(t) PROVE RiInv'
<1> DEFINE others == \E v \in RiThreads \ {t} : WritesTemporary(v)
<1>1. PICK spoiled \in BOOLEAN : spoiled = others
  BY Zenon
<1> DEFINE begins == [riThread[t] EXCEPT !.pc = "writing", !.target = "temporary", !.spoiled = spoiled]
           spoilt(u) == [riThread[u] EXCEPT !.spoiled = TRUE]
<1>2. riThread' = [u \in RiThreads |-> IF u = t THEN begins
                                       ELSE IF WritesTemporary(u) THEN spoilt(u) ELSE riThread[u]]
  BY <1>1, Zenon DEF WriteBegins
<1> HIDE DEF others
<1>3. \A u \in RiThreads : riThread[u] \in RiUse /\ UseOK(riThread[u], riFile)
  BY DEF RiInv, UseOK
<1>4. UseOK(begins, riFile)
  <2>1. "writing" \in RiSteps
    BY DEF RiSteps
  <2>2. begins \in RiUse
    BY <1>3, <2>1, Zenon DEF RiUse
  <2>3. /\ begins.pc = "writing" /\ begins.at = riThread[t].at /\ begins.listed = riThread[t].listed
        /\ begins.old = riThread[t].old /\ begins.new = riThread[t].new
        /\ begins.since = riThread[t].since /\ begins.lost = riThread[t].lost
    BY <1>3 DEF RiUse
  <2>4. riThread[t].pc = "built"
    BY DEF WriteBegins
  <2> HIDE DEF begins
  <2>5. QED
    BY <2>2, <2>3, <2>4, DoneOK
<1>5. ASSUME NEW u \in RiThreads PROVE UseOK(spoilt(u), riFile)
  <2>1. spoilt(u) \in RiUse
    BY <1>3, Zenon DEF RiUse
  <2>2. /\ spoilt(u).pc = riThread[u].pc /\ spoilt(u).at = riThread[u].at
        /\ spoilt(u).listed = riThread[u].listed /\ spoilt(u).old = riThread[u].old
        /\ spoilt(u).new = riThread[u].new /\ spoilt(u).since = riThread[u].since
        /\ spoilt(u).lost = riThread[u].lost
    BY <1>3 DEF RiUse
  <2> HIDE DEF spoilt
  <2>3. QED
    BY <1>3, <2>1, <2>2, OtherTarget
<1> HIDE DEF begins, spoilt
<1>6. \A u \in RiThreads : UseOK(riThread'[u], riFile)
  BY <1>2, <1>3, <1>4, <1>5
<1>7. riThread' = [u \in RiThreads |-> riThread'[u]]
  BY <1>2
<1>8. UNCHANGED <<riFile, riEdits>> /\ ContentOK(riIndex') /\ ContentOK(riTemp')
  BY ContentsOK DEF WriteBegins, RiInv
<1>9. QED
  BY <1>6, <1>7, <1>8, SomeUses

LEMMA WriteEndsKeeps == ASSUME RiInv, NEW t \in RiThreads, WriteEnds(t) PROVE RiInv'
<1> DEFINE use == riThread[t]
           content == IF use.spoiled THEN Garbled ELSE Written(use.new)
           next == [use EXCEPT !.pc = "written"]
<1>1. /\ use.pc = "writing" /\ riThread' = [riThread EXCEPT ![t] = next]
      /\ UNCHANGED <<riFile, riEdits>> /\ ContentOK(riIndex) /\ ContentOK(riTemp)
      /\ riTemp' \in {content, riTemp} /\ riIndex' \in {content, riIndex}
  BY DEF WriteEnds, Using, RiInv
<1>2. use \in RiUse /\ use.new \in RiSnapshot /\ \A k \in RiPaths : Done(use, k)
  BY <1>1, InUse DEF ByStep
<1>3. Sound(use.new)
  BY <1>2 DEF Done, Sound
<1>4. ContentOK(content)
  BY <1>2, <1>3, ContentsOK
<1>5. "written" \in RiSteps
  BY DEF RiSteps
<1>6. next \in RiUse
  BY <1>2, <1>5, Zenon DEF RiUse
<1>7. /\ next.pc = "written" /\ next.at = use.at /\ next.listed = use.listed /\ next.old = use.old
      /\ next.new = use.new /\ next.since = use.since /\ next.lost = use.lost
  BY <1>2 DEF RiUse
<1> HIDE DEF next, content
<1>8. UseOK(next, riFile)
  BY <1>1, <1>6, <1>7, DoneOK
<1>9. ContentOK(riIndex') /\ ContentOK(riTemp')
  BY <1>1, <1>4
<1>10. QED
  BY <1>1, <1>8, <1>9, OneUse

LEMMA ReplaceKeeps == ASSUME RiInv, NEW t \in RiThreads, RiReplace(t) PROVE RiInv'
<1> DEFINE use == riThread[t]
           served == [use EXCEPT !.pc = "served"]
           after == IF use.search THEN served ELSE RiIdle
<1>1. use.pc = "written" /\ UNCHANGED <<riFile, riEdits>> /\ ContentOK(riIndex) /\ ContentOK(riTemp)
  BY DEF RiReplace, RiInv
<1>2. \A u \in RiThreads : riThread[u] \in RiUse /\ UseOK(riThread[u], riFile)
  BY DEF RiInv, UseOK
<1>3. CASE ~riTemp.there
  <2>1. riThread' = [riThread EXCEPT ![t] = RiIdle] /\ UNCHANGED <<riIndex, riTemp>>
    BY <1>3 DEF RiReplace, Using
  <2>2. UseOK(RiIdle, riFile)
    BY IdleOK
  <2>3. QED
    BY <1>1, <2>1, <2>2, OneUse
<1>4. CASE riTemp.there
  <2>1. /\ riIndex' = riTemp /\ riTemp' = NoContent
        /\ riThread' = [u \in RiThreads |-> IF u # t THEN MovedOn(riThread[u]) ELSE after]
    BY <1>4 DEF RiReplace
  <2>2. UseOK(served, riFile)
    <3>1. "served" \in RiSteps
      BY DEF RiSteps
    <3>2. served \in RiUse
      BY <1>2, <3>1, Zenon DEF RiUse
    <3>3. /\ served.pc = "served" /\ served.at = use.at /\ served.listed = use.listed
          /\ served.old = use.old /\ served.new = use.new
          /\ served.since = use.since /\ served.lost = use.lost
      BY <1>2 DEF RiUse
    <3> HIDE DEF served
    <3>4. QED
      BY <1>1, <3>2, <3>3, DoneOK
  <2>3. UseOK(after, riFile)
    BY <2>2, IdleOK
  <2>4. ASSUME NEW u \in RiThreads PROVE UseOK(MovedOn(riThread[u]), riFile)
    <3> DEFINE next == MovedOn(riThread[u])
    <3>1. PICK target \in {"temporary", "index", "gone"} : next = [riThread[u] EXCEPT !.target = target]
      BY <1>2 DEF MovedOn, RiUse
    <3>2. next \in RiUse
      BY <1>2, <3>1, Zenon DEF RiUse
    <3>3. /\ next.pc = riThread[u].pc /\ next.at = riThread[u].at
          /\ next.listed = riThread[u].listed /\ next.old = riThread[u].old
          /\ next.new = riThread[u].new /\ next.since = riThread[u].since
          /\ next.lost = riThread[u].lost
      BY <1>2, <3>1 DEF RiUse
    <3> HIDE DEF next
    <3>4. UseOK(next, riFile)
      BY <1>2, <3>2, <3>3, OtherTarget
    <3>5. QED
      BY <3>4 DEF next
  <2> HIDE DEF after
  <2>5. \A u \in RiThreads : UseOK(riThread'[u], riFile)
    BY <2>1, <2>3, <2>4
  <2>6. riThread' = [u \in RiThreads |-> riThread'[u]]
    BY <2>1
  <2>7. ContentOK(riIndex') /\ ContentOK(riTemp')
    BY <1>1, <2>1, ContentsOK
  <2>8. QED
    BY <1>1, <2>5, <2>6, <2>7, SomeUses
<1>5. QED
  BY <1>3, <1>4

LEMMA ReturnKeeps == ASSUME RiInv, NEW t \in RiThreads, RiReturn(t) PROVE RiInv'
<1>1. /\ riThread' = [riThread EXCEPT ![t] = RiIdle]
      /\ UNCHANGED <<riFile, riEdits, riIndex, riTemp>> /\ ContentOK(riIndex) /\ ContentOK(riTemp)
  BY DEF RiReturn, Using, RiInv
<1>2. UseOK(RiIdle, riFile)
  BY IdleOK
<1>3. QED
  BY <1>1, <1>2, OneUse

-----------------------------------------------------------------------------

LEMMA RiStepKeeps == RiInv /\ [RiNext]_riVars => RiInv'
<1> SUFFICES ASSUME RiInv, [RiNext]_riVars PROVE RiInv'
  OBVIOUS
<1>1. ASSUME NEW k \in RiPaths, NEW there \in BOOLEAN, RiEdit(k, there) PROVE RiInv'
  BY <1>1, EditKeeps
<1>2. ASSUME NEW t \in RiThreads, NEW incremental \in BOOLEAN, RiBuild(t, incremental) PROVE RiInv'
  BY <1>2, BuildKeeps
<1>3. ASSUME NEW t \in RiThreads, NEW young \in BOOLEAN, RiSearch(t, young) PROVE RiInv'
  BY <1>3, SearchKeeps
<1>4. ASSUME NEW t \in RiThreads, RiCheck(t) \/ RiStat(t) \/ RiRead(t) PROVE RiInv'
  BY <1>4, LookKeeps, StatKeeps, ReadKeeps
<1>5. ASSUME NEW t \in RiThreads, WriteBegins(t) \/ WriteEnds(t) \/ RiReplace(t) \/ RiReturn(t)
      PROVE  RiInv'
  BY <1>5, WriteBeginsKeeps, WriteEndsKeeps, ReplaceKeeps, ReturnKeeps
<1>6. ASSUME UNCHANGED riVars PROVE RiInv'
  BY <1>6 DEF riVars, RiInv, FileOK
<1>7. QED
  BY <1>1, <1>2, <1>3, <1>4, <1>5, <1>6 DEF RiNext

\* What a search answers from is no older than the search, and misses no file
\* that was there all the time, for any files, threads and edits
\* (RepoIndex.search, build_if_stale).
THEOREM SearchIsCurrentAlways == RiSpec => []SearchIsCurrent
<1>1. RiInv => SearchIsCurrent
  <2> SUFFICES ASSUME RiInv, NEW t \in RiThreads, NEW k \in RiPaths, riThread[t].pc = "served"
               PROVE  IF riThread[t].new.text[k] = RiUnknown THEN k \in riThread[t].lost
                      ELSE riThread[t].new.text[k] >= riThread[t].since[k]
    BY DEF SearchIsCurrent
  <2>1. Current(riThread[t], riThread[t].new, k)
    BY InUse DEF ByStep
  <2>2. riThread[t].since[k] \in Int /\ riThread[t].new.text[k] \in Int
    BY InUse DEF RiSnapshot, RiVersions, RiUnknown
  <2>3. QED
    BY <2>1, <2>2 DEF Current
<1>2. QED
  BY RiInitHolds, RiStepKeeps, <1>1, PTL DEF RiSpec

HIDE RiAssumption
=============================================================================
