----------------------------- MODULE Turns_proofs -----------------------------
(***************************************************************************)
(* Proofs about the parts that carry a turn: the terminal workbench that   *)
(* starts and shows it (Workbench), the requests to the language model     *)
(* (ModelClient) and the roles that share the work (MultiAgent). The three *)
(* machines share no state; each part below has its own inductive          *)
(* invariant.                                                              *)
(***************************************************************************)
EXTENDS Workbench, ModelClient, MultiAgent, DataLemmas, FiniteSetTheorems, SequenceTheorems

-----------------------------------------------------------------------------
(***************************************************************************)
(* Proofs about Workbench, for any number of turns, kinds of work and      *)
(* approvals: one turn at a time, seen and cancellable as long as it runs. *)
(*                                                                         *)
(* TurnsSerialized is not inductive. WbInv adds that only the last worker  *)
(* can be alive, that its end is told once and not before, and that the    *)
(* approvals in the slot and those answered belong to threads that wait:   *)
(* a worker that has ended is never woken.                                 *)
(***************************************************************************)

Alive(n) == wbWorker[n].pc \in {"running", "asking"}

\* The message at position i ends a turn.
Ends(i) == wbQueue[i] # "agent_event"

\* Only the last worker is alive; nothing it says has ended its turn yet.
OneAlive ==
  \A n \in Turns : Alive(n) =>
    /\ n = wbTurns /\ wbBusy /\ wbUi # "calling"
    /\ wbToken \in {0, n}
    /\ \A i \in 1 .. Len(wbQueue) : ~Ends(i)

\* A turn's end is told once; the workbench is busy until it is read.
ToldOnce ==
  /\ \A i, j \in 1 .. Len(wbQueue) : Ends(i) /\ Ends(j) => i = j
  /\ (\E i \in 1 .. Len(wbQueue) : Ends(i)) => wbBusy /\ wbUi # "calling"
  /\ wbBusy /\ wbUi # "calling" =>
       (\E n \in Turns : Alive(n)) \/ \E i \in 1 .. Len(wbQueue) : Ends(i)
  /\ wbToken # 0 => wbBusy /\ wbUi # "calling"

\* Who is shown or answered waits.
Waits == \A n \in Turns : n = wbSlot \/ n \in wbSet => wbWorker[n].pc = "asking"

WbShape ==
  /\ wbQueue \in Seq(Messages)
  /\ wbTurns \in 0 .. WbMaxTurns
  /\ wbToken \in Nat
  /\ wbBusy \in BOOLEAN
  /\ wbWorker \in [Turns -> WbWorkers]

WbInv == WbShape /\ OneAlive /\ ToldOnce /\ Waits

USE WbAssumption

-----------------------------------------------------------------------------
(* What the invariant says *)

LEMMA Serialized == WbInv => TurnsSerialized
<1> SUFFICES ASSUME WbInv PROVE TurnsSerialized
  OBVIOUS
<1> DEFINE alive == {n \in Turns : wbWorker[n].pc \in {"running", "asking"}}
<1>1. \A n \in alive : n = wbTurns /\ wbBusy /\ wbToken \in {0, n}
  BY DEF WbInv, OneAlive, Alive
<1>2. Cardinality(alive) <= 1
  <2>1. CASE alive = {}
    BY <2>1, FS_EmptySet
  <2>2. CASE alive # {}
    <3>1. alive = {wbTurns}
      BY <2>2, <1>1
    <3>2. QED
      BY <3>1, FS_Singleton
  <2>3. QED
    BY <2>1, <2>2
<1>3. DOMAIN wbQueue = 1 .. Len(wbQueue)
  BY LenProperties DEF WbInv, WbShape
<1>4. wbBusy /\ wbUi # "calling" => alive # {} \/ \E i \in DOMAIN wbQueue : wbQueue[i] # "agent_event"
  BY <1>3 DEF WbInv, ToldOnce, Ends, Alive
<1>5. QED
  BY <1>1, <1>2, <1>4 DEF TurnsSerialized

LEMMA WbInitHolds == WbInit => WbInv
<1> SUFFICES ASSUME WbInit PROVE WbInv
  OBVIOUS
<1>1. IdleWorker \in WbWorkers /\ IdleWorker.pc = "none"
  BY DEF IdleWorker, WbWorkers
<1>2. wbWorker \in [Turns -> WbWorkers] /\ \A n \in Turns : wbWorker[n].pc = "none"
  BY <1>1 DEF WbInit
<1>3. wbQueue \in Seq(Messages) /\ Len(wbQueue) = 0
  BY EmptySeq DEF WbInit
<1>4. wbBusy \in BOOLEAN /\ ~wbBusy
  BY Zenon DEF WbInit
<1>5. wbTurns = 0 /\ wbToken = 0 /\ wbSlot = WbMaxTurns + 1 /\ wbSet = {}
  BY DEF WbInit, Nobody
<1>6. WbShape
  BY <1>2, <1>3, <1>4, <1>5 DEF WbShape
<1>7. OneAlive /\ Waits
  BY <1>2, <1>5 DEF OneAlive, Alive, Waits, Turns
<1>8. ToldOnce
  BY <1>3, <1>4, <1>5 DEF ToldOnce
<1>9. QED
  BY <1>6, <1>7, <1>8 DEF WbInv

-----------------------------------------------------------------------------
(* Lines and keys *)

\* Nothing is under way when a command is read.
LEMMA AtRest ==
  ASSUME WbInv, ReadsCommand
  PROVE  /\ \A n \in Turns : ~Alive(n)
         /\ \A i \in 1 .. Len(wbQueue) : ~Ends(i)
         /\ wbToken = 0
BY DEF ReadsCommand, WbInv, OneAlive, ToldOnce

\* Steps that leave workers, messages and busy alone and start no call.
LEMMA Aside ==
  ASSUME WbInv, UNCHANGED <<wbBusy, wbToken, wbTurns, wbWorker, wbQueue>>,
         wbUi' = "calling" => wbUi = "calling",
         wbUi = "calling" => wbUi' = "calling",
         Waits'
  PROVE  WbInv'
<1>1. WbShape'
  BY DEF WbInv, WbShape
<1>2. OneAlive'
  BY DEF WbInv, OneAlive, Alive, Ends
<1>3. ToldOnce'
  BY DEF WbInv, ToldOnce, Alive, Ends
<1>4. QED
  BY <1>1, <1>2, <1>3 DEF WbInv

LEMMA SameWaits == WbInv /\ UNCHANGED <<wbWorker, wbSlot, wbSet>> => Waits'
BY DEF WbInv, Waits

LEMMA SubmitKeeps ==
  ASSUME WbInv, NEW kind \in WbKinds, Submit(kind) PROVE WbInv'
<1> DEFINE new == [IdleWorker EXCEPT !.kind = kind, !.pc = "running"]
<1>1. /\ \A n \in Turns : ~Alive(n)
      /\ \A i \in 1 .. Len(wbQueue) : ~Ends(i)
      /\ wbToken = 0
  BY AtRest DEF Submit
<1>2. new \in WbWorkers /\ new.pc = "running"
  BY DEF IdleWorker, WbWorkers
<1>3. wbTurns + 1 \in Turns /\ wbTurns + 1 \in 0 .. WbMaxTurns
  BY DEF Submit, Turns, WbInv, WbShape
<1>4. /\ wbWorker' = [wbWorker EXCEPT ![wbTurns + 1] = new]
      /\ wbTurns' = wbTurns + 1 /\ wbBusy' = TRUE
      /\ wbToken' = IF kind = "chat" THEN wbTurns + 1 ELSE wbToken
      /\ wbUi' # "calling"
      /\ UNCHANGED <<wbQueue, wbSlot, wbSet>>
  BY DEF Submit, ReadsCommand, Reads, wbApproval
<1> HIDE DEF new
<1>5. /\ wbWorker' \in [Turns -> WbWorkers]
      /\ wbWorker'[wbTurns + 1].pc = "running"
      /\ \A n \in Turns : n # wbTurns + 1 => wbWorker'[n] = wbWorker[n]
  BY <1>2, <1>3, <1>4 DEF WbInv, WbShape
<1>6. wbToken' \in {0, wbTurns + 1} /\ wbToken' \in Nat
  BY <1>1, <1>3, <1>4 DEF Turns
<1>7. WbShape'
  <2>1. wbBusy' \in BOOLEAN
    BY <1>4, Zenon
  <2>2. wbQueue' \in Seq(Messages)
    BY <1>4 DEF WbInv, WbShape
  <2>3. QED
    BY <1>3, <1>4, <1>5, <1>6, <2>1, <2>2 DEF WbShape
<1>8. OneAlive'
  <2>1. ASSUME NEW n \in Turns, Alive(n)' PROVE n = wbTurns + 1
    BY <2>1, <1>1, <1>5 DEF Alive
  <2>2. wbBusy'
    BY <1>4, Zenon
  <2>3. \A i \in 1 .. Len(wbQueue') : ~Ends(i)'
    BY <1>1, <1>4 DEF Ends
  <2>4. QED
    BY <2>1, <2>2, <2>3, <1>4, <1>6 DEF OneAlive
<1>9. ToldOnce'
  <2>1. wbBusy'
    BY <1>4, Zenon
  <2>2. \A i \in 1 .. Len(wbQueue') : ~Ends(i)'
    BY <1>1, <1>4 DEF Ends
  <2>3. \E n \in Turns : Alive(n)'
    BY <1>3, <1>5 DEF Alive
  <2>4. QED
    BY <1>4, <2>1, <2>2, <2>3 DEF ToldOnce
<1>10. Waits'
  BY <1>1, <1>4, <1>5 DEF WbInv, Waits, Alive
<1>11. QED
  BY <1>7, <1>8, <1>9, <1>10 DEF WbInv

\* A call on the UI thread begins and ends with nothing under way.
LEMMA CallKeeps ==
  ASSUME WbInv, CallOnUiThread \/ InlineChat PROVE WbInv'
<1>1. /\ \A n \in Turns : ~Alive(n)
      /\ \A i \in 1 .. Len(wbQueue) : ~Ends(i)
      /\ wbToken = 0
  BY AtRest DEF CallOnUiThread, InlineChat
<1>2. /\ wbUi' = "calling"
      /\ UNCHANGED <<wbToken, wbTurns, wbWorker, wbQueue, wbSlot, wbSet>>
  BY DEF CallOnUiThread, InlineChat, wbApproval
<1>3. wbBusy' \in BOOLEAN
  BY Zenon DEF CallOnUiThread, InlineChat, WbInv, WbShape
<1>4. WbShape' /\ Waits'
  BY <1>2, <1>3, SameWaits DEF WbInv, WbShape
<1>5. OneAlive' /\ ToldOnce'
  BY <1>1, <1>2 DEF OneAlive, ToldOnce, Alive, Ends
<1>6. QED
  BY <1>4, <1>5 DEF WbInv

LEMMA CancelKeeps == ASSUME WbInv, Cancel PROVE WbInv'
<1> DEFINE new == [wbWorker[wbToken] EXCEPT !.cancelled = TRUE]
<1>1. /\ wbWorker' = [wbWorker EXCEPT ![wbToken] = new]
      /\ UNCHANGED <<wbUi, wbBusy, wbToken, wbTurns, wbQueue, wbSlot, wbSet>>
  BY DEF Cancel, wbApproval
<1>2. wbToken \in Turns => new \in WbWorkers /\ new.pc = wbWorker[wbToken].pc
  BY DEF WbInv, WbShape, WbWorkers
<1> HIDE DEF new
<1>3. wbWorker' \in [Turns -> WbWorkers] /\ \A n \in Turns : wbWorker'[n].pc = wbWorker[n].pc
  BY <1>1, <1>2 DEF WbInv, WbShape
<1>4. WbShape'
  BY <1>1, <1>3 DEF WbInv, WbShape
<1>5. OneAlive' /\ ToldOnce' /\ Waits'
  BY <1>1, <1>3 DEF WbInv, OneAlive, ToldOnce, Waits, Alive, Ends
<1>6. QED
  BY <1>4, <1>5 DEF WbInv

\* Keys and lines that concern an approval, the configuration or the end.
LEMMA AnswerKeyKeeps == ASSUME WbInv, NEW answer \in WbAnswers, AnswerKey(answer) PROVE WbInv'
<1>1. /\ UNCHANGED <<wbUi, wbBusy, wbToken, wbTurns, wbWorker, wbQueue, wbSlot>>
      /\ wbSet' = wbSet \cup {wbSlot}
  BY DEF AnswerKey
<1>2. Waits'
  BY <1>1 DEF WbInv, Waits
<1>3. QED
  BY <1>1, <1>2, Aside

LEMMA SetupKeeps ==
  ASSUME WbInv, Configure \/ StartWizard \/ WizardLine \/ LeaveWizard \/ Exit PROVE WbInv'
<1>1. /\ UNCHANGED <<wbBusy, wbToken, wbTurns, wbWorker, wbQueue, wbSlot, wbSet>>
      /\ wbUi' = "calling" <=> wbUi = "calling"
  BY DEF Configure, StartWizard, WizardLine, LeaveWizard, Exit, ReadsCommand, Reads, wbApproval
<1>2. QED
  BY <1>1, SameWaits, Aside

-----------------------------------------------------------------------------
(* Threads *)

\* A worker moves on without coming to life or ending, and may say so.
LEMMA WorkerMoves ==
  ASSUME WbInv, NEW n \in Turns, NEW new \in WbWorkers, Alive(n),
         wbWorker' = [wbWorker EXCEPT ![n] = new],
         new.pc \in {"running", "asking"},
         UNCHANGED <<wbUi, wbBusy, wbToken, wbTurns, wbQueue>>, Waits'
  PROVE  WbInv'
<1>1. /\ wbWorker' \in [Turns -> WbWorkers]
      /\ \A m \in Turns : wbWorker'[m] = IF m = n THEN new ELSE wbWorker[m]
  BY DEF WbInv, WbShape
<1>2. WbShape'
  BY <1>1 DEF WbInv, WbShape
<1>3. \A m \in Turns : Alive(m)' <=> Alive(m)
  BY <1>1 DEF Alive
<1>4. OneAlive' /\ ToldOnce'
  BY <1>3 DEF WbInv, OneAlive, ToldOnce, Ends
<1>5. QED
  BY <1>2, <1>4 DEF WbInv

LEMMA AskKeeps == ASSUME WbInv, NEW n \in Threads, Ask(n) PROVE WbInv'
<1>1. CASE n = UiThread
  <2>1. UNCHANGED <<wbUi, wbBusy, wbToken, wbTurns, wbWorker, wbQueue, wbSet>> /\ wbSlot' = UiThread
    BY <1>1 DEF Ask
  <2>2. Waits'
    BY <2>1 DEF WbInv, Waits, UiThread, Turns
  <2>3. QED
    BY <2>1, <2>2, Aside
<1>2. CASE n # UiThread
  <2> DEFINE new == [wbWorker[n] EXCEPT !.pc = "asking"]
  <2>1. n \in Turns /\ wbWorker[n].pc = "running"
    BY <1>2 DEF Ask, ThreadRuns, Threads
  <2>2. /\ UNCHANGED <<wbUi, wbBusy, wbToken, wbTurns, wbQueue, wbSet>> /\ wbSlot' = n
        /\ wbWorker' = [wbWorker EXCEPT ![n] = new]
    BY <1>2 DEF Ask
  <2>3. new \in WbWorkers /\ new.pc = "asking"
    BY <2>1 DEF WbInv, WbShape, WbWorkers
  <2> HIDE DEF new
  <2>4. Waits'
    BY <2>1, <2>2, <2>3 DEF WbInv, WbShape, Waits
  <2>5. QED
    BY <2>1, <2>2, <2>3, <2>4, WorkerMoves DEF Alive
<1>3. QED
  BY <1>1, <1>2

\* Only a thread that waits is woken, whoever is in the slot by now.
LEMMA WakeKeeps == ASSUME WbInv, NEW n \in Threads, Wake(n) PROVE WbInv'
<1>1. /\ UNCHANGED <<wbUi, wbBusy, wbToken, wbTurns, wbQueue>>
      /\ n \in wbSet /\ wbSet' = wbSet \ {n} /\ wbSlot' = WbMaxTurns + 1
  BY DEF Wake, Nobody
<1>2. CASE n = UiThread
  <2>1. UNCHANGED wbWorker
    BY <1>2 DEF Wake
  <2>2. Waits'
    BY <1>1, <2>1 DEF WbInv, Waits, Turns
  <2>3. QED
    BY <1>1, <2>1, <2>2, Aside
<1>3. CASE n # UiThread
  <2> DEFINE new == [wbWorker[n] EXCEPT !.pc = "running"]
  <2>1. n \in Turns /\ wbWorker' = [wbWorker EXCEPT ![n] = new]
    BY <1>3 DEF Wake, Threads
  <2>2. wbWorker[n].pc = "asking"
    BY <1>1, <2>1 DEF WbInv, Waits
  <2>3. new \in WbWorkers /\ new.pc = "running"
    BY <2>1 DEF WbInv, WbShape, WbWorkers
  <2> HIDE DEF new
  <2>4. Waits'
    BY <1>1, <2>1 DEF WbInv, WbShape, Waits, Turns
  <2>5. QED
    BY <1>1, <2>1, <2>2, <2>3, <2>4, WorkerMoves DEF Alive
<1>4. QED
  BY <1>2, <1>3

\* A message more.
LEMMA Appended ==
  ASSUME WbInv, NEW message \in Messages, wbQueue' = Append(wbQueue, message)
  PROVE  /\ wbQueue' \in Seq(Messages)
         /\ Len(wbQueue) \in Nat /\ Len(wbQueue') = Len(wbQueue) + 1
         /\ \A i \in 1 .. Len(wbQueue) : wbQueue'[i] = wbQueue[i]
         /\ wbQueue'[Len(wbQueue) + 1] = message
<1>1. wbQueue \in Seq(Messages)
  BY DEF WbInv, WbShape
<1>2. QED
  BY <1>1, AppendProperties, LenProperties

\* An event ends nothing.
LEMMA TellKeeps == ASSUME WbInv, NEW n \in Threads, Tell(n) PROVE WbInv'
<1> DEFINE new == [wbWorker[n] EXCEPT !.told = TRUE]
<1>1. /\ UNCHANGED <<wbUi, wbBusy, wbToken, wbTurns, wbSlot, wbSet>>
      /\ n \in Turns /\ wbWorker[n].pc = "running"
      /\ wbWorker' = [wbWorker EXCEPT ![n] = new]
      /\ wbQueue' = Append(wbQueue, "agent_event") /\ "agent_event" \in Messages
  BY DEF Tell, ThreadRuns, Threads, wbApproval, Messages
<1>2. new \in WbWorkers /\ new.pc = "running"
  BY <1>1 DEF WbInv, WbShape, WbWorkers
<1> HIDE DEF new
<1>3. wbWorker' \in [Turns -> WbWorkers] /\ \A m \in Turns : wbWorker'[m].pc = wbWorker[m].pc
  BY <1>1, <1>2 DEF WbInv, WbShape
<1>4. /\ wbQueue' \in Seq(Messages)
      /\ Len(wbQueue) \in Nat /\ Len(wbQueue') = Len(wbQueue) + 1
      /\ \A i \in 1 .. Len(wbQueue) : wbQueue'[i] = wbQueue[i]
      /\ wbQueue'[Len(wbQueue) + 1] = "agent_event"
  BY <1>1, Appended
<1>5. \A i \in 1 .. Len(wbQueue') : Ends(i)' <=> i \in 1 .. Len(wbQueue) /\ Ends(i)
  <2> SUFFICES ASSUME NEW i \in 1 .. Len(wbQueue') PROVE Ends(i)' <=> i \in 1 .. Len(wbQueue) /\ Ends(i)
    OBVIOUS
  <2>1. i \in 1 .. Len(wbQueue) \/ i = Len(wbQueue) + 1
    BY <1>4
  <2>2. QED
    BY <2>1, <1>4 DEF Ends
<1>6. 1 .. Len(wbQueue) \subseteq 1 .. Len(wbQueue')
  BY <1>4
<1>7. WbShape' /\ Waits'
  BY <1>1, <1>3, <1>4 DEF WbInv, WbShape, Waits
<1>8. \A m \in Turns : Alive(m)' <=> Alive(m)
  BY <1>3 DEF Alive
<1>9. OneAlive'
  BY <1>1, <1>5, <1>8 DEF WbInv, OneAlive
<1>10. ToldOnce'
  BY <1>1, <1>5, <1>6, <1>8 DEF WbInv, ToldOnce
<1>11. QED
  BY <1>7, <1>9, <1>10 DEF WbInv

\* The last word of the worker is the one message that ends its turn.
LEMMA EndWorkerKeeps ==
  ASSUME WbInv, NEW n \in Turns, NEW message \in Messages, EndWorker(n, message) PROVE WbInv'
<1> DEFINE new == [wbWorker[n] EXCEPT !.pc = "done"]
           last == Len(wbQueue) + 1
<1>1. /\ UNCHANGED <<wbUi, wbBusy, wbToken, wbTurns, wbSlot, wbSet>>
      /\ wbWorker[n].pc = "running"
      /\ wbWorker' = [wbWorker EXCEPT ![n] = new]
      /\ wbQueue' = Append(wbQueue, message)
  BY DEF EndWorker, ThreadRuns, wbApproval, UiThread, Turns
<1>2. message # "agent_event"
  BY DEF EndWorker, LastWord, WbInv, WbShape, WbWorkers
<1>3. new \in WbWorkers /\ new.pc = "done"
  BY DEF WbInv, WbShape, WbWorkers
<1> HIDE DEF new
<1>4. /\ wbWorker' \in [Turns -> WbWorkers] /\ wbWorker'[n].pc = "done"
      /\ \A m \in Turns : m # n => wbWorker'[m] = wbWorker[m]
  BY <1>1, <1>3 DEF WbInv, WbShape
<1>5. /\ wbQueue' \in Seq(Messages)
      /\ Len(wbQueue) \in Nat /\ Len(wbQueue') = last
      /\ \A i \in 1 .. Len(wbQueue) : wbQueue'[i] = wbQueue[i]
      /\ wbQueue'[last] = message
  BY <1>1, Appended
<1>6. /\ n = wbTurns /\ wbBusy /\ wbUi # "calling"
      /\ \A i \in 1 .. Len(wbQueue) : ~Ends(i)
      /\ \A m \in Turns : Alive(m) => m = n
  BY <1>1 DEF WbInv, OneAlive, Alive
<1>7. \A m \in Turns : ~Alive(m)'
  BY <1>4, <1>6 DEF Alive
<1>8. \A i \in 1 .. Len(wbQueue') : Ends(i)' => i = last
  <2> SUFFICES ASSUME NEW i \in 1 .. Len(wbQueue'), wbQueue'[i] # "agent_event" PROVE i = last
    BY DEF Ends
  <2>1. i \in 1 .. Len(wbQueue) \/ i = last
    BY <1>5
  <2>2. QED
    BY <2>1, <1>5, <1>6 DEF Ends
<1>9. \E i \in 1 .. Len(wbQueue') : Ends(i)'
  <2>1. last \in 1 .. Len(wbQueue') /\ wbQueue'[last] # "agent_event"
    BY <1>2, <1>5
  <2> HIDE DEF last
  <2>2. QED
    BY <2>1 DEF Ends
<1> HIDE DEF last
<1>10. WbShape'
  BY <1>1, <1>4, <1>5 DEF WbInv, WbShape
<1>11. OneAlive' /\ ToldOnce'
  BY <1>1, <1>6, <1>7, <1>8, <1>9 DEF OneAlive, ToldOnce
<1>12. Waits'
  BY <1>1, <1>4 DEF WbInv, Waits
<1>13. QED
  BY <1>10, <1>11, <1>12 DEF WbInv

LEMMA EndCallKeeps == ASSUME WbInv, EndCall PROVE WbInv'
<1>1. /\ wbUi = "calling" /\ wbUi' = "reading" /\ wbBusy' = FALSE
      /\ UNCHANGED <<wbToken, wbTurns, wbWorker, wbQueue, wbSlot, wbSet>>
  BY DEF EndCall, ThreadRuns, wbApproval
<1>2. wbBusy' \in BOOLEAN /\ ~wbBusy'
  BY <1>1, Zenon
<1>3. (\A n \in Turns : ~Alive(n)) /\ \A i \in 1 .. Len(wbQueue) : ~Ends(i)
  BY <1>1 DEF WbInv, OneAlive, ToldOnce
<1>4. wbToken = 0
  BY <1>1 DEF WbInv, ToldOnce
<1>5. WbShape' /\ Waits'
  BY <1>1, <1>2, SameWaits DEF WbInv, WbShape
<1>6. OneAlive' /\ ToldOnce'
  BY <1>1, <1>2, <1>3, <1>4 DEF OneAlive, ToldOnce, Alive, Ends
<1>7. QED
  BY <1>5, <1>6 DEF WbInv

\* The message that ends the turn frees the workbench; it is the only one there.
LEMMA DrainKeeps == ASSUME WbInv, Drain PROVE WbInv'
<1>1. /\ UNCHANGED <<wbUi, wbTurns, wbWorker, wbSlot, wbSet>> /\ wbUi \in {"reading", "draining"}
      /\ wbQueue # << >> /\ wbQueue' = Tail(wbQueue)
      /\ wbToken' = IF Head(wbQueue) # "agent_event" THEN 0 ELSE wbToken
  BY DEF Drain, EndsTurn, wbApproval
<1>2. wbBusy' \in BOOLEAN /\ (wbBusy' <=> wbBusy /\ Head(wbQueue) = "agent_event")
  BY Zenon DEF Drain, EndsTurn
<1>3. /\ wbQueue \in Seq(Messages) /\ wbQueue' \in Seq(Messages)
      /\ Len(wbQueue) \in Nat \ {0} /\ Len(wbQueue') = Len(wbQueue) - 1
      /\ \A i \in 1 .. Len(wbQueue') : wbQueue'[i] = wbQueue[i + 1]
      /\ Head(wbQueue) = wbQueue[1]
  BY <1>1, HeadTailProperties, LenProperties, EmptySeq DEF WbInv, WbShape
<1>4. /\ \A i \in 1 .. Len(wbQueue') : i + 1 \in 1 .. Len(wbQueue) /\ i + 1 # 1
      /\ 1 \in 1 .. Len(wbQueue)
      /\ \A i \in 1 .. Len(wbQueue) : i = 1 \/ i - 1 \in 1 .. Len(wbQueue')
  BY <1>3
<1>5. \A i \in 1 .. Len(wbQueue') : Ends(i)' <=> Ends(i + 1)
  BY <1>3 DEF Ends
<1>6. Ends(1) <=> Head(wbQueue) # "agent_event"
  BY <1>3 DEF Ends
<1>7. WbShape' /\ Waits'
  BY <1>1, <1>2, <1>3, SameWaits DEF WbInv, WbShape
<1>8. \A n \in Turns : Alive(n)' <=> Alive(n)
  BY <1>1 DEF Alive
<1>9. CASE Ends(1)
  <2>1. \A i \in 1 .. Len(wbQueue') : ~Ends(i)'
    <3> SUFFICES ASSUME NEW i \in 1 .. Len(wbQueue'), Ends(i + 1) PROVE FALSE
      BY <1>5
    <3>1. i + 1 = 1
      BY <1>4, <1>9 DEF WbInv, ToldOnce
    <3>2. QED
      BY <3>1, <1>4
  <2>2. \A n \in Turns : ~Alive(n)'
    BY <1>4, <1>8, <1>9 DEF WbInv, OneAlive
  <2>3. wbToken' = 0 /\ ~wbBusy'
    BY <1>1, <1>2, <1>6, <1>9
  <2>4. OneAlive' /\ ToldOnce'
    BY <2>1, <2>2, <2>3 DEF OneAlive, ToldOnce
  <2>5. QED
    BY <1>7, <2>4 DEF WbInv
<1>10. CASE ~Ends(1)
  <2>1. wbToken' = wbToken /\ (wbBusy' <=> wbBusy)
    BY <1>1, <1>2, <1>6, <1>10
  <2>2. OneAlive'
    BY <1>1, <1>4, <1>5, <1>8, <2>1 DEF WbInv, OneAlive
  <2>3. \A i, j \in 1 .. Len(wbQueue') : Ends(i)' /\ Ends(j)' => i = j
    <3> SUFFICES ASSUME NEW i \in 1 .. Len(wbQueue'), NEW j \in 1 .. Len(wbQueue'),
                        Ends(i + 1), Ends(j + 1)
                 PROVE  i = j
      BY <1>5
    <3>1. i + 1 = j + 1
      BY <1>4 DEF WbInv, ToldOnce
    <3>2. QED
      BY <3>1
  <2>4. (\E i \in 1 .. Len(wbQueue) : Ends(i)) <=> \E i \in 1 .. Len(wbQueue') : Ends(i)'
    <3>1. ASSUME NEW i \in 1 .. Len(wbQueue), Ends(i)
          PROVE  \E k \in 1 .. Len(wbQueue') : Ends(k)'
      <4>1. i # 1
        BY <3>1, <1>10
      <4>2. i - 1 \in 1 .. Len(wbQueue') /\ (i - 1) + 1 = i
        BY <4>1, <1>4
      <4>3. wbQueue'[i - 1] = wbQueue[i]
        BY <4>2, <1>3
      <4>4. wbQueue'[i - 1] # "agent_event"
        BY <4>3, <3>1 DEF Ends
      <4>5. QED
        BY <4>2, <4>4 DEF Ends
    <3>2. QED
      BY <3>1, <1>4, <1>5
  <2>5. ToldOnce'
    BY <1>1, <1>8, <2>1, <2>3, <2>4 DEF WbInv, ToldOnce
  <2>6. QED
    BY <1>7, <2>2, <2>5 DEF WbInv
<1>11. QED
  BY <1>9, <1>10

LEMMA ReadOnKeeps == ASSUME WbInv, ReadOn PROVE WbInv'
<1>1. /\ UNCHANGED <<wbBusy, wbToken, wbTurns, wbWorker, wbQueue, wbSlot, wbSet>>
      /\ wbUi' # "calling" /\ wbUi # "calling"
  BY DEF ReadOn, wbApproval
<1>2. QED
  BY <1>1, SameWaits, Aside

-----------------------------------------------------------------------------
(* Theorems *)

LEMMA WbStepKeeps == WbInv /\ [WbNext]_wbVars => WbInv'
<1> SUFFICES ASSUME WbInv, [WbNext]_wbVars PROVE WbInv'
  OBVIOUS
<1>1. CASE UNCHANGED wbVars
  <2>1. UNCHANGED <<wbUi, wbBusy, wbToken, wbTurns, wbWorker, wbQueue, wbSlot, wbSet>>
    BY <1>1 DEF wbVars, wbApproval
  <2>2. QED
    BY <2>1, SameWaits, Aside
<1>2. CASE \E kind \in WbKinds : Submit(kind)
  BY <1>2, SubmitKeeps
<1>3. CASE CallOnUiThread \/ InlineChat \/ EndCall
  BY <1>3, CallKeeps, EndCallKeeps
<1>4. CASE Cancel \/ \E answer \in WbAnswers : AnswerKey(answer)
  BY <1>4, CancelKeeps, AnswerKeyKeeps
<1>5. CASE Configure \/ StartWizard \/ WizardLine \/ LeaveWizard \/ Exit
  BY <1>5, SetupKeeps
<1>6. CASE \E n \in Threads : Ask(n) \/ Wake(n) \/ Tell(n)
  BY <1>6, AskKeeps, WakeKeeps, TellKeeps
<1>7. CASE \E n \in Turns, message \in Messages : EndWorker(n, message)
  BY <1>7, EndWorkerKeeps
<1>8. CASE Drain \/ ReadOn
  BY <1>8, DrainKeeps, ReadOnKeeps
<1>9. QED
  BY <1>1, <1>2, <1>3, <1>4, <1>5, <1>6, <1>7, <1>8 DEF WbNext

\* However many turns are submitted, whoever asks for approvals and whatever the
\* renderer: one worker at a time is alive, the workbench is busy as long as it
\* is and until its end has been read, and the token is its own
\* (EvolvaTUI._launch_chat, _drain_queue, cancel_active).
THEOREM TurnsSerializedAlways == WbSpec => []TurnsSerialized
<1>1. WbInit /\ [][WbNext]_wbVars => []WbInv
  BY WbInitHolds, WbStepKeeps, PTL
<1>2. WbSpec => WbInit /\ [][WbNext]_wbVars
  BY DEF WbSpec
<1>3. QED
  BY <1>1, <1>2, Serialized, PTL

-----------------------------------------------------------------------------
(* The wizard *)

\* While the wizard is open nothing is started.
WizardAlone == wbBusy \in BOOLEAN /\ (wbWizard # 0 => ~wbBusy)

LEMMA WizardKeeps == WizardAlone /\ [WbNext]_wbVars => WizardAlone'
<1> SUFFICES ASSUME WizardAlone, [WbNext]_wbVars PROVE WizardAlone'
  OBVIOUS
<1> USE DEF WizardAlone
<1>1. CASE UNCHANGED wbVars
  BY <1>1 DEF wbVars, wbSetup
<1>2. CASE \E kind \in WbKinds : Submit(kind)
  BY <1>2 DEF Submit, ReadsCommand, wbSetup
<1>3. CASE CallOnUiThread \/ InlineChat \/ EndCall
  BY <1>3 DEF CallOnUiThread, InlineChat, EndCall, ReadsCommand, wbSetup
<1>4. CASE Cancel \/ \E answer \in WbAnswers : AnswerKey(answer)
  BY <1>4 DEF Cancel, AnswerKey, wbSetup
<1>5. CASE Configure \/ StartWizard \/ WizardLine \/ LeaveWizard \/ Exit
  BY <1>5 DEF Configure, StartWizard, WizardLine, LeaveWizard, Exit, ReadsCommand, wbSetup
<1>6. CASE \E n \in Threads : Ask(n) \/ Wake(n) \/ Tell(n)
  BY <1>6 DEF Ask, Wake, Tell, wbSetup
<1>7. CASE \E n \in Turns, message \in Messages : EndWorker(n, message)
  BY <1>7 DEF EndWorker, wbSetup
<1>8. CASE Drain \/ ReadOn
  <2>1. wbBusy' \in BOOLEAN /\ (wbBusy' => wbBusy)
    <3>1. CASE Drain
      <4>1. PICK ends \in BOOLEAN : ends = EndsTurn(Head(wbQueue))
        BY Zenon DEF EndsTurn
      <4>2. wbBusy' = (wbBusy /\ ~ends)
        BY <3>1, <4>1, Zenon DEF Drain
      <4>3. QED
        BY <4>2
    <3>2. CASE ReadOn
      BY <3>2 DEF ReadOn
    <3>3. QED
      BY <1>8, <3>1, <3>2
  <2>2. wbWizard' = wbWizard
    BY <1>8 DEF Drain, ReadOn, wbSetup
  <2>3. QED
    BY <2>1, <2>2
<1>9. QED
  BY <1>1, <1>2, <1>3, <1>4, <1>5, <1>6, <1>7, <1>8 DEF WbNext

\* The configuration changes by a command or the wizard, and neither is there
\* while a worker is alive.
LEMMA ConfigStep ==
  ASSUME WbInv, WizardAlone, [WbNext]_wbVars, wbConfig' # wbConfig
  PROVE  \A n \in Turns : wbWorker[n].pc \in {"none", "done"}
<1>1. CASE UNCHANGED wbVars
  BY <1>1 DEF wbVars, wbSetup
<1>2. CASE \E kind \in WbKinds : Submit(kind)
  BY <1>2 DEF Submit, wbSetup
<1>3. CASE CallOnUiThread \/ InlineChat \/ EndCall \/ Cancel \/ \E answer \in WbAnswers : AnswerKey(answer)
  BY <1>3 DEF CallOnUiThread, InlineChat, EndCall, Cancel, AnswerKey, wbSetup
<1>4. CASE Configure \/ StartWizard \/ WizardLine \/ LeaveWizard \/ Exit
  <2>1. ~wbBusy
    BY <1>4 DEF Configure, StartWizard, WizardLine, LeaveWizard, Exit, ReadsCommand, WizardAlone, wbSetup
  <2>2. \A n \in Turns : wbWorker[n].pc \in {"none", "running", "asking", "done"}
    BY DEF WbInv, WbShape, WbWorkers
  <2>3. QED
    BY <2>1, <2>2 DEF WbInv, OneAlive, Alive
<1>5. CASE \E n \in Threads : Ask(n) \/ Wake(n) \/ Tell(n)
  BY <1>5 DEF Ask, Wake, Tell, wbSetup
<1>6. CASE \E n \in Turns, message \in Messages : EndWorker(n, message)
  BY <1>6 DEF EndWorker, wbSetup
<1>7. CASE Drain \/ ReadOn
  BY <1>7 DEF Drain, ReadOn, wbSetup
<1>8. QED
  BY <1>1, <1>2, <1>3, <1>4, <1>5, <1>6, <1>7 DEF WbNext

\* A command or the wizard replaces the provider configuration only when no
\* worker is alive, although the wizard stays open over many steps of the threads
\* (EvolvaTUI._handle_config_wizard_input, update_llm_config).
THEOREM ConfiguredAtRestAlways == WbSpec => ConfiguredAtRest
<1>1. WbInit => WizardAlone
  BY DEF WbInit, WizardAlone
<1>2. WbInv /\ WizardAlone /\ [WbNext]_wbVars =>
        [wbConfig' # wbConfig => \A n \in Turns : wbWorker[n].pc \in {"none", "done"}]_wbVars
  BY ConfigStep
<1>3. WbInit /\ [][WbNext]_wbVars => [](WbInv /\ WizardAlone)
  BY <1>1, WbInitHolds, WbStepKeeps, WizardKeeps, PTL
<1>4. WbInit /\ [][WbNext]_wbVars => ConfiguredAtRest
  BY <1>2, <1>3, PTL DEF ConfiguredAtRest
<1>5. WbSpec => WbInit /\ [][WbNext]_wbVars
  BY DEF WbSpec
<1>6. QED
  BY <1>4, <1>5

HIDE WbAssumption

-----------------------------------------------------------------------------
(***************************************************************************)
(* Proofs about ModelClient, for any numbers of retries, repairs, models   *)
(* and chunks: a cancellation stops a request.                             *)
(*                                                                         *)
(* CancelStops is not inductive: MlInv says besides what may have been     *)
(* sent since the cancellation at each point of the request.               *)
(***************************************************************************)

\* Requests and chunks after the cancellation, by the point that is reached.
MlBudget == IF mlUse = "turn" /\ mlHeated THEN 2 ELSE 1
Overrun ==
  /\ mlPc \in {"checked", "line"} => mlAfter = 0
  /\ mlPc \in {"posted", "waiting", "cold", "received", "reading"} => mlAfter <= 1
  /\ mlAfter <= MlBudget

\* Only a request with a temperature is asked again without it, and only a role
\* has no token.
MlCourses ==
  /\ mlPc \in {"cold", "cooled"} => mlHeated /\ mlUse # "stream"
  /\ mlUse = "json" => ~mlCancelled
  /\ ~mlCancelled => mlAfter = 0
  /\ mlPc = "waiting" => mlAttempt < MlMaxRetries
  /\ mlPc = "line" => mlChunks < MlMaxChunks

MlInv == MlTypeOK /\ MlCourses /\ Overrun

USE MlAssumption

-----------------------------------------------------------------------------

LEMMA MlInitHolds == MlInit => MlInv
<1> SUFFICES ASSUME MlInit PROVE MlInv
  OBVIOUS
<1>1. mlModels \in 1 .. MlMaxModels
  BY DEF MlInit, RouteLengths
<1>2. MlTypeOK
  <2>1. mlCancelled \in BOOLEAN
    BY Zenon DEF MlInit
  <2>2. mlPc \in MlSteps
    BY DEF MlInit, MlSteps
  <2>3. mlOutcome \in {"none", "answer", "cancelled", "error"} /\ mlHeated \in BOOLEAN /\ mlUse \in MlUses
    BY DEF MlInit
  <2>4. /\ mlModel \in 1 .. mlModels /\ mlRound \in 0 .. MlMaxRepairs
        /\ mlAttempt \in 0 .. MlMaxRetries /\ mlChunks \in 0 .. MlMaxChunks /\ mlAfter \in Nat
    BY <1>1 DEF MlInit
  <2>5. QED
    BY <1>1, <2>1, <2>2, <2>3, <2>4 DEF MlTypeOK
<1>3. MlCourses /\ Overrun
  BY DEF MlInit, MlCourses, Overrun, MlBudget
<1>4. QED
  BY <1>2, <1>3 DEF MlInv

\* A step of the pc alone, to where no less may have been sent.
LEMMA GoesKeeps ==
  ASSUME MlInv, NEW from, NEW to \in MlSteps, MlGoes(from, to),
         to \in {"checked", "line"} => ~mlCancelled,
         to \in {"posted", "waiting", "cold", "received", "reading"} =>
           from \in {"posted", "waiting", "cold", "received", "reading"},
         to \in {"cold", "cooled"} => mlHeated /\ mlUse # "stream",
         to = "waiting" => mlAttempt < MlMaxRetries,
         to = "line" => mlChunks < MlMaxChunks
  PROVE  MlInv'
BY DEF MlGoes, mlCourse, MlInv, MlTypeOK, MlCourses, Overrun, MlBudget

LEMMA ReturnsKeeps ==
  ASSUME MlInv, NEW outcome \in {"answer", "cancelled", "error"}, MlReturns(outcome)
  PROVE  MlInv'
BY DEF MlReturns, mlCourse, MlInv, MlTypeOK, MlCourses, Overrun, MlBudget, MlSteps

LEMMA FailsKeeps ==
  ASSUME MlInv, NEW isRuntimeError \in BOOLEAN, MlFails(isRuntimeError)
  PROVE  MlInv'
<1>1. CASE MlReturns("error")
  BY <1>1, ReturnsKeeps
<1>2. CASE ~MlReturns("error")
  <2>1. /\ mlModel < mlModels /\ mlModel' = mlModel + 1 /\ mlAttempt' = 0 /\ mlPc' = "ready"
        /\ UNCHANGED <<mlUse, mlModels, mlHeated, mlRound, mlOutcome, mlChunks, mlCancelled, mlAfter>>
    BY <1>2 DEF MlFails
  <2>2. MlTypeOK'
    BY <2>1 DEF MlInv, MlTypeOK, MlSteps
  <2>3. MlCourses' /\ Overrun'
    BY <2>1 DEF MlInv, MlCourses, Overrun, MlBudget
  <2>4. QED
    BY <2>2, <2>3 DEF MlInv
<1>3. QED
  BY <1>1, <1>2

LEMMA MlCancelKeeps == ASSUME MlInv, MlCancel PROVE MlInv'
BY DEF MlCancel, mlCourse, MlInv, MlTypeOK, MlCourses, Overrun, MlBudget

LEMMA AttemptKeeps == ASSUME MlInv, MlAttempt PROVE MlInv'
<1>1. CASE Noticed
  BY <1>1, ReturnsKeeps DEF MlAttempt
<1>2. CASE ~Noticed
  <2>1. MlGoes("ready", "checked") /\ ~mlCancelled /\ "checked" \in MlSteps
    BY <1>2 DEF MlAttempt, Noticed, MlSteps
  <2>2. QED
    BY <2>1, GoesKeeps
<1>3. QED
  BY <1>1, <1>2

\* The request counts if the user has cancelled: the first one here, the one
\* without the temperature as the second.
LEMMA PostKeeps == ASSUME MlInv, MlPost PROVE MlInv'
<1>1. mlAfter \in Nat /\ (~mlCancelled => mlAfter = 0)
  BY DEF MlInv, MlTypeOK, MlCourses
<1>2. /\ UNCHANGED <<mlUse, mlModels, mlHeated, mlModel, mlRound, mlAttempt, mlOutcome, mlChunks, mlCancelled>>
      /\ mlAfter' = IF mlCancelled THEN mlAfter + 1 ELSE mlAfter
  BY DEF MlPost, mlCourse
<1>3. CASE mlPc = "checked" /\ mlPc' = "posted"
  BY <1>1, <1>2, <1>3 DEF MlInv, MlTypeOK, MlCourses, Overrun, MlBudget, MlSteps
<1>4. CASE mlPc = "cold" /\ mlPc' = "cooled"
  <2>1. MlTypeOK'
    BY <1>1, <1>2, <1>4 DEF MlInv, MlTypeOK, MlSteps
  <2>2. MlCourses'
    BY <1>1, <1>2, <1>4 DEF MlInv, MlCourses
  <2>3. mlAfter <= 1 /\ mlHeated /\ (mlCancelled => mlUse = "turn")
    BY <1>4 DEF MlInv, MlTypeOK, MlUses, MlCourses, Overrun
  <2>4. Overrun'
    BY <1>1, <1>2, <1>4, <2>3 DEF Overrun, MlBudget
  <2>5. QED
    BY <2>1, <2>2, <2>4 DEF MlInv
<1>5. QED
  BY <1>3, <1>4 DEF MlPost

LEMMA PassingFailureKeeps == ASSUME MlInv, MlPassingFailure PROVE MlInv'
<1>1. "waiting" \in MlSteps
  BY DEF MlSteps
<1>2. CASE mlAttempt < MlMaxRetries
  BY <1>1, <1>2, GoesKeeps DEF MlPassingFailure
<1>3. QED
  BY <1>2, FailsKeeps DEF MlPassingFailure

LEMMA TemperatureRefusedKeeps == ASSUME MlInv, MlTemperatureRefused PROVE MlInv'
<1>1. "cold" \in MlSteps
  BY DEF MlSteps
<1>2. QED
  BY <1>1, GoesKeeps DEF MlTemperatureRefused

LEMMA WakesKeeps == ASSUME MlInv, MlWakes PROVE MlInv'
<1>1. CASE MlReturns("cancelled")
  BY <1>1, ReturnsKeeps
<1>2. CASE ~MlReturns("cancelled")
  <2>1. /\ mlAttempt' = mlAttempt + 1 /\ mlPc' = "ready" /\ mlAttempt < MlMaxRetries
        /\ UNCHANGED <<mlUse, mlModels, mlHeated, mlModel, mlRound, mlOutcome, mlChunks,
                       mlCancelled, mlAfter>>
    BY <1>2 DEF MlWakes, MlInv, MlCourses
  <2>2. MlTypeOK'
    BY <2>1 DEF MlInv, MlTypeOK, MlSteps
  <2>3. MlCourses' /\ Overrun'
    BY <2>1 DEF MlInv, MlCourses, Overrun, MlBudget
  <2>4. QED
    BY <2>2, <2>3 DEF MlInv
<1>3. QED
  BY <1>1, <1>2

LEMMA ReceiveKeeps == ASSUME MlInv, MlReceive PROVE MlInv'
<1>1. "received" \in MlSteps
  BY DEF MlSteps
<1>2. QED
  BY <1>1, GoesKeeps DEF MlReceive

LEMMA RespondKeeps == ASSUME MlInv, NEW wellFormed \in BOOLEAN, MlRespond(wellFormed) PROVE MlInv'
BY ReturnsKeeps, FailsKeeps DEF MlRespond

\* A repaired request has a temperature again: its user has no token.
LEMMA RespondJsonKeeps == ASSUME MlInv, NEW valid \in BOOLEAN, MlRespondJson(valid) PROVE MlInv'
<1>1. CASE MlReturns("answer") \/ MlReturns("error")
  BY <1>1, ReturnsKeeps
<1>2. CASE ~(MlReturns("answer") \/ MlReturns("error"))
  <2>1. /\ mlRound < MlMaxRepairs /\ mlRound' = mlRound + 1 /\ mlAttempt' = 0
        /\ mlHeated' = TRUE /\ mlPc' = "ready" /\ mlUse = "json"
        /\ UNCHANGED <<mlUse, mlModels, mlModel, mlOutcome, mlChunks, mlCancelled, mlAfter>>
    BY <1>2 DEF MlRespondJson
  <2>2. MlTypeOK'
    BY <2>1 DEF MlInv, MlTypeOK, MlSteps
  <2>3. MlCourses' /\ Overrun'
    BY <2>1 DEF MlInv, MlCourses, Overrun, MlBudget
  <2>4. QED
    BY <2>2, <2>3 DEF MlInv
<1>3. QED
  BY <1>1, <1>2

LEMMA StreamKeeps == ASSUME MlInv, MlStream PROVE MlInv'
<1>1. "reading" \in MlSteps
  BY DEF MlSteps
<1>2. QED
  BY <1>1, GoesKeeps DEF MlStream

LEMMA LineKeeps == ASSUME MlInv, MlLine PROVE MlInv'
<1>1. CASE Noticed
  BY <1>1, ReturnsKeeps DEF MlLine
<1>2. CASE ~Noticed
  <2>1. MlGoes("reading", "line") /\ ~mlCancelled /\ mlChunks < MlMaxChunks /\ "line" \in MlSteps
    BY <1>2 DEF MlLine, Noticed, MlSteps
  <2>2. QED
    BY <2>1, GoesKeeps
<1>3. QED
  BY <1>1, <1>2

\* The chunk that was read when the user cancelled is still handed over.
LEMMA ChunkKeeps == ASSUME MlInv, MlChunk PROVE MlInv'
<1>1. /\ mlAfter = 0 /\ mlPc' = "reading" /\ mlChunks' = mlChunks + 1 /\ mlChunks < MlMaxChunks
      /\ mlAfter' \in {0, 1} /\ (~mlCancelled => mlAfter' = 0)
      /\ UNCHANGED <<mlUse, mlModels, mlHeated, mlModel, mlRound, mlAttempt, mlOutcome, mlCancelled>>
  BY DEF MlChunk, mlCourse, MlInv, MlCourses, Overrun
<1>2. MlTypeOK'
  BY <1>1 DEF MlInv, MlTypeOK, MlSteps
<1>3. MlCourses' /\ Overrun'
  BY <1>1 DEF MlInv, MlCourses, Overrun, MlBudget
<1>4. QED
  BY <1>2, <1>3 DEF MlInv

LEMMA MlStepKeeps == MlInv /\ [MlNext]_mlVars => MlInv'
<1> SUFFICES ASSUME MlInv, [MlNext]_mlVars PROVE MlInv'
  OBVIOUS
<1>1. CASE UNCHANGED mlVars
  BY <1>1 DEF mlVars, mlCourse, MlInv, MlTypeOK, MlCourses, Overrun, MlBudget
<1>2. CASE MlRefused \/ MlBroken \/ MlEndStream
  <2>1. \/ \E isRuntimeError \in BOOLEAN : MlFails(isRuntimeError)
        \/ MlReturns("cancelled") \/ MlReturns("answer")
    BY <1>2 DEF MlRefused, MlBroken, MlEndStream
  <2>2. QED
    BY <2>1, FailsKeeps, ReturnsKeeps
<1>3. QED
  BY <1>1, <1>2, MlCancelKeeps, AttemptKeeps, PostKeeps, PassingFailureKeeps,
     TemperatureRefusedKeeps, WakesKeeps, ReceiveKeeps, RespondKeeps, RespondJsonKeeps,
     StreamKeeps, LineKeeps, ChunkKeeps DEF MlNext

\* However many retries, repairs, models and chunks are configured: after a
\* cancellation at most the request in hand is sent and, if its temperature is
\* refused, once more; of a stream at most one chunk is handed over, and no
\* retry and no other model of the route follows (OpenAICompatibleLLM.chat,
\* chat_stream, AgentGraphRuntime's route).
THEOREM CancelStopsAlways == MlSpec => []CancelStops
<1>1. MlInv => CancelStops
  BY DEF MlInv, Overrun, MlBudget, CancelStops
<1>2. QED
  BY <1>1, MlInitHolds, MlStepKeeps, PTL DEF MlSpec

HIDE MlAssumption

-----------------------------------------------------------------------------
(***************************************************************************)
(* Proofs about MultiAgent, for any roles, requests and verdicts: a role   *)
(* runs once its dependencies are decided, and on the evidence of each of  *)
(* them. RunsOnEvidence is not inductive: MaInv adds that the roles of a   *)
(* batch depend only on what the coordinator has, and that what it has is  *)
(* final.                                                                  *)
(***************************************************************************)

\* Roles of a batch depend on what the coordinator has; what it has is final,
\* and so is what a role that got its task depends on.
MaInv ==
  /\ maResult \in [MaRoles -> MaResults] /\ maSeen \in [MaRoles -> SUBSET MaRoles]
  /\ maPc = "idle" => maTodos = {}
  /\ maPc # "batch" => maBatch = {}
  /\ maTodos \subseteq MaRoles
  /\ \A r \in maBatch : DependsOn(r) \subseteq maDone
  /\ \A r \in maDone : maResult[r] \in {"completed", "failed", "dependency_failed"}
  /\ Range(maChosen) \subseteq MaRoles /\ maBatch \subseteq MaRoles /\ maDone \subseteq MaRoles
  /\ RunsOnEvidence

LEMMA MaInitInvariant == MaInit => MaInv
BY DEF MaInit, MaInv, MaResults, RunsOnEvidence, Range

LEMMA FirstOfRoles ==
  ASSUME NEW list \in Seq(MaRoles)
  PROVE  FirstOf(list) \in Seq(MaRoles)
<1> DEFINE n == Len(list)
           B == Seq(MaRoles)
           Op(k, r) == IF list[k] \in Range(r) THEN r ELSE Append(r, list[k])
           step == [k \in 1 .. n |-> [r \in B |-> Op(k, r)]]
           Table(g) == g = [t \in SUBSET (1 .. n) |->
                              IF t = {} THEN << >> ELSE Op(Max(t), g[t \ {Max(t)}])]
           iter == CHOOSE g : Table(g)
<1>1. n \in Nat /\ DOMAIN list = 1 .. n
  OBVIOUS
<1>2. FirstOf(list) = iter[1 .. n]
  BY <1>1 DEF FirstOf, FoldLeft, MapThenFoldSet
<1>3. ASSUME NEW k \in 1 .. n, NEW r \in B PROVE Op(k, r) \in B
  <2>1. list[k] \in MaRoles
    BY <1>1
  <2> HIDE DEF n
  <2>2. Append(r, list[k]) \in B
    BY <2>1
  <2>3. QED
    BY <2>2
<1>4. step \in [1 .. n -> [B -> B]] /\ << >> \in B /\ n \in Nat
  BY <1>1, <1>3
<1>5. \E g : Table(g)
  <2>1. PICK g \in [SUBSET (1 .. n) -> B] : \A t \in SUBSET (1 .. n) : Folded(g, t, << >>, step)
    <3> HIDE DEF step, B, n
    <3>1. QED
      BY <1>4, FoldTable
  <2>2. ASSUME NEW t \in SUBSET (1 .. n), t # {} PROVE g[t] = Op(Max(t), g[t \ {Max(t)}])
    <3>1. Max(t) \in 1 .. n /\ t \ {Max(t)} \in SUBSET (1 .. n)
      BY <1>1, <2>2, MaxOfBounded
    <3>2. g[t \ {Max(t)}] \in B
      BY <2>1, <3>1
    <3>3. g[t] = step[Max(t)][g[t \ {Max(t)}]]
      BY <2>1, <2>2 DEF Folded
    <3> HIDE DEF Op
    <3>4. QED
      BY <3>1, <3>2, <3>3
  <2>3. ASSUME NEW t \in SUBSET (1 .. n), t = {} PROVE g[t] = << >>
    BY <2>1, <2>3 DEF Folded
  <2> HIDE DEF Op
  <2>4. \A t \in SUBSET (1 .. n) : g[t] = IF t = {} THEN << >> ELSE Op(Max(t), g[t \ {Max(t)}])
    BY <2>2, <2>3
  <2>5. g = [t \in SUBSET (1 .. n) |-> g[t]]
    BY <2>1
  <2>6. Table(g)
    BY <2>4, <2>5, Zenon
  <2>7. QED
    BY <2>6
<1>6. Table(iter)
  BY <1>5
<1> HIDE DEF iter
<1>7. iter[{}] = << >>
  BY <1>6
<1>8. ASSUME NEW t \in SUBSET (1 .. n), t # {}, iter[t \ {Max(t)}] \in B
      PROVE  iter[t] = step[Max(t)][iter[t \ {Max(t)}]]
  <2>1. Max(t) \in 1 .. n
    BY <1>1, <1>8, MaxOfBounded
  <2> HIDE DEF Op
  <2>2. iter[t] = Op(Max(t), iter[t \ {Max(t)}])
    BY <1>6, <1>8
  <2>3. QED
    BY <1>8, <2>1, <2>2
<1>9. PICK h \in [0 .. n -> B] : h[n] = iter[1 .. n]
  <2>1. IsFold(iter, n, B, << >>, step)
    BY <1>7, <1>8, Zenon DEF IsFold
  <2> HIDE DEF step, n, B
  <2> DEFINE empty == << >>
  <2>2. /\ n \in Nat /\ empty \in B /\ step \in [1 .. n -> [B -> B]]
        /\ IsFold(iter, n, B, empty, step)
    BY <1>4, <2>1
  <2> HIDE DEF step, n, B, empty
  <2>3. \E h \in [0 .. n -> B] :
          /\ h[0] = empty /\ h[n] = iter[1 .. n]
          /\ \A k \in 1 .. n : h[k] = step[k][h[k - 1]]
    BY <2>2, FoldUnrolls
  <2>4. QED
    BY <2>3
<1>10. QED
  BY <1>1, <1>2, <1>9

LEMMA RoutedRoles == ASSUME NEW label \in DOMAIN Routes PROVE Routed(label) \in Seq(MaRoles)
<1>1. \A l \in DOMAIN Routes : Routes[l] \in Seq(MaRoles)
  <2>1. DOMAIN Routes = {"complex", "coding", "research", "review", "simple"}
    BY DEF Routes
  <2>2. Routes["complex"] \in Seq(MaRoles) /\ Routes["coding"] \in Seq(MaRoles)
    BY DEF Routes, MaRoles
  <2>3. /\ Routes["research"] \in Seq(MaRoles) /\ Routes["review"] \in Seq(MaRoles)
        /\ Routes["simple"] \in Seq(MaRoles)
    BY DEF Routes, MaRoles
  <2> HIDE DEF Routes
  <2>4. QED
    BY <2>1, <2>2, <2>3
<1>2. Routes.complex \in Seq(MaRoles)
  BY DEF Routes, MaRoles
<1>3. Bounded(label) \in Seq(MaRoles)
  <2>1. Routes[label] \in Seq(MaRoles)
    BY <1>1
  <2>2. <<"reviewer">> \in Seq(MaRoles) /\ <<"planner">> \in Seq(MaRoles)
        /\ <<"planner", "reviewer">> \in Seq(MaRoles)
    BY DEF MaRoles
  <2>3. Len(Routes[label]) > MaMaxRoles => SubSeq(Routes[label], 1, MaMaxRoles) \in Seq(MaRoles)
    <3> DEFINE s == Routes[label]
    <3>1. s \in Seq(MaRoles) /\ Len(s) \in Nat /\ MaMaxRoles \in Nat
      BY <2>1, MaAssumption
    <3> HIDE DEF s
    <3>2. Len(s) > MaMaxRoles => \A i \in 1 .. MaMaxRoles : s[i] \in MaRoles
      BY <3>1
    <3>3. Len(s) > MaMaxRoles => SubSeq(s, 1, MaMaxRoles) \in Seq(MaRoles)
      BY <3>1, <3>2
    <3>4. QED
      BY <3>3 DEF s
  <2>4. ~(Len(Routes[label]) <= MaMaxRoles) => Len(Routes[label]) > MaMaxRoles
    BY <2>1, MaAssumption
  <2> HIDE DEF Routes
  <2>5. QED
    BY <2>1, <2>2, <2>3, <2>4 DEF Bounded
<1>4. QED
  BY <1>2, <1>3 DEF Routed

\* A collaboration is planned before anything runs.
LEMMA CollaborateKeeps == ASSUME MaInv, NEW list \in Seq(MaRoles), Collaborate(list) PROVE MaInv'
<1>1. /\ maPc = "idle" /\ maChosen' = FirstOf(list) /\ maPc' = "planned"
      /\ UNCHANGED <<maBatch, maResult, maDone, maTodos, maSeen>>
  BY DEF Collaborate
<1>2. Range(maChosen') \subseteq MaRoles
  BY <1>1, FirstOfRoles DEF Range
<1>3. maTodos' = {} /\ maBatch' = {}
  BY <1>1 DEF MaInv
<1>4. QED
  BY <1>1, <1>2, <1>3 DEF MaInv, RunsOnEvidence

LEMMA StartBatchKeeps == MaInv /\ StartBatch => MaInv'
<1> SUFFICES ASSUME MaInv, StartBatch PROVE MaInv'
  OBVIOUS
<1>1. /\ maPc = "planned" /\ maPc' = "batch" /\ maBatch' \in {Ready, FirstReady}
      /\ UNCHANGED <<maChosen, maResult, maDone, maTodos, maSeen>>
  BY DEF StartBatch, maInput
<1>2. maBatch' \subseteq Ready
  BY <1>1 DEF FirstReady
<1>3. Ready \subseteq MaRoles /\ \A r \in Ready : DependsOn(r) \subseteq maDone
  BY DEF Ready, Unreported, MaInv
<1>4. \A r : DependsOn(r)' = DependsOn(r)
  BY <1>1 DEF DependsOn
<1>5. RunsOnEvidence'
  BY <1>1, <1>4 DEF MaInv, RunsOnEvidence
<1>6. QED
  BY <1>1, <1>2, <1>3, <1>4, <1>5 DEF MaInv

LEMMA EndBatchKeeps == MaInv /\ EndBatch => MaInv'
<1> SUFFICES ASSUME MaInv, EndBatch PROVE MaInv'
  OBVIOUS
<1>1. /\ maPc' = "planned" /\ maBatch' = {} /\ maDone' = maDone \cup maBatch
      /\ \A r \in maBatch : maResult[r] \notin {"none", "running"}
      /\ UNCHANGED <<maChosen, maResult, maTodos, maSeen>>
  BY DEF EndBatch, maInput
<1>2. \A r \in maDone' : maResult[r] \in {"completed", "failed", "dependency_failed"}
  BY <1>1 DEF MaInv, MaResults
<1>3. RunsOnEvidence'
  BY <1>1 DEF MaInv, RunsOnEvidence, DependsOn
<1>4. QED
  BY <1>1, <1>2, <1>3 DEF MaInv

\* A role that is at work or skipped was not done, and ends in one of the ways
\* that are final.
LEMMA ResultKeeps ==
  ASSUME MaInv, NEW role \in MaRoles, maResult[role] \in {"none", "running"},
         NEW result \in {"completed", "failed", "dependency_failed"},
         maResult' = [maResult EXCEPT ![role] = result],
         UNCHANGED <<maPc, maChosen, maBatch, maDone, maTodos, maSeen>>
  PROVE  MaInv'
<1>1. /\ maResult' \in [MaRoles -> MaResults] /\ maResult'[role] = result
      /\ \A r \in MaRoles \ {role} : maResult'[r] = maResult[r]
  BY DEF MaInv, MaResults
<1>2. role \notin maDone
  BY DEF MaInv
<1>3. \A r : DependsOn(r)' = DependsOn(r)
  BY DEF DependsOn
<1>4. RunsOnEvidence'
  <2>1. SUFFICES ASSUME NEW r \in maTodos
                 PROVE  /\ DependsOn(r) \subseteq maSeen[r]
                        /\ r # "reviewer" => \A d \in DependsOn(r) : maResult'[d] = "completed"
    BY <1>3 DEF RunsOnEvidence
  <2>2. ASSUME r # "reviewer", NEW d \in DependsOn(r) PROVE maResult'[d] = "completed"
    <3>1. maResult[d] = "completed" /\ d # role /\ d \in maSeen[r] /\ r \in MaRoles
      BY <2>2 DEF MaInv, RunsOnEvidence
    <3>2. d \in MaRoles
      BY <3>1 DEF MaInv
    <3>3. QED
      BY <1>1, <3>1, <3>2
  <2>3. QED
    BY <2>2 DEF MaInv, RunsOnEvidence
<1>5. QED
  BY <1>1, <1>2, <1>3, <1>4 DEF MaInv

LEMMA SkipRoleKeeps == ASSUME MaInv, NEW role \in MaRoles, SkipRole(role) PROVE MaInv'
BY ResultKeeps DEF SkipRole, Begins, maInput

LEMMA ReportRoleKeeps ==
  ASSUME MaInv, NEW role \in MaRoles, NEW result \in {"completed", "failed"},
         NEW sides \in SUBSET Sides, ReportRole(role, result, sides)
  PROVE  MaInv'
BY ResultKeeps DEF ReportRole, maInput

\* Steps that concern neither batches nor results.
LEMMA AsideKeeps ==
  ASSUME MaInv, UNCHANGED <<maChosen, maBatch, maResult, maDone, maTodos, maSeen>>,
         maPc' = maPc \/ (maPc = "planned" /\ maPc' = "ended")
  PROVE  MaInv'
<1>1. \A r : DependsOn(r)' = DependsOn(r)
  BY DEF DependsOn
<1>2. RunsOnEvidence'
  BY <1>1 DEF MaInv, RunsOnEvidence
<1>3. QED
  BY <1>1, <1>2 DEF MaInv

LEMMA DelegateKeeps == ASSUME MaInv, NEW role \in MaRoles, Delegate(role) PROVE MaInv'
<1>1. /\ maPc = "batch" /\ role \in maBatch /\ maResult[role] = "none"
      /\ FailedDependencies(role) = {} \/ role = "reviewer"
      /\ maTodos' = maTodos \cup {role}
      /\ maSeen' = [maSeen EXCEPT ![role] = maDone]
      /\ maResult' = [maResult EXCEPT ![role] = IF maLLM THEN "running" ELSE "completed"]
      /\ UNCHANGED <<maPc, maChosen, maBatch, maDone>>
  BY DEF Delegate, Begins, maInput
<1>2. role \notin maDone /\ DependsOn(role) \subseteq maDone
  BY <1>1 DEF MaInv
<1>3. \A r \in MaRoles : DependsOn(r)' = DependsOn(r)
  BY <1>1 DEF DependsOn
<1>4. /\ maResult' \in [MaRoles -> MaResults] /\ maSeen' \in [MaRoles -> SUBSET MaRoles]
      /\ maSeen'[role] = maDone
      /\ \A r \in MaRoles \ {role} : maSeen'[r] = maSeen[r] /\ maResult'[r] = maResult[r]
  BY <1>1 DEF MaInv, MaResults
<1>5. RunsOnEvidence'
  <2>1. SUFFICES ASSUME NEW r \in maTodos'
                 PROVE  /\ DependsOn(r) \subseteq maSeen'[r]
                        /\ r # "reviewer" => \A d \in DependsOn(r) : maResult'[d] = "completed"
    BY <1>1, <1>3 DEF RunsOnEvidence, MaInv
  <2>2. CASE r = role
    <3>1. ASSUME role # "reviewer", NEW d \in DependsOn(role) PROVE maResult'[d] = "completed"
      <4>1. d \in maDone /\ d # role /\ d \in MaRoles
        BY <1>2 DEF MaInv
      <4>2. maResult[d] \in {"completed", "failed", "dependency_failed"}
        BY <4>1 DEF MaInv
      <4>3. ~ RoleFailed(d)
        BY <1>1, <3>1 DEF FailedDependencies
      <4>4. QED
        BY <1>4, <4>1, <4>2, <4>3 DEF RoleFailed
    <3>2. QED
      BY <1>2, <1>4, <2>2, <3>1
  <2>3. CASE r # role
    <3>1. r \in maTodos /\ r \in MaRoles
      BY <1>1, <2>1, <2>3 DEF MaInv
    <3>2. DependsOn(r) \subseteq maSeen'[r]
      BY <1>4, <2>3, <3>1 DEF MaInv, RunsOnEvidence
    <3>3. ASSUME r # "reviewer", NEW d \in DependsOn(r) PROVE maResult'[d] = "completed"
      <4>1. maResult[d] = "completed" /\ d # role
        BY <1>1, <3>1, <3>3 DEF MaInv, RunsOnEvidence
      <4>2. d \in MaRoles
        BY <3>1, <3>3 DEF MaInv, RunsOnEvidence
      <4>3. QED
        BY <1>4, <4>1, <4>2
    <3>4. QED
      BY <3>2, <3>3
  <2>4. QED
    BY <2>2, <2>3
<1>6. \A r \in maDone : maResult'[r] \in {"completed", "failed", "dependency_failed"}
  BY <1>2, <1>4 DEF MaInv
<1>7. \A r \in maBatch : DependsOn(r)' \subseteq maDone
  BY <1>1, <1>3 DEF MaInv, DependsOn
<1>8. QED
  BY <1>1, <1>4, <1>5, <1>6, <1>7 DEF MaInv

LEMMA MaNextKeeps == MaInv /\ [MaNext]_maVars => MaInv'
<1> SUFFICES ASSUME MaInv, [MaNext]_maVars PROVE MaInv'
  OBVIOUS
<1>1. ASSUME NEW label \in DOMAIN Routes, Collaborate(Routed(label)) PROVE MaInv'
  BY <1>1, RoutedRoles, CollaborateKeeps
<1>2. ASSUME NEW list \in MaRequests, Collaborate(list) PROVE MaInv'
  <2>1. list \in Seq(MaRoles)
    BY MaAssumption
  <2>2. QED
    BY <1>2, <2>1, CollaborateKeeps
<1>3. ASSUME NEW role \in MaRoles, CallTool(role) PROVE MaInv'
  BY <1>3, AsideKeeps DEF CallTool, maInput
<1>4. CASE EndCollaboration
  BY <1>4, AsideKeeps DEF EndCollaboration, maInput
<1>5. CASE UNCHANGED maVars
  BY <1>5, AsideKeeps DEF maVars
<1>6. CASE MaStep
  BY <1>3, <1>4, <1>6, StartBatchKeeps, EndBatchKeeps, SkipRoleKeeps, DelegateKeeps,
     ReportRoleKeeps DEF MaStep
<1>7. QED
  BY <1>1, <1>2, <1>5, <1>6 DEF MaNext

\* A role is given its task only when all roles it depends on have reported, and
\* only the reviewer may work on a report of failure, in sequence and in
\* parallel batches (_execute_assignments).
THEOREM RolesRunOnEvidence == MaSpec => []RunsOnEvidence
<1>1. MaInv => RunsOnEvidence
  BY DEF MaInv
<1>2. QED
  BY <1>1, MaInitInvariant, MaNextKeeps, PTL DEF MaSpec
=============================================================================
