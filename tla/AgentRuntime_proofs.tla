------------------------ MODULE AgentRuntime_proofs -------------------------
(***************************************************************************)
(* Proofs about AgentRuntime, for all values of its constants.             *)
(*                                                                         *)
(* The inductive invariant is TypeOK /\ Control, the types and the control *)
(* facts that tie the node about to run to the checkpoint and to the tool  *)
(* in flight, and one strengthening per property: RepeatInv, TestedInv,    *)
(* BoundInv, ToldInv, OverInv and TurnInv. Most speak of ckpt.state:       *)
(* while a process runs, the checkpoint holds the very state in memory.    *)
(***************************************************************************)
EXTENDS AgentRuntime, SequenceTheorems, FiniteSetTheorems, TLAPS

\* While a process runs, the checkpoint is its state; a tool's result is in
\* flight exactly between its return and its record; the tool nodes are
\* entered with a tool to run; a run not started has recorded nothing.
Control ==
  /\ pc # "idle" => ckpt = [status |-> "running", state |-> st]
  /\ pc = "idle" => st = InitialState
  /\ ckpt.status = "none" => ckpt.state = InitialState
  /\ inflight # "none" <=> pc = "record"
  /\ pc \in {"tool", "record"} => st.last \in Actions

LEMMA InitialStateType == InitialState \in State
<1>1. << >> \in Seq(Record) /\ << >> \in Seq(Call) /\ << >> \in Seq(Message)
  BY EmptySeq
<1>2. QED
  BY <1>1 DEF InitialState, State, Finals

\* A node's update has the right type if the new state has.
LEMMA EnterType ==
  ASSUME NEW node \in Nodes, NEW s \in State, Enter(node, s)
  PROVE  /\ pc' \in Nodes \cup {"idle"}
         /\ st' \in State
         /\ ckpt' \in [status : Statuses, state : State]
BY DEF Enter, Statuses

LEMMA StateFields ==
  ASSUME NEW s \in State
  PROVE  /\ s.step \in Nat
         /\ s.final \in Finals
         /\ s.proposed \in {"", "answer"}
         /\ s.records \in Seq(Record)
         /\ s.counts \in [Actions -> Nat]
         /\ s.last \in Actions \cup {NoAction}
         /\ s.callId \in Nat
         /\ s.assistant \in Seq(Call)
         /\ s.pending \in Seq(Call)
         /\ s.turn \in Seq(Message)
         /\ s.recovery \in Nat
         /\ s.cancelled \in BOOLEAN
         /\ s.stopped \in BOOLEAN
BY DEF State

LEMMA CountedType ==
  ASSUME TypeOK
  PROVE  Counted \in State
<1>1. st \in State
  BY DEF TypeOK
<1>2. st.step \in Nat
  BY <1>1, StateFields, Zenon
<1>3. st.step + 1 \in Nat
  BY <1>2
<1>4. QED
  BY <1>1, <1>3, Zenon DEF Counted, State

\* The native calls of one response, and those left after the first.
LEMMA NativeCallsType ==
  ASSUME NEW i \in Nat, NEW n \in Nat \ {0}, NEW chosen \in [1 .. n -> Actions],
         NEW calls, calls = [k \in 1 .. n |-> [id |-> i + k, act |-> chosen[k]]]
  PROVE  /\ calls \in Seq(Call)
         /\ Tail(calls) \in Seq(Call)
         /\ chosen[1] \in Actions
<1>1. calls \in [1 .. n -> Call]
  BY DEF Call
<1>2. calls \in Seq(Call)
  BY <1>1, SeqDef
<1>3. calls # << >>
  <2>1. DOMAIN calls = 1 .. n
    OBVIOUS
  <2>2. 1 \in DOMAIN calls
    BY <2>1
  <2>3. DOMAIN << >> = {}
    OBVIOUS
  <2>4. QED
    BY <2>2, <2>3
<1>4. Tail(calls) \in Seq(Call)
  BY <1>2, <1>3, HeadTailProperties
<1>5. chosen[1] \in Actions
  OBVIOUS
<1>6. QED
  BY <1>2, <1>4, <1>5

LEMMA TurnAfterToolType ==
  ASSUME TypeOK, st.last \in Actions
  PROVE  TurnAfterTool \in Seq(Message)
<1> DEFINE asked == IF st.assistant = << >> THEN << >>
                    ELSE << [role |-> "assistant", calls |-> st.assistant] >>
           call == [id |-> st.callId, act |-> st.last]
           answer == << [role |-> "tool", calls |-> << call >>] >>
<1>1. st.turn \in Seq(Message) /\ st.assistant \in Seq(Call) /\ st.callId \in Nat
  BY StateFields DEF TypeOK
<1>2. asked \in Seq(Message)
  <2>1. [role |-> "assistant", calls |-> st.assistant] \in Message
    BY <1>1 DEF Message
  <2>2. << >> \in Seq(Message)
    BY EmptySeq
  <2>3. QED
    BY <2>1, <2>2
<1>3. call \in Call
  BY <1>1 DEF Call
<1>4. << call >> \in Seq(Call)
  BY <1>3
<1>5. answer \in Seq(Message)
  BY <1>4 DEF Message
<1>6. st.turn \o asked \in Seq(Message)
  BY <1>1, <1>2, ConcatProperties
<1>7. (st.turn \o asked) \o answer \in Seq(Message)
  BY <1>5, <1>6, ConcatProperties
<1>8. QED
  BY <1>1, <1>7 DEF TurnAfterTool

-----------------------------------------------------------------------------
(* Each action preserves the types and the control facts. *)

\* The steps that only enter a node with an updated state.
LEMMA EnterStepType ==
  ASSUME TypeOK, Control, NEW node \in Nodes \ {"record"}, NEW s \in State,
         Enter(node, s), node = "tool" => s.last \in Actions,
         inflight' = "none",
         UNCHANGED <<cancel, transcript, resumes, executed, lost, written, untested>>,
         bounded' \in BOOLEAN, issued' \in Nat, escaped' \in BOOLEAN
  PROVE  TypeOK' /\ Control'
<1>1. TypeOK'
  BY EnterType DEF TypeOK
<1>2. Control'
  BY DEF Enter, Control, Nodes
<1>3. QED
  BY <1>1, <1>2

\* The steps that leave the graph state, the checkpoint and the world alone.
LEMMA HaltType ==
  ASSUME TypeOK, Control, Halt, pc # "idle",
         \/ UNCHANGED ckpt
         \/ ckpt' = [ckpt EXCEPT !.status = "interrupted"]
  PROVE  TypeOK' /\ Control'
<1>1. ckpt' \in [status : Statuses, state : State]
  BY DEF TypeOK, Statuses
<1>2. lost' \in [Actions -> Nat]
  <2>1. CASE inflight \in {"ok", "failed"}
    <3>1. st.last \in Actions
      BY <2>1 DEF Control
    <3>2. lost' = [lost EXCEPT ![st.last] = @ + 1]
      BY <2>1 DEF Halt
    <3>3. QED
      BY <3>1, <3>2 DEF TypeOK
  <2>2. CASE inflight \notin {"ok", "failed"}
    BY <2>2 DEF Halt, TypeOK
  <2>3. QED
    BY <2>1, <2>2
<1>3. escaped' \in BOOLEAN
  BY DEF Halt, TypeOK
<1>4. TypeOK'
  BY <1>1, <1>2, <1>3, InitialStateType DEF TypeOK, Halt
<1>5. Control'
  BY DEF Control, Halt
<1>6. QED
  BY <1>4, <1>5

LEMMA StartResumeType ==
  ASSUME TypeOK, Control, Start \/ Resume
  PROVE  TypeOK' /\ Control'
<1>1. CASE Start
  BY <1>1, InitialStateType, EnterStepType
     DEF Start, TypeOK, Control, Nodes, worldVars
<1>2. CASE Resume
  <2>1. ckpt.state \in State
    BY DEF TypeOK
  <2>2. "" \in Finals
    BY DEF Finals
  <2>3. [ckpt.state EXCEPT !.final = ""] \in State
    BY <2>1, <2>2, Zenon DEF State
  <2>4. PICK s \in State : s = [ckpt.state EXCEPT !.final = ""]
    BY <2>3
  <2>5. Enter("prepare", s) /\ resumes' = resumes + 1 /\ bounded' = FALSE
        /\ UNCHANGED <<cancel, inflight, transcript, issued, worldVars>>
    BY <1>2, <2>4 DEF Resume
  <2>6. TypeOK'
    <3>1. "prepare" \in Nodes
      BY DEF Nodes
    <3>2. /\ pc' \in Nodes \cup {"idle"}
          /\ st' \in State
          /\ ckpt' \in [status : Statuses, state : State]
      BY <2>5, <3>1, EnterType
    <3>3. resumes' \in Nat
      BY <2>5 DEF TypeOK
    <3>4. QED
      BY <2>5, <3>2, <3>3 DEF TypeOK, worldVars
  <2>7. Control'
    <3>1. pc' = "prepare" /\ ckpt' = [status |-> "running", state |-> st']
      BY <2>5 DEF Enter
    <3>2. inflight' = "none"
      BY <1>2 DEF Resume, Control
    <3>3. QED
      BY <3>1, <3>2 DEF Control
  <2>8. QED
    BY <2>6, <2>7
<1>3. QED
  BY <1>1, <1>2

LEMMA PrepareAnalyzeType ==
  ASSUME TypeOK, Control, Prepare \/ Analyze
  PROVE  TypeOK' /\ Control'
<1>1. st \in State /\ inflight' = "none" /\ bounded' \in BOOLEAN
      /\ issued' \in Nat /\ escaped' \in BOOLEAN
  BY DEF TypeOK, Prepare, Analyze, worldVars, Control
<1>2. UNCHANGED <<cancel, transcript, resumes, executed, lost, written, untested>>
  BY DEF Prepare, Analyze, worldVars
<1>3. CASE Prepare /\ cancel
  <2>1. [st EXCEPT !.final = "cancelled", !.cancelled = TRUE] \in State
    <3>1. "cancelled" \in Finals
      BY DEF Finals
    <3>2. QED
      BY <1>1, <3>1, Zenon DEF State
  <2>2. Enter("persist", [st EXCEPT !.final = "cancelled", !.cancelled = TRUE])
    BY <1>3 DEF Prepare
  <2>3. QED
    BY <1>1, <1>2, <2>1, <2>2, EnterStepType DEF Nodes
<1>4. CASE Prepare /\ ~cancel
  <2>1. Enter("analyze", st)
    BY <1>4 DEF Prepare
  <2>2. QED
    BY <1>1, <1>2, <2>1, EnterStepType DEF Nodes
<1>5. CASE Analyze
  <2>1. Enter("llm", st)
    BY <1>5 DEF Analyze
  <2>2. QED
    BY <1>1, <1>2, <2>1, EnterStepType DEF Nodes
<1>6. QED
  BY <1>3, <1>4, <1>5

\* The steps of the nodes that change nothing but the graph state.
LEMMA PlainStepType ==
  ASSUME TypeOK, Control, NEW node \in Nodes \ {"record"}, NEW s \in State,
         Enter(node, s), node = "tool" => s.last \in Actions, pc # "record",
         UNCHANGED <<cancel, bounded, inflight, transcript, resumes, issued, worldVars>>
  PROVE  TypeOK' /\ Control'
<1>1. inflight' = "none" /\ bounded' \in BOOLEAN /\ issued' \in Nat /\ escaped' \in BOOLEAN
  BY DEF TypeOK, worldVars, Control
<1>2. UNCHANGED <<cancel, transcript, resumes, executed, lost, written, untested>>
  BY DEF worldVars
<1>3. QED
  BY <1>1, <1>2, EnterStepType

LEMMA LlmStepType ==
  ASSUME TypeOK, Control, LlmStep
  PROVE  TypeOK' /\ Control'
<1> DEFINE Frame == UNCHANGED <<cancel, bounded, inflight, transcript, resumes, issued, worldVars>>
<1>1. Counted \in State
  BY CountedType
<1>2. pc = "llm" /\ pc # "record" /\ pc # "idle"
  BY DEF LlmStep, LlmCancelled, LlmPropose, LlmJsonTool, LlmNamelessTool,
         LlmNativeTools, LlmUnavailable
<1>3. CASE LlmCancelled
  <2>1. "cancelled" \in Finals
    BY DEF Finals
  <2>2. [Counted EXCEPT !.final = "cancelled", !.cancelled = TRUE] \in State
    BY <1>1, <2>1, Zenon DEF State
  <2>3. Enter("persist", [Counted EXCEPT !.final = "cancelled", !.cancelled = TRUE]) /\ Frame
    BY <1>3 DEF LlmCancelled
  <2>4. QED
    BY <1>2, <2>2, <2>3, PlainStepType DEF Nodes
<1>4. CASE LlmPropose
  <2>1. PICK text \in {"", "answer"} : Enter("verify", [Counted EXCEPT !.proposed = text])
    BY <1>4 DEF LlmPropose
  <2>2. [Counted EXCEPT !.proposed = text] \in State
    BY <1>1, Zenon DEF State
  <2>3. Frame
    BY <1>4 DEF LlmPropose
  <2>4. QED
    BY <1>2, <2>1, <2>2, <2>3, PlainStepType DEF Nodes
<1>5. CASE LlmJsonTool
  <2>1. PICK a \in Actions : Enter("tool", [Counted EXCEPT !.last = a])
    BY <1>5 DEF LlmJsonTool
  <2>2. a \in Actions \cup {NoAction}
    OBVIOUS
  <2>3. [Counted EXCEPT !.last = a] \in State
    BY <1>1, <2>2, Zenon DEF State
  <2>4. [Counted EXCEPT !.last = a].last = a
    BY <1>1, Zenon DEF State
  <2>5. Frame
    BY <1>5 DEF LlmJsonTool
  <2>6. QED
    BY <1>2, <2>1, <2>3, <2>4, <2>5, PlainStepType DEF Nodes
<1>6. CASE LlmNamelessTool
  <2>1. NoAction \in Actions \cup {NoAction}
    OBVIOUS
  <2>2. [Counted EXCEPT !.last = NoAction] \in State
    BY <1>1, <2>1, Zenon DEF State
  <2>3. Enter("persist", [Counted EXCEPT !.last = NoAction]) /\ Frame
    BY <1>6 DEF LlmNamelessTool
  <2>4. QED
    BY <1>2, <2>2, <2>3, PlainStepType DEF Nodes
<1>7. CASE LlmNativeTools
  <2> DEFINE Calls(n, chosen) == [k \in 1 .. n |-> [id |-> issued + k, act |-> chosen[k]]]
             After(n, chosen) == [Counted EXCEPT !.last = chosen[1],
                                                 !.callId = issued + 1,
                                                 !.assistant = Calls(n, chosen),
                                                 !.pending = Tail(Calls(n, chosen))]
  <2>0. PICK n \in 1 .. MaxCalls - issued : \E chosen \in [1 .. n -> Actions] :
          Enter("tool", After(n, chosen)) /\ issued' = issued + n
    BY <1>7, Zenon DEF LlmNativeTools
  <2>1. PICK chosen \in [1 .. n -> Actions] :
          Enter("tool", After(n, chosen)) /\ issued' = issued + n
    BY <2>0, Zenon
  <2>2. issued \in Nat /\ n \in Nat \ {0} /\ issued + 1 \in Nat /\ issued + n \in Nat
    BY <2>1, BoundsAssumption DEF TypeOK
  <2>3. /\ Calls(n, chosen) \in Seq(Call)
        /\ Tail(Calls(n, chosen)) \in Seq(Call)
        /\ chosen[1] \in Actions
    <3>1. PICK calls : calls = Calls(n, chosen)
      OBVIOUS
    <3>2. calls \in Seq(Call) /\ Tail(calls) \in Seq(Call) /\ chosen[1] \in Actions
      BY <2>2, <3>1, NativeCallsType
    <3>3. QED
      BY <3>1, <3>2, Zenon
  <2>4. chosen[1] \in Actions \cup {NoAction}
    BY <2>3
  <2>5. After(n, chosen) \in State
    BY <1>1, <2>2, <2>3, <2>4, Zenon DEF State
  <2>6. After(n, chosen).last = chosen[1]
    BY <1>1, Zenon DEF State
  <2>7. inflight' = "none" /\ bounded' \in BOOLEAN /\ issued' \in Nat /\ escaped' \in BOOLEAN
    BY <1>2, <1>7, <2>1, <2>2 DEF LlmNativeTools, TypeOK, worldVars, Control
  <2>8. UNCHANGED <<cancel, transcript, resumes, executed, lost, written, untested>>
    BY <1>7 DEF LlmNativeTools, worldVars
  <2>9. PICK s \in State : s = After(n, chosen)
    BY <2>5
  <2>10. Enter("tool", s) /\ s.last \in Actions
    BY <2>1, <2>3, <2>6, <2>9
  <2>11. "tool" \in Nodes \ {"record"}
    BY DEF Nodes
  <2>12. QED
    BY <2>7, <2>8, <2>10, <2>11, EnterStepType
<1>8. CASE LlmUnavailable
  BY <1>2, <1>8, HaltType DEF LlmUnavailable
<1>9. QED
  BY <1>3, <1>4, <1>5, <1>6, <1>7, <1>8 DEF LlmStep

LEMMA ToolStepType ==
  ASSUME TypeOK, Control, ToolStep
  PROVE  TypeOK' /\ Control'
<1>1. st \in State /\ pc \in {"tool", "record"} /\ st.last \in Actions
  BY DEF TypeOK, Control, ToolStep, ToolCancelled, ToolBlocked, ToolRun, ToolRecord
<1>2. CASE ToolCancelled
  <2>1. "cancelled" \in Finals
    BY DEF Finals
  <2>2. [st EXCEPT !.final = "cancelled", !.cancelled = TRUE] \in State
    BY <1>1, <2>1, Zenon DEF State
  <2>3. Enter("observe", [st EXCEPT !.final = "cancelled", !.cancelled = TRUE])
    BY <1>2 DEF ToolCancelled
  <2>4. pc # "record" /\ UNCHANGED <<cancel, bounded, inflight, transcript, resumes, issued, worldVars>>
    BY <1>2 DEF ToolCancelled
  <2>5. "observe" \in Nodes \ {"record"} /\ "observe" # "tool"
    BY DEF Nodes
  <2>6. QED
    BY <2>2, <2>3, <2>4, <2>5, PlainStepType
<1>3. CASE ToolBlocked
  <2>1. TypeOK'
    BY <1>3 DEF ToolBlocked, TypeOK, Nodes, worldVars
  <2>2. Control'
    BY <1>1, <1>3 DEF ToolBlocked, Control
  <2>3. QED
    BY <2>1, <2>2
<1>4. CASE ToolRun
  <2>1. PICK ok, effect \in BOOLEAN :
          /\ inflight' = IF ok THEN "ok" ELSE "failed"
          /\ written' = IF effect THEN written \cup st.last.writes ELSE written
          /\ untested' = IF effect /\ st.last.code THEN TRUE
                          ELSE untested /\ ~(ok /\ st.last.evidence = "strong")
          /\ escaped' = (escaped \/ (~ok /\ effect /\ st.last.writes # {}))
    BY <1>4 DEF ToolRun
  <2>2. st.last.writes \in SUBSET Files
    BY <1>1, ActionsAssumption DEF ActionType
  <2>3. written' \in SUBSET Files
    BY <2>1, <2>2 DEF TypeOK
  <2>4. executed' \in [Actions -> Nat]
    BY <1>1, <1>4 DEF ToolRun, TypeOK
  <2>5. inflight' \in {"ok", "failed"}
    BY <2>1
  <2>6. untested' \in BOOLEAN
    BY <2>1 DEF TypeOK
  <2>7. escaped' \in BOOLEAN
    BY <2>1 DEF TypeOK
  <2>8. pc' = "record" /\ UNCHANGED <<st, ckpt, cancel, bounded, transcript, resumes, issued, lost>>
    BY <1>4 DEF ToolRun
  <2>9. TypeOK'
    BY <2>3, <2>4, <2>5, <2>6, <2>7, <2>8 DEF TypeOK, Nodes
  <2>10. Control'
    BY <1>1, <2>5, <2>8 DEF Control
  <2>11. QED
    BY <2>9, <2>10
<1>5. CASE ToolRecord
  <2> DEFINE ok == inflight = "ok" /\ ~OverBudget
             record == [act |-> st.last, ok |-> ok]
             After == [st EXCEPT !.records = Append(@, record),
                                 !.counts[st.last] = @ + 1,
                                 !.turn = TurnAfterTool,
                                 !.callId = 0,
                                 !.assistant = << >>]
  <2>1. TurnAfterTool \in Seq(Message)
    BY <1>1, TurnAfterToolType
  <2>2. Append(st.records, record) \in Seq(Record)
    <3>1. record \in Record
      BY <1>1 DEF Record
    <3>2. st.records \in Seq(Record)
      BY <1>1, StateFields, Zenon
    <3>3. QED
      BY <3>1, <3>2, AppendProperties
  <2>3. [st.counts EXCEPT ![st.last] = @ + 1] \in [Actions -> Nat]
    <3>1. st.counts \in [Actions -> Nat]
      BY <1>1, StateFields, Zenon
    <3>2. QED
      BY <1>1, <3>1
  <2>4. 0 \in Nat /\ << >> \in Seq(Call)
    BY EmptySeq
  <2>5. After \in State
    BY <1>1, <2>1, <2>2, <2>3, <2>4, Zenon DEF State
  <2>6. /\ Enter("observe", After)
        /\ escaped' = (escaped \/ (inflight = "ok" /\ ~ok /\ st.last.writes # {}))
    BY <1>5, Zenon DEF ToolRecord
  <2>7. escaped' \in BOOLEAN
    BY <2>6 DEF TypeOK
  <2>8. /\ inflight' = "none" /\ bounded' \in BOOLEAN /\ issued' \in Nat
        /\ UNCHANGED <<cancel, transcript, resumes, executed, lost, written, untested>>
    BY <1>5 DEF ToolRecord, TypeOK
  <2>9. "observe" \in Nodes \ {"record"} /\ "observe" # "tool"
    BY DEF Nodes
  <2>10. QED
    BY <2>5, <2>6, <2>7, <2>8, <2>9, EnterStepType
<1>6. QED
  BY <1>2, <1>3, <1>4, <1>5 DEF ToolStep

LEMMA ObserveStepType ==
  ASSUME TypeOK, Control, ObserveStep
  PROVE  TypeOK' /\ Control'
<1>1. st \in State
  BY DEF TypeOK
<1>2. pc # "record" /\ UNCHANGED <<cancel, bounded, inflight, transcript, resumes, issued, worldVars>>
  BY DEF ObserveStep, ObservePending, ObserveLimit, ObserveContinue
<1>3. /\ "persist" \in Nodes \ {"record"} /\ "tool" \in Nodes \ {"record"}
      /\ "llm" \in Nodes \ {"record"}
  BY DEF Nodes
<1>4. CASE ObservePending
  <2> DEFINE After == [st EXCEPT !.last = Head(st.pending).act,
                                 !.callId = Head(st.pending).id,
                                 !.pending = Tail(st.pending)]
             node == IF st.final # "" THEN "persist" ELSE "tool"
  <2>1. st.pending \in Seq(Call) /\ st.pending # << >>
    BY <1>1, <1>4, StateFields DEF ObservePending
  <2>2. Head(st.pending) \in Call /\ Tail(st.pending) \in Seq(Call)
    BY <2>1, HeadTailProperties
  <2>3. Head(st.pending).act \in Actions /\ Head(st.pending).id \in Nat
    BY <2>2 DEF Call
  <2>4. Head(st.pending).act \in Actions \cup {NoAction}
    BY <2>3
  <2>5. After \in State
    BY <1>1, <2>2, <2>3, <2>4, Zenon DEF State
  <2>6. After.last = Head(st.pending).act
    BY <1>1, Zenon DEF State
  <2>7. Enter(node, After)
    BY <1>4 DEF ObservePending
  <2>8. node \in Nodes \ {"record"}
    BY <1>3
  <2>9. PICK s \in State : s = After
    BY <2>5
  <2>10. s.last \in Actions /\ Enter(node, s)
    BY <2>3, <2>6, <2>7, <2>9
  <2>11. QED
    BY <1>2, <2>8, <2>10, PlainStepType
<1>5. CASE ObserveLimit
  <2> DEFINE text == IF st.proposed # "" THEN "unverified" ELSE "limit"
             After == [st EXCEPT !.final = text, !.stopped = TRUE]
  <2>1. text \in Finals
    BY DEF Finals
  <2>2. After \in State
    BY <1>1, <2>1, Zenon DEF State
  <2>3. Enter("persist", After)
    BY <1>5 DEF ObserveLimit
  <2>4. QED
    BY <1>2, <1>3, <2>2, <2>3, PlainStepType
<1>6. CASE ObserveContinue
  <2>1. Enter(IF st.final # "" THEN "persist" ELSE "llm", st)
    BY <1>6 DEF ObserveContinue
  <2>2. QED
    BY <1>1, <1>2, <1>3, <2>1, PlainStepType
<1>7. QED
  BY <1>4, <1>5, <1>6 DEF ObserveStep

LEMMA VerifyRecoverType ==
  ASSUME TypeOK, Control, VerifyAccept \/ VerifyRefuse \/ Recover
  PROVE  TypeOK' /\ Control'
<1>1. st \in State
  BY DEF TypeOK
<1>2. pc # "record" /\ UNCHANGED <<cancel, bounded, inflight, transcript, resumes, issued, worldVars>>
  BY DEF VerifyAccept, VerifyRefuse, Recover
<1>3. /\ "persist" \in Nodes \ {"record"} /\ "recover" \in Nodes \ {"record"}
      /\ "llm" \in Nodes \ {"record"}
  BY DEF Nodes
<1>4. CASE VerifyAccept
  <2>1. st.proposed \in Finals
    BY <1>1, StateFields DEF Finals
  <2>2. [st EXCEPT !.final = st.proposed] \in State
    BY <1>1, <2>1, Zenon DEF State
  <2>3. Enter("persist", [st EXCEPT !.final = st.proposed])
    BY <1>4 DEF VerifyAccept
  <2>4. QED
    BY <1>2, <1>3, <2>2, <2>3, PlainStepType
<1>5. CASE VerifyRefuse /\ CanRecover(st)
  <2>1. Enter("recover", st)
    BY <1>5 DEF VerifyRefuse
  <2>2. QED
    BY <1>1, <1>2, <1>3, <2>1, PlainStepType
<1>6. CASE VerifyRefuse /\ ~CanRecover(st)
  <2>1. "incomplete" \in Finals
    BY DEF Finals
  <2>2. [st EXCEPT !.final = "incomplete"] \in State
    BY <1>1, <2>1, Zenon DEF State
  <2>3. Enter("persist", [st EXCEPT !.final = "incomplete"])
    BY <1>6 DEF VerifyRefuse
  <2>4. QED
    BY <1>2, <1>3, <2>2, <2>3, PlainStepType
<1>7. CASE Recover
  <2>1. st.recovery \in Nat
    BY <1>1, StateFields, Zenon
  <2>2. st.recovery + 1 \in Nat
    BY <2>1
  <2>3. [st EXCEPT !.recovery = @ + 1, !.proposed = ""] \in State
    BY <1>1, <2>2, Zenon DEF State
  <2>4. Enter("llm", [st EXCEPT !.recovery = @ + 1, !.proposed = ""])
    BY <1>7 DEF Recover
  <2>5. QED
    BY <1>2, <1>3, <2>3, <2>4, PlainStepType
<1>8. QED
  BY <1>4, <1>5, <1>6, <1>7

LEMMA PersistFinishType ==
  ASSUME TypeOK, Control, PersistStep \/ AutoEvolve \/ Finish
  PROVE  TypeOK' /\ Control'
<1>1. st \in State
  BY DEF TypeOK
<1>2. AnswerText \in Finals
  <2>1. st.final \in Finals
    BY <1>1, StateFields, Zenon
  <2>2. QED
    BY <2>1 DEF AnswerText, Finals
<1>3. CASE PersistUser
  <2>1. [role |-> "user", text |-> ""] \in [role : {"user", "assistant"}, text : Finals]
    BY DEF Finals
  <2>2. transcript' \in Seq([role : {"user", "assistant"}, text : Finals])
    BY <1>3, <2>1, AppendProperties DEF PersistUser, TypeOK
  <2>3. TypeOK'
    BY <1>3, <2>2 DEF PersistUser, TypeOK, Nodes, worldVars
  <2>4. Control'
    BY <1>3 DEF PersistUser, Control
  <2>5. QED
    BY <2>3, <2>4
<1>4. CASE PersistAnswer
  <2>1. [role |-> "assistant", text |-> AnswerText] \in [role : {"user", "assistant"}, text : Finals]
    BY <1>2
  <2>2. transcript' \in Seq([role : {"user", "assistant"}, text : Finals])
    BY <1>4, <2>1, AppendProperties DEF PersistAnswer, TypeOK
  <2>3. TypeOK'
    BY <1>4, <2>2 DEF PersistAnswer, TypeOK, Nodes, worldVars
  <2>4. Control'
    BY <1>4 DEF PersistAnswer, Control
  <2>5. QED
    BY <2>3, <2>4
<1>5. CASE PersistContext
  <2>1. [st EXCEPT !.final = AnswerText] \in State
    BY <1>1, <1>2, Zenon DEF State
  <2>2. Enter("auto_evolve", [st EXCEPT !.final = AnswerText]) /\ pc # "record"
        /\ UNCHANGED <<cancel, bounded, inflight, transcript, resumes, issued, worldVars>>
    BY <1>5 DEF PersistContext
  <2>3. "auto_evolve" \in Nodes \ {"record"} /\ "auto_evolve" # "tool"
    BY DEF Nodes
  <2>4. QED
    BY <2>1, <2>2, <2>3, PlainStepType
<1>6. CASE PersistRejected
  BY <1>6, HaltType DEF PersistRejected
<1>7. CASE AutoEvolve
  <2>1. TypeOK'
    BY <1>7 DEF AutoEvolve, TypeOK, Nodes, worldVars
  <2>2. Control'
    BY <1>7 DEF AutoEvolve, Control
  <2>3. QED
    BY <2>1, <2>2
<1>8. CASE Finish
  <2>1. ckpt' \in [status : Statuses, state : State]
    BY <1>1, <1>8 DEF Finish, Statuses
  <2>2. TypeOK'
    BY <1>8, <2>1, InitialStateType DEF Finish, TypeOK, worldVars
  <2>3. Control'
    BY <1>8 DEF Finish, Control
  <2>4. QED
    BY <2>2, <2>3
<1>9. QED
  BY <1>3, <1>4, <1>5, <1>6, <1>7, <1>8 DEF PersistStep

LEMMA InitType == Init => TypeOK /\ Control
<1> SUFFICES ASSUME Init PROVE TypeOK /\ Control
  OBVIOUS
<1>1. << >> \in Seq([role : {"user", "assistant"}, text : Finals])
  BY EmptySeq
<1>2. ckpt \in [status : Statuses, state : State]
  BY InitialStateType DEF Init, Statuses
<1>3. TypeOK
  BY <1>1, <1>2, InitialStateType DEF Init, TypeOK
<1>4. Control
  BY DEF Init, Control
<1>5. QED
  BY <1>3, <1>4

LEMMA StepType ==
  TypeOK /\ Control /\ [Next]_vars => TypeOK' /\ Control'
<1> SUFFICES ASSUME TypeOK, Control, [Next]_vars
             PROVE  TypeOK' /\ Control'
  OBVIOUS
<1>1. CASE RequestCancel
  <2>1. TypeOK'
    BY <1>1 DEF RequestCancel, TypeOK, worldVars
  <2>2. Control'
    BY <1>1 DEF RequestCancel, Control
  <2>3. QED
    BY <2>1, <2>2
<1>2. CASE Crash
  BY <1>2, HaltType DEF Crash
<1>3. CASE Interrupt
  <2>1. pc # "idle"
    BY <1>3 DEF Interrupt, Nodes
  <2>2. QED
    BY <1>3, <2>1, HaltType DEF Interrupt
<1>4. CASE UNCHANGED vars
  <2>1. TypeOK'
    BY <1>4 DEF vars, TypeOK, worldVars
  <2>2. Control'
    BY <1>4 DEF vars, Control
  <2>3. QED
    BY <2>1, <2>2
<1>5. QED
  BY <1>1, <1>2, <1>3, <1>4, StartResumeType, PrepareAnalyzeType, LlmStepType,
     ToolStepType, ObserveStepType, VerifyRecoverType, PersistFinishType
     DEF Next, GraphStep

\* Every reachable state of a run has its type: the graph state the runtime
\* restores from a checkpoint is always one a node may be given.
THEOREM TypeCorrect == Spec => []TypeOK
<1>1. Spec => [](TypeOK /\ Control)
  BY InitType, StepType, PTL DEF Spec
<1>2. QED
  BY <1>1, PTL

-----------------------------------------------------------------------------
(* What the steps leave alone *)

\* Only the node that records a tool's result changes the records and the
\* counters in the checkpoint.
LEMMA RecordsFrame ==
  ASSUME TypeOK, Control, [Next]_vars, ~ToolRecord
  PROVE  /\ ckpt'.state.records = ckpt.state.records
         /\ ckpt'.state.counts = ckpt.state.counts
<1> DEFINE Same == /\ ckpt'.state.records = ckpt.state.records
                   /\ ckpt'.state.counts = ckpt.state.counts
           Kept(s) == s.records = st.records /\ s.counts = st.counts
<1>1. st \in State /\ ckpt.state \in State /\ ckpt \in [status : Statuses, state : State]
  BY DEF TypeOK
<1>2. ASSUME pc # "idle", NEW node, NEW s, Enter(node, s), Kept(s)
      PROVE  Same
  BY <1>2 DEF Enter, Control
<1>3. CASE Start
  BY <1>3 DEF Start, Enter, Control
<1>4. CASE Resume
  <2>1. Enter("prepare", [ckpt.state EXCEPT !.final = ""])
    BY <1>4 DEF Resume
  <2>2. /\ [ckpt.state EXCEPT !.final = ""].records = ckpt.state.records
        /\ [ckpt.state EXCEPT !.final = ""].counts = ckpt.state.counts
    BY <1>1, Zenon DEF State
  <2>3. QED
    BY <2>1, <2>2 DEF Enter
<1>5. ASSUME UNCHANGED ckpt \/ ckpt' = [ckpt EXCEPT !.status = "interrupted"]
      PROVE  Same
  <2>1. [ckpt EXCEPT !.status = "interrupted"].state = ckpt.state
    BY <1>1
  <2>2. QED
    BY <1>5, <2>1
<1>6. CASE Prepare \/ Analyze
  <2>1. Kept([st EXCEPT !.final = "cancelled", !.cancelled = TRUE])
    BY <1>1, Zenon DEF State
  <2>2. pc # "idle"
    BY <1>6 DEF Prepare, Analyze
  <2>3. QED
    BY <1>6, <1>2, <2>1, <2>2 DEF Prepare, Analyze
<1>7. CASE LlmStep
  <2>1. pc # "idle" /\ Counted \in State
    BY <1>7, CountedType DEF LlmStep, LlmCancelled, LlmPropose, LlmJsonTool,
       LlmNamelessTool, LlmNativeTools, LlmUnavailable
  <2>2. Kept(Counted)
    BY <1>1, Zenon DEF Counted, State
  <2>3. CASE LlmCancelled
    <3>1. Kept([Counted EXCEPT !.final = "cancelled", !.cancelled = TRUE])
      BY <2>1, <2>2, Zenon DEF State
    <3>2. QED
      BY <1>2, <2>1, <2>3, <3>1 DEF LlmCancelled
  <2>4. CASE LlmPropose
    <3>1. PICK text \in {"", "answer"} : Enter("verify", [Counted EXCEPT !.proposed = text])
      BY <2>4 DEF LlmPropose
    <3>2. Kept([Counted EXCEPT !.proposed = text])
      BY <2>1, <2>2, Zenon DEF State
    <3>3. QED
      BY <1>2, <2>1, <3>1, <3>2
  <2>5. CASE LlmJsonTool
    <3>1. PICK a \in Actions : Enter("tool", [Counted EXCEPT !.last = a])
      BY <2>5 DEF LlmJsonTool
    <3>2. Kept([Counted EXCEPT !.last = a])
      BY <2>1, <2>2, Zenon DEF State
    <3>3. QED
      BY <1>2, <2>1, <3>1, <3>2
  <2>6. CASE LlmNamelessTool
    <3>1. Kept([Counted EXCEPT !.last = NoAction])
      BY <2>1, <2>2, Zenon DEF State
    <3>2. QED
      BY <1>2, <2>1, <2>6, <3>1 DEF LlmNamelessTool
  <2>7. CASE LlmNativeTools
    <3>1. PICK first, id, calls, rest :
            Enter("tool", [Counted EXCEPT !.last = first, !.callId = id,
                                          !.assistant = calls, !.pending = rest])
      BY <2>7, Zenon DEF LlmNativeTools
    <3>2. Kept([Counted EXCEPT !.last = first, !.callId = id,
                               !.assistant = calls, !.pending = rest])
      BY <2>1, <2>2, Zenon DEF State
    <3>3. QED
      BY <1>2, <2>1, <3>1, <3>2
  <2>8. CASE LlmUnavailable
    BY <2>8, <1>5 DEF LlmUnavailable
  <2>9. QED
    BY <1>7, <2>3, <2>4, <2>5, <2>6, <2>7, <2>8 DEF LlmStep
<1>8. CASE ToolCancelled
  <2>1. Kept([st EXCEPT !.final = "cancelled", !.cancelled = TRUE])
    BY <1>1, Zenon DEF State
  <2>2. QED
    BY <1>2, <1>8, <2>1 DEF ToolCancelled
<1>9. CASE ToolBlocked \/ ToolRun
  BY <1>5, <1>9 DEF ToolBlocked, ToolRun
<1>10. CASE ObserveStep
  <2>1. pc # "idle"
    BY <1>10 DEF ObserveStep, ObservePending, ObserveLimit, ObserveContinue
  <2>2. PICK node, s : Enter(node, s) /\ Kept(s)
    <3>1. CASE ObservePending
      <4>1. PICK a, id, rest, node :
              Enter(node, [st EXCEPT !.last = a, !.callId = id, !.pending = rest])
        BY <3>1, Zenon DEF ObservePending
      <4>2. Kept([st EXCEPT !.last = a, !.callId = id, !.pending = rest])
        BY <1>1, Zenon DEF State
      <4>3. QED
        BY <4>1, <4>2
    <3>2. CASE ObserveLimit
      <4>1. PICK text : Enter("persist", [st EXCEPT !.final = text, !.stopped = TRUE])
        BY <3>2, Zenon DEF ObserveLimit
      <4>2. Kept([st EXCEPT !.final = text, !.stopped = TRUE])
        BY <1>1, Zenon DEF State
      <4>3. QED
        BY <4>1, <4>2
    <3>3. CASE ObserveContinue
      BY <3>3 DEF ObserveContinue
    <3>4. QED
      BY <1>10, <3>1, <3>2, <3>3 DEF ObserveStep
  <2>3. QED
    BY <1>2, <2>1, <2>2
<1>11. CASE VerifyAccept \/ VerifyRefuse \/ Recover
  <2>1. pc # "idle"
    BY <1>11 DEF VerifyAccept, VerifyRefuse, Recover
  <2>2. /\ Kept([st EXCEPT !.final = st.proposed])
        /\ Kept([st EXCEPT !.final = "incomplete"])
        /\ Kept([st EXCEPT !.recovery = @ + 1, !.proposed = ""])
    BY <1>1, Zenon DEF State
  <2>3. CASE VerifyAccept
    BY <1>2, <2>1, <2>2, <2>3 DEF VerifyAccept
  <2>4. CASE VerifyRefuse
    BY <1>2, <2>1, <2>2, <2>4 DEF VerifyRefuse
  <2>5. CASE Recover
    BY <1>2, <2>1, <2>2, <2>5 DEF Recover
  <2>6. QED
    BY <1>11, <2>3, <2>4, <2>5
<1>12. CASE PersistStep \/ AutoEvolve \/ Finish
  <2>1. Kept([st EXCEPT !.final = AnswerText])
    BY <1>1, Zenon DEF State
  <2>2. CASE PersistContext
    BY <1>2, <2>1, <2>2 DEF PersistContext
  <2>3. CASE Finish
    BY <2>3 DEF Finish, Control
  <2>4. QED
    BY <1>5, <1>12, <2>2, <2>3 DEF PersistStep, PersistUser, PersistAnswer,
       PersistRejected, AutoEvolve
<1>13. CASE RequestCancel \/ Crash \/ Interrupt \/ UNCHANGED vars
  BY <1>5, <1>13 DEF RequestCancel, Crash, Interrupt, vars
<1>14. QED
  BY <1>3, <1>4, <1>6, <1>7, <1>8, <1>9, <1>10, <1>11, <1>12, <1>13
     DEF Next, GraphStep, ToolStep

\* Only a tool, its record and a stopping process change the ghost state.
LEMMA WorldFrame ==
  ASSUME Control, [Next]_vars, ~ToolRun, ~ToolRecord, ~(Halt /\ pc # "idle")
  PROVE  UNCHANGED worldVars /\ (inflight' = inflight \/ (inflight = "none" /\ inflight' = "blocked"))
<1>1. CASE Start \/ Resume \/ RequestCancel \/ Prepare \/ Analyze \/ UNCHANGED vars
  BY <1>1 DEF Start, Resume, RequestCancel, Prepare, Analyze, vars, worldVars
<1>2. CASE Crash \/ Interrupt
  BY <1>2 DEF Crash, Interrupt, Nodes
<1>3. CASE LlmStep
  BY <1>3 DEF LlmStep, LlmCancelled, LlmPropose, LlmJsonTool, LlmNamelessTool,
     LlmNativeTools, LlmUnavailable
<1>4. CASE ToolStep \/ ObserveStep
  BY <1>4 DEF ToolStep, ToolCancelled, ToolBlocked, ObserveStep, ObservePending,
     ObserveLimit, ObserveContinue, worldVars, Control
<1>5. CASE VerifyAccept \/ VerifyRefuse \/ Recover
  BY <1>5 DEF VerifyAccept, VerifyRefuse, Recover
<1>6. CASE PersistStep \/ AutoEvolve \/ Finish
  BY <1>6 DEF PersistStep, PersistUser, PersistAnswer, PersistContext,
     PersistRejected, AutoEvolve, Finish
<1>7. QED
  BY <1>1, <1>2, <1>3, <1>4, <1>5, <1>6 DEF Next, GraphStep

\* The saved counter, the record ToolRecord adds, and the checkpoint's type.
LEMMA RecordStep ==
  ASSUME TypeOK, Control, ToolRecord
  PROVE  /\ st.last \in Actions /\ pc = "record" /\ pc' = "observe"
         /\ ckpt'.state.records
              = Append(ckpt.state.records,
                       [act |-> st.last, ok |-> inflight = "ok" /\ ~OverBudget])
         /\ ckpt'.state.counts
              = [ckpt.state.counts EXCEPT ![st.last] = @ + 1]
         /\ ckpt'.state.final = ckpt.state.final
<1> DEFINE record == [act |-> st.last, ok |-> inflight = "ok" /\ ~OverBudget]
           After == [st EXCEPT !.records = Append(@, record),
                               !.counts[st.last] = @ + 1,
                               !.turn = TurnAfterTool,
                               !.callId = 0,
                               !.assistant = << >>]
<1>1. st \in State /\ pc = "record" /\ ckpt.state = st /\ st.last \in Actions
  BY DEF TypeOK, ToolRecord, Control
<1>2. Enter("observe", After)
  BY Zenon DEF ToolRecord
<1>3. /\ After.records = Append(st.records, record)
      /\ After.counts = [st.counts EXCEPT ![st.last] = @ + 1]
      /\ After.final = st.final
  BY <1>1, Zenon DEF State
<1>4. pc' = "observe" /\ ckpt'.state = After
  BY <1>2 DEF Enter
<1>5. QED
  BY <1>1, <1>3, <1>4

-----------------------------------------------------------------------------
(* How often an action runs *)

\* The tool that ran and has no record yet.
Unrecorded(a) == IF inflight \in {"ok", "failed"} /\ st.last = a THEN 1 ELSE 0

\* Every execution is counted in the checkpoint, lost, or about to be counted.
\* RepeatBound alone is not inductive: it does not say that the counter the
\* tool node compares with the limit knows of the executions so far.
RepeatInv ==
  \A a \in Actions :
    /\ executed[a] <= ckpt.state.counts[a] + lost[a] + Unrecorded(a)
    /\ executed[a] <= MaxRepeated + lost[a]

LEMMA RepeatInit == Init => RepeatInv
<1> SUFFICES ASSUME Init, NEW a \in Actions
             PROVE  /\ executed[a] <= ckpt.state.counts[a] + lost[a] + Unrecorded(a)
                    /\ executed[a] <= MaxRepeated + lost[a]
  BY DEF RepeatInv
<1>1. executed[a] = 0 /\ lost[a] = 0 /\ ckpt.state = InitialState /\ inflight = "none"
  BY DEF Init
<1>2. ckpt.state.counts[a] = 0 /\ Unrecorded(a) = 0
  <2>1. InitialState.counts = [b \in Actions |-> 0]
    BY Zenon DEF InitialState
  <2>2. ckpt.state.counts[a] = 0
    BY <1>1, <2>1
  <2>3. Unrecorded(a) = 0
    BY <1>1 DEF Unrecorded
  <2>4. QED
    BY <2>2, <2>3
<1>3. QED
  BY <1>1, <1>2, BoundsAssumption

LEMMA RepeatStep ==
  TypeOK /\ Control /\ RepeatInv /\ [Next]_vars => RepeatInv'
<1> SUFFICES ASSUME TypeOK, Control, RepeatInv, [Next]_vars
             PROVE  RepeatInv'
  OBVIOUS
<1> USE BoundsAssumption
<1>1. /\ ckpt.state.counts \in [Actions -> Nat]
      /\ executed \in [Actions -> Nat] /\ lost \in [Actions -> Nat]
  <2>1. ckpt.state \in State
    BY DEF TypeOK
  <2>2. QED
    BY <2>1, StateFields DEF TypeOK
<1>2. CASE ToolRun
  <2>1. st.last \in Actions /\ st.counts[st.last] < MaxRepeated /\ ckpt.state = st
        /\ inflight = "none"
    BY <1>2 DEF ToolRun, Control
  <2>2. executed' = [executed EXCEPT ![st.last] = @ + 1] /\ lost' = lost
        /\ st' = st /\ ckpt' = ckpt /\ inflight' \in {"ok", "failed"}
    BY <1>2 DEF ToolRun
  <2>3. ASSUME NEW a \in Actions
        PROVE  /\ executed'[a] <= ckpt'.state.counts[a] + lost'[a] + Unrecorded(a)'
               /\ executed'[a] <= MaxRepeated + lost'[a]
    <3>0. Unrecorded(a) = 0
      BY <2>1 DEF Unrecorded
    <3>1. executed[a] <= ckpt.state.counts[a] + lost[a]
          /\ executed[a] <= MaxRepeated + lost[a]
      BY <1>1, <3>0 DEF RepeatInv
    <3>2. CASE a = st.last
      <4>1. executed'[a] = executed[a] + 1 /\ Unrecorded(a)' = 1
        BY <1>1, <2>2, <3>2 DEF Unrecorded
      <4>2. ckpt.state.counts[a] < MaxRepeated
        BY <2>1, <3>2
      <4>3. QED
        BY <1>1, <2>2, <3>1, <4>1, <4>2
    <3>3. CASE a # st.last
      <4>1. executed'[a] = executed[a] /\ Unrecorded(a)' = 0
        BY <1>1, <2>2, <3>3 DEF Unrecorded
      <4>2. QED
        BY <1>1, <2>2, <3>1, <4>1
    <3>4. QED
      BY <3>2, <3>3
  <2>4. QED
    BY <2>3 DEF RepeatInv
<1>3. CASE ToolRecord
  <2>1. st.last \in Actions
        /\ ckpt'.state.counts = [ckpt.state.counts EXCEPT ![st.last] = @ + 1]
    BY <1>3, RecordStep
  <2>2. executed' = executed /\ lost' = lost /\ inflight' = "none"
    BY <1>3 DEF ToolRecord
  <2>3. ASSUME NEW a \in Actions
        PROVE  /\ executed'[a] <= ckpt'.state.counts[a] + lost'[a] + Unrecorded(a)'
               /\ executed'[a] <= MaxRepeated + lost'[a]
    <3>1. executed[a] <= ckpt.state.counts[a] + lost[a] + Unrecorded(a)
          /\ executed[a] <= MaxRepeated + lost[a]
      BY DEF RepeatInv
    <3>2. ckpt.state.counts[a] + Unrecorded(a) <= ckpt'.state.counts[a]
          /\ ckpt'.state.counts[a] \in Nat /\ Unrecorded(a) \in Nat
      BY <1>1, <2>1 DEF Unrecorded
    <3>3. Unrecorded(a)' = 0
      BY <2>2 DEF Unrecorded
    <3>4. QED
      BY <1>1, <2>2, <3>1, <3>2, <3>3
  <2>4. QED
    BY <2>3 DEF RepeatInv
<1>4. CASE Halt /\ pc # "idle"
  <2>1. ~ToolRecord
    BY <1>4 DEF Halt, ToolRecord, Enter
  <2>2. ckpt'.state.counts = ckpt.state.counts
    BY <2>1, RecordsFrame
  <2>3. /\ executed' = executed /\ inflight' = "none"
        /\ lost' = IF inflight \in {"ok", "failed"}
                     THEN [lost EXCEPT ![st.last] = @ + 1] ELSE lost
    BY <1>4 DEF Halt
  <2>4. ASSUME NEW a \in Actions
        PROVE  /\ executed'[a] <= ckpt'.state.counts[a] + lost'[a] + Unrecorded(a)'
               /\ executed'[a] <= MaxRepeated + lost'[a]
    <3>1. executed[a] <= ckpt.state.counts[a] + lost[a] + Unrecorded(a)
          /\ executed[a] <= MaxRepeated + lost[a]
      BY DEF RepeatInv
    <3>2. lost'[a] = lost[a] + Unrecorded(a) /\ Unrecorded(a) \in Nat
      BY <1>1, <2>3 DEF Unrecorded
    <3>3. Unrecorded(a)' = 0
      BY <2>3 DEF Unrecorded
    <3>4. QED
      BY <1>1, <2>2, <2>3, <3>1, <3>2, <3>3
  <2>5. QED
    BY <2>4 DEF RepeatInv
<1>5. CASE ~ToolRun /\ ~ToolRecord /\ ~(Halt /\ pc # "idle")
  <2>1. ckpt'.state.counts = ckpt.state.counts
    BY <1>5, RecordsFrame
  <2>2. executed' = executed /\ lost' = lost
    BY <1>5, WorldFrame DEF worldVars
  <2>3. ASSUME NEW a \in Actions PROVE Unrecorded(a)' = Unrecorded(a)
    <3>1. CASE inflight \in {"none", "blocked"}
      BY <1>5, <3>1, WorldFrame DEF Unrecorded
    <3>2. CASE inflight \notin {"none", "blocked"}
      <4>1. pc = "record"
        BY <3>2 DEF Control
      <4>2. UNCHANGED <<st, inflight>>
        BY <1>5, <4>1 DEF Next, vars, Start, Resume, RequestCancel, Crash, Interrupt,
           GraphStep, Prepare, Analyze, LlmStep, LlmCancelled, LlmPropose, LlmJsonTool,
           LlmNamelessTool, LlmNativeTools, LlmUnavailable, ToolStep, ToolCancelled,
           ToolBlocked, ObserveStep, ObservePending, ObserveLimit, ObserveContinue,
           VerifyAccept, VerifyRefuse, Recover, PersistStep, PersistUser, PersistAnswer,
           PersistContext, PersistRejected, AutoEvolve, Finish
      <4>3. QED
        BY <4>2 DEF Unrecorded
    <3>3. QED
      BY <3>1, <3>2
  <2>4. QED
    BY <2>1, <2>2, <2>3 DEF RepeatInv
<1>6. QED
  BY <1>2, <1>3, <1>4, <1>5

\* The limit on repeating an action holds for the whole run, across any number
\* of crashes, interruptions and resumes: it is exceeded only by as many
\* executions as left no record.
THEOREM RepeatCorrect == Spec => []RepeatBound
<1>1. RepeatInv => RepeatBound
  BY DEF RepeatInv, RepeatBound
<1>2. Spec => [](TypeOK /\ Control /\ RepeatInv)
  BY InitType, StepType, RepeatInit, RepeatStep, PTL DEF Spec
<1>3. QED
  BY <1>1, <1>2, PTL

-----------------------------------------------------------------------------
(* An accepted answer is tested *)

\* The nodes from which a process tells the answer and stops.
Told == {"persist", "persist_answer", "persist_context", "auto_evolve", "finish",
         "idle"}

\* Position m of the records is a successful code change that no successful
\* strong check follows.
UntestedChange(rs, m) ==
  /\ m \in DOMAIN rs /\ rs[m].ok /\ rs[m].act.code
  /\ \A i \in DOMAIN rs : i > m => ~(rs[i].ok /\ rs[i].act.evidence = "strong")

\* The records know of every untested change whose effect did not escape, the
\* change in flight excepted; a check in flight has left nothing untested; and
\* while the saved final text is an accepted answer no tool can run.
TestedInv ==
  /\ untested /\ ~escaped =>
       \/ \E m \in DOMAIN ckpt.state.records : UntestedChange(ckpt.state.records, m)
       \/ inflight = "ok" /\ st.last.code
  /\ inflight = "ok" /\ st.last.evidence = "strong" /\ ~st.last.code => ~untested
  /\ ckpt.state.final = "answer" =>
       (~untested \/ escaped) /\ pc \in Told

\* What the verifier accepts has no untested change.
LEMMA PassedLeavesNothingUntested ==
  ASSUME TypeOK, Passed(st), NEW m \in DOMAIN st.records
  PROVE  ~UntestedChange(st.records, m)
<1> SUFFICES ASSUME UntestedChange(st.records, m) PROVE FALSE
  OBVIOUS
<1>1. st.records \in Seq(Record)
  BY StateFields DEF TypeOK
<1>2. st.records[m] \in Record /\ st.records[m].ok /\ st.records[m].act.code
  BY <1>1 DEF UntestedChange
<1>3. st.records[m].act.writes # {}
  BY <1>2, ActionsAssumption DEF Record
<1>4. m \in Mutations(st.records)
  BY <1>2, <1>3 DEF Mutations
<1>5. CheckedAfter(st.records, {"strong"})
  BY <1>2, <1>4 DEF Passed
<1>6. PICK i \in DOMAIN st.records :
        st.records[i].ok /\ st.records[i].act.evidence = "strong" /\ m < i
  BY <1>4, <1>5 DEF CheckedAfter
<1>7. m \in Int /\ i \in Int
  BY <1>1, <1>6
<1>8. QED
  BY <1>6, <1>7 DEF UntestedChange

\* A record that is not a passed strong check leaves a change untested.
LEMMA AppendKeepsUntested ==
  ASSUME NEW rs \in Seq(Record), NEW m \in DOMAIN rs, UntestedChange(rs, m),
         NEW r \in Record, ~(r.ok /\ r.act.evidence = "strong")
  PROVE  m \in DOMAIN Append(rs, r) /\ UntestedChange(Append(rs, r), m)
<1>1. /\ Len(Append(rs, r)) = Len(rs) + 1
      /\ \A i \in 1 .. Len(rs) : Append(rs, r)[i] = rs[i]
      /\ Append(rs, r)[Len(rs) + 1] = r
      /\ DOMAIN Append(rs, r) = 1 .. Len(rs) + 1 /\ DOMAIN rs = 1 .. Len(rs)
      /\ Len(rs) \in Nat
  BY AppendProperties
<1>2. m \in DOMAIN Append(rs, r) /\ Append(rs, r)[m] = rs[m]
  BY <1>1
<1>3. ASSUME NEW i \in DOMAIN Append(rs, r), i > m
      PROVE  ~(Append(rs, r)[i].ok /\ Append(rs, r)[i].act.evidence = "strong")
  <2>1. CASE i = Len(rs) + 1
    BY <1>1, <2>1
  <2>2. CASE i # Len(rs) + 1
    <3>1. i \in DOMAIN rs /\ Append(rs, r)[i] = rs[i]
      BY <1>1, <2>2
    <3>2. QED
      BY <1>3, <3>1 DEF UntestedChange
  <2>3. QED
    BY <2>1, <2>2
<1>4. rs[m].ok /\ rs[m].act.code
  BY DEF UntestedChange
<1>5. QED
  BY <1>2, <1>3, <1>4 DEF UntestedChange

\* A recorded code change is untested until something follows it.
LEMMA AppendAddsUntested ==
  ASSUME NEW rs \in Seq(Record), NEW r \in Record, r.ok, r.act.code
  PROVE  \E m \in DOMAIN Append(rs, r) : UntestedChange(Append(rs, r), m)
<1>1. /\ Append(rs, r)[Len(rs) + 1] = r
      /\ DOMAIN Append(rs, r) = 1 .. Len(rs) + 1
      /\ Len(rs) \in Nat
  BY AppendProperties
<1>2. UntestedChange(Append(rs, r), Len(rs) + 1)
  BY <1>1 DEF UntestedChange
<1>3. QED
  BY <1>1, <1>2

\* Only the verifier makes the saved final text an accepted answer, and with
\* one the run only goes on to tell it.
LEMMA AnswerFrame ==
  ASSUME TypeOK, Control, [Next]_vars, ckpt'.state.final = "answer", ~VerifyAccept,
         ckpt.state.final = "answer" => pc \in Told
  PROVE  ckpt.state.final = "answer" /\ pc' \in Told
<1> DEFINE Other(s) == s.final # "answer"
           Goal == ckpt.state.final = "answer" /\ pc' \in Told
<1>1. st \in State /\ ckpt.state \in State /\ ckpt \in [status : Statuses, state : State]
  BY DEF TypeOK
<1>2. ASSUME NEW node, NEW s, Enter(node, s), Other(s) PROVE FALSE
  BY <1>2 DEF Enter
<1>3. pc \notin Told => Other(st)
  BY DEF Control, Told
<1>4. CASE Start
  <2>1. Other(InitialState)
    BY Zenon DEF InitialState
  <2>2. QED
    BY <1>2, <1>4, <2>1 DEF Start
<1>5. CASE Resume
  <2>1. [ckpt.state EXCEPT !.final = ""].final = ""
    BY <1>1, Zenon DEF State
  <2>2. QED
    BY <1>2, <1>5, <2>1 DEF Resume
<1>6. ASSUME UNCHANGED ckpt \/ ckpt' = [ckpt EXCEPT !.status = "interrupted"],
             pc' \in Told \/ pc' = pc \/ (pc \notin Told)
      PROVE  Goal
  <2>1. [ckpt EXCEPT !.status = "interrupted"].state = ckpt.state
    BY <1>1
  <2>2. ckpt.state.final = "answer"
    BY <1>6, <2>1
  <2>3. QED
    BY <1>6, <2>2
<1>7. ASSUME Halt PROVE pc' \in Told
  BY <1>7 DEF Halt, Told
<1>8. CASE Prepare \/ Analyze
  <2>1. Other([st EXCEPT !.final = "cancelled", !.cancelled = TRUE])
    BY <1>1, Zenon DEF State
  <2>2. Other(st)
    BY <1>3, <1>8 DEF Prepare, Analyze, Told
  <2>3. QED
    BY <1>2, <1>8, <2>1, <2>2 DEF Prepare, Analyze
<1>9. CASE LlmStep
  <2>1. Other(st)
    BY <1>3, <1>9 DEF LlmStep, LlmCancelled, LlmPropose, LlmJsonTool, LlmNamelessTool,
       LlmNativeTools, LlmUnavailable, Told
  <2>2. Counted \in State /\ Counted.final = st.final
    <3>1. Counted.final = st.final
      BY <1>1, Zenon DEF Counted, State
    <3>2. QED
      BY <3>1, CountedType
  <2>3. CASE LlmCancelled
    <3>1. [Counted EXCEPT !.final = "cancelled", !.cancelled = TRUE].final = "cancelled"
      BY <2>2, Zenon DEF State
    <3>2. Other([Counted EXCEPT !.final = "cancelled", !.cancelled = TRUE])
      BY <3>1
    <3>3. QED
      BY <1>2, <2>3, <3>2 DEF LlmCancelled
  <2>4. CASE LlmPropose
    <3>1. PICK text \in {"", "answer"} : Enter("verify", [Counted EXCEPT !.proposed = text])
      BY <2>4 DEF LlmPropose
    <3>2. Other([Counted EXCEPT !.proposed = text])
      BY <2>1, <2>2, Zenon DEF State
    <3>3. QED
      BY <1>2, <3>1, <3>2
  <2>5. CASE LlmJsonTool \/ LlmNamelessTool
    <3>1. PICK node, a : Enter(node, [Counted EXCEPT !.last = a])
      BY <2>5, Zenon DEF LlmJsonTool, LlmNamelessTool
    <3>2. Other([Counted EXCEPT !.last = a])
      BY <2>1, <2>2, Zenon DEF State
    <3>3. QED
      BY <1>2, <3>1, <3>2
  <2>6. CASE LlmNativeTools
    <3>1. PICK first, id, calls, rest :
            Enter("tool", [Counted EXCEPT !.last = first, !.callId = id,
                                          !.assistant = calls, !.pending = rest])
      BY <2>6, Zenon DEF LlmNativeTools
    <3>2. Other([Counted EXCEPT !.last = first, !.callId = id,
                                !.assistant = calls, !.pending = rest])
      BY <2>1, <2>2, Zenon DEF State
    <3>3. QED
      BY <1>2, <3>1, <3>2
  <2>7. CASE LlmUnavailable
    BY <1>6, <1>7, <2>7 DEF LlmUnavailable
  <2>8. QED
    BY <1>9, <2>3, <2>4, <2>5, <2>6, <2>7 DEF LlmStep
<1>10. CASE ToolStep
  <2>1. pc \notin Told /\ Other(st)
    BY <1>3, <1>10 DEF ToolStep, ToolCancelled, ToolBlocked, ToolRun, ToolRecord, Told
  <2>2. CASE ToolCancelled
    <3>1. [st EXCEPT !.final = "cancelled", !.cancelled = TRUE].final = "cancelled"
      BY <1>1, Zenon DEF State
    <3>2. Other([st EXCEPT !.final = "cancelled", !.cancelled = TRUE])
      BY <3>1
    <3>3. QED
      BY <1>2, <2>2, <3>2 DEF ToolCancelled
  <2>3. CASE ToolBlocked \/ ToolRun
    BY <1>6, <2>1, <2>3 DEF ToolBlocked, ToolRun, Control, Told
  <2>4. CASE ToolRecord
    BY <2>1, <2>4, RecordStep DEF Control, Told
  <2>5. QED
    BY <1>10, <2>2, <2>3, <2>4 DEF ToolStep
<1>11. CASE ObserveStep
  <2>1. Other(st)
    BY <1>3, <1>11 DEF ObserveStep, ObservePending, ObserveLimit, ObserveContinue, Told
  <2>2. CASE ObservePending
    <3>1. PICK a, id, rest, node :
            Enter(node, [st EXCEPT !.last = a, !.callId = id, !.pending = rest])
      BY <2>2, Zenon DEF ObservePending
    <3>2. Other([st EXCEPT !.last = a, !.callId = id, !.pending = rest])
      BY <1>1, <2>1, Zenon DEF State
    <3>3. QED
      BY <1>2, <3>1, <3>2
  <2>3. CASE ObserveLimit
    <3>1. PICK text \in {"unverified", "limit"} :
            Enter("persist", [st EXCEPT !.final = text, !.stopped = TRUE])
      BY <2>3 DEF ObserveLimit
    <3>2. [st EXCEPT !.final = text, !.stopped = TRUE].final = text
      BY <1>1, Zenon DEF State
    <3>3. Other([st EXCEPT !.final = text, !.stopped = TRUE])
      BY <3>2
    <3>4. QED
      BY <1>2, <3>1, <3>3
  <2>4. CASE ObserveContinue
    BY <1>2, <2>1, <2>4 DEF ObserveContinue
  <2>5. QED
    BY <1>11, <2>2, <2>3, <2>4 DEF ObserveStep
<1>12. CASE VerifyRefuse \/ Recover
  <2>1. Other(st)
    BY <1>3, <1>12 DEF VerifyRefuse, Recover, Told
  <2>2. [st EXCEPT !.final = "incomplete"].final = "incomplete"
    BY <1>1, Zenon DEF State
  <2>3. Other([st EXCEPT !.recovery = @ + 1, !.proposed = ""])
    BY <1>1, <2>1, Zenon DEF State
  <2>4. Other([st EXCEPT !.final = "incomplete"])
    BY <2>2
  <2>5. QED
    BY <1>2, <1>12, <2>1, <2>3, <2>4 DEF VerifyRefuse, Recover
<1>13. CASE PersistContext
  <2>1. [st EXCEPT !.final = AnswerText].final = AnswerText
    BY <1>1, Zenon DEF State
  <2>2. Enter("auto_evolve", [st EXCEPT !.final = AnswerText])
    BY <1>13 DEF PersistContext
  <2>3. AnswerText = "answer" /\ pc' = "auto_evolve"
    BY <2>1, <2>2 DEF Enter
  <2>4. st.final = "answer"
    BY <2>3 DEF AnswerText
  <2>5. QED
    BY <1>13, <2>3, <2>4 DEF PersistContext, Control, Told
<1>14. CASE Finish
  BY <1>14 DEF Finish, Control, Told
<1>15. CASE PersistUser \/ PersistAnswer \/ AutoEvolve
  BY <1>6, <1>15 DEF PersistUser, PersistAnswer, AutoEvolve, Told
<1>16. CASE PersistRejected \/ Crash \/ Interrupt
  BY <1>6, <1>7, <1>16 DEF PersistRejected, Crash, Interrupt
<1>17. CASE RequestCancel \/ UNCHANGED vars
  BY <1>6, <1>17 DEF RequestCancel, vars
<1>18. QED
  BY <1>4, <1>5, <1>8, <1>9, <1>10, <1>11, <1>12, <1>13, <1>14, <1>15, <1>16, <1>17
     DEF Next, GraphStep, PersistStep

LEMMA TestedInit == Init => TestedInv
<1> SUFFICES ASSUME Init PROVE TestedInv
  OBVIOUS
<1>1. untested = FALSE /\ inflight = "none" /\ ckpt.state = InitialState
  BY DEF Init
<1>2. InitialState.final = ""
  BY Zenon DEF InitialState
<1>3. QED
  BY <1>1, <1>2 DEF TestedInv

LEMMA TestedStep ==
  TypeOK /\ Control /\ TestedInv /\ [Next]_vars => TestedInv'
<1> SUFFICES ASSUME TypeOK, Control, TestedInv, [Next]_vars
             PROVE  TestedInv'
  OBVIOUS
<1> DEFINE rs == ckpt.state.records
           Known == \E m \in DOMAIN rs : UntestedChange(rs, m)
           SameKnown == ckpt'.state.records = ckpt.state.records
<1>1. rs \in Seq(Record) /\ st.records \in Seq(Record)
  <2>1. ckpt.state \in State /\ st \in State
    BY DEF TypeOK
  <2>2. QED
    BY <2>1, StateFields, Zenon
<1>2. ckpt.state.final = "answer" => pc \in Told
  BY DEF TestedInv
<1>3. CASE ToolRun
  <2>1. pc = "tool" /\ st.last \in Actions /\ inflight = "none"
    BY <1>3 DEF ToolRun, Control
  <2>2. PICK ok, effect \in BOOLEAN :
          /\ ok => effect
          /\ inflight' = IF ok THEN "ok" ELSE "failed"
          /\ untested' = IF effect /\ st.last.code THEN TRUE
                          ELSE untested /\ ~(ok /\ st.last.evidence = "strong")
          /\ escaped' = (escaped \/ (~ok /\ effect /\ st.last.writes # {}))
    BY <1>3 DEF ToolRun
  <2>3. st.last.code => st.last.writes # {}
    BY <2>1, ActionsAssumption
  <2>4. st' = st /\ ckpt' = ckpt
    BY <1>3 DEF ToolRun
  <2>5. ckpt.state.final # "answer"
    BY <1>2, <2>1 DEF Told
  <2>6. untested /\ ~escaped => Known
    BY <2>1 DEF TestedInv
  <2>7. untested' /\ ~escaped' => Known \/ (inflight' = "ok" /\ st.last.code)
    <3>1. CASE effect /\ st.last.code
      BY <2>2, <2>3, <3>1
    <3>2. CASE ~(effect /\ st.last.code)
      BY <2>2, <2>6, <3>2
    <3>3. QED
      BY <3>1, <3>2
  <2>8. inflight' = "ok" /\ st.last.evidence = "strong" /\ ~st.last.code => ~untested'
    BY <2>2
  <2>9. QED
    BY <2>4, <2>5, <2>7, <2>8 DEF TestedInv
<1>4. CASE ToolRecord
  <2> DEFINE r == [act |-> st.last, ok |-> inflight = "ok" /\ ~OverBudget]
  <2>1. /\ st.last \in Actions /\ pc = "record"
        /\ ckpt'.state.records = Append(rs, r)
        /\ ckpt'.state.final = ckpt.state.final
    BY <1>4, RecordStep
  <2>2. untested' = untested /\ inflight' = "none"
        /\ escaped' = (escaped \/ (inflight = "ok" /\ ~r.ok /\ st.last.writes # {}))
    BY <1>4 DEF ToolRecord
  <2>3. r \in Record /\ r.act = st.last
    BY <2>1 DEF Record
  <2>4. ckpt'.state.final # "answer"
    BY <1>2, <2>1 DEF Told
  <2>5. st.last.code => st.last.writes # {}
    BY <2>1, ActionsAssumption
  <2>6. ASSUME untested', ~escaped'
        PROVE  \E m \in DOMAIN Append(rs, r) : UntestedChange(Append(rs, r), m)
    <3>1. untested /\ ~escaped /\ (Known \/ (inflight = "ok" /\ st.last.code))
      BY <2>2, <2>6 DEF TestedInv
    <3>2. CASE inflight = "ok" /\ st.last.code
      <4>1. r.ok
        BY <2>2, <2>5, <2>6, <3>2
      <4>2. QED
        BY <1>1, <2>3, <3>2, <4>1, AppendAddsUntested
    <3>3. CASE ~(inflight = "ok" /\ st.last.code)
      <4>1. ~(r.ok /\ r.act.evidence = "strong")
        BY <2>3, <3>1, <3>3 DEF TestedInv
      <4>2. PICK m \in DOMAIN rs : UntestedChange(rs, m)
        BY <3>1, <3>3
      <4>3. m \in DOMAIN Append(rs, r) /\ UntestedChange(Append(rs, r), m)
        BY <1>1, <2>3, <4>1, <4>2, AppendKeepsUntested
      <4>4. QED
        BY <4>3
    <3>4. QED
      BY <3>2, <3>3
  <2>7. QED
    BY <2>1, <2>2, <2>4, <2>6 DEF TestedInv
<1>5. CASE Halt /\ pc # "idle"
  <2>1. ~ToolRecord /\ ~VerifyAccept
    BY <1>5 DEF Halt, ToolRecord, VerifyAccept, Enter
  <2>2. SameKnown
    BY <2>1, RecordsFrame
  <2>3. /\ untested' = untested /\ inflight' = "none"
        /\ escaped' = (escaped \/ (inflight = "ok" /\ st.last.writes # {}))
    BY <1>5 DEF Halt
  <2>4. inflight = "ok" /\ st.last.code => st.last.writes # {}
    BY ActionsAssumption DEF Control
  <2>5. untested' /\ ~escaped' => Known
    BY <2>3, <2>4 DEF TestedInv
  <2>6. ckpt'.state.final = "answer" => (~untested' \/ escaped') /\ pc' \in Told
    <3>1. ckpt'.state.final = "answer" => ckpt.state.final = "answer" /\ pc' \in Told
      BY <1>2, <2>1, AnswerFrame
    <3>2. QED
      BY <2>3, <3>1 DEF TestedInv
  <2>7. QED
    BY <2>2, <2>3, <2>5, <2>6 DEF TestedInv
<1>6. CASE ~ToolRun /\ ~ToolRecord /\ ~(Halt /\ pc # "idle")
  <2>1. SameKnown
    BY <1>6, RecordsFrame
  <2>2. /\ untested' = untested /\ escaped' = escaped
        /\ inflight' = inflight \/ (inflight = "none" /\ inflight' = "blocked")
    BY <1>6, WorldFrame DEF worldVars
  <2>3. inflight = "ok" => UNCHANGED <<st, inflight>>
    <3>1. SUFFICES ASSUME pc = "record" PROVE UNCHANGED <<st, inflight>>
      BY DEF Control
    <3>2. QED
      BY <1>6, <3>1 DEF Next, vars, Start, Resume, RequestCancel, Crash, Interrupt,
         GraphStep, Prepare, Analyze, LlmStep, LlmCancelled, LlmPropose, LlmJsonTool,
         LlmNamelessTool, LlmNativeTools, LlmUnavailable, ToolStep, ToolCancelled,
         ToolBlocked, ObserveStep, ObservePending, ObserveLimit, ObserveContinue,
         VerifyAccept, VerifyRefuse, Recover, PersistStep, PersistUser, PersistAnswer,
         PersistContext, PersistRejected, AutoEvolve, Finish
  <2>4. ckpt'.state.final = "answer" => (~untested' \/ escaped') /\ pc' \in Told
    <3>1. CASE VerifyAccept
      <4>1. Passed(st) /\ pc = "verify" /\ pc' = "persist"
        BY <3>1 DEF VerifyAccept, Enter
      <4>2. inflight # "ok" /\ ckpt.state = st
        BY <4>1 DEF Control
      <4>3. ~Known
        BY <4>1, <4>2, PassedLeavesNothingUntested
      <4>4. ~untested \/ escaped
        BY <4>2, <4>3 DEF TestedInv
      <4>5. QED
        BY <2>2, <4>1, <4>4 DEF Told
    <3>2. CASE ~VerifyAccept
      <4>1. ckpt'.state.final = "answer" => ckpt.state.final = "answer" /\ pc' \in Told
        BY <1>2, <3>2, AnswerFrame
      <4>2. QED
        BY <2>2, <4>1 DEF TestedInv
    <3>3. QED
      BY <3>1, <3>2
  <2>5. untested' /\ ~escaped' => Known \/ (inflight' = "ok" /\ st'.last.code)
    BY <2>2, <2>3 DEF TestedInv
  <2>6. inflight' = "ok" /\ st'.last.evidence = "strong" /\ ~st'.last.code => ~untested'
    BY <2>2, <2>3 DEF TestedInv
  <2>7. QED
    BY <2>1, <2>4, <2>5, <2>6 DEF TestedInv
<1>7. QED
  BY <1>3, <1>4, <1>5, <1>6

LEMMA TestedImplies == TestedInv => AcceptedIsTested
<1> SUFFICES ASSUME TestedInv, Accepted PROVE ~untested \/ escaped
  BY DEF AcceptedIsTested
<1>1. ckpt.state.final = "answer"
  BY DEF Accepted, OutcomeOf
<1>2. QED
  BY <1>1 DEF TestedInv

\* Evidence before completion: a run is never reported as accepted while a code
\* change made after the last passing test, build, lint or type check is left,
\* over any sequence of calls, failures, recoveries, crashes and resumes, as
\* long as no effect escaped the records.
THEOREM TestedCorrect == Spec => []AcceptedIsTested
<1>1. Spec => [](TypeOK /\ Control /\ TestedInv)
  BY InitType, StepType, TestedInit, TestedStep, PTL DEF Spec
<1>2. QED
  BY <1>1, TestedImplies, PTL

-----------------------------------------------------------------------------
(* The runtime implements the contract of a durable turn *)

\* The checkpoint's status as the steps move it.
LEMMA StatusFrame ==
  ASSUME TypeOK, Control, [Next]_vars
  PROVE  \/ Start
         \/ Finish
         \/ /\ ckpt.status \in {"running", "interrupted"}
            /\ ckpt'.status \in {"running", "interrupted"}
         \/ UNCHANGED <<ckpt, untested, escaped>>
<1> DEFINE Open(s) == s \in {"running", "interrupted"}
           Goal == Open(ckpt.status) /\ Open(ckpt'.status)
<1>1. ckpt \in [status : Statuses, state : State]
  BY DEF TypeOK
<1>2. [ckpt EXCEPT !.status = "interrupted"].status = "interrupted"
  BY <1>1
<1>3. ASSUME pc # "idle",
             \/ \E node, s : Enter(node, s)
             \/ ckpt' = [ckpt EXCEPT !.status = "interrupted"]
             \/ UNCHANGED ckpt
      PROVE  Goal
  BY <1>2, <1>3 DEF Control, Enter
<1>4. CASE Resume
  <2>1. Open(ckpt.status) /\ ckpt'.status = "running"
    BY <1>4 DEF Resume, Enter
  <2>2. QED
    BY <2>1
<1>5. CASE RequestCancel \/ Crash \/ Interrupt \/ AutoEvolve
  BY <1>3, <1>5 DEF RequestCancel, Crash, Interrupt, AutoEvolve, Nodes
<1>6. CASE UNCHANGED vars
  BY <1>6 DEF vars
<1>7. CASE Prepare \/ Analyze
  BY <1>3, <1>7 DEF Prepare, Analyze
<1>8. CASE LlmStep
  <2>1. pc # "idle"
    BY <1>8 DEF LlmStep, LlmCancelled, LlmPropose, LlmJsonTool, LlmNamelessTool,
       LlmNativeTools, LlmUnavailable
  <2>2. \/ \E node, s : Enter(node, s)
        \/ ckpt' = [ckpt EXCEPT !.status = "interrupted"]
    BY <1>8, Zenon DEF LlmStep, LlmCancelled, LlmPropose, LlmJsonTool, LlmNamelessTool,
       LlmNativeTools, LlmUnavailable
  <2>3. QED
    BY <1>3, <2>1, <2>2
<1>9. CASE ToolStep
  <2>1. pc # "idle"
    BY <1>9 DEF ToolStep, ToolCancelled, ToolBlocked, ToolRun, ToolRecord
  <2>2. (\E node, s : Enter(node, s)) \/ UNCHANGED ckpt
    BY <1>9, Zenon DEF ToolStep, ToolCancelled, ToolBlocked, ToolRun, ToolRecord
  <2>3. QED
    BY <1>3, <2>1, <2>2
<1>10. CASE ObserveStep
  <2>1. pc # "idle"
    BY <1>10 DEF ObserveStep, ObservePending, ObserveLimit, ObserveContinue
  <2>2. \E node, s : Enter(node, s)
    BY <1>10, Zenon DEF ObserveStep, ObservePending, ObserveLimit, ObserveContinue
  <2>3. QED
    BY <1>3, <2>1, <2>2
<1>11. CASE VerifyAccept \/ VerifyRefuse \/ Recover
  <2>1. pc # "idle"
    BY <1>11 DEF VerifyAccept, VerifyRefuse, Recover
  <2>2. \E node, s : Enter(node, s)
    BY <1>11, Zenon DEF VerifyAccept, VerifyRefuse, Recover
  <2>3. QED
    BY <1>3, <2>1, <2>2
<1>12. CASE PersistStep
  <2>1. pc # "idle"
    BY <1>12 DEF PersistStep, PersistUser, PersistAnswer, PersistContext, PersistRejected
  <2>2. \/ \E node, s : Enter(node, s)
        \/ ckpt' = [ckpt EXCEPT !.status = "interrupted"]
        \/ UNCHANGED ckpt
    BY <1>12, Zenon DEF PersistStep, PersistUser, PersistAnswer, PersistContext, PersistRejected
  <2>3. QED
    BY <1>3, <2>1, <2>2
<1>13. QED
  BY <1>4, <1>5, <1>6, <1>7, <1>8, <1>9, <1>10, <1>11, <1>12 DEF Next, GraphStep

\* Effects never un-escape.
LEMMA EscapedFrame ==
  ASSUME TypeOK, Control, [Next]_vars
  PROVE  escaped => escaped'
<1>1. CASE ToolRun
  BY <1>1 DEF ToolRun
<1>2. CASE ToolRecord
  BY <1>2 DEF ToolRecord
<1>3. CASE Halt /\ pc # "idle"
  BY <1>3 DEF Halt
<1>4. CASE ~ToolRun /\ ~ToolRecord /\ ~(Halt /\ pc # "idle")
  BY <1>4, WorldFrame DEF worldVars
<1>5. QED
  BY <1>1, <1>2, <1>3, <1>4

LEMMA ContractInit == Init => Contract!Init
<1> SUFFICES ASSUME Init PROVE Contract!Init
  OBVIOUS
<1>1. ckpt.status = "none" /\ untested = FALSE /\ escaped = FALSE
  BY DEF Init
<1>2. QED
  BY <1>1 DEF Contract!Init, Completed

LEMMA ContractStep ==
  TypeOK /\ Control /\ TestedInv /\ TypeOK' /\ Control' /\ [Next]_vars
    => [Contract!Next]_(Contract!contractVars)
<1> SUFFICES ASSUME TypeOK, Control, TestedInv, TypeOK', Control', [Next]_vars
             PROVE  [Contract!Next]_(Contract!contractVars)
  OBVIOUS
<1>1. CASE Start
  <2>1. ckpt.status = "none" /\ ckpt'.status = "running"
    BY <1>1 DEF Start, Enter
  <2>2. UNCHANGED <<untested, escaped>>
    BY <1>1 DEF Start, worldVars
  <2>3. Contract!Open
    BY <2>1, <2>2 DEF Contract!Open, Completed
  <2>4. QED
    BY <2>3 DEF Contract!Next
<1>2. CASE Finish
  <2>1. ckpt.status = "running" /\ ckpt'.status = "completed" /\ ckpt'.state = ckpt.state
    BY <1>2 DEF Finish, Control
  <2>2. UNCHANGED <<untested, escaped>>
    BY <1>2 DEF Finish, worldVars
  <2>3. OutcomeOf(ckpt.state) \in Contract!Outcomes
    BY DEF OutcomeOf, Contract!Outcomes
  <2>4. OutcomeOf(ckpt.state) = "accepted" => ~untested \/ escaped
    BY DEF OutcomeOf, TestedInv
  <2>5. Contract!Close
    BY <2>1, <2>2, <2>3, <2>4 DEF Contract!Close, Completed
  <2>6. QED
    BY <2>5 DEF Contract!Next
<1>3. CASE /\ ckpt.status \in {"running", "interrupted"}
           /\ ckpt'.status \in {"running", "interrupted"}
  <2>1. untested' \in BOOLEAN /\ escaped' \in BOOLEAN
    BY DEF TypeOK
  <2>2. escaped => escaped'
    BY EscapedFrame
  <2>3. Contract!Work
    BY <1>3, <2>1, <2>2 DEF Contract!Work, Completed
  <2>4. QED
    BY <2>3 DEF Contract!Next
<1>4. CASE UNCHANGED <<ckpt, untested, escaped>>
  BY <1>4 DEF Contract!contractVars, Completed, OutcomeOf
<1>5. QED
  BY <1>1, <1>2, <1>3, <1>4, StatusFrame

\* A turn opens once, closes once with one outcome, lets tools act only while it
\* is open, and closes as accepted only if nothing is left untested: the
\* runtime with its nodes, checkpoints, crashes and resumes is a refinement of
\* that contract.
THEOREM Implementation == Spec => ImplementsContract
<1>1. Spec => [](TypeOK /\ Control /\ TestedInv)
  BY InitType, StepType, TestedInit, TestedStep, PTL DEF Spec
<1>2. QED
  BY <1>1, ContractInit, ContractStep, PTL DEF Spec, ImplementsContract, Contract!Spec

-----------------------------------------------------------------------------
(* Requests and recoveries are bounded *)

\* The nodes on the way to a request.
Asking == {"prepare", "analyze", "llm"}

\* Before a request there is room for one more, by the step limit or by the
\* resume that led there.
BoundInv ==
  /\ ckpt.state.step <= MaxSteps + resumes
  /\ ckpt.state.recovery <= MaxRecovery
  /\ pc \in Asking => ckpt.state.step < MaxSteps + resumes
  /\ pc = "recover" => CanRecover(ckpt.state)

LEMMA BoundNumbers ==
  ASSUME TypeOK
  PROVE  /\ ckpt.state \in State /\ st \in State
         /\ ckpt.state.step \in Nat /\ ckpt.state.recovery \in Nat
         /\ st.step \in Nat /\ st.recovery \in Nat /\ resumes \in Nat
         /\ MaxSteps \in Nat \ {0} /\ MaxRecovery \in Nat
BY StateFields, BoundsAssumption DEF TypeOK

\* A node that neither asks nor recovers leads to one that may.
LEMMA BoundEnter ==
  ASSUME TypeOK, Control, BoundInv, pc # "idle", resumes' = resumes,
         NEW node, NEW s, Enter(node, s), s.step = st.step, s.recovery = st.recovery,
         node \in Asking => pc \in Asking \/ st.step < MaxSteps,
         node = "recover" => CanRecover(st)
  PROVE  BoundInv'
<1>1. ckpt.state = st /\ ckpt'.state = s /\ pc' = node
  BY DEF Control, Enter
<1>2. node \in Asking => s.step < MaxSteps + resumes
  BY <1>1, BoundNumbers DEF BoundInv
<1>3. QED
  BY <1>1, <1>2 DEF BoundInv, CanRecover

\* Steps that leave the checkpointed state alone.
LEMMA BoundKept ==
  ASSUME BoundInv, resumes' = resumes, ckpt'.state = ckpt.state,
         pc' = pc \/ pc' \notin Asking \cup {"recover"}
  PROVE  BoundInv'
BY DEF BoundInv, CanRecover

LEMMA BoundHalt ==
  ASSUME TypeOK, BoundInv, Halt, UNCHANGED ckpt \/ ckpt' = [ckpt EXCEPT !.status = "interrupted"]
  PROVE  BoundInv'
<1>1. ckpt'.state = ckpt.state
  BY DEF TypeOK
<1>2. pc' = "idle" /\ resumes' = resumes
  BY DEF Halt
<1>3. QED
  BY <1>1, <1>2, BoundKept DEF Asking

\* The request is counted.
LEMMA BoundAsk ==
  ASSUME TypeOK, Control, BoundInv, pc = "llm", resumes' = resumes,
         NEW node \in Nodes \ (Asking \cup {"recover"}), NEW s, Enter(node, s),
         s.step = Counted.step, s.recovery = Counted.recovery
  PROVE  BoundInv'
<1>1. Counted.step = st.step + 1 /\ Counted.recovery = st.recovery
  BY BoundNumbers DEF Counted, State
<1>2. st = ckpt.state /\ st.step < MaxSteps + resumes
  BY DEF Control, BoundInv, Asking
<1>3. ckpt'.state = s /\ pc' = node
  BY DEF Enter
<1>4. s.step <= MaxSteps + resumes
  BY <1>1, <1>2, BoundNumbers
<1>5. QED
  BY <1>1, <1>2, <1>3, <1>4 DEF BoundInv, Nodes

LEMMA BoundLlm ==
  ASSUME TypeOK, Control, BoundInv, LlmStep
  PROVE  BoundInv'
<1>1. Counted \in State
  BY CountedType
<1>2. CASE LlmCancelled
  <2>1. [Counted EXCEPT !.final = "cancelled", !.cancelled = TRUE].step = Counted.step
        /\ [Counted EXCEPT !.final = "cancelled", !.cancelled = TRUE].recovery = Counted.recovery
    BY <1>1, Zenon DEF State
  <2>2. "persist" \in Nodes \ (Asking \cup {"recover"})
    BY DEF Nodes, Asking
  <2>3. QED
    BY <1>2, <2>1, <2>2, BoundAsk DEF LlmCancelled
<1>3. CASE LlmPropose
  <2>1. PICK text \in {"", "answer"} : Enter("verify", [Counted EXCEPT !.proposed = text])
    BY <1>3 DEF LlmPropose
  <2>2. /\ [Counted EXCEPT !.proposed = text].step = Counted.step
        /\ [Counted EXCEPT !.proposed = text].recovery = Counted.recovery
    BY <1>1, Zenon DEF State
  <2>3. "verify" \in Nodes \ (Asking \cup {"recover"})
    BY DEF Nodes, Asking
  <2>4. pc = "llm" /\ resumes' = resumes
    BY <1>3 DEF LlmPropose
  <2>5. QED
    BY <2>1, <2>2, <2>3, <2>4, BoundAsk
<1>4. CASE LlmJsonTool \/ LlmNamelessTool
  <2>1. PICK node, a : /\ Enter(node, [Counted EXCEPT !.last = a])
                         /\ node \in {"tool", "persist"}
    BY <1>4, Zenon DEF LlmJsonTool, LlmNamelessTool
  <2>2. /\ [Counted EXCEPT !.last = a].step = Counted.step
        /\ [Counted EXCEPT !.last = a].recovery = Counted.recovery
    BY <1>1, Zenon DEF State
  <2>3. node \in Nodes \ (Asking \cup {"recover"})
    BY <2>1 DEF Nodes, Asking
  <2>4. pc = "llm" /\ resumes' = resumes
    BY <1>4 DEF LlmJsonTool, LlmNamelessTool
  <2>5. QED
    BY <2>1, <2>2, <2>3, <2>4, BoundAsk
<1>5. CASE LlmNativeTools
  <2>1. PICK first, id, calls, rest :
          Enter("tool", [Counted EXCEPT !.last = first, !.callId = id,
                                        !.assistant = calls, !.pending = rest])
    BY <1>5, Zenon DEF LlmNativeTools
  <2>2. /\ [Counted EXCEPT !.last = first, !.callId = id,
                           !.assistant = calls, !.pending = rest].step = Counted.step
        /\ [Counted EXCEPT !.last = first, !.callId = id,
                           !.assistant = calls, !.pending = rest].recovery = Counted.recovery
    BY <1>1, Zenon DEF State
  <2>3. "tool" \in Nodes \ (Asking \cup {"recover"})
    BY DEF Nodes, Asking
  <2>4. pc = "llm" /\ resumes' = resumes
    BY <1>5 DEF LlmNativeTools
  <2>5. QED
    BY <2>1, <2>2, <2>3, <2>4, BoundAsk
<1>6. CASE LlmUnavailable
  BY <1>6, BoundHalt DEF LlmUnavailable
<1>7. QED
  BY <1>2, <1>3, <1>4, <1>5, <1>6 DEF LlmStep

LEMMA BoundTool ==
  ASSUME TypeOK, Control, BoundInv, ToolStep
  PROVE  BoundInv'
<1>1. st \in State
  BY BoundNumbers
<1>2. CASE ToolCancelled
  <2>1. /\ [st EXCEPT !.final = "cancelled", !.cancelled = TRUE].step = st.step
        /\ [st EXCEPT !.final = "cancelled", !.cancelled = TRUE].recovery = st.recovery
    BY <1>1, Zenon DEF State
  <2>2. "observe" \notin Asking /\ "observe" # "recover"
    BY DEF Asking
  <2>3. /\ pc # "idle" /\ resumes' = resumes
        /\ Enter("observe", [st EXCEPT !.final = "cancelled", !.cancelled = TRUE])
    BY <1>2 DEF ToolCancelled
  <2>4. QED
    BY <2>1, <2>2, <2>3, BoundEnter
<1>3. CASE ToolBlocked \/ ToolRun
  <2>1. resumes' = resumes /\ ckpt' = ckpt /\ pc' = "record"
    BY <1>3 DEF ToolBlocked, ToolRun
  <2>2. QED
    BY <2>1, BoundKept DEF Asking
<1>4. CASE ToolRecord
  <2> DEFINE record == [act |-> st.last, ok |-> inflight = "ok" /\ ~OverBudget]
             After == [st EXCEPT !.records = Append(@, record),
                                 !.counts[st.last] = @ + 1,
                                 !.turn = TurnAfterTool,
                                 !.callId = 0,
                                 !.assistant = << >>]
  <2>1. Enter("observe", After)
    BY <1>4, Zenon DEF ToolRecord
  <2>2. After.step = st.step /\ After.recovery = st.recovery
    BY <1>1, Zenon DEF State
  <2>3. pc # "idle" /\ resumes' = resumes
    BY <1>4 DEF ToolRecord
  <2>4. "observe" \notin Asking /\ "observe" # "recover"
    BY DEF Asking
  <2> HIDE DEF After
  <2>5. QED
    BY <2>1, <2>2, <2>3, <2>4, BoundEnter
<1>5. QED
  BY <1>2, <1>3, <1>4 DEF ToolStep

LEMMA BoundObserve ==
  ASSUME TypeOK, Control, BoundInv, ObserveStep
  PROVE  BoundInv'
<1>1. st \in State
  BY BoundNumbers
<1>2. CASE ObservePending
  <2> DEFINE After == [st EXCEPT !.last = Head(st.pending).act,
                                 !.callId = Head(st.pending).id,
                                 !.pending = Tail(st.pending)]
             node == IF st.final # "" THEN "persist" ELSE "tool"
  <2>1. Enter(node, After) /\ pc # "idle" /\ resumes' = resumes
    BY <1>2, Zenon DEF ObservePending
  <2>2. After.step = st.step /\ After.recovery = st.recovery
    BY <1>1, Zenon DEF State
  <2>3. node \notin Asking /\ node # "recover"
    BY DEF Asking
  <2> HIDE DEF After, node
  <2>4. QED
    BY <2>1, <2>2, <2>3, BoundEnter
<1>3. CASE ObserveLimit
  <2> DEFINE After == [st EXCEPT !.final = IF st.proposed # "" THEN "unverified" ELSE "limit",
                                 !.stopped = TRUE]
  <2>1. Enter("persist", After) /\ pc # "idle" /\ resumes' = resumes
    BY <1>3, Zenon DEF ObserveLimit
  <2>2. After.step = st.step /\ After.recovery = st.recovery
    BY <1>1, Zenon DEF State
  <2> HIDE DEF After
  <2>3. QED
    BY <2>1, <2>2, BoundEnter DEF Asking
<1>4. CASE ObserveContinue
  <2> DEFINE node == IF st.final # "" THEN "persist" ELSE "llm"
  <2>1. Enter(node, st) /\ pc # "idle" /\ resumes' = resumes /\ st.step < MaxSteps
    BY <1>4, Zenon DEF ObserveContinue
  <2>2. node # "recover"
    OBVIOUS
  <2> HIDE DEF node
  <2>3. QED
    BY <2>1, <2>2, BoundEnter
<1>5. QED
  BY <1>2, <1>3, <1>4 DEF ObserveStep

LEMMA BoundVerify ==
  ASSUME TypeOK, Control, BoundInv, VerifyAccept \/ VerifyRefuse \/ Recover
  PROVE  BoundInv'
<1>1. st \in State
  BY BoundNumbers
<1>2. ASSUME NEW text, Enter("persist", [st EXCEPT !.final = text]), pc # "idle", resumes' = resumes
      PROVE  BoundInv'
  <2> DEFINE After == [st EXCEPT !.final = text]
  <2>1. After.step = st.step /\ After.recovery = st.recovery
    BY <1>1, Zenon DEF State
  <2>2. Enter("persist", After) /\ pc # "idle" /\ resumes' = resumes
    BY <1>2
  <2> HIDE DEF After
  <2>3. QED
    BY <2>1, <2>2, BoundEnter DEF Asking
<1>3. CASE VerifyAccept
  <2>1. Enter("persist", [st EXCEPT !.final = st.proposed])
    BY <1>3, Zenon DEF VerifyAccept
  <2>2. pc # "idle" /\ resumes' = resumes
    BY <1>3 DEF VerifyAccept
  <2>3. QED
    BY <1>2, <2>1, <2>2
<1>4. CASE VerifyRefuse
  <2>1. CASE CanRecover(st)
    <3>1. Enter("recover", st) /\ pc # "idle" /\ resumes' = resumes
      BY <1>4, <2>1 DEF VerifyRefuse
    <3>2. QED
      BY <2>1, <3>1, BoundEnter DEF Asking
  <2>2. CASE ~CanRecover(st)
    BY <1>2, <1>4, <2>2 DEF VerifyRefuse
  <2>3. QED
    BY <2>1, <2>2
<1>5. CASE Recover
  <2> DEFINE s == [st EXCEPT !.recovery = st.recovery + 1, !.proposed = ""]
  <2>1. s.step = st.step /\ s.recovery = st.recovery + 1
    BY <1>1, Zenon DEF State
  <2>2. Enter("llm", s) /\ pc = "recover" /\ resumes' = resumes
    BY <1>5, Zenon DEF Recover
  <2> HIDE DEF s
  <2>3. ckpt'.state = s /\ pc' = "llm" /\ ckpt.state = st
    BY <2>2 DEF Enter, Control
  <2>4. st.step < MaxSteps /\ st.recovery < MaxRecovery
    BY <2>2, <2>3 DEF BoundInv, CanRecover
  <2>5. st.step < MaxSteps + resumes /\ st.recovery + 1 <= MaxRecovery
    BY <2>4, BoundNumbers
  <2>6. st.step <= MaxSteps + resumes
    BY <2>5, BoundNumbers
  <2>7. QED
    BY <2>1, <2>2, <2>3, <2>5, <2>6 DEF BoundInv
<1>6. QED
  BY <1>3, <1>4, <1>5

LEMMA BoundStep ==
  TypeOK /\ Control /\ BoundInv /\ [Next]_vars => BoundInv'
<1> SUFFICES ASSUME TypeOK, Control, BoundInv, [Next]_vars PROVE BoundInv'
  OBVIOUS
<1>1. CASE Start
  <2>1. ckpt'.state = InitialState /\ pc' = "prepare" /\ resumes' = resumes
    BY <1>1 DEF Start, Enter
  <2>2. InitialState.step = 0 /\ InitialState.recovery = 0
    BY Zenon DEF InitialState
  <2>3. QED
    BY <2>1, <2>2, BoundNumbers DEF BoundInv
<1>2. CASE Resume
  <2> DEFINE s == [ckpt.state EXCEPT !.final = ""]
  <2>1. s.step = ckpt.state.step /\ s.recovery = ckpt.state.recovery
    BY BoundNumbers, Zenon DEF State
  <2>2. ckpt'.state = s /\ pc' = "prepare" /\ resumes' = resumes + 1
    BY <1>2 DEF Resume, Enter
  <2> HIDE DEF s
  <2>3. ckpt.state.step < MaxSteps + (resumes + 1) /\ ckpt.state.step <= MaxSteps + (resumes + 1)
    BY BoundNumbers DEF BoundInv
  <2>4. QED
    BY <2>1, <2>2, <2>3 DEF BoundInv
<1>3. CASE Prepare \/ Analyze
  <2> DEFINE After == [st EXCEPT !.final = "cancelled", !.cancelled = TRUE]
  <2>1. After.step = st.step /\ After.recovery = st.recovery
    BY BoundNumbers, Zenon DEF State
  <2>2. pc \in Asking /\ pc # "idle" /\ resumes' = resumes
    BY <1>3 DEF Prepare, Analyze, Asking
  <2>3. Enter("persist", After) \/ Enter("analyze", st) \/ Enter("llm", st)
    BY <1>3, Zenon DEF Prepare, Analyze
  <2> HIDE DEF After
  <2>4. CASE Enter("persist", After)
    BY <2>1, <2>2, <2>4, BoundEnter DEF Asking
  <2>5. CASE Enter("analyze", st) \/ Enter("llm", st)
    BY <2>2, <2>5, BoundEnter
  <2>6. QED
    BY <2>3, <2>4, <2>5
<1>4. CASE LlmStep
  BY <1>4, BoundLlm
<1>5. CASE ToolStep
  BY <1>5, BoundTool
<1>6. CASE ObserveStep
  BY <1>6, BoundObserve
<1>7. CASE VerifyAccept \/ VerifyRefuse \/ Recover
  BY <1>7, BoundVerify
<1>8. CASE PersistContext
  <2> DEFINE After == [st EXCEPT !.final = AnswerText]
  <2>1. Enter("auto_evolve", After) /\ pc # "idle" /\ resumes' = resumes
    BY <1>8, Zenon DEF PersistContext
  <2>2. After.step = st.step /\ After.recovery = st.recovery
    BY BoundNumbers, Zenon DEF State
  <2> HIDE DEF After
  <2>3. QED
    BY <2>1, <2>2, BoundEnter DEF Asking
<1>9. CASE PersistUser \/ PersistAnswer \/ AutoEvolve
  <2>1. resumes' = resumes /\ ckpt' = ckpt /\ pc' \in {"persist_answer", "persist_context", "finish"}
    BY <1>9 DEF PersistUser, PersistAnswer, AutoEvolve
  <2>2. QED
    BY <2>1, BoundKept DEF Asking
<1>10. CASE Finish
  <2>1. resumes' = resumes /\ ckpt'.state = ckpt.state /\ pc' = "idle"
    BY <1>10 DEF Finish, Control
  <2>2. QED
    BY <2>1, BoundKept DEF Asking
<1>11. CASE PersistRejected \/ Crash \/ Interrupt
  BY <1>11, BoundHalt DEF PersistRejected, Crash, Interrupt
<1>12. CASE RequestCancel \/ UNCHANGED vars
  <2>1. UNCHANGED <<pc, ckpt, resumes>>
    BY <1>12 DEF RequestCancel, vars
  <2>2. QED
    BY <2>1, BoundKept
<1>13. QED
  BY <1>1, <1>2, <1>3, <1>4, <1>5, <1>6, <1>7, <1>8, <1>9, <1>10, <1>11, <1>12
     DEF Next, GraphStep, PersistStep

\* However a run crashes and resumes, it asks the model no more often than the
\* step limit and once more for every resume, and recovers within its own limit
\* (_observe_node, _verify_node, run).
THEOREM RequestsCorrect == Spec => []RequestBound
<1>1. Init => BoundInv
  <2> SUFFICES ASSUME Init PROVE BoundInv
    OBVIOUS
  <2>1. ckpt.state = InitialState /\ pc = "idle" /\ resumes = 0
    BY DEF Init
  <2>2. InitialState.step = 0 /\ InitialState.recovery = 0
    BY Zenon DEF InitialState
  <2>3. QED
    BY <2>1, <2>2, BoundsAssumption DEF BoundInv, Asking
<1>2. TypeOK /\ Control /\ BoundInv => RequestBound
  <2> SUFFICES ASSUME TypeOK, Control, BoundInv PROVE RequestBound
    OBVIOUS
  <2>1. CASE pc # "idle"
    BY <2>1 DEF Control, BoundInv, RequestBound
  <2>2. CASE pc = "idle"
    <3>1. InitialState.step = 0 /\ InitialState.recovery = 0
      BY Zenon DEF InitialState
    <3>2. QED
      BY <2>2, <3>1, BoundNumbers DEF Control, BoundInv, RequestBound
  <2>3. QED
    BY <2>1, <2>2
<1>3. QED
  BY <1>1, <1>2, InitType, StepType, BoundStep, PTL DEF Spec

-----------------------------------------------------------------------------
(* The session is told the answer, once per process *)

\* The nodes after the question was added to the session.
Telling == {"persist_answer", "persist_context", "auto_evolve", "finish"}

Line == [role : {"user", "assistant"}, text : Finals]

QuestionsIn(t) == {i \in DOMAIN t : t[i].role = "user"}

Asks(text) ==
  /\ Len(transcript) >= 2
  /\ transcript[Len(transcript)] = [role |-> "assistant", text |-> text]
  /\ transcript[Len(transcript) - 1].role = "user"

\* The session's last lines are those of this process once it has asked, and
\* this process has asked at most once.
ToldInv ==
  /\ Cardinality(QuestionsIn(transcript)) <= 1 + resumes
  /\ pc \notin Telling /\ (pc = "idle" => ckpt.status = "none")
       => Cardinality(QuestionsIn(transcript)) <= resumes
  /\ pc = "persist_answer" => /\ Len(transcript) >= 1
                              /\ transcript[Len(transcript)].role = "user"
  /\ pc = "persist_context" => Asks(AnswerText)
  /\ pc \in {"auto_evolve", "finish"} => st.final # "" /\ Asks(st.final)
  /\ CompletedIsTold

\* A line appended to a session counts if it is a question.
LEMMA AppendQuestion ==
  ASSUME NEW t \in Seq(Line), NEW m \in Line
  PROVE  /\ Cardinality(QuestionsIn(t)) \in Nat
         /\ Cardinality(QuestionsIn(Append(t, m)))
              = Cardinality(QuestionsIn(t)) + (IF m.role = "user" THEN 1 ELSE 0)
<1> DEFINE q == QuestionsIn(t)
           n == Len(t) + 1
<1>1. Len(t) \in Nat /\ DOMAIN t = 1 .. Len(t)
  BY LenProperties
<1>2. IsFiniteSet(1 .. Len(t))
  BY <1>1, FS_Interval
<1>3. IsFiniteSet(q) /\ Cardinality(q) \in Nat
  BY <1>1, <1>2, FS_Subset, FS_CardinalityType DEF QuestionsIn
<1>4. n \notin q
  BY <1>1 DEF QuestionsIn
<1>5. /\ DOMAIN Append(t, m) = 1 .. n
      /\ Append(t, m)[n] = m
      /\ \A i \in 1 .. Len(t) : Append(t, m)[i] = t[i]
  BY <1>1, AppendProperties
<1>6. CASE m.role = "user"
  <2>1. QuestionsIn(Append(t, m)) = q \cup {n}
    BY <1>1, <1>5, <1>6 DEF QuestionsIn
  <2>2. Cardinality(q \cup {n}) = Cardinality(q) + 1
    BY <1>3, <1>4, FS_AddElement
  <2>3. QED
    BY <1>3, <1>6, <2>1, <2>2
<1>7. CASE m.role # "user"
  <2>1. QuestionsIn(Append(t, m)) = q
    BY <1>1, <1>5, <1>7 DEF QuestionsIn
  <2>2. QED
    BY <1>3, <1>7, <2>1
<1>8. QED
  BY <1>6, <1>7

\* Steps other than those that tell.
LEMMA QuietFrame ==
  ASSUME TypeOK, Control, [Next]_vars
  PROVE  \/ PersistUser \/ PersistAnswer \/ PersistContext \/ AutoEvolve \/ Finish
         \/ UNCHANGED <<pc, st, ckpt, transcript, resumes>>
         \/ /\ transcript' = transcript
            /\ ckpt'.status \in {"running", "interrupted"}
            /\ \/ pc' = "idle" /\ resumes' = resumes
               \/ /\ pc' \notin Telling \cup {"idle"}
                  /\ \/ resumes' = resumes /\ pc = "idle" /\ ckpt.status = "none"
                     \/ resumes' = resumes + 1
                     \/ resumes' = resumes /\ pc \notin Telling \cup {"idle"}
<1> DEFINE Work == /\ transcript' = transcript
                   /\ ckpt'.status \in {"running", "interrupted"}
                   /\ pc' \notin Telling \cup {"idle"}
                   /\ resumes' = resumes /\ pc \notin Telling \cup {"idle"}
<1>1. CASE Start
  BY <1>1, Zenon DEF Start, Enter, Telling
<1>2. CASE Resume
  BY <1>2, Zenon DEF Resume, Enter, Telling
<1>3. CASE RequestCancel \/ UNCHANGED vars
  BY <1>3, Zenon DEF RequestCancel, vars
<1>4. CASE Crash \/ Interrupt \/ PersistRejected
  <2>1. Halt /\ pc # "idle"
        /\ (UNCHANGED ckpt \/ ckpt' = [ckpt EXCEPT !.status = "interrupted"])
    BY <1>4, Zenon DEF Crash, Interrupt, PersistRejected, Nodes
  <2>2. pc' = "idle" /\ resumes' = resumes /\ transcript' = transcript
    BY <2>1, Zenon DEF Halt
  <2>3. ckpt'.status \in {"running", "interrupted"}
    BY <2>1 DEF Control
  <2>4. QED
    BY <2>2, <2>3
<1>5. ASSUME NEW node, NEW s, Enter(node, s), pc \notin Telling \cup {"idle"},
             node \notin Telling \cup {"idle"}, UNCHANGED <<transcript, resumes>>
      PROVE  Work
  BY <1>5, Zenon DEF Enter
<1>6. CASE Prepare \/ Analyze
  BY <1>5, <1>6, Zenon DEF Prepare, Analyze, Telling
<1>7. CASE LlmStep
  <2>1. CASE LlmUnavailable
    <3>1. Halt /\ ckpt' = [ckpt EXCEPT !.status = "interrupted"] /\ pc # "idle"
      BY <2>1, Zenon DEF LlmUnavailable
    <3>2. pc' = "idle" /\ resumes' = resumes /\ transcript' = transcript
      BY <3>1, Zenon DEF Halt
    <3>3. ckpt'.status \in {"running", "interrupted"}
      BY <3>1 DEF Control
    <3>4. QED
      BY <3>2, <3>3
  <2>2. CASE LlmCancelled
    BY <1>5, <2>2, Zenon DEF LlmCancelled, Telling
  <2>3. CASE LlmPropose
    BY <1>5, <2>3, Zenon DEF LlmPropose, Telling
  <2>4. CASE LlmJsonTool \/ LlmNamelessTool
    BY <1>5, <2>4, Zenon DEF LlmJsonTool, LlmNamelessTool, Telling
  <2>5. CASE LlmNativeTools
    <3>1. pc = "llm" /\ UNCHANGED <<transcript, resumes>> /\ \E s : Enter("tool", s)
      BY <2>5, Zenon DEF LlmNativeTools
    <3>2. QED
      BY <1>5, <3>1, Zenon DEF Telling
  <2>6. QED
    BY <1>7, <2>1, <2>2, <2>3, <2>4, <2>5 DEF LlmStep
<1>8. CASE ToolBlocked \/ ToolRun
  <2>1. pc = "tool" /\ pc' = "record" /\ UNCHANGED <<ckpt, transcript, resumes>>
    BY <1>8, Zenon DEF ToolBlocked, ToolRun
  <2>2. QED
    BY <2>1 DEF Control, Telling
<1>9. CASE ToolCancelled
  BY <1>5, <1>9, Zenon DEF ToolCancelled, Telling
<1>10. CASE ToolRecord
  <2>1. pc = "record" /\ UNCHANGED <<transcript, resumes>> /\ \E s : Enter("observe", s)
    BY <1>10, Zenon DEF ToolRecord
  <2>2. QED
    BY <1>5, <2>1, Zenon DEF Telling
<1>11. CASE ObserveStep
  <2>1. pc = "observe" /\ UNCHANGED <<transcript, resumes>>
    BY <1>11, Zenon DEF ObserveStep, ObservePending, ObserveLimit, ObserveContinue
  <2>2. \E s : Enter("persist", s) \/ Enter("tool", s) \/ Enter("llm", s)
    BY <1>11, Zenon DEF ObserveStep, ObservePending, ObserveLimit, ObserveContinue
  <2>3. QED
    BY <1>5, <2>1, <2>2, Zenon DEF Telling
<1>12. CASE VerifyAccept \/ VerifyRefuse \/ Recover
  <2>1. pc \in {"verify", "recover"} /\ UNCHANGED <<transcript, resumes>>
    BY <1>12, Zenon DEF VerifyAccept, VerifyRefuse, Recover
  <2>2. \E s : Enter("persist", s) \/ Enter("recover", s) \/ Enter("llm", s)
    BY <1>12, Zenon DEF VerifyAccept, VerifyRefuse, Recover
  <2>3. QED
    BY <1>5, <2>1, <2>2, Zenon DEF Telling
<1>13. QED
  BY <1>1, <1>2, <1>3, <1>4, <1>6, <1>7, <1>8, <1>9, <1>10, <1>11, <1>12
     DEF Next, GraphStep, ToolStep, PersistStep

LEMMA ToldStep ==
  TypeOK /\ Control /\ ToldInv /\ TypeOK' /\ [Next]_vars => ToldInv'
<1> SUFFICES ASSUME TypeOK, Control, ToldInv, TypeOK', [Next]_vars
             PROVE  ToldInv'
  OBVIOUS
<1> DEFINE n == Len(transcript)
           questions == Cardinality(QuestionsIn(transcript))
<1>1. transcript \in Seq(Line) /\ resumes \in Nat /\ st \in State
  BY DEF TypeOK, Line
<1>2. n \in Nat /\ questions \in Nat
  <2>1. [role |-> "user", text |-> ""] \in Line
    BY DEF Line, Finals
  <2>2. QED
    BY <1>1, <2>1, AppendQuestion, LenProperties
<1>3. AnswerText \in Finals
  BY <1>1, StateFields DEF AnswerText, Finals
<1>4. CASE PersistUser
  <2> DEFINE line == [role |-> "user", text |-> ""]
  <2>1. /\ pc = "persist" /\ transcript' = Append(transcript, line)
        /\ pc' = "persist_answer" /\ resumes' = resumes /\ ckpt' = ckpt
    BY <1>4 DEF PersistUser
  <2>2. line \in Line /\ line.role = "user"
    BY DEF Line, Finals
  <2> HIDE DEF line
  <2>3. Cardinality(QuestionsIn(transcript')) = questions + 1
    BY <1>1, <2>1, <2>2, AppendQuestion
  <2>4. questions <= resumes
    BY <2>1 DEF ToldInv, Telling
  <2>5. Len(transcript') = n + 1 /\ transcript'[n + 1] = line
    BY <1>1, <2>1, <2>2, AppendProperties
  <2>6. ckpt'.status = "running"
    BY <2>1 DEF Control
  <2>7. Len(transcript') >= 1 /\ transcript'[Len(transcript')].role = "user"
    BY <1>2, <2>2, <2>5
  <2>8. Cardinality(QuestionsIn(transcript')) <= 1 + resumes'
    BY <1>1, <1>2, <2>1, <2>3, <2>4
  <2>9. QED
    BY <2>1, <2>6, <2>7, <2>8 DEF ToldInv, CompletedIsTold, Completed, Telling
<1>5. CASE PersistAnswer
  <2> DEFINE line == [role |-> "assistant", text |-> AnswerText]
  <2>1. /\ pc = "persist_answer" /\ transcript' = Append(transcript, line)
        /\ pc' = "persist_context" /\ resumes' = resumes /\ ckpt' = ckpt /\ st' = st
    BY <1>5 DEF PersistAnswer
  <2>2. line \in Line /\ line.role # "user"
    BY <1>3 DEF Line
  <2>3. Cardinality(QuestionsIn(transcript')) = questions
    BY <1>1, <1>2, <2>1, <2>2, AppendQuestion
  <2>4. /\ Len(transcript') = n + 1 /\ transcript'[n + 1] = line
        /\ \A i \in 1 .. n : transcript'[i] = transcript[i]
    BY <1>1, <2>1, <2>2, AppendProperties
  <2>5. n >= 1 /\ transcript[n].role = "user"
    BY <2>1 DEF ToldInv
  <2>6. Len(transcript') >= 2 /\ transcript'[Len(transcript')] = line
        /\ transcript'[Len(transcript') - 1].role = "user"
    BY <1>2, <2>4, <2>5
  <2>7. AnswerText' = AnswerText
    BY <2>1 DEF AnswerText
  <2>8. Asks(AnswerText)'
    BY <2>6, <2>7 DEF Asks
  <2>9. ckpt'.status = "running"
    BY <2>1 DEF Control
  <2>10. Cardinality(QuestionsIn(transcript')) <= 1 + resumes'
    BY <2>1, <2>3 DEF ToldInv
  <2>11. QED
    BY <2>1, <2>8, <2>9, <2>10 DEF ToldInv, CompletedIsTold, Completed, Telling
<1>6. CASE PersistContext
  <2> DEFINE s == [st EXCEPT !.final = AnswerText]
  <2>1. pc = "persist_context" /\ AnswerText # "" /\ Enter("auto_evolve", s)
        /\ UNCHANGED <<transcript, resumes>>
    BY <1>6, Zenon DEF PersistContext
  <2>2. s.final = AnswerText
    BY <1>1, Zenon DEF State
  <2> HIDE DEF s
  <2>3. st' = s /\ pc' = "auto_evolve" /\ ckpt'.status = "running"
    BY <2>1 DEF Enter
  <2>4. Asks(AnswerText)
    BY <2>1 DEF ToldInv
  <2>5. st'.final # "" /\ Asks(st.final)'
    BY <2>1, <2>2, <2>3, <2>4 DEF Asks
  <2>6. Cardinality(QuestionsIn(transcript')) <= 1 + resumes'
    BY <2>1 DEF ToldInv
  <2>7. QED
    BY <2>3, <2>5, <2>6 DEF ToldInv, CompletedIsTold, Completed, Telling
<1>7. CASE AutoEvolve
  <2>1. pc = "auto_evolve" /\ pc' = "finish" /\ UNCHANGED <<st, ckpt, transcript, resumes>>
    BY <1>7 DEF AutoEvolve
  <2>2. st'.final # "" /\ Asks(st.final)'
    BY <2>1 DEF ToldInv, Asks
  <2>3. Cardinality(QuestionsIn(transcript')) <= 1 + resumes'
    BY <2>1 DEF ToldInv
  <2>4. ckpt'.status = "running"
    BY <2>1 DEF Control
  <2>5. QED
    BY <2>1, <2>2, <2>3, <2>4 DEF ToldInv, CompletedIsTold, Completed, Telling
<1>8. CASE Finish
  <2>1. /\ pc = "finish" /\ pc' = "idle" /\ UNCHANGED <<transcript, resumes>>
        /\ ckpt'.status = "completed" /\ ckpt'.state = st
    BY <1>8 DEF Finish
  <2>2. st.final # "" /\ Asks(st.final)
    BY <2>1 DEF ToldInv
  <2>3. CompletedIsTold'
    BY <2>1, <2>2 DEF CompletedIsTold, Asks
  <2>4. Cardinality(QuestionsIn(transcript')) <= 1 + resumes'
    BY <2>1 DEF ToldInv
  <2>5. QED
    BY <2>1, <2>3, <2>4 DEF ToldInv, Telling
<1>9. CASE UNCHANGED <<pc, st, ckpt, transcript, resumes>>
  BY <1>9 DEF ToldInv, CompletedIsTold, Completed, Asks, AnswerText
<1>10. CASE /\ transcript' = transcript
            /\ ckpt'.status \in {"running", "interrupted"}
            /\ \/ pc' = "idle" /\ resumes' = resumes
               \/ /\ pc' \notin Telling \cup {"idle"}
                  /\ \/ resumes' = resumes /\ pc = "idle" /\ ckpt.status = "none"
                     \/ resumes' = resumes + 1
                     \/ resumes' = resumes /\ pc \notin Telling \cup {"idle"}
  <2>1. questions <= 1 + resumes
    BY DEF ToldInv
  <2>2. pc' # "idle" => questions <= resumes'
    <3>1. pc \notin Telling /\ (pc = "idle" => ckpt.status = "none") => questions <= resumes
      BY DEF ToldInv
    <3>2. CASE resumes' = resumes + 1
      BY <1>1, <1>2, <2>1, <3>2
    <3>3. CASE resumes' = resumes /\ pc = "idle" /\ ckpt.status = "none"
      BY <3>1, <3>3 DEF Telling
    <3>4. CASE resumes' = resumes /\ pc \notin Telling \cup {"idle"}
      BY <3>1, <3>4
    <3>5. QED
      BY <1>10, <3>2, <3>3, <3>4
  <2>3. questions <= 1 + resumes'
    BY <1>1, <1>2, <1>10, <2>1
  <2>4. pc' \notin Telling /\ ckpt'.status \notin {"none", "completed"}
    BY <1>10 DEF Telling
  <2>5. QED
    BY <1>10, <2>2, <2>3, <2>4 DEF ToldInv, CompletedIsTold, Completed, Telling
<1>11. QED
  BY <1>4, <1>5, <1>6, <1>7, <1>8, <1>9, <1>10, QuietFrame

LEMMA ToldInvariant == Spec => [](TypeOK /\ Control /\ ToldInv)
<1>1. Init => ToldInv
  <2> SUFFICES ASSUME Init PROVE ToldInv
    OBVIOUS
  <2>1. pc = "idle" /\ ckpt.status = "none" /\ resumes = 0 /\ transcript = << >>
    BY DEF Init
  <2>2. QuestionsIn(<< >>) = {}
    BY DEF QuestionsIn
  <2>3. Cardinality(QuestionsIn(transcript)) = 0
    BY <2>1, <2>2, FS_EmptySet
  <2>4. QED
    BY <2>1, <2>3 DEF ToldInv, CompletedIsTold, Completed, Telling
<1>2. QED
  BY <1>1, InitType, StepType, ToldStep, PTL DEF Spec

\* A run is marked completed only after the session ends with the question and
\* the answer in its state, whatever crashes and resumes came before
\* (_persist_node, run).
THEOREM ToldCorrect == Spec => []CompletedIsTold
<1>1. ToldInv => CompletedIsTold
  BY DEF ToldInv
<1>2. QED
  BY <1>1, ToldInvariant, PTL

\* The session gets the question at most once for the first process and once
\* more for every resume (_persist_node).
THEOREM QuestionsCorrect == Spec => []ToldOncePerProcess
<1>1. ToldInv => ToldOncePerProcess
  BY DEF ToldInv, ToldOncePerProcess, QuestionsIn
<1>2. QED
  BY <1>1, ToldInvariant, PTL

-----------------------------------------------------------------------------
(* A run over its file budget is never accepted *)

\* No unmetered tool has written a file.
OnlyMetered == \A a \in Actions : ~a.metered /\ a.writes # {} => executed[a] = 0

Over == bounded /\ Cardinality(written) > MaxFileChanges /\ OnlyMetered

\* A failure of a metered tool that no later success of the tool resolves.
Refused(rs, m) ==
  /\ ~rs[m].ok /\ rs[m].act.metered
  /\ \A i \in m + 1 .. Len(rs) : ~(rs[i].ok /\ rs[i].act.name = rs[m].act.name)

\* The call that went over the budget is recorded as a failure, or will be,
\* and since then every metered call has been.
OverInv ==
  /\ ckpt.status = "none" => written = {}
  /\ Over => /\ \/ \E m \in DOMAIN ckpt.state.records : Refused(ckpt.state.records, m)
                \/ inflight \in {"ok", "failed"} /\ st.last.metered
             /\ ckpt.state.final # "answer"

LEMMA PassedHasNoRefused ==
  ASSUME TypeOK, Passed(st), NEW m \in DOMAIN st.records
  PROVE  ~Refused(st.records, m)
<1>1. st.records \in Seq(Record)
  BY StateFields DEF TypeOK
<1>2. DOMAIN st.records = 1 .. Len(st.records) /\ Len(st.records) \in Nat
  BY <1>1
<1>3. SUFFICES ASSUME ~st.records[m].ok
               PROVE  \E j \in m + 1 .. Len(st.records) :
                        st.records[j].ok /\ st.records[j].act.name = st.records[m].act.name
  BY DEF Refused
<1>4. PICK j \in DOMAIN st.records :
        j > m /\ st.records[j].ok /\ st.records[j].act.name = st.records[m].act.name
  BY <1>3 DEF Passed, NoUnresolved
<1>5. j \in m + 1 .. Len(st.records)
  BY <1>2, <1>4
<1>6. QED
  BY <1>4, <1>5

\* A failed metered record is refused, and keeps what was refused so.
LEMMA AppendRefused ==
  ASSUME NEW rs \in Seq(Record), NEW r \in Record, ~(r.ok /\ r.act.metered)
  PROVE  /\ ~r.ok /\ r.act.metered => Refused(Append(rs, r), Len(rs) + 1)
         /\ \A m \in DOMAIN rs : Refused(rs, m) => Refused(Append(rs, r), m)
         /\ DOMAIN rs \cup {Len(rs) + 1} = DOMAIN Append(rs, r)
<1> DEFINE n == Len(rs) + 1
<1>1. /\ Append(rs, r)[n] = r
      /\ \A i \in 1 .. Len(rs) : Append(rs, r)[i] = rs[i]
      /\ DOMAIN Append(rs, r) = 1 .. n /\ DOMAIN rs = 1 .. Len(rs)
      /\ Len(Append(rs, r)) = n /\ Len(rs) \in Nat
  BY AppendProperties
<1>2. ~r.ok /\ r.act.metered => Refused(Append(rs, r), n)
  BY <1>1 DEF Refused
<1>3. ASSUME NEW m \in DOMAIN rs, Refused(rs, m)
      PROVE  Refused(Append(rs, r), m)
  <2>1. m \in 1 .. Len(rs) /\ rs[m] \in Record /\ Append(rs, r)[m] = rs[m]
    BY <1>1
  <2>2. r.act.name = rs[m].act.name => r.act.metered = rs[m].act.metered
    BY <2>1, ActionsAssumption DEF Record
  <2>3. ~(r.ok /\ r.act.name = rs[m].act.name)
    BY <1>3, <2>2 DEF Refused
  <2>4. ASSUME NEW i \in m + 1 .. n
        PROVE  ~(Append(rs, r)[i].ok /\ Append(rs, r)[i].act.name = rs[m].act.name)
    <3>1. CASE i = n
      BY <1>1, <2>3, <3>1
    <3>2. CASE i # n
      <4>1. i \in 1 .. Len(rs) /\ i \in m + 1 .. Len(rs)
        BY <1>1, <2>1, <3>2
      <4>2. QED
        BY <1>1, <1>3, <4>1 DEF Refused
    <3>3. QED
      BY <3>1, <3>2
  <2>5. QED
    BY <1>1, <1>3, <2>1, <2>4 DEF Refused
<1>4. QED
  BY <1>1, <1>2, <1>3

\* Only starting, resuming and stopping change the process's bounds.
LEMMA BoundedFrame ==
  ASSUME Control, [Next]_vars, ~Start, ~Resume, ~(Halt /\ pc # "idle")
  PROVE  bounded' = bounded
<1>1. CASE RequestCancel \/ Prepare \/ Analyze \/ UNCHANGED vars
  BY <1>1, Zenon DEF RequestCancel, Prepare, Analyze, vars
<1>2. CASE Crash \/ Interrupt
  BY <1>2, Zenon DEF Crash, Interrupt, Nodes
<1>3. CASE LlmStep
  BY <1>3, Zenon DEF LlmStep, LlmCancelled, LlmPropose, LlmJsonTool, LlmNamelessTool,
     LlmNativeTools, LlmUnavailable
<1>4. CASE ToolStep \/ ObserveStep
  BY <1>4, Zenon DEF ToolStep, ToolCancelled, ToolBlocked, ToolRun, ToolRecord,
     ObserveStep, ObservePending, ObserveLimit, ObserveContinue
<1>5. CASE VerifyAccept \/ VerifyRefuse \/ Recover
  BY <1>5, Zenon DEF VerifyAccept, VerifyRefuse, Recover
<1>6. CASE PersistStep \/ AutoEvolve \/ Finish
  BY <1>6, Zenon DEF PersistStep, PersistUser, PersistAnswer, PersistContext,
     PersistRejected, AutoEvolve, Finish
<1>7. QED
  BY <1>1, <1>2, <1>3, <1>4, <1>5, <1>6 DEF Next, GraphStep

\* A checkpoint once written is never taken back.
LEMMA NeverNoneAgain ==
  ASSUME TypeOK, Control, [Next]_vars, ckpt'.status = "none"
  PROVE  ckpt.status = "none" /\ UNCHANGED ckpt
<1>1. CASE Start \/ Finish
  BY <1>1 DEF Start, Finish, Enter
<1>2. QED
  BY <1>1, StatusFrame

LEMMA OverStep ==
  TypeOK /\ Control /\ OverInv /\ (ckpt.state.final = "answer" => pc \in Told)
    /\ TypeOK' /\ [Next]_vars => OverInv'
<1> SUFFICES ASSUME TypeOK, Control, OverInv, ckpt.state.final = "answer" => pc \in Told,
                    TypeOK', [Next]_vars
             PROVE  OverInv'
  OBVIOUS
<1> DEFINE rs == ckpt.state.records
           Known == \E m \in DOMAIN rs : Refused(rs, m)
<1>1. rs \in Seq(Record) /\ st.records \in Seq(Record)
  <2>1. ckpt.state \in State /\ st \in State
    BY DEF TypeOK
  <2>2. QED
    BY <2>1, StateFields, Zenon
<1>2. CASE Start \/ Resume \/ (Halt /\ pc # "idle")
  <2>1. CASE Start
    <3>1. written = {} /\ written' = written
      BY <2>1 DEF Start, OverInv, worldVars
    <3>2. Cardinality(written') = 0
      BY <3>1, FS_EmptySet
    <3>3. ~Over'
      BY <3>2, BoundsAssumption DEF Over
    <3>4. QED
      BY <3>1, <3>3 DEF OverInv
  <2>2. CASE Resume \/ (Halt /\ pc # "idle")
    <3>1. bounded' = FALSE /\ written' = written
      BY <2>2 DEF Resume, Halt, worldVars
    <3>2. ~Over'
      BY <3>1 DEF Over
    <3>3. QED
      BY <3>1, <3>2, NeverNoneAgain DEF OverInv
  <2>3. QED
    BY <1>2, <2>1, <2>2
<1>3. CASE ToolRun
  <2>1. /\ pc = "tool" /\ st.last \in Actions /\ inflight = "none"
        /\ st' = st /\ ckpt' = ckpt /\ bounded' = bounded
        /\ executed' = [executed EXCEPT ![st.last] = @ + 1]
        /\ inflight' \in {"ok", "failed"}
        /\ written' = written \/ written' = written \cup st.last.writes
    BY <1>3 DEF ToolRun, Control
  <2>2. ckpt.status = "running"
    BY <2>1 DEF Control
  <2>3. ckpt.state.final # "answer"
    BY <2>1 DEF Told
  <2>4. \A a \in Actions : executed[a] \in Nat /\ executed'[a] \in Nat
    BY DEF TypeOK
  <2>5. executed'[st.last] = executed[st.last] + 1
        /\ \A a \in Actions : a # st.last => executed'[a] = executed[a]
    BY <2>1 DEF TypeOK
  <2>6. ASSUME OnlyMetered'
        PROVE  OnlyMetered /\ (st.last.metered \/ st.last.writes = {})
    <3>1. OnlyMetered
      BY <2>4, <2>5, <2>6 DEF OnlyMetered
    <3>2. CASE ~st.last.metered /\ st.last.writes # {}
      <4>1. executed'[st.last] = 0
        BY <2>1, <2>6, <3>2 DEF OnlyMetered
      <4>2. QED
        BY <2>1, <2>4, <2>5, <4>1
    <3>3. QED
      BY <3>1, <3>2
  <2>7. Over' => Known \/ st.last.metered
    <3>1. SUFFICES ASSUME Over', ~st.last.metered PROVE Known
      OBVIOUS
    <3>2. OnlyMetered /\ st.last.writes = {}
      BY <2>6, <3>1 DEF Over
    <3>3. written' = written
      BY <2>1, <3>2
    <3>4. Over
      BY <2>1, <3>1, <3>2, <3>3 DEF Over
    <3>5. QED
      BY <2>1, <3>4 DEF OverInv
  <2>8. QED
    BY <2>1, <2>2, <2>3, <2>7 DEF OverInv
<1>4. CASE ToolRecord
  <2> DEFINE r == [act |-> st.last, ok |-> inflight = "ok" /\ ~OverBudget]
  <2>1. /\ st.last \in Actions /\ pc = "record"
        /\ ckpt'.state.records = Append(rs, r)
        /\ ckpt'.state.final = ckpt.state.final
    BY <1>4, RecordStep
  <2>2. UNCHANGED <<bounded, written, executed>>
    BY <1>4 DEF ToolRecord
  <2>3. r \in Record /\ r.act = st.last
    BY <2>1 DEF Record
  <2>4. ckpt'.state.final # "answer"
    BY <2>1 DEF Told
  <2>5. ckpt'.status # "none"
    BY <2>1, NeverNoneAgain DEF Control
  <2>6. ASSUME Over'
        PROVE  \E m \in DOMAIN Append(rs, r) : Refused(Append(rs, r), m)
    <3>1. Over
      BY <2>2, <2>6 DEF Over, OnlyMetered
    <3>2. ~(r.ok /\ r.act.metered)
      BY <3>1 DEF Over, OverBudget
    <3>3. Known \/ (~r.ok /\ r.act.metered)
      BY <2>3, <3>1, <3>2 DEF OverInv
    <3> HIDE DEF r
    <3>4. QED
      BY <1>1, <2>3, <3>2, <3>3, AppendRefused
  <2>7. QED
    BY <2>1, <2>4, <2>5, <2>6 DEF OverInv
<1>5. CASE ~Start /\ ~Resume /\ ~ToolRun /\ ~ToolRecord /\ ~(Halt /\ pc # "idle")
  <2>1. ckpt'.state.records = rs
    BY <1>5, RecordsFrame
  <2>2. /\ UNCHANGED <<written, executed, bounded>>
        /\ inflight' = inflight \/ (inflight = "none" /\ inflight' = "blocked")
    BY <1>5, WorldFrame, BoundedFrame DEF worldVars
  <2>3. inflight \in {"ok", "failed"} => UNCHANGED <<st, inflight>>
    <3>1. SUFFICES ASSUME pc = "record" PROVE UNCHANGED <<st, inflight>>
      BY DEF Control
    <3>2. QED
      BY <1>5, <3>1 DEF Next, vars, Start, Resume, RequestCancel, Crash, Interrupt,
         GraphStep, Prepare, Analyze, LlmStep, LlmCancelled, LlmPropose, LlmJsonTool,
         LlmNamelessTool, LlmNativeTools, LlmUnavailable, ToolStep, ToolCancelled,
         ToolBlocked, ObserveStep, ObservePending, ObserveLimit, ObserveContinue,
         VerifyAccept, VerifyRefuse, Recover, PersistStep, PersistUser, PersistAnswer,
         PersistContext, PersistRejected, AutoEvolve, Finish
  <2>4. Over' => Over
    BY <2>2 DEF Over, OnlyMetered
  <2>5. Over' => ckpt'.state.final # "answer"
    <3>1. CASE VerifyAccept
      <4>1. Passed(st) /\ pc = "verify"
        BY <3>1 DEF VerifyAccept
      <4>2. inflight = "none" /\ ckpt.state = st
        BY <4>1 DEF Control
      <4>3. ~Known
        BY <4>1, <4>2, PassedHasNoRefused
      <4>4. QED
        BY <2>4, <4>2, <4>3 DEF OverInv
    <3>2. CASE ~VerifyAccept
      BY <2>4, <3>2, AnswerFrame DEF OverInv
    <3>3. QED
      BY <3>1, <3>2
  <2>6. Over' => \/ \E m \in DOMAIN ckpt'.state.records : Refused(ckpt'.state.records, m)
                 \/ inflight' \in {"ok", "failed"} /\ st'.last.metered
    BY <2>1, <2>3, <2>4 DEF OverInv
  <2>7. ckpt'.status = "none" => written' = {}
    BY <2>2, NeverNoneAgain DEF OverInv
  <2>8. QED
    BY <2>5, <2>6, <2>7 DEF OverInv
<1>6. QED
  BY <1>2, <1>3, <1>4, <1>5

\* A turn of a loop phase that changed more files than its budget allows is
\* never reported as accepted, unless a tool outside the budget wrote files
\* (_tool_node's bound check, _verification_report).
THEOREM FileBudgetCorrect == Spec => []OverBudgetNeverAccepted
<1>1. Init => OverInv
  <2> SUFFICES ASSUME Init PROVE OverInv
    OBVIOUS
  <2>1. written = {} /\ ~bounded
    BY DEF Init
  <2>2. QED
    BY <2>1 DEF OverInv, Over
<1>2. TypeOK /\ Control /\ TestedInv /\ OverInv /\ TypeOK' /\ [Next]_vars => OverInv'
  BY OverStep DEF TestedInv
<1>3. TypeOK /\ OverInv => OverBudgetNeverAccepted
  <2> SUFFICES ASSUME TypeOK, OverInv, Accepted, bounded, Cardinality(written) > MaxFileChanges
               PROVE  \E a \in Actions : ~a.metered /\ a.writes # {} /\ executed[a] > 0
    BY DEF OverBudgetNeverAccepted
  <2>1. ckpt.state.final = "answer"
    BY DEF Accepted, OutcomeOf
  <2>2. ~OnlyMetered
    BY <2>1 DEF OverInv, Over
  <2>3. \A a \in Actions : executed[a] \in Nat
    BY DEF TypeOK
  <2>4. QED
    BY <2>2, <2>3 DEF OnlyMetered
<1>4. QED
  BY <1>1, <1>2, <1>3, InitType, StepType, TestedInit, TestedStep, PTL DEF Spec

-----------------------------------------------------------------------------
(* The conversation keeps the protocol *)

Answer(c) == [role |-> "tool", calls |-> << c >>]

Answers(cs) == [k \in 1 .. Len(cs) |-> Answer(cs[k])]

Question(cs) == [role |-> "assistant", calls |-> cs]

LEMMA MessageTypes ==
  ASSUME NEW c \in Call, NEW cs \in Seq(Call)
  PROVE  Answer(c) \in Message /\ Question(cs) \in Message
<1>1. << c >> \in Seq(Call)
  OBVIOUS
<1>2. QED
  BY <1>1 DEF Answer, Question, Message

LEMMA AnswersType ==
  ASSUME NEW cs \in Seq(Call)
  PROVE  /\ Answers(cs) \in Seq(Message)
         /\ Len(Answers(cs)) = Len(cs)
         /\ \A k \in 1 .. Len(cs) : Answers(cs)[k] = Answer(cs[k])
<1>1. \A k \in 1 .. Len(cs) : Answer(cs[k]) \in Message
  BY MessageTypes
<1>2. Len(cs) \in Nat
  OBVIOUS
<1>3. Answers(cs) \in [1 .. Len(cs) -> Message]
  BY <1>1 DEF Answers
<1>4. Answers(cs) \in Seq(Message)
  BY <1>2, <1>3, SeqDef
<1>5. QED
  BY <1>2, <1>3, <1>4 DEF Answers

LEMMA AnswersEmpty == Answers(<< >>) = << >>
<1>1. Answers(<< >>) \in Seq(Message) /\ Len(Answers(<< >>)) = 0
  BY AnswersType, EmptySeq
<1>2. QED
  BY <1>1, EmptySeq

LEMMA AnswersSplit ==
  ASSUME NEW cs \in Seq(Call), cs # << >>
  PROVE  << Answer(Head(cs)) >> \o Answers(Tail(cs)) = Answers(cs)
<1> DEFINE first == << Answer(Head(cs)) >>
           rest == Answers(Tail(cs))
<1>1. /\ Head(cs) \in Call /\ Tail(cs) \in Seq(Call) /\ Len(Tail(cs)) = Len(cs) - 1
      /\ \A k \in 1 .. Len(Tail(cs)) : Tail(cs)[k] = cs[k + 1]
      /\ Head(cs) = cs[1]
  BY HeadTailProperties
<1>2. Len(cs) \in Nat /\ Len(cs) >= 1
  BY EmptySeq, LenProperties
<1>3. first \in Seq(Message) /\ Len(first) = 1 /\ first[1] = Answer(cs[1])
  BY <1>1, MessageTypes
<1>4. /\ rest \in Seq(Message) /\ Len(rest) = Len(cs) - 1
      /\ \A k \in 1 .. Len(cs) - 1 : rest[k] = Answer(cs[k + 1])
  <2>1. /\ rest \in Seq(Message) /\ Len(rest) = Len(Tail(cs))
        /\ \A k \in 1 .. Len(Tail(cs)) : rest[k] = Answer(Tail(cs)[k])
    BY <1>1, AnswersType, Zenon
  <2> HIDE DEF rest
  <2>2. QED
    BY <1>1, <2>1
<1> HIDE DEF first, rest
<1>5. /\ first \o rest \in Seq(Message) /\ Len(first \o rest) = Len(cs)
      /\ \A i \in 1 .. Len(cs) : (first \o rest)[i] = IF i <= 1 THEN first[i] ELSE rest[i - 1]
  <2>1. /\ first \o rest \in Seq(Message) /\ Len(first \o rest) = Len(first) + Len(rest)
        /\ \A i \in 1 .. Len(first) + Len(rest) :
             (first \o rest)[i] = IF i <= Len(first) THEN first[i] ELSE rest[i - Len(first)]
    BY <1>3, <1>4, ConcatProperties, Zenon
  <2>2. Len(first) + Len(rest) = Len(cs)
    BY <1>2, <1>3, <1>4
  <2>3. QED
    BY <1>3, <2>1, <2>2
<1>6. ASSUME NEW i \in 1 .. Len(cs) PROVE (first \o rest)[i] = Answer(cs[i])
  <2>1. CASE i = 1
    BY <1>3, <1>5, <2>1
  <2>2. CASE i # 1
    <3>1. i - 1 \in 1 .. Len(cs) - 1 /\ (i - 1) + 1 = i /\ ~(i <= 1)
      BY <1>2, <2>2
    <3>2. QED
      BY <1>4, <1>5, <3>1
  <2>3. QED
    BY <2>1, <2>2
<1>7. first \o rest = Answers(cs)
  <2>1. /\ Answers(cs) \in Seq(Message) /\ Len(Answers(cs)) = Len(cs)
        /\ \A i \in 1 .. Len(cs) : Answers(cs)[i] = Answer(cs[i])
    BY AnswersType, Zenon
  <2>2. \A i \in 1 .. Len(first \o rest) : (first \o rest)[i] = Answers(cs)[i]
    BY <1>5, <1>6, <2>1, Zenon
  <2>3. QED
    BY <1>5, <2>1, <2>2, SeqEqual, Zenon
<1>8. QED
  BY <1>7 DEF first, rest

\* A conversation that keeps the protocol keeps it with a question answered.
LEMMA AnsweredWellFormed ==
  ASSUME NEW t \in Seq(Message), WellFormed(t), NEW cs \in Seq(Call)
  PROVE  WellFormed((t \o << Question(cs) >>) \o Answers(cs))
<1> DEFINE q == << Question(cs) >>
           a == Answers(cs)
           n == Len(t)
           u == (t \o q) \o a
<1>1. n \in Nat /\ DOMAIN t = 1 .. n
      /\ Len(cs) \in Nat /\ DOMAIN cs = 1 .. Len(cs)
  BY LenProperties
<1>2. q \in Seq(Message) /\ Len(q) = 1 /\ q[1] = Question(cs)
  <2>1. Question(cs) \in Message
    BY DEF Question, Message
  <2>2. QED
    BY <2>1
<1>3. a \in Seq(Message) /\ Len(a) = Len(cs) /\ \A k \in 1 .. Len(cs) : a[k] = Answer(cs[k])
  BY AnswersType
<1> HIDE DEF q, a
<1>4. /\ t \o q \in Seq(Message) /\ Len(t \o q) = n + 1
      /\ \A i \in 1 .. n + 1 : (t \o q)[i] = IF i <= n THEN t[i] ELSE q[i - n]
  <2>1. /\ t \o q \in Seq(Message) /\ Len(t \o q) = Len(t) + Len(q)
        /\ \A i \in 1 .. Len(t) + Len(q) :
             (t \o q)[i] = IF i <= Len(t) THEN t[i] ELSE q[i - Len(t)]
    BY <1>2, ConcatProperties, Zenon
  <2>2. QED
    BY <1>2, <2>1
<1>5. /\ u \in Seq(Message) /\ Len(u) = n + 1 + Len(cs)
      /\ \A i \in 1 .. n + 1 + Len(cs) :
           u[i] = IF i <= n + 1 THEN (t \o q)[i] ELSE a[i - (n + 1)]
  <2> DEFINE v == t \o q
  <2>1. v \in Seq(Message) /\ Len(v) = n + 1
    BY <1>4
  <2>2. /\ v \o a \in Seq(Message) /\ Len(v \o a) = Len(v) + Len(a)
        /\ \A i \in 1 .. Len(v) + Len(a) :
             (v \o a)[i] = IF i <= Len(v) THEN v[i] ELSE a[i - Len(v)]
    <3>1. v \in Seq(Message) /\ a \in Seq(Message)
      BY <1>3, <2>1
    <3> HIDE DEF v
    <3>2. QED
      BY <3>1, ConcatProperties, Zenon
  <2>3. QED
    BY <1>3, <2>1, <2>2
<1>6. DOMAIN u = 1 .. n + 1 + Len(cs)
  BY <1>5, LenProperties
<1>7. \A i \in 1 .. n : u[i] = t[i]
  BY <1>1, <1>4, <1>5
<1>8. u[n + 1] = Question(cs)
  <2>1. n + 1 \in 1 .. n + 1 /\ n + 1 \in 1 .. n + 1 + Len(cs) /\ (n + 1) - n = 1
    BY <1>1
  <2>2. QED
    BY <1>1, <1>2, <1>4, <1>5, <2>1
<1>9. \A k \in 1 .. Len(cs) : u[n + 1 + k] = Answer(cs[k])
  <2> TAKE k \in 1 .. Len(cs)
  <2>1. n + 1 + k \in 1 .. n + 1 + Len(cs) /\ ~(n + 1 + k <= n + 1) /\ (n + 1 + k) - (n + 1) = k
    BY <1>1
  <2>2. QED
    BY <1>3, <1>5, <2>1
<1> HIDE DEF u
<1>10. SUFFICES ASSUME NEW i \in 1 .. n + 1 + Len(cs)
                PROVE  IF u[i].role = "assistant"
                       THEN \A k \in DOMAIN u[i].calls :
                              /\ i + k \in DOMAIN u
                              /\ u[i + k] = Answer(u[i].calls[k])
                       ELSE \E j \in 1 .. i - 1 :
                              /\ u[j].role = "assistant"
                              /\ i - j \in DOMAIN u[j].calls
                              /\ u[i].calls = << u[j].calls[i - j] >>
  BY <1>6 DEF WellFormed, Answer, u, q, a
<1>11. CASE i \in 1 .. n
  <2>1. u[i] = t[i]
    BY <1>7, <1>11
  <2>2. CASE t[i].role = "assistant"
    <3>1. ASSUME NEW k \in DOMAIN t[i].calls
          PROVE  i + k \in DOMAIN u /\ u[i + k] = Answer(t[i].calls[k])
      <4>1. i + k \in 1 .. n /\ t[i + k] = Answer(t[i].calls[k])
        BY <1>1, <1>11, <2>2, <3>1 DEF WellFormed, Answer
      <4>2. QED
        BY <1>1, <1>6, <1>7, <4>1
    <3>2. QED
      BY <2>1, <2>2, <3>1
  <2>3. CASE t[i].role # "assistant"
    <3>1. PICK j \in 1 .. i - 1 : /\ t[j].role = "assistant"
                                  /\ i - j \in DOMAIN t[j].calls
                                  /\ t[i].calls = << t[j].calls[i - j] >>
      BY <1>1, <1>11, <2>3 DEF WellFormed
    <3>2. j \in 1 .. n
      BY <1>1, <1>11
    <3>3. QED
      BY <1>7, <2>1, <2>3, <3>1, <3>2
  <2>4. QED
    BY <2>2, <2>3
<1>12. CASE i = n + 1
  <2>1. u[i].role = "assistant" /\ u[i].calls = cs
    BY <1>8, <1>12 DEF Question
  <2>2. ASSUME NEW k \in DOMAIN cs
        PROVE  i + k \in DOMAIN u /\ u[i + k] = Answer(cs[k])
    BY <1>1, <1>6, <1>9, <1>12
  <2>3. QED
    BY <2>1, <2>2
<1>13. CASE i > n + 1
  <2> DEFINE k == i - (n + 1)
  <2>1. k \in 1 .. Len(cs) /\ n + 1 + k = i /\ n + 1 \in 1 .. i - 1
    BY <1>1, <1>13
  <2>2. u[i] = Answer(cs[k])
    BY <1>9, <2>1
  <2>3. u[i].role # "assistant" /\ u[i].calls = << cs[k] >>
    BY <2>2 DEF Answer
  <2>4. u[n + 1].role = "assistant" /\ u[n + 1].calls = cs
    BY <1>8 DEF Question
  <2>5. QED
    BY <1>1, <2>1, <2>3, <2>4
<1>14. QED
  BY <1>1, <1>11, <1>12, <1>13

\* Nodes at which no call waits for its answer.
Quiet == {"prepare", "analyze", "llm", "verify", "recover"}

Calling == {"tool", "record", "observe"}

\* While tools run, the turn keeps the protocol once the call at work and the
\* pending ones are answered.
TurnInv ==
  resumes = 0 =>
    /\ pc \in Quiet => /\ st.callId = 0 /\ st.assistant = << >> /\ st.pending = << >>
                       /\ WellFormed(st.turn)
    /\ pc \in {"tool", "record"} => WellFormed(TurnAfterTool \o Answers(st.pending))
    /\ pc = "observe" => \/ st.final # ""
                         \/ /\ st.callId = 0 /\ st.assistant = << >>
                            /\ WellFormed(st.turn \o Answers(st.pending))
    /\ pc \in Calling => \A k \in DOMAIN st.pending : st.pending[k].id # 0

LEMMA TurnElsewhere ==
  ASSUME pc' \notin Quiet \cup Calling
  PROVE  TurnInv'
BY DEF TurnInv, Quiet, Calling

LEMMA TurnKept ==
  ASSUME TurnInv, UNCHANGED <<pc, st, resumes>>
  PROVE  TurnInv'
<1>1. TurnAfterTool' = TurnAfterTool
  BY DEF TurnAfterTool
<1>2. QED
  BY <1>1 DEF TurnInv

LEMMA TurnQuiet ==
  ASSUME TurnInv, pc \in Quiet, resumes' = resumes, NEW node \in Quiet, NEW s, Enter(node, s),
         s.callId = st.callId, s.assistant = st.assistant, s.pending = st.pending,
         s.turn = st.turn
  PROVE  TurnInv'
<1>1. pc' = node /\ st' = s
  BY DEF Enter
<1>2. node \notin Calling
  BY DEF Quiet, Calling
<1>3. QED
  BY <1>1, <1>2 DEF TurnInv, Calling

\* A call without an id has no answer in the conversation.
LEMMA TurnNameless ==
  ASSUME TurnInv, pc \in Quiet, resumes' = resumes, NEW s \in State, Enter("tool", s),
         s.callId = st.callId, s.pending = st.pending, s.turn = st.turn
  PROVE  TurnInv'
<1> SUFFICES ASSUME resumes = 0 PROVE TurnInv'
  BY DEF TurnInv
<1>1. pc' = "tool" /\ st' = s
  BY DEF Enter
<1>2. s.callId = 0 /\ s.pending = << >> /\ WellFormed(s.turn)
  BY DEF TurnInv
<1>3. TurnAfterTool' = s.turn
  BY <1>1, <1>2 DEF TurnAfterTool
<1>4. s.turn \o Answers(<< >>) = s.turn
  BY AnswersEmpty, ConcatEmptySeq, StateFields
<1>5. \A k \in DOMAIN s.pending : FALSE
  BY <1>2
<1>6. QED
  BY <1>1, <1>2, <1>3, <1>4, <1>5 DEF TurnInv, Quiet

\* The first of several calls answered, the others still to be.
LEMMA FirstAnswered ==
  ASSUME NEW t \in Seq(Message), NEW ps \in Seq(Call), ps # << >>,
         \A k \in DOMAIN ps : ps[k].id # 0
  PROVE  /\ Head(ps) \in Call /\ Head(ps) = ps[1] /\ Head(ps).id # 0
         /\ \A k \in DOMAIN Tail(ps) : Tail(ps)[k].id # 0
         /\ (t \o << Answer(Head(ps)) >>) \o Answers(Tail(ps)) = t \o Answers(ps)
<1> DEFINE first == << Answer(Head(ps)) >>
           rest == Answers(Tail(ps))
<1>1. /\ Len(ps) \in Nat /\ Len(ps) >= 1 /\ DOMAIN ps = 1 .. Len(ps)
      /\ ps[1] \in Call /\ Head(ps) = ps[1] /\ ps[1].id # 0
  BY EmptySeq, LenProperties
<1>2. /\ Tail(ps) \in Seq(Call) /\ Len(Tail(ps)) = Len(ps) - 1
      /\ \A k \in 1 .. Len(Tail(ps)) : Tail(ps)[k] = ps[k + 1]
  BY HeadTailProperties
<1>3. \A k \in DOMAIN Tail(ps) : Tail(ps)[k].id # 0
  <2>1. DOMAIN Tail(ps) = 1 .. Len(ps) - 1
    BY <1>2, LenProperties
  <2>2. QED
    BY <1>1, <1>2, <2>1
<1>4. first \in Seq(Message)
  BY <1>1, MessageTypes
<1>5. rest \in Seq(Message)
  BY <1>2, AnswersType
<1>6. first \o rest = Answers(ps)
  BY AnswersSplit
<1> HIDE DEF first, rest
<1>7. (t \o first) \o rest = t \o (first \o rest)
  BY <1>4, <1>5, ConcatAssociative
<1>8. QED
  BY <1>1, <1>3, <1>6, <1>7 DEF first, rest

\* The calls of one response, the first at work and the others pending.
LEMMA TurnNative ==
  ASSUME TurnInv, TypeOK, pc \in Quiet, resumes' = resumes, NEW s \in State, Enter("tool", s),
         NEW calls \in Seq(Call), calls # << >>, \A k \in DOMAIN calls : calls[k].id # 0,
         s.last = calls[1].act, s.callId = calls[1].id, s.assistant = calls,
         s.pending = Tail(calls), s.turn = st.turn
  PROVE  TurnInv'
<1> SUFFICES ASSUME resumes = 0 PROVE TurnInv'
  BY DEF TurnInv
<1>1. pc' = "tool" /\ st' = s
  BY DEF Enter
<1>2. WellFormed(s.turn) /\ s.turn \in Seq(Message)
  BY StateFields DEF TurnInv
<1>3. /\ Head(calls) \in Call /\ Head(calls) = calls[1] /\ Head(calls).id # 0
      /\ \A k \in DOMAIN Tail(calls) : Tail(calls)[k].id # 0
  BY <1>2, FirstAnswered
<1>4. Answer([id |-> s.callId, act |-> s.last]) = Answer(Head(calls))
  BY <1>3 DEF Call
<1>5. TurnAfterTool' = (s.turn \o << Question(calls) >>) \o << Answer(Head(calls)) >>
  BY <1>1, <1>3, <1>4 DEF TurnAfterTool, Answer, Question
<1>6. WellFormed((s.turn \o << Question(calls) >>) \o Answers(calls))
  BY <1>2, AnsweredWellFormed
<1>7. TurnAfterTool' \o Answers(Tail(calls)) = (s.turn \o << Question(calls) >>) \o Answers(calls)
  <2> DEFINE t == s.turn \o << Question(calls) >>
  <2>1. << Question(calls) >> \in Seq(Message)
    BY <1>3, MessageTypes
  <2>2. t \in Seq(Message)
    BY <1>2, <2>1, ConcatProperties
  <2>3. TurnAfterTool' = t \o << Answer(Head(calls)) >>
    BY <1>5
  <2> HIDE DEF t
  <2>4. (t \o << Answer(Head(calls)) >>) \o Answers(Tail(calls)) = t \o Answers(calls)
    BY <2>2, FirstAnswered
  <2>5. TurnAfterTool' \o Answers(Tail(calls)) = t \o Answers(calls)
    BY <2>3, <2>4
  <2>6. QED
    BY <2>5 DEF t
<1>8. \A k \in DOMAIN s.pending : s.pending[k].id # 0
  BY <1>3
<1>9. QED
  BY <1>1, <1>6, <1>7, <1>8 DEF TurnInv, Quiet

\* The next pending call goes to work.
LEMMA TurnPending ==
  ASSUME TurnInv, TypeOK, pc = "observe", st.final = "", st.pending # << >>,
         resumes' = resumes, NEW s \in State, Enter("tool", s),
         s.last = Head(st.pending).act, s.callId = Head(st.pending).id,
         s.assistant = st.assistant, s.pending = Tail(st.pending), s.turn = st.turn
  PROVE  TurnInv'
<1> SUFFICES ASSUME resumes = 0 PROVE TurnInv'
  BY DEF TurnInv
<1> DEFINE ps == st.pending
<1>1. pc' = "tool" /\ st' = s
  BY DEF Enter
<1>2. ps \in Seq(Call) /\ ps # << >> /\ st.turn \in Seq(Message)
  BY StateFields DEF TypeOK
<1>3. /\ st.assistant = << >> /\ WellFormed(st.turn \o Answers(ps))
      /\ \A k \in DOMAIN ps : ps[k].id # 0
  BY DEF TurnInv, Calling
<1>10. s.last = Head(ps).act /\ s.callId = Head(ps).id /\ s.pending = Tail(ps)
  OBVIOUS
<1> HIDE DEF ps
<1>4. /\ Head(ps) \in Call /\ Head(ps).id # 0
      /\ \A k \in DOMAIN Tail(ps) : Tail(ps)[k].id # 0
      /\ (st.turn \o << Answer(Head(ps)) >>) \o Answers(Tail(ps)) = st.turn \o Answers(ps)
  BY <1>2, <1>3, FirstAnswered, Zenon
<1>5. Answer([id |-> s.callId, act |-> s.last]) = Answer(Head(ps))
  BY <1>4, <1>10 DEF Call
<1>6. TurnAfterTool' = (st.turn \o << >>) \o << Answer(Head(ps)) >>
  BY <1>1, <1>3, <1>4, <1>5, <1>10 DEF TurnAfterTool, Answer
<1>7. TurnAfterTool' \o Answers(Tail(ps)) = st.turn \o Answers(ps)
  <2>1. st.turn \o << >> = st.turn
    BY <1>2, ConcatEmptySeq
  <2>2. QED
    BY <1>4, <1>6, <2>1
<1>8. \A k \in DOMAIN s.pending : s.pending[k].id # 0
  BY <1>4, <1>10
<1>9. QED
  BY <1>1, <1>3, <1>7, <1>8, <1>10 DEF TurnInv, Quiet

LEMMA TurnLlm ==
  ASSUME TypeOK, TypeOK', TurnInv, LlmStep
  PROVE  TurnInv'
<1>1. Counted \in State
  BY CountedType
<1>2. /\ Counted.callId = st.callId /\ Counted.assistant = st.assistant
      /\ Counted.pending = st.pending /\ Counted.turn = st.turn
  <2>1. st \in State
    BY DEF TypeOK
  <2>2. QED
    BY <2>1, Zenon DEF Counted, State
<1>3. CASE LlmCancelled \/ LlmNamelessTool
  <2>1. pc' = "persist"
    BY <1>3, Zenon DEF LlmCancelled, LlmNamelessTool, Enter
  <2>2. QED
    BY <2>1, TurnElsewhere DEF Quiet, Calling
<1>4. CASE LlmUnavailable
  <2>1. pc' = "idle"
    BY <1>4, Zenon DEF LlmUnavailable, Halt
  <2>2. QED
    BY <2>1, TurnElsewhere DEF Quiet, Calling
<1>5. CASE LlmPropose
  <2>1. PICK text : Enter("verify", [Counted EXCEPT !.proposed = text])
    BY <1>5, Zenon DEF LlmPropose
  <2> DEFINE s == [Counted EXCEPT !.proposed = text]
  <2>2. /\ s.callId = st.callId /\ s.assistant = st.assistant
        /\ s.pending = st.pending /\ s.turn = st.turn
    BY <1>1, <1>2, Zenon DEF State
  <2>3. Enter("verify", s)
    BY <2>1
  <2>4. pc \in Quiet /\ resumes' = resumes /\ "verify" \in Quiet
    BY <1>5 DEF LlmPropose, Quiet
  <2> HIDE DEF s
  <2>5. QED
    BY <2>2, <2>3, <2>4, TurnQuiet
<1>6. CASE LlmJsonTool
  <2>1. PICK a : Enter("tool", [Counted EXCEPT !.last = a])
    BY <1>6, Zenon DEF LlmJsonTool
  <2> DEFINE s == [Counted EXCEPT !.last = a]
  <2>2. s.callId = st.callId /\ s.pending = st.pending /\ s.turn = st.turn
    BY <1>1, <1>2, Zenon DEF State
  <2>3. Enter("tool", s)
    BY <2>1
  <2>4. s \in State
    BY <2>3, Zenon DEF TypeOK, Enter
  <2>5. pc \in Quiet /\ resumes' = resumes
    BY <1>6 DEF LlmJsonTool, Quiet
  <2> HIDE DEF s
  <2>6. QED
    BY <2>2, <2>3, <2>4, <2>5, TurnNameless
<1>7. CASE LlmNativeTools
  <2>1. PICK n \in 1 .. MaxCalls - issued : \E chosen \in [1 .. n -> Actions] :
          Enter("tool", [Counted EXCEPT
                  !.last = chosen[1], !.callId = issued + 1,
                  !.assistant = [k \in 1 .. n |-> [id |-> issued + k, act |-> chosen[k]]],
                  !.pending = Tail([k \in 1 .. n |-> [id |-> issued + k, act |-> chosen[k]]])])
    BY <1>7, Zenon DEF LlmNativeTools
  <2>10. PICK chosen \in [1 .. n -> Actions] :
          Enter("tool", [Counted EXCEPT
                  !.last = chosen[1], !.callId = issued + 1,
                  !.assistant = [k \in 1 .. n |-> [id |-> issued + k, act |-> chosen[k]]],
                  !.pending = Tail([k \in 1 .. n |-> [id |-> issued + k, act |-> chosen[k]]])])
    BY <2>1
  <2> DEFINE calls == [k \in 1 .. n |-> [id |-> issued + k, act |-> chosen[k]]]
             s == [Counted EXCEPT !.last = chosen[1], !.callId = issued + 1,
                                  !.assistant = calls, !.pending = Tail(calls)]
  <2>2. /\ s.last = chosen[1] /\ s.callId = issued + 1 /\ s.assistant = calls
        /\ s.pending = Tail(calls) /\ s.turn = st.turn
    BY <1>1, <1>2, Zenon DEF State
  <2>3. Enter("tool", s)
    BY <2>10
  <2>4. s \in State
    BY <2>3, Zenon DEF TypeOK, Enter
  <2>5. issued \in Nat /\ n \in Nat \ {0}
    BY BoundsAssumption DEF TypeOK
  <2>6. calls \in Seq(Call)
    BY <2>5, NativeCallsType
  <2>7. /\ DOMAIN calls = 1 .. n /\ calls # << >>
        /\ calls[1].id = issued + 1 /\ calls[1].act = chosen[1]
        /\ \A k \in DOMAIN calls : calls[k].id # 0
    BY <2>5
  <2>8. pc \in Quiet /\ resumes' = resumes
    BY <1>7 DEF LlmNativeTools, Quiet
  <2> HIDE DEF s, calls
  <2>9. QED
    BY <2>2, <2>3, <2>4, <2>6, <2>7, <2>8, TurnNative
<1>8. QED
  BY <1>3, <1>4, <1>5, <1>6, <1>7 DEF LlmStep

LEMMA TurnTool ==
  ASSUME TypeOK, TurnInv, ToolStep
  PROVE  TurnInv'
<1>1. st \in State
  BY DEF TypeOK
<1>2. CASE ToolCancelled
  <2> DEFINE s == [st EXCEPT !.final = "cancelled", !.cancelled = TRUE]
  <2>1. s.final = "cancelled" /\ s.pending = st.pending
    BY <1>1, Zenon DEF State
  <2>2. st' = s /\ pc = "tool" /\ pc' = "observe" /\ resumes' = resumes
    BY <1>2, Zenon DEF ToolCancelled, Enter
  <2> HIDE DEF s
  <2>3. QED
    BY <2>1, <2>2 DEF TurnInv, Quiet, Calling
<1>3. CASE ToolBlocked \/ ToolRun
  <2>1. pc = "tool" /\ pc' = "record" /\ st' = st /\ resumes' = resumes
    BY <1>3, Zenon DEF ToolBlocked, ToolRun
  <2>2. TurnAfterTool' = TurnAfterTool
    BY <2>1 DEF TurnAfterTool
  <2>3. QED
    BY <2>1, <2>2 DEF TurnInv, Quiet, Calling
<1>4. CASE ToolRecord
  <2> DEFINE record == [act |-> st.last, ok |-> inflight = "ok" /\ ~OverBudget]
             After == [st EXCEPT !.records = Append(@, record),
                                 !.counts[st.last] = @ + 1,
                                 !.turn = TurnAfterTool,
                                 !.callId = 0,
                                 !.assistant = << >>]
  <2>1. /\ After.turn = TurnAfterTool /\ After.callId = 0 /\ After.assistant = << >>
        /\ After.pending = st.pending
    BY <1>1, Zenon DEF State
  <2>2. Enter("observe", After) /\ pc = "record" /\ resumes' = resumes
    BY <1>4, Zenon DEF ToolRecord
  <2> HIDE DEF After
  <2>3. st' = After /\ pc' = "observe"
    BY <2>2 DEF Enter
  <2>4. QED
    BY <2>1, <2>2, <2>3 DEF TurnInv, Quiet, Calling
<1>5. QED
  BY <1>2, <1>3, <1>4 DEF ToolStep

LEMMA TurnObserve ==
  ASSUME TypeOK, TypeOK', TurnInv, ObserveStep
  PROVE  TurnInv'
<1>1. st \in State
  BY DEF TypeOK
<1>2. CASE pc' = "persist"
  BY <1>2, TurnElsewhere DEF Quiet, Calling
<1>3. CASE ObservePending /\ pc' # "persist"
  <2> DEFINE s == [st EXCEPT !.last = Head(st.pending).act,
                             !.callId = Head(st.pending).id,
                             !.pending = Tail(st.pending)]
  <2>1. /\ pc = "observe" /\ st.pending # << >> /\ resumes' = resumes
        /\ Enter(IF st.final # "" THEN "persist" ELSE "tool", s)
    BY <1>3, Zenon DEF ObservePending
  <2>2. /\ s.last = Head(st.pending).act /\ s.callId = Head(st.pending).id
        /\ s.assistant = st.assistant /\ s.pending = Tail(st.pending) /\ s.turn = st.turn
    BY <1>1, Zenon DEF State
  <2> HIDE DEF s
  <2>3. st.final = "" /\ Enter("tool", s)
    BY <1>3, <2>1 DEF Enter
  <2>4. s \in State
    BY <2>3, Zenon DEF TypeOK, Enter
  <2>5. QED
    BY <2>1, <2>2, <2>3, <2>4, TurnPending
<1>4. CASE ObserveLimit
  BY <1>2, <1>4, Zenon DEF ObserveLimit, Enter
<1>5. CASE ObserveContinue /\ pc' # "persist"
  <2>1. /\ pc = "observe" /\ st.pending = << >> /\ resumes' = resumes
        /\ Enter(IF st.final # "" THEN "persist" ELSE "llm", st)
    BY <1>5, Zenon DEF ObserveContinue
  <2>2. st.final = "" /\ pc' = "llm" /\ st' = st
    BY <1>5, <2>1 DEF Enter
  <2>3. st.turn \o Answers(<< >>) = st.turn
    BY <1>1, AnswersEmpty, ConcatEmptySeq, StateFields
  <2>4. QED
    BY <2>1, <2>2, <2>3 DEF TurnInv, Quiet, Calling
<1>6. QED
  BY <1>2, <1>3, <1>4, <1>5 DEF ObserveStep

LEMMA TurnStep ==
  TypeOK /\ Control /\ TurnInv /\ TypeOK' /\ [Next]_vars => TurnInv'
<1> SUFFICES ASSUME TypeOK, Control, TurnInv, TypeOK', [Next]_vars PROVE TurnInv'
  OBVIOUS
<1>1. st \in State /\ resumes \in Nat
  BY DEF TypeOK
<1>2. CASE Start
  <2>1. /\ InitialState.callId = 0 /\ InitialState.assistant = << >>
        /\ InitialState.pending = << >> /\ InitialState.turn = << >>
    BY Zenon DEF InitialState
  <2>2. st' = InitialState /\ pc' = "prepare"
    BY <1>2, Zenon DEF Start, Enter
  <2>3. WellFormed(<< >>)
    BY DEF WellFormed
  <2>4. QED
    BY <2>1, <2>2, <2>3 DEF TurnInv, Calling
<1>3. CASE Resume
  <2>1. resumes' = resumes + 1
    BY <1>3, Zenon DEF Resume
  <2>2. resumes' # 0
    BY <1>1, <2>1
  <2>3. QED
    BY <2>2 DEF TurnInv
<1>4. CASE RequestCancel \/ UNCHANGED vars
  BY <1>4, TurnKept, Zenon DEF RequestCancel, vars
<1>5. CASE pc' \notin Quiet \cup Calling
  BY <1>5, TurnElsewhere
<1>6. CASE Crash \/ Interrupt \/ PersistStep \/ AutoEvolve \/ Finish \/ VerifyAccept
  <2>1. pc' \in {"idle", "persist", "persist_answer", "persist_context", "auto_evolve", "finish"}
    BY <1>6, Zenon DEF Crash, Interrupt, Halt, PersistStep, PersistUser, PersistAnswer,
       PersistContext, PersistRejected, AutoEvolve, Finish, VerifyAccept, Enter
  <2>2. QED
    BY <1>5, <2>1 DEF Quiet, Calling
<1>7. CASE (Prepare \/ Analyze) /\ pc' # "persist"
  <2>1. Enter("analyze", st) \/ Enter("llm", st)
    BY <1>7, Zenon DEF Prepare, Analyze, Enter
  <2>2. pc \in Quiet /\ resumes' = resumes
    BY <1>7 DEF Prepare, Analyze, Quiet
  <2>3. "analyze" \in Quiet /\ "llm" \in Quiet
    BY DEF Quiet
  <2>4. QED
    BY <2>1, <2>2, <2>3, TurnQuiet
<1>8. CASE pc' = "persist"
  BY <1>5, <1>8 DEF Quiet, Calling
<1>9. CASE LlmStep
  BY <1>9, TurnLlm
<1>10. CASE ToolStep
  BY <1>10, TurnTool
<1>11. CASE ObserveStep
  BY <1>11, TurnObserve
<1>12. CASE VerifyRefuse /\ pc' # "persist"
  <2>1. Enter("recover", st) /\ pc \in Quiet /\ resumes' = resumes
    BY <1>12, Zenon DEF VerifyRefuse, Enter, Quiet
  <2>2. "recover" \in Quiet
    BY DEF Quiet
  <2>3. QED
    BY <2>1, <2>2, TurnQuiet
<1>13. CASE Recover
  <2> DEFINE s == [st EXCEPT !.recovery = @ + 1, !.proposed = ""]
  <2>1. /\ s.callId = st.callId /\ s.assistant = st.assistant
        /\ s.pending = st.pending /\ s.turn = st.turn
    BY <1>1, Zenon DEF State
  <2>2. Enter("llm", s) /\ pc = "recover" /\ resumes' = resumes
    BY <1>13, Zenon DEF Recover
  <2>3. pc \in Quiet /\ "llm" \in Quiet
    BY <2>2 DEF Quiet
  <2> HIDE DEF s
  <2>4. QED
    BY <2>1, <2>2, <2>3, TurnQuiet
<1>14. QED
  BY <1>2, <1>3, <1>4, <1>6, <1>7, <1>8, <1>9, <1>10, <1>11, <1>12, <1>13 DEF Next, GraphStep

\* Until it is resumed a run sends the model only conversations in which every
\* call of an assistant message is answered once, in order, right after it
\* (_tool_node, _observe_node).
THEOREM ConversationCorrect == Spec => []ConversationWellFormed
<1>1. Init => TurnInv
  BY DEF Init, TurnInv, Quiet, Calling
<1>2. TurnInv => ConversationWellFormed
  BY DEF TurnInv, ConversationWellFormed, Quiet
<1>3. QED
  BY <1>1, <1>2, InitType, StepType, TurnStep, PTL DEF Spec
=============================================================================
