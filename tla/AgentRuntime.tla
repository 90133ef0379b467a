---------------------------- MODULE AgentRuntime ----------------------------
(***************************************************************************)
(* One turn of the conversational agent: the LangGraph runtime of          *)
(* evolva/agent/langgraph_runtime.py, its checkpoint file                  *)
(* (evolva/agent/checkpoints.py), the turn wrapper of                      *)
(* evolva/agent/core.py and the transcript it appends to the session.      *)
(*                                                                         *)
(* The graph is START -> prepare -> analyze -> llm -> tool -> observe ...  *)
(* -> verify -> recover ... -> persist -> auto_evolve -> END. Every node   *)
(* but auto_evolve merges its update into the state and saves the merged   *)
(* state as the checkpoint before the next node starts. The process may    *)
(* die or be interrupted between any two steps; a later process resumes    *)
(* the run from the checkpoint.                                            *)
(*                                                                         *)
(* Prompts, logs, traces, model routing, usage counters and the plan text  *)
(* are left out: no guard of the graph reads them. Texts are kept only as  *)
(* far as guards tell them apart ("" or not, and what kind of answer).     *)
(***************************************************************************)
EXTENDS Integers, Sequences, FiniteSets

CONSTANTS
  Actions,         \* tool invocations: a tool name with its arguments
  Files,           \* paths the actions may write
  MaxSteps,        \* config.max_steps
  MaxRecovery,     \* config.agent_max_recovery_attempts
  MaxRepeated,     \* max(1, config.agent_max_repeated_actions)
  MaxFileChanges,  \* AgentExecutionBounds.max_file_changes of a loop phase
  NoAction,        \* last_tool_name = None or ""
  MaxCalls,        \* bound: native tool calls in all responses of the run
  MaxResumes       \* bound: how often the run is resumed

Evidence == {"none", "weak", "strong"}

\* name: the tool's name; writes: the paths it changes; code: one of them
\* has a source suffix; evidence: its verification kind, readback or diff
\* ("weak") or test, build, lint, typecheck ("strong"); metered: its name is
\* one of those after which the file-change budget is checked.
ActionType ==
  [name : STRING, writes : SUBSET Files, code : BOOLEAN,
   evidence : Evidence, metered : BOOLEAN]

ASSUME ActionsAssumption ==
  /\ Actions \subseteq ActionType
  /\ NoAction \notin Actions
  /\ \A a \in Actions : a.code => a.writes # {}
  /\ \A a, b \in Actions : a.name = b.name => a.metered = b.metered

ASSUME BoundsAssumption ==
  /\ MaxSteps \in Nat \ {0}
  /\ MaxRecovery \in Nat
  /\ MaxRepeated \in Nat \ {0}
  /\ MaxFileChanges \in Nat
  /\ MaxCalls \in Nat \ {0}
  /\ MaxResumes \in Nat

VARIABLES
  pc,         \* the node about to run, "idle" when no process serves the run
  st,         \* the graph state in memory
  ckpt,       \* the checkpoint file: status and saved state
  cancel,     \* the cancellation token of this process
  bounded,    \* this process was given execution bounds
  inflight,   \* result of the tool that just ran, not yet recorded
  transcript, \* messages this run appended to the session file
  resumes,    \* how often the run was resumed
  issued,     \* native call ids handed out by the provider
  executed,   \* how often each action really ran
  lost,       \* how often it ran without a record of it
  written,    \* files really changed
  untested,   \* code changed after the last check that really passed
  escaped     \* an effect happened that no record reports

worldVars == <<executed, lost, written, untested, escaped>>

vars == <<pc, st, ckpt, cancel, bounded, inflight, transcript, resumes,
          issued, executed, lost, written, untested, escaped>>

-----------------------------------------------------------------------------
(* Types *)

\* What the text in "final" is: an answer the verifier passed, one it refused
\* and returned as incomplete, a proposal no verifier has seen, the step-limit
\* notice or the cancellation notice.
Finals == {"", "answer", "incomplete", "unverified", "limit", "cancelled"}
Nodes == {"prepare", "analyze", "llm", "tool", "record", "observe", "verify",
          "recover", "persist", "persist_answer", "persist_context",
          "auto_evolve", "finish"}
Call == [id : Nat, act : Actions]
Message == [role : {"assistant", "tool"}, calls : Seq(Call)]
Record == [act : Actions, ok : BOOLEAN]

State ==
  [step : Nat, final : Finals, proposed : {"", "answer"},
   records : Seq(Record), counts : [Actions -> Nat],
   last : Actions \cup {NoAction}, callId : Nat, assistant : Seq(Call),
   pending : Seq(Call), turn : Seq(Message), recovery : Nat,
   cancelled : BOOLEAN, stopped : BOOLEAN]

Statuses == {"none", "running", "interrupted", "completed"}

InitialState ==
  [step |-> 0, final |-> "", proposed |-> "", records |-> << >>,
   counts |-> [a \in Actions |-> 0], last |-> NoAction, callId |-> 0,
   assistant |-> << >>, pending |-> << >>, turn |-> << >>, recovery |-> 0,
   cancelled |-> FALSE, stopped |-> FALSE]

TypeOK ==
  /\ pc \in Nodes \cup {"idle"}
  /\ st \in State
  /\ ckpt \in [status : Statuses, state : State]
  /\ cancel \in BOOLEAN
  /\ bounded \in BOOLEAN
  /\ inflight \in {"none", "ok", "failed", "blocked"}
  /\ transcript \in Seq([role : {"user", "assistant"}, text : Finals])
  /\ resumes \in Nat
  /\ issued \in Nat
  /\ executed \in [Actions -> Nat]
  /\ lost \in [Actions -> Nat]
  /\ written \in SUBSET Files
  /\ untested \in BOOLEAN
  /\ escaped \in BOOLEAN

-----------------------------------------------------------------------------
(* The verifier: what _verification_report accepts *)

Mutations(rs) == {i \in DOMAIN rs : rs[i].ok /\ rs[i].act.writes # {}}

\* Every failed record has a later successful one of the same tool.
NoUnresolved(rs) ==
  \A i \in DOMAIN rs :
    ~rs[i].ok => \E j \in DOMAIN rs :
                   j > i /\ rs[j].ok /\ rs[j].act.name = rs[i].act.name

\* A successful check of one of these kinds follows every mutation.
CheckedAfter(rs, kinds) ==
  \E i \in DOMAIN rs :
    /\ rs[i].ok /\ rs[i].act.evidence \in kinds
    /\ \A m \in Mutations(rs) : m < i

\* Mutant: a strong check counts wherever it stands among the records.
PassedAnyOrder(s) ==
  /\ NoUnresolved(s.records)
  /\ \A m \in Mutations(s.records) : s.records[m].act.code =>
       \E i \in DOMAIN s.records :
         s.records[i].ok /\ s.records[i].act.evidence = "strong"
  /\ s.proposed # ""

Passed(s) ==
  /\ NoUnresolved(s.records)
  /\ Mutations(s.records) # {} => CheckedAfter(s.records, {"weak", "strong"})
  /\ (\E m \in Mutations(s.records) : s.records[m].act.code)
       => CheckedAfter(s.records, {"strong"})
  /\ s.proposed # ""

\* Mutant: recovery looks at its own budget only.
CanRecoverBeyondSteps(s) == s.recovery < MaxRecovery

CanRecover(s) == s.recovery < MaxRecovery /\ s.step < MaxSteps

\* core.chat's status for the finished state; TurnResult.verification tells an
\* accepted answer from an incomplete one.
OutcomeOf(s) ==
  IF s.cancelled THEN "cancelled"
  ELSE IF s.stopped THEN "stopped_by_limit"
  ELSE IF s.final = "answer" THEN "accepted"
  ELSE "incomplete"

-----------------------------------------------------------------------------
(* Starting, resuming, stopping a process *)

Init ==
  /\ pc = "idle"
  /\ st = InitialState
  /\ ckpt = [status |-> "none", state |-> InitialState]
  /\ cancel = FALSE
  /\ bounded = FALSE
  /\ inflight = "none"
  /\ transcript = << >>
  /\ resumes = 0
  /\ issued = 0
  /\ executed = [a \in Actions |-> 0]
  /\ lost = [a \in Actions |-> 0]
  /\ written = {}
  /\ untested = FALSE
  /\ escaped = FALSE

\* A node's update becomes the state, the checkpoint holds the merged state,
\* and the conditional edge leads to the next node.
Enter(node, s) ==
  /\ st' = s
  /\ ckpt' = [status |-> "running", state |-> s]
  /\ pc' = node

\* run() without resume_run_id: checkpoint the initial state, invoke the graph.
Start ==
  /\ pc = "idle"
  /\ ckpt.status = "none"
  /\ Enter("prepare", InitialState)
  /\ bounded' \in BOOLEAN
  /\ UNCHANGED <<cancel, inflight, transcript, resumes, issued, worldVars>>

\* Mutant: the restored state forgets the action fingerprints.
ResumeForgetsCounts ==
  /\ pc = "idle"
  /\ ckpt.status \in {"running", "interrupted"}
  /\ resumes < MaxResumes
  /\ resumes' = resumes + 1
  /\ Enter("prepare", [ckpt.state EXCEPT !.final = "",
                                       !.counts = InitialState.counts])
  /\ bounded' = FALSE
  /\ UNCHANGED <<cancel, inflight, transcript, issued, worldVars>>

\* Mutant: a completed run is resumed too.
ResumeCompleted ==
  /\ pc = "idle"
  /\ ckpt.status # "none"
  /\ resumes < MaxResumes
  /\ resumes' = resumes + 1
  /\ Enter("prepare", [ckpt.state EXCEPT !.final = ""])
  /\ bounded' = FALSE
  /\ UNCHANGED <<cancel, inflight, transcript, issued, worldVars>>

\* run(resume_run_id): refuse a completed run; otherwise continue from the
\* saved state with final cleared and everything else as it was. Neither the
\* token nor the execution bounds are in the checkpoint.
Resume ==
  /\ pc = "idle"
  /\ ckpt.status \in {"running", "interrupted"}
  /\ resumes < MaxResumes
  /\ resumes' = resumes + 1
  /\ Enter("prepare", [ckpt.state EXCEPT !.final = ""])
  /\ bounded' = FALSE
  /\ UNCHANGED <<cancel, inflight, transcript, issued, worldVars>>

\* The user asks this process to stop the run. Only the nodes that read the
\* token can tell when it was set, so it is set before one of those.
RequestCancel ==
  /\ pc \in {"prepare", "llm", "tool"}
  /\ ~cancel
  /\ cancel' = TRUE
  /\ UNCHANGED <<pc, st, ckpt, bounded, inflight, transcript, resumes, issued,
                 worldVars>>

\* The process stops serving the run. A tool that ran and is not recorded is
\* forgotten, its effects are not.
Halt ==
  /\ pc' = "idle"
  /\ st' = InitialState
  /\ cancel' = FALSE
  /\ bounded' = FALSE
  /\ inflight' = "none"
  /\ lost' = IF inflight \in {"ok", "failed"}
               THEN [lost EXCEPT ![st.last] = @ + 1] ELSE lost
  /\ escaped' = (escaped \/ (inflight = "ok" /\ st.last.writes # {}))
  /\ UNCHANGED <<transcript, resumes, issued, executed, written, untested>>

\* The process is killed, or leaves by an exception run() does not catch.
Crash ==
  /\ pc # "idle"
  /\ Halt
  /\ UNCHANGED ckpt

\* A node raises: run() marks the last checkpoint interrupted and re-raises.
Interrupt ==
  /\ pc \in Nodes \ {"finish"}
  /\ Halt
  /\ ckpt' = [ckpt EXCEPT !.status = "interrupted"]

-----------------------------------------------------------------------------
(* prepare, analyze *)

Prepare ==
  /\ pc = "prepare"
  /\ IF cancel
       THEN Enter("persist", [st EXCEPT !.final = "cancelled", !.cancelled = TRUE])
       ELSE Enter("analyze", st)
  /\ UNCHANGED <<cancel, bounded, inflight, transcript, resumes, issued, worldVars>>

Analyze ==
  /\ pc = "analyze"
  /\ Enter("llm", st)
  /\ UNCHANGED <<cancel, bounded, inflight, transcript, resumes, issued, worldVars>>

-----------------------------------------------------------------------------
(* llm: one model request; every response counts a step *)

\* Mutant: the step counter runs down.
CountedDown == [st EXCEPT !.step = @ - 1]

Counted == [st EXCEPT !.step = @ + 1]

\* The token is seen before the request or by the client during it.
LlmCancelled ==
  /\ pc = "llm"
  /\ cancel
  /\ Enter("persist", [Counted EXCEPT !.final = "cancelled", !.cancelled = TRUE])
  /\ UNCHANGED <<cancel, bounded, inflight, transcript, resumes, issued, worldVars>>

\* Plain text, a JSON final, or a JSON object without a tool: all propose an
\* answer. Plain text may be blank.
LlmPropose ==
  /\ pc = "llm"
  /\ ~cancel
  /\ \E text \in {"", "answer"} :
       Enter("verify", [Counted EXCEPT !.proposed = text])
  /\ UNCHANGED <<cancel, bounded, inflight, transcript, resumes, issued, worldVars>>

\* The JSON protocol: one tool, and none of the native-call fields touched.
LlmJsonTool ==
  /\ pc = "llm"
  /\ ~cancel
  /\ \E a \in Actions : Enter("tool", [Counted EXCEPT !.last = a])
  /\ UNCHANGED <<cancel, bounded, inflight, transcript, resumes, issued, worldVars>>

\* A JSON tool without a name: _route_after_llm falls through to persist.
LlmNamelessTool ==
  /\ pc = "llm"
  /\ ~cancel
  /\ Enter("persist", [Counted EXCEPT !.last = NoAction])
  /\ UNCHANGED <<cancel, bounded, inflight, transcript, resumes, issued, worldVars>>

\* The native protocol: the first call runs next, the others wait.
LlmNativeTools ==
  /\ pc = "llm"
  /\ ~cancel
  /\ \E n \in 1 .. MaxCalls - issued : \E chosen \in [1 .. n -> Actions] :
       LET calls == [k \in 1 .. n |-> [id |-> issued + k, act |-> chosen[k]]]
       IN  /\ Enter("tool", [Counted EXCEPT !.last = chosen[1],
                                            !.callId = issued + 1,
                                            !.assistant = calls,
                                            !.pending = Tail(calls)])
           /\ issued' = issued + n
  /\ UNCHANGED <<cancel, bounded, inflight, transcript, resumes, worldVars>>

\* Every candidate model failed: the last error is raised.
LlmUnavailable ==
  /\ pc = "llm"
  /\ ~cancel
  /\ Halt
  /\ ckpt' = [ckpt EXCEPT !.status = "interrupted"]

-----------------------------------------------------------------------------
(* tool: guard, effect, record *)

ToolCancelled ==
  /\ pc = "tool"
  /\ cancel
  /\ Enter("observe", [st EXCEPT !.final = "cancelled", !.cancelled = TRUE])
  /\ UNCHANGED <<cancel, bounded, inflight, transcript, resumes, issued, worldVars>>

\* The same action too often: a failed result without running it.
ToolBlocked ==
  /\ pc = "tool"
  /\ ~cancel
  /\ st.counts[st.last] >= MaxRepeated
  /\ inflight' = "blocked"
  /\ pc' = "record"
  /\ UNCHANGED <<st, ckpt, cancel, bounded, transcript, resumes, issued, worldVars>>

\* The tool runs. Success has its effect; a failure may have it too (a command
\* that wrote before it failed, an exception after the tool returned), and
\* then no record will call it a mutation.
ToolRun ==
  /\ pc = "tool"
  /\ ~cancel
  /\ st.counts[st.last] < MaxRepeated
  /\ executed' = [executed EXCEPT ![st.last] = @ + 1]
  /\ \E ok, effect \in BOOLEAN :
       /\ ok => effect
       /\ inflight' = IF ok THEN "ok" ELSE "failed"
       /\ written' = IF effect THEN written \cup st.last.writes ELSE written
       /\ untested' = IF effect /\ st.last.code THEN TRUE
                       ELSE untested /\ ~(ok /\ st.last.evidence = "strong")
       /\ escaped' = (escaped \/ (~ok /\ effect /\ st.last.writes # {}))
  /\ pc' = "record"
  /\ UNCHANGED <<st, ckpt, cancel, bounded, transcript, resumes, issued, lost>>

\* Mutant: one file more than the budget goes unnoticed.
OverBudgetByOne ==
  bounded /\ st.last.metered /\ Cardinality(written) > MaxFileChanges + 1

\* git status shows more changed files than the loop phase allows.
OverBudget ==
  bounded /\ st.last.metered /\ Cardinality(written) > MaxFileChanges

\* Mutant: the assistant message that made the calls is not kept.
TurnWithoutAssistant ==
  IF st.callId = 0 THEN st.turn
  ELSE st.turn
       \o << [role |-> "tool", calls |-> << [id |-> st.callId, act |-> st.last] >>] >>

\* The answer to a pending native call follows the assistant message that made
\* it; only the first answer brings that message along.
TurnAfterTool ==
  IF st.callId = 0 THEN st.turn
  ELSE st.turn
       \o (IF st.assistant = << >> THEN << >>
           ELSE << [role |-> "assistant", calls |-> st.assistant] >>)
       \o << [role |-> "tool", calls |-> << [id |-> st.callId, act |-> st.last] >>] >>

ToolRecord ==
  /\ pc = "record"
  /\ LET ok == inflight = "ok" /\ ~OverBudget
     IN  /\ Enter("observe",
                  [st EXCEPT !.records = Append(@, [act |-> st.last, ok |-> ok]),
                             !.counts[st.last] = @ + 1,
                             !.turn = TurnAfterTool,
                             !.callId = 0,
                             !.assistant = << >>])
         /\ escaped' = (escaped \/ (inflight = "ok" /\ ~ok /\ st.last.writes # {}))
  /\ inflight' = "none"
  /\ UNCHANGED <<cancel, bounded, transcript, resumes, issued, executed, lost,
                 written, untested>>

-----------------------------------------------------------------------------
(* observe: the next pending call, the step limit, or the next request *)

ObservePending ==
  /\ pc = "observe"
  /\ st.pending # << >>
  /\ Enter(IF st.final # "" THEN "persist" ELSE "tool",
           [st EXCEPT !.last = Head(st.pending).act,
                      !.callId = Head(st.pending).id,
                      !.pending = Tail(st.pending)])
  /\ UNCHANGED <<cancel, bounded, inflight, transcript, resumes, issued, worldVars>>

ObserveLimit ==
  /\ pc = "observe"
  /\ st.pending = << >>
  /\ st.step >= MaxSteps
  /\ Enter("persist",
           [st EXCEPT !.final = IF st.proposed # "" THEN "unverified" ELSE "limit",
                      !.stopped = TRUE])
  /\ UNCHANGED <<cancel, bounded, inflight, transcript, resumes, issued, worldVars>>

ObserveContinue ==
  /\ pc = "observe"
  /\ st.pending = << >>
  /\ st.step < MaxSteps
  /\ Enter(IF st.final # "" THEN "persist" ELSE "llm", st)
  /\ UNCHANGED <<cancel, bounded, inflight, transcript, resumes, issued, worldVars>>

-----------------------------------------------------------------------------
(* verify and recover *)

VerifyAccept ==
  /\ pc = "verify"
  /\ Passed(st)
  /\ Enter("persist", [st EXCEPT !.final = st.proposed])
  /\ UNCHANGED <<cancel, bounded, inflight, transcript, resumes, issued, worldVars>>

\* Mutant: nothing is said once no recovery is left.
VerifyRefuseOnlyRecovers ==
  /\ pc = "verify"
  /\ ~Passed(st)
  /\ CanRecover(st)
  /\ Enter("recover", st)
  /\ UNCHANGED <<cancel, bounded, inflight, transcript, resumes, issued, worldVars>>

VerifyRefuse ==
  /\ pc = "verify"
  /\ ~Passed(st)
  /\ IF CanRecover(st)
       THEN Enter("recover", st)
       ELSE Enter("persist", [st EXCEPT !.final = "incomplete"])
  /\ UNCHANGED <<cancel, bounded, inflight, transcript, resumes, issued, worldVars>>

Recover ==
  /\ pc = "recover"
  /\ Enter("llm", [st EXCEPT !.recovery = @ + 1, !.proposed = ""])
  /\ UNCHANGED <<cancel, bounded, inflight, transcript, resumes, issued, worldVars>>

-----------------------------------------------------------------------------
(* persist: two locked appends to the session file, then the context store, *)
(* then the checkpoint                                                       *)

\* final = state.final or state.proposed_final or ""
AnswerText ==
  IF st.final # "" THEN st.final
  ELSE IF st.proposed # "" THEN "unverified" ELSE ""

PersistUser ==
  /\ pc = "persist"
  /\ transcript' = Append(transcript, [role |-> "user", text |-> ""])
  /\ pc' = "persist_answer"
  /\ UNCHANGED <<st, ckpt, cancel, bounded, inflight, resumes, issued, worldVars>>

PersistAnswer ==
  /\ pc = "persist_answer"
  /\ transcript' = Append(transcript, [role |-> "assistant", text |-> AnswerText])
  /\ pc' = "persist_context"
  /\ UNCHANGED <<st, ckpt, cancel, bounded, inflight, resumes, issued, worldVars>>

\* Mutant: the context store takes an empty text.
PersistContextAny ==
  /\ pc = "persist_context"
  /\ Enter("auto_evolve", [st EXCEPT !.final = AnswerText])
  /\ UNCHANGED <<cancel, bounded, inflight, transcript, resumes, issued, worldVars>>

PersistContext ==
  /\ pc = "persist_context"
  /\ AnswerText # ""
  /\ Enter("auto_evolve", [st EXCEPT !.final = AnswerText])
  /\ UNCHANGED <<cancel, bounded, inflight, transcript, resumes, issued, worldVars>>

\* Mutant: the refused text sends the run back to the model.
PersistRejectedAsksAgain ==
  /\ pc = "persist_context"
  /\ AnswerText = ""
  /\ Enter("llm", st)
  /\ UNCHANGED <<cancel, bounded, inflight, transcript, resumes, issued, worldVars>>

\* ContextStore.add refuses an empty text: the node raises.
PersistRejected ==
  /\ pc = "persist_context"
  /\ AnswerText = ""
  /\ Halt
  /\ ckpt' = [ckpt EXCEPT !.status = "interrupted"]

\* auto_evolve only feeds the learning stores and saves no checkpoint.
AutoEvolve ==
  /\ pc = "auto_evolve"
  /\ pc' = "finish"
  /\ UNCHANGED <<st, ckpt, cancel, bounded, inflight, transcript, resumes, issued,
                 worldVars>>

\* run(): the graph returned, whatever its outcome the checkpoint is completed.
Finish ==
  /\ pc = "finish"
  /\ ckpt' = [status |-> "completed", state |-> st]
  /\ pc' = "idle"
  /\ st' = InitialState
  /\ cancel' = FALSE
  /\ UNCHANGED <<bounded, inflight, transcript, resumes, issued, worldVars>>

-----------------------------------------------------------------------------
LlmStep == LlmCancelled \/ LlmPropose \/ LlmJsonTool \/ LlmNamelessTool
           \/ LlmNativeTools \/ LlmUnavailable
ToolStep == ToolCancelled \/ ToolBlocked \/ ToolRun \/ ToolRecord
ObserveStep == ObservePending \/ ObserveLimit \/ ObserveContinue
PersistStep == PersistUser \/ PersistAnswer \/ PersistContext \/ PersistRejected

\* The graph's own progress, one node after the other.
GraphStep ==
  Prepare \/ Analyze \/ LlmStep \/ ToolStep \/ ObserveStep \/ VerifyAccept
  \/ VerifyRefuse \/ Recover \/ PersistStep \/ AutoEvolve \/ Finish

Next == Start \/ Resume \/ RequestCancel \/ Crash \/ Interrupt \/ GraphStep

Spec == Init /\ [][Next]_vars

\* graph.invoke runs its nodes in a loop and every request and tool has a
\* timeout, so a live process keeps stepping. Nobody has to resume a run.
FairSpec == Spec /\ WF_vars(GraphStep)

-----------------------------------------------------------------------------
(* Properties *)

\* No action really runs more than MaxRepeated times in a run, however often
\* the run is cancelled, fails or resumes, except once more for each time the
\* process stopped between the tool's return and its checkpoint.
RepeatBound ==
  \A a \in Actions : executed[a] <= MaxRepeated + lost[a]

\* Requests to the model are bounded by the step limit plus one for every
\* resume (which asks before it looks at the limit), and recovery rounds by
\* their own limit, which survives a restart.
RequestBound ==
  /\ st.step <= MaxSteps + resumes
  /\ ckpt.state.step <= MaxSteps + resumes
  /\ st.recovery <= MaxRecovery
  /\ ckpt.state.recovery <= MaxRecovery

\* Every assistant message is followed by one answer per call, in order, each
\* for the action that call asked for, and nothing else is in the turn.
WellFormed(turn) ==
  \A i \in DOMAIN turn :
    IF turn[i].role = "assistant"
    THEN \A k \in DOMAIN turn[i].calls :
           /\ i + k \in DOMAIN turn
           /\ turn[i + k] = [role |-> "tool", calls |-> << turn[i].calls[k] >>]
    ELSE \E j \in 1 .. i - 1 :
           /\ turn[j].role = "assistant"
           /\ i - j \in DOMAIN turn[j].calls
           /\ turn[i].calls = << turn[j].calls[i - j] >>

\* Whenever the runtime asks the model in a run that was never resumed, the
\* conversation it sends obeys the multi-call tool protocol.
ConversationWellFormed == pc = "llm" /\ resumes = 0 => WellFormed(st.turn)

\* The same of every run, resumed ones too.
ResumedConversationWellFormed == pc = "llm" => WellFormed(st.turn)

Completed == ckpt.status = "completed"
Accepted == Completed /\ OutcomeOf(ckpt.state) = "accepted"

\* A loop phase that changed more files than its budget allows is never
\* reported as an accepted answer, unless an unmetered tool wrote them.
OverBudgetNeverAccepted ==
  Accepted /\ bounded /\ Cardinality(written) > MaxFileChanges
    => \E a \in Actions : ~a.metered /\ a.writes # {} /\ executed[a] > 0

\* A completed run has told its answer: it is not empty, and the session ends
\* with the question and that very answer, whatever crashes came before.
CompletedIsTold ==
  Completed =>
    LET n == Len(transcript)
    IN  /\ n >= 2
        /\ ckpt.state.final # ""
        /\ transcript[n] = [role |-> "assistant", text |-> ckpt.state.final]
        /\ transcript[n - 1].role = "user"

\* The session has one question per process that got as far as persisting,
\* so no more than one without a resume.
ToldOncePerProcess ==
  Cardinality({i \in DOMAIN transcript : transcript[i].role = "user"}) <= 1 + resumes

\* A code change is never accepted on the strength of anything but a check
\* that really passed after it, as long as no effect escaped the records.
AcceptedIsTested == Accepted => ~untested \/ escaped

\* The runtime implements the contract of a durable turn.
Contract ==
  INSTANCE TurnContract WITH
    phase <- IF ckpt.status = "none" THEN "new"
             ELSE IF Completed THEN "closed" ELSE "open",
    outcome <- IF Completed THEN OutcomeOf(ckpt.state) ELSE "none"

\* Every step of the runtime is a step of the contract: a turn opens once,
\* closes once and never changes afterwards.
ImplementsContract == Contract!Spec

\* A process that serves a run always comes to an end of it.
RunEnds == pc # "idle" ~> pc = "idle"
=============================================================================
