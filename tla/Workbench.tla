----------------------------- MODULE Workbench -----------------------------
(***************************************************************************)
(* The terminal workbench of evolva/tui.py: a UI thread that reads lines   *)
(* and keys, worker threads that run turns, tools, loops and workflows, a  *)
(* queue that carries their messages to the UI thread, and one slot for    *)
(* the approval a tool call waits for. The three renderers share all of it *)
(* and differ in what the UI thread does: curses answers approvals with    *)
(* keys, Textual (the default) reads lines only, the inline one runs chat  *)
(* on the UI thread and waits for every other worker before it reads on.   *)
(*                                                                         *)
(* The order of the assignments that open or close the approval slot is    *)
(* not modelled, nor are display and line editing.                         *)
(***************************************************************************)
EXTENDS Integers, Sequences, FiniteSets

CONSTANTS
  WbRenderers, \* the renderers a run of the model may have
  WbKinds,     \* kinds of work submitted
  WbMaxTurns,  \* bound: workers started
  WbMaxAsks    \* bound: approvals a thread asks for

ASSUME WbAssumption ==
  /\ WbRenderers \subseteq {"curses", "textual", "inline"}
  /\ WbKinds \subseteq {"chat", "image", "resume", "tool", "loop", "draft", "workflow"}
  /\ WbMaxTurns \in Nat /\ WbMaxAsks \in Nat

VARIABLES
  wbRenderer,
  wbUi,      \* the UI thread: "reading", "calling" a tool or the agent itself,
             \* "draining" for the end of a worker, or "exited"
  wbBusy,    \* EvolvaTUI.busy
  wbToken,   \* current_cancellation: the turn it cancels, or 0
  wbTurns,   \* workers started
  wbWorker,  \* [1 .. WbMaxTurns -> worker]
  wbQueue,   \* messages for the UI thread
  wbSlot,    \* who waits for the approval shown, or Nobody
  wbAnswer,  \* confirmation_answer
  wbSet,     \* threads whose confirmation event is set
  wbAsks,    \* [Threads -> approvals asked for]
  wbWizard,  \* step of the configuration wizard, or 0
  wbConfig   \* provider configuration, flipped by every change

wbApproval == <<wbSlot, wbAnswer, wbSet, wbAsks>>
wbSetup == <<wbWizard, wbConfig>>
wbVars == <<wbRenderer, wbUi, wbBusy, wbToken, wbTurns, wbWorker, wbQueue, wbApproval, wbSetup>>

Turns == 1 .. WbMaxTurns
UiThread == 0
Threads == {UiThread} \cup Turns
Nobody == WbMaxTurns + 1
WbAnswers == {"once", "session", "deny"}
WbWorkers == [kind : WbKinds \cup {"none"}, pc : {"none", "running", "asking", "done"},
           told : BOOLEAN, cancelled : BOOLEAN]
Messages == {"agent_event", "agent_result", "tool_result", "loop_result", "system", "error"}
IdleWorker == [kind |-> "none", pc |-> "none", told |-> FALSE, cancelled |-> FALSE]

WbTypeOK ==
  /\ wbRenderer \in WbRenderers
  /\ wbUi \in {"reading", "calling", "draining", "exited"}
  /\ wbBusy \in BOOLEAN /\ wbToken \in {0} \cup Turns /\ wbTurns \in 0 .. WbMaxTurns
  /\ wbWorker \in [Turns -> WbWorkers]
  /\ wbQueue \in Seq(Messages)
  /\ wbSlot \in Threads \cup {Nobody} /\ wbAnswer \in WbAnswers \cup {"none"}
  /\ wbSet \subseteq Threads /\ wbAsks \in [Threads -> 0 .. WbMaxAsks]
  /\ wbWizard \in 0 .. 4 /\ wbConfig \in BOOLEAN

WbInit ==
  /\ wbRenderer \in WbRenderers
  /\ wbUi = "reading" /\ wbBusy = FALSE /\ wbToken = 0 /\ wbTurns = 0
  /\ wbWorker = [n \in Turns |-> IdleWorker]
  /\ wbQueue = << >>
  /\ wbSlot = Nobody /\ wbAnswer = "none" /\ wbSet = {} /\ wbAsks = [n \in Threads |-> 0]
  /\ wbWizard = 0 /\ wbConfig = FALSE

-----------------------------------------------------------------------------
(* Lines and keys *)

\* Curses gives every key to an approval that is being asked for.
Reads == wbUi = "reading" /\ (wbRenderer = "curses" => wbSlot = Nobody)

\* Mutant: a line is taken while a worker runs.
ReadsAlways == Reads /\ wbWizard = 0

\* _handle_key, on_evolva_input_submitted: a command is taken when nothing runs
\* and no wizard is open. An empty line is ignored, in the wizard too.
ReadsCommand == Reads /\ ~wbBusy /\ wbWizard = 0

\* _launch_chat and the commands that start a thread. Only a chat has a token.
\* Inline waits for the worker, and runs chat as InlineChat does.
Submit(kind) ==
  /\ ReadsCommand
  /\ wbRenderer = "inline" => kind # "chat"
  /\ wbTurns < WbMaxTurns
  /\ wbTurns' = wbTurns + 1
  /\ wbWorker' = [wbWorker EXCEPT ![wbTurns + 1] =
       [IdleWorker EXCEPT !.kind = kind, !.pc = "running"]]
  /\ wbBusy' = TRUE
  /\ wbToken' = IF kind = "chat" THEN wbTurns + 1 ELSE wbToken
  /\ wbUi' = IF wbRenderer = "inline" THEN "draining" ELSE wbUi
  /\ UNCHANGED <<wbRenderer, wbQueue, wbApproval, wbSetup>>

\* _handle_command: whatever starts no thread is done on the UI thread, be it a
\* view, a dream, a plan of the model or, with /mcp and /repo, the call of a tool.
CallOnUiThread ==
  /\ ReadsCommand
  /\ wbUi' = "calling"
  /\ UNCHANGED <<wbRenderer, wbBusy, wbToken, wbTurns, wbWorker, wbQueue, wbApproval, wbSetup>>

\* EvolvaInlineTUI.run chats on the UI thread.
InlineChat ==
  /\ ReadsCommand
  /\ wbRenderer = "inline"
  /\ wbUi' = "calling"
  /\ wbBusy' = TRUE
  /\ UNCHANGED <<wbRenderer, wbToken, wbTurns, wbWorker, wbQueue, wbApproval, wbSetup>>

\* cancel_active
Cancel ==
  /\ Reads
  /\ wbBusy /\ wbToken # 0
  /\ wbWorker' = [wbWorker EXCEPT ![wbToken].cancelled = TRUE]
  /\ UNCHANGED <<wbRenderer, wbUi, wbBusy, wbToken, wbTurns, wbQueue, wbApproval, wbSetup>>

\* The answers of _handle_key to an approval.
AnswerKey(answer) ==
  /\ wbRenderer = "curses" /\ wbUi = "reading"
  /\ wbSlot # Nobody
  /\ wbAnswer' = answer
  /\ wbSet' = wbSet \cup {wbSlot}
  /\ UNCHANGED <<wbRenderer, wbUi, wbBusy, wbToken, wbTurns, wbWorker, wbQueue, wbSlot, wbAsks,
                 wbSetup>>

\* /model, /config set and /config clear, and the inline wizard as a whole.
Configure ==
  /\ ReadsCommand
  /\ wbConfig' = ~wbConfig
  /\ UNCHANGED <<wbRenderer, wbUi, wbBusy, wbToken, wbTurns, wbWorker, wbQueue, wbApproval,
                 wbWizard>>

StartWizard ==
  /\ ReadsCommand
  /\ wbRenderer # "inline"
  /\ wbWizard' = 1
  /\ UNCHANGED <<wbRenderer, wbUi, wbBusy, wbToken, wbTurns, wbWorker, wbQueue, wbApproval,
                 wbConfig>>

\* _handle_config_wizard_input: model, base_url, temperature, api_key; the last
\* one saves and applies them.
WizardLine ==
  /\ Reads
  /\ wbWizard # 0
  /\ wbWizard' = IF wbWizard = 4 THEN 0 ELSE wbWizard + 1
  /\ wbConfig' = IF wbWizard = 4 THEN ~wbConfig ELSE wbConfig
  /\ UNCHANGED <<wbRenderer, wbUi, wbBusy, wbToken, wbTurns, wbWorker, wbQueue, wbApproval>>

\* Escape ends the wizard of curses only.
LeaveWizard ==
  /\ Reads
  /\ wbRenderer = "curses" /\ wbWizard # 0
  /\ wbWizard' = 0
  /\ UNCHANGED <<wbRenderer, wbUi, wbBusy, wbToken, wbTurns, wbWorker, wbQueue, wbApproval,
                 wbConfig>>

\* /exit, which Textual takes at any time; and the ValueError a temperature that
\* is no number raises in the wizard. Workers are daemon threads: they are gone.
Exit ==
  /\ \/ ReadsCommand
     \/ Reads /\ wbRenderer = "textual"
     \/ Reads /\ wbWizard = 3
  /\ wbUi' = "exited"
  /\ UNCHANGED <<wbRenderer, wbBusy, wbToken, wbTurns, wbWorker, wbQueue, wbApproval, wbSetup>>

-----------------------------------------------------------------------------
(* Threads *)

ThreadRuns(n) ==
  /\ wbUi # "exited"
  /\ IF n = UiThread THEN wbUi = "calling" /\ wbSlot # UiThread ELSE wbWorker[n].pc = "running"

\* request_approval: the slot is taken, whoever waits in it.
Ask(n) ==
  /\ ThreadRuns(n)
  /\ wbAsks[n] < WbMaxAsks
  /\ wbAsks' = [wbAsks EXCEPT ![n] = @ + 1]
  /\ wbSlot' = n
  /\ wbAnswer' = "none"
  /\ wbWorker' = IF n = UiThread THEN wbWorker ELSE [wbWorker EXCEPT ![n].pc = "asking"]
  /\ UNCHANGED <<wbRenderer, wbUi, wbBusy, wbToken, wbTurns, wbQueue, wbSet, wbSetup>>

\* event.wait() returns; the slot is emptied, whoever took it since.
Wake(n) ==
  /\ wbUi # "exited"
  /\ n \in wbSet
  /\ wbSet' = wbSet \ {n}
  /\ wbSlot' = Nobody
  /\ wbAnswer' = "none"
  /\ wbWorker' = IF n = UiThread THEN wbWorker ELSE [wbWorker EXCEPT ![n].pc = "running"]
  /\ UNCHANGED <<wbRenderer, wbUi, wbBusy, wbToken, wbTurns, wbQueue, wbAsks, wbSetup>>

\* _queue_agent_event
Tell(n) ==
  /\ n # UiThread /\ ThreadRuns(n)
  /\ wbWorker[n].kind \in {"chat", "image", "resume"} /\ ~wbWorker[n].told
  /\ wbWorker' = [wbWorker EXCEPT ![n].told = TRUE]
  /\ wbQueue' = Append(wbQueue, "agent_event")
  /\ UNCHANGED <<wbRenderer, wbUi, wbBusy, wbToken, wbTurns, wbApproval, wbSetup>>

\* What the worker of each kind of work says last, when all goes well.
LastWord(kind) ==
  CASE kind \in {"chat", "image", "resume"} -> "agent_result"
    [] kind = "tool"                        -> "tool_result"
    [] kind \in {"loop", "draft"}           -> "loop_result"
    [] OTHER                                -> "system"

\* The worker's result or error is the last thing it does.
EndWorker(n, message) ==
  /\ ThreadRuns(n)
  /\ message \in {LastWord(wbWorker[n].kind), "error"}
  /\ wbWorker' = [wbWorker EXCEPT ![n].pc = "done"]
  /\ wbQueue' = Append(wbQueue, message)
  /\ UNCHANGED <<wbRenderer, wbUi, wbBusy, wbToken, wbTurns, wbApproval, wbSetup>>

EndCall ==
  /\ ThreadRuns(UiThread)
  /\ wbUi' = "reading"
  /\ wbBusy' = FALSE
  /\ UNCHANGED <<wbRenderer, wbToken, wbTurns, wbWorker, wbQueue, wbApproval, wbSetup>>

\* Mutant: an event clears busy as a result does.
AnyEnds(message) == TRUE

\* Mutant: an error is shown and the workbench stays busy.
ResultEnds(message) == message \notin {"agent_event", "error"}

EndsTurn(message) == message # "agent_event"

\* _drain_queue, one message.
Drain ==
  /\ wbUi \in {"reading", "draining"}
  /\ wbQueue # << >>
  /\ wbQueue' = Tail(wbQueue)
  /\ wbBusy' = (wbBusy /\ ~EndsTurn(Head(wbQueue)))
  /\ wbToken' = IF EndsTurn(Head(wbQueue)) THEN 0 ELSE wbToken
  /\ UNCHANGED <<wbRenderer, wbUi, wbTurns, wbWorker, wbApproval, wbSetup>>

\* _wait_for_background
ReadOn ==
  /\ wbUi = "draining" /\ ~wbBusy
  /\ wbUi' = "reading"
  /\ UNCHANGED <<wbRenderer, wbBusy, wbToken, wbTurns, wbWorker, wbQueue, wbApproval, wbSetup>>

WbNext ==
  \/ \E kind \in WbKinds : Submit(kind)
  \/ CallOnUiThread \/ InlineChat
  \/ Cancel
  \/ \E answer \in WbAnswers : AnswerKey(answer)
  \/ Configure \/ StartWizard \/ WizardLine \/ LeaveWizard \/ Exit
  \/ \E n \in Threads : Ask(n) \/ Wake(n) \/ Tell(n)
  \/ \E n \in Turns, message \in Messages : EndWorker(n, message)
  \/ EndCall \/ Drain \/ ReadOn

\* Threads go on and their work ends at last, the UI thread drains the queue,
\* and the user answers where keys are read for it.
WbFairness ==
  /\ WF_wbVars(\E answer \in WbAnswers : AnswerKey(answer))
  /\ WF_wbVars(Drain) /\ WF_wbVars(ReadOn) /\ WF_wbVars(EndCall)
  /\ \A n \in Threads : WF_wbVars(Wake(n))
  /\ \A n \in Turns : WF_wbVars(\E message \in Messages : EndWorker(n, message))

WbSpec == WbInit /\ [][WbNext]_wbVars /\ WbFairness

-----------------------------------------------------------------------------

\* At most one worker is alive, the workbench is busy as long as it is, and a
\* token cancels the worker that is alive or has just ended: what runs can be
\* seen and cancelled, and two turns never share the agent.
TurnsSerialized ==
  LET alive == {n \in Turns : wbWorker[n].pc \in {"running", "asking"}} IN
  /\ Cardinality(alive) <= 1
  /\ alive # {} => wbBusy
  /\ \A n \in alive : wbToken \in {0, n}
  /\ wbBusy /\ wbUi # "calling" => alive # {} \/ \E i \in DOMAIN wbQueue : wbQueue[i] # "agent_event"

\* The provider configuration is never replaced under running work.
ConfiguredAtRest ==
  [][wbConfig' # wbConfig => \A n \in Turns : wbWorker[n].pc \in {"none", "done"}]_wbVars

\* In curses whatever was started ends: approvals are answered, results drained.
BusyEnds == wbRenderer = "curses" /\ wbBusy ~> ~wbBusy

\* High-risk calls are approved once, for the session or not at all: an approval
\* a worker asks for is answered, unless the workbench is left.
ApprovalAnswered ==
  \A n \in Turns : wbSlot = n ~> wbSlot # n \/ wbUi = "exited"
=============================================================================
