---------------------------- MODULE ModelClient ----------------------------
(***************************************************************************)
(* A request to a language model (evolva/agent/llm.py): the models of a    *)
(* route are tried in order, each request is repeated while the failure is *)
(* one that may pass, a model that refuses the temperature is asked again  *)
(* without it, an answer that is not the JSON asked for is sent back, and  *)
(* a stream is read chunk by chunk. The user may cancel at any moment,     *)
(* which is noticed at some points only.                                   *)
(***************************************************************************)
EXTENDS Integers

CONSTANTS
  MlMaxRetries,    \* llm_max_retries
  MlMaxRepairs,    \* llm_structured_retries
  MlMaxModels,     \* models of a route
  MlMaxChunks      \* bound: chunks of a stream

ASSUME MlAssumption ==
  MlMaxRetries \in Nat /\ MlMaxRepairs \in Nat /\ MlMaxModels \in Nat \ {0} /\ MlMaxChunks \in Nat

\* chat as a turn calls it, chat_json as a role does, chat_stream.
MlUses == {"turn", "json", "stream"}
\* "checked" and "cold" are just before a request is sent, "line" just before
\* a chunk is handed over.
MlSteps == {"ready", "checked", "posted", "cold", "cooled", "waiting", "received",
            "reading", "line", "done"}

VARIABLES
  mlUse,       \* never changed
  mlModels,    \* models of the route, never changed
  mlHeated,    \* the request has a temperature
  mlModel,     \* the model that is tried
  mlRound,     \* repairs of the JSON so far
  mlAttempt,   \* retries of the request so far
  mlPc,
  mlOutcome,   \* what the caller gets: "none" as long as it waits
  mlChunks,    \* chunks handed to the caller
  mlCancelled, \* CancellationToken
  mlAfter      \* requests sent and chunks handed over since it was set

mlCourse == <<mlHeated, mlModel, mlRound, mlAttempt>>
mlVars == <<mlUse, mlModels, mlCourse, mlPc, mlOutcome, mlChunks, mlCancelled, mlAfter>>

MlTypeOK ==
  /\ mlUse \in MlUses /\ mlModels \in 1 .. MlMaxModels /\ mlModel \in 1 .. mlModels
  /\ mlRound \in 0 .. MlMaxRepairs /\ mlAttempt \in 0 .. MlMaxRetries
  /\ mlHeated \in BOOLEAN /\ mlCancelled \in BOOLEAN
  /\ mlPc \in MlSteps
  /\ mlOutcome \in {"none", "answer", "cancelled", "error"}
  /\ mlChunks \in 0 .. MlMaxChunks /\ mlAfter \in Nat

\* ModelRouter.route: the preferred model, the configured one and the fallbacks,
\* each once; roles and streams use the configured one.
RouteLengths(use) == IF use = "turn" THEN 1 .. MlMaxModels ELSE {1}

MlInit ==
  /\ mlUse \in MlUses
  /\ mlModels \in RouteLengths(mlUse)
  /\ mlHeated \in BOOLEAN
  /\ mlModel = 1 /\ mlRound = 0 /\ mlAttempt = 0
  /\ mlPc = "ready" /\ mlOutcome = "none" /\ mlChunks = 0
  /\ mlCancelled = FALSE /\ mlAfter = 0

\* Only the pc moves.
MlGoes(from, to) ==
  /\ mlPc = from
  /\ mlPc' = to
  /\ UNCHANGED <<mlUse, mlModels, mlCourse, mlOutcome, mlChunks, mlCancelled, mlAfter>>

MlReturns(outcome) ==
  /\ mlPc' = "done"
  /\ mlOutcome' = outcome
  /\ UNCHANGED <<mlUse, mlModels, mlCourse, mlChunks, mlCancelled, mlAfter>>

\* What the code meets at raise_if_cancelled; a role has no token.
Noticed == mlCancelled

MlCancel ==
  /\ ~mlCancelled /\ mlPc # "done" /\ mlUse # "json"
  /\ mlCancelled' = TRUE
  /\ UNCHANGED <<mlUse, mlModels, mlCourse, mlPc, mlOutcome, mlChunks, mlAfter>>

\* A RuntimeError of a request makes the turn try the next model of its route;
\* another exception, or one that came of the cancellation, does not.
MlFails(isRuntimeError) ==
  IF isRuntimeError /\ mlUse = "turn" /\ mlModel < mlModels
  THEN /\ mlModel' = mlModel + 1
       /\ mlAttempt' = 0
       /\ mlPc' = "ready"
       /\ UNCHANGED <<mlUse, mlModels, mlHeated, mlRound, mlOutcome, mlChunks, mlCancelled, mlAfter>>
  ELSE MlReturns("error")

-----------------------------------------------------------------------------
(* chat *)

\* Mutant: an attempt starts without a look at the token.
AttemptAnyway == MlGoes("ready", "checked")

MlAttempt ==
  IF Noticed THEN mlPc = "ready" /\ MlReturns("cancelled") ELSE MlGoes("ready", "checked")

\* A request is sent, the second time without the temperature.
MlPost ==
  /\ \/ mlPc = "checked" /\ mlPc' = "posted"
     \/ mlPc = "cold" /\ mlPc' = "cooled"
  /\ mlAfter' = IF mlCancelled THEN mlAfter + 1 ELSE mlAfter
  /\ UNCHANGED <<mlUse, mlModels, mlCourse, mlOutcome, mlChunks, mlCancelled>>

\* HTTP 408, 429, 5xx, no connection or none in time: a failure that may pass.
MlPassingFailure ==
  /\ mlPc = "posted" /\ mlUse # "stream"
  /\ IF mlAttempt < MlMaxRetries THEN MlGoes("posted", "waiting") ELSE MlFails(TRUE)

\* HTTP 400 over the temperature: at once, whatever became of the token.
MlTemperatureRefused ==
  /\ mlHeated /\ mlUse # "stream"
  /\ MlGoes("posted", "cold")

\* Another HTTP error, or too large an answer. To the turn an error that speaks
\* of something cancelled is a cancellation.
MlRefused ==
  /\ mlPc \in {"posted", "cooled"}
  /\ \/ MlFails(TRUE)
     \/ mlUse = "turn" /\ MlReturns("cancelled")

\* The connection breaks in the middle, the body is no JSON, or the request
\* without the temperature does not reach the server: no RuntimeError.
MlBroken ==
  /\ mlPc \in {"posted", "cooled", "reading"}
  /\ MlFails(FALSE)

\* The delay, if any, is slept in slices with a look at the token before each.
MlWakes ==
  /\ mlPc = "waiting"
  /\ \/ Noticed /\ MlReturns("cancelled")
     \/ /\ mlAttempt' = mlAttempt + 1
        /\ mlPc' = "ready"
        /\ UNCHANGED <<mlUse, mlModels, mlHeated, mlModel, mlRound, mlOutcome, mlChunks,
                       mlCancelled, mlAfter>>

MlReceive == mlUse # "stream" /\ MlGoes("posted", "received")

\* The answer to a request that kept its temperature is dropped if the user
\* cancelled, the other one is not; one without a message is a RuntimeError.
MlRespond(wellFormed) ==
  /\ mlUse = "turn"
  /\ mlPc \in {"received", "cooled"}
  /\ IF mlPc = "received" /\ Noticed THEN MlReturns("cancelled")
     ELSE IF wellFormed THEN MlReturns("answer") ELSE MlFails(TRUE)

-----------------------------------------------------------------------------
(* chat_json *)

\* An answer that does not hold the object asked for is sent back with what is
\* wrong with it, at temperature 0.
MlRespondJson(valid) ==
  /\ mlUse = "json"
  /\ mlPc \in {"received", "cooled"}
  /\ IF valid THEN MlReturns("answer")
     ELSE IF mlRound < MlMaxRepairs
     THEN /\ mlRound' = mlRound + 1
          /\ mlAttempt' = 0
          /\ mlHeated' = TRUE
          /\ mlPc' = "ready"
          /\ UNCHANGED <<mlUse, mlModels, mlModel, mlOutcome, mlChunks, mlCancelled, mlAfter>>
     ELSE MlReturns("error")

-----------------------------------------------------------------------------
(* chat_stream *)

MlStream == mlUse = "stream" /\ MlGoes("posted", "reading")

\* Each line is preceded by a look at the token.
MlLine ==
  /\ mlPc = "reading"
  /\ mlChunks < MlMaxChunks
  /\ IF Noticed THEN MlReturns("cancelled") ELSE MlGoes("reading", "line")

MlChunk ==
  /\ mlPc = "line"
  /\ mlPc' = "reading"
  /\ mlChunks' = mlChunks + 1
  /\ mlAfter' = IF mlCancelled THEN mlAfter + 1 ELSE mlAfter
  /\ UNCHANGED <<mlUse, mlModels, mlCourse, mlOutcome, mlCancelled>>

\* The end of the stream is an answer, whatever became of the token.
MlEndStream == mlPc = "reading" /\ MlReturns("answer")

MlNext ==
  \/ MlCancel
  \/ MlAttempt
  \/ MlPost
  \/ MlPassingFailure
  \/ MlTemperatureRefused
  \/ MlRefused
  \/ MlBroken
  \/ MlWakes
  \/ MlReceive
  \/ \E wellFormed \in BOOLEAN : MlRespond(wellFormed)
  \/ \E valid \in BOOLEAN : MlRespondJson(valid)
  \/ MlStream
  \/ MlLine
  \/ MlChunk
  \/ MlEndStream

MlSpec == MlInit /\ [][MlNext]_mlVars

-----------------------------------------------------------------------------

\* After a cancellation at most the request in hand is sent, and once more if
\* its temperature is refused; no retry and no other model follows, and of a
\* stream at most one more chunk is handed over (OpenAICompatibleLLM.chat,
\* chat_stream).
CancelStops == mlAfter <= IF mlUse = "turn" /\ mlHeated THEN 2 ELSE 1
=============================================================================
