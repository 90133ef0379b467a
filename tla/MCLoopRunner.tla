---------------------------- MODULE MCLoopRunner ----------------------------
(* An agent implements, a tool writes notes, a shell phase tests what the   *)
(* agent made, a dream phase follows both. The tests are tried three times  *)
(* and the others twice; a command gates the implementation, two more gate  *)
(* the tests; the notes and the dream may fail.                             *)
EXTENDS LoopRunner

MCPhases == {"implement", "notes", "test", "dream"}
MCDeps == [p \in MCPhases |-> CASE p = "implement" -> {}
                                [] p = "notes" -> {"implement"}
                                [] p = "test" -> {"implement"}
                                [] p = "dream" -> {"notes", "test"}]
MCOrder == <<"implement", "notes", "test", "dream">>
MCKind == [p \in MCPhases |-> CASE p = "implement" -> "agent"
                                [] p = "notes" -> "tool"
                                [] p = "test" -> "shell"
                                [] p = "dream" -> "dream"]
MCRetries == [p \in MCPhases |-> IF p = "test" THEN 2 ELSE 1]
MCGates == [p \in MCPhases |->
              CASE p = "implement" -> <<"command_success", "phase_success">>
                [] p = "test" -> <<"command_success", "output_contains", "command_success">>
                [] OTHER -> << >>]
=============================================================================
