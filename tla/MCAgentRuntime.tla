--------------------------- MODULE MCAgentRuntime ---------------------------
(* Constants for model checking AgentRuntime. *)
EXTENDS AgentRuntime

Edit  == [name |-> "write_file", writes |-> {"code.py"}, code |-> TRUE,
          evidence |-> "none", metered |-> TRUE]
Check == [name |-> "run_tests", writes |-> {}, code |-> FALSE,
          evidence |-> "strong", metered |-> FALSE]

MCFiles == {"code.py"}
MCActions == {Edit, Check}
=============================================================================
