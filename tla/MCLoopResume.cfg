\* What a resumed run takes over.
CONSTANTS
  Phases <- MCPhases
  Deps <- MCDeps
  Order <- MCOrder
  Kind <- MCKind
  Retries <- MCRetries
  Continue = {"notes", "dream"}
  Gates <- MCGates
  MaxToolCalls = 5
  MaxCommands = 4
  MaxFiles = 1
  MaxRuns = 2
  MaxEdits = 1
SPECIFICATION Spec
INVARIANT ReusedSucceeded
CHECK_DEADLOCK FALSE
