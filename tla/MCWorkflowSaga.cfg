\* Resuming after compensation: the newest completed run and what it relies on.
CONSTANTS
  Nodes <- MCNodes
  Deps <- MCDeps
  Order <- MCOrder
  Retries <- MCRetries
  Continue = {"build", "check"}
  Compensable = {"fetch", "build"}
  When <- MCWhen
  Unconditional = Unconditional
  MaxRuns = 3
  MaxEdits = 1
SPECIFICATION Spec
INVARIANT CompletedIsInEffect
CHECK_DEADLOCK FALSE
