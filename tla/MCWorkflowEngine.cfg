\* Four nodes, a first run and two resumes, one edit of a node.
CONSTANTS
  Nodes <- MCNodes
  Deps <- MCDeps
  Order <- MCOrder
  Retries <- MCRetries
  Continue = {"build", "check"}
  Compensable = {"fetch", "build"}
  When <- MCWhen
  Unconditional = Unconditional
  MaxRuns = 3
  MaxEdits = 1
SPECIFICATION FairSpec
INVARIANTS
  TypeOK
  
  ReuseIsMaximal
  CompensatesDependentsFirst
  FailedIsCompensated
PROPERTY RunEnds
CHECK_DEADLOCK FALSE
