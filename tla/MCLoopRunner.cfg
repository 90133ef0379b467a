\* Four phases, a run and a second one that may resume it, one edit. A run
\* can complete within the limits, but not with every retry: five calls of at
\* most seven, four commands of at most six, one file of the two written at once or over retries.
CONSTANTS
  Phases <- MCPhases
  Deps <- MCDeps
  Order <- MCOrder
  Kind <- MCKind
  Retries <- MCRetries
  Continue = {"notes", "dream"}
  Gates <- MCGates
  MaxToolCalls = 5
  MaxCommands = 4
  MaxFiles = 1
  MaxRuns = 2
  MaxEdits = 1
SPECIFICATION FairSpec
INVARIANTS
  TypeOK
  LimitsHold
  ExceededIsReported
  CompletedMeansSucceeded
  RunsOnResults
PROPERTIES
  NothingAfterLimit
  RunEnds
CHECK_DEADLOCK FALSE
