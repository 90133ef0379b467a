\* A rollback against the files the failed command never touched: expected to
\* be violated.
CONSTANTS
  SbPaths = {"module", "data", "hook"}
  SbWritable = {"module", "data"}
  SbRooted = {"module", "data", "hook"}
  SbIgnored = {"hook"}
  SbSize <- MCSbSize
  SbMaxBytes = 3
  SbContents = {1, 2}
  SbAbsent = 0
  SbBackends = {"local", "docker"}
  SbMaxCommands = 1
SPECIFICATION SbSpec
INVARIANT RollbackKeepsFiles
CHECK_DEADLOCK FALSE
