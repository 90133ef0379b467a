CONSTANTS
  SbPaths = {"module", "data", "hook"}
  SbWritable = {"module", "data"}
  SbRooted = {"module", "data", "hook"}
  SbIgnored = {"hook"}
  SbSize <- MCSbSize
  SbMaxBytes = 3
  SbContents = {1, 2}
  SbAbsent = 0
  SbBackends = {"local", "docker"}
  SbMaxCommands = 2
  McpThreads = {"a", "b"}
  McpFree = "free"
  McpMaxClients = 2
  McpMaxRequests = 2
  McpMaxEdits = 1
  MaMaxRoles = 3
  MaMaxToolSteps = 1
  MaRequests <- MCMaRequests
  WbRenderers = {"curses", "textual", "inline"}
  WbKinds = {"chat", "tool"}
  WbMaxTurns = 2
  WbMaxAsks = 1
  LdIntents = {"web_feature", "docs"}
  LdPlans <- MCLdPlans
  LdFound <- MCLdFound
  LdProcesses = {"cli", "tui"}
  LdMaxOps = 4
  StProcs = {"p", "q"}
  StNobody = "nobody"
  StMaxKept = 2
  StPruneEvery = 2
  StMaxAdds = 3
  TgThreads = {"a", "b"}
  TgCalls <- MCTgCalls
  TgConfigs <- MCTgConfigs
  TgMaxCalls = 2
  MlMaxRetries = 1
  MlMaxRepairs = 1
  MlMaxModels = 2
  MlMaxChunks = 2
  RiFiles = 2
  RiThreads = {"a", "b"}
  RiMaxEdits = 1
  RiMaxUses = 2
SPECIFICATION PlatformSpec
INVARIANTS
  
  
  RunsOnEvidence
  
  
  RunsWhatWasConfirmed
  
  RunsOnConsent
  CancelStops
  SearchIsCurrent
PROPERTIES
  CollaborationEnds
  
CHECK_DEADLOCK FALSE
