\* One run of the agent: an edit and a test run that may each be retried once,
\* two steps, two native calls (one response with two or two with one), one
\* crash or interruption followed by a resume.
SPECIFICATION FairSpec
CONSTANTS
  Actions <- MCActions
  Files <- MCFiles
  NoAction = NoAction
  MaxSteps = 2
  MaxRecovery = 1
  MaxRepeated = 2
  MaxFileChanges = 0
  MaxCalls = 2
  MaxResumes = 1
INVARIANTS
  TypeOK
  RepeatBound
  RequestBound
  ConversationWellFormed
  
  CompletedIsTold
  ToldOncePerProcess
  
PROPERTIES
  
  RunEnds
CHECK_DEADLOCK FALSE
