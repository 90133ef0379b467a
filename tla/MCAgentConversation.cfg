\* The conversation sent to the model in every run, resumed ones too.
SPECIFICATION Spec
CONSTANTS
  Actions <- MCActions
  Files <- MCFiles
  NoAction = NoAction
  MaxSteps = 2
  MaxRecovery = 1
  MaxRepeated = 2
  MaxFileChanges = 0
  MaxCalls = 2
  MaxResumes = 1
INVARIANT
  ResumedConversationWellFormed
CHECK_DEADLOCK FALSE
