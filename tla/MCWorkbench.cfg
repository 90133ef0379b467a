\* Approvals in the default renderer: expected to be violated.
CONSTANTS
  WbRenderers = {"textual"}
  WbKinds = {"chat"}
  WbMaxTurns = 1
  WbMaxAsks = 1
SPECIFICATION WbSpec
PROPERTY ApprovalAnswered
CHECK_DEADLOCK FALSE
