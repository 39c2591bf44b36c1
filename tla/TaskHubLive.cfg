SPECIFICATION FairSpec
CONSTANTS
  NumTasks = 2
  MaxAttempts = 2
  MaxTokens = 2
  MaxCalls = 1
  Persistent = {}
  Remotable = {}
  Utm = {1}
  Deadlined = {}
  LoopParents = {}
  SuspendKinds = {"join"}
  Priority <- EqualPriority
PROPERTY TasksMoveOn
CHECK_DEADLOCK FALSE
