SPECIFICATION Spec
CONSTANTS
  NumTasks = 1
  MaxAttempts = 3
  MaxTokens = 4
  MaxCalls = 2
  Persistent = {}
  Remotable = {1}
  Utm = {1}
  Deadlined = {1}
  LoopParents = {}
  SuspendKinds = {}
  Priority <- EqualPriority
INVARIANT NoIdleCredential
PROPERTY TerminalIsFinalOnceSettled
CHECK_DEADLOCK FALSE
