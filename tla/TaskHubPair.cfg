SPECIFICATION Spec
CONSTANTS
  NumTasks = 2
  MaxAttempts = 2
  MaxTokens = 2
  MaxCalls = 1
  Persistent = {2}
  Remotable = {2}
  Utm = {2}
  Deadlined = {2}
  LoopParents = {1}
  SuspendKinds = {"schedule", "human"}
  Priority <- MixedPriority
PROPERTY ImplementsLifecycle
CHECK_DEADLOCK FALSE
