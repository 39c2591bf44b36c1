SPECIFICATION FairWorkspaceSpec
CONSTANTS
  Create = {a, b}
  First = a
  Name = {n}
  Role = {dev, worker}
  MainRole = dev
  None = None
  MaxTyped = 2
  MaxFrames = 3
INVARIANTS TasksFollowSessions RelaysFaithfully
PROPERTIES TasksSettle RelayEnds
CHECK_DEADLOCK FALSE
