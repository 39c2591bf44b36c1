SPECIFICATION FairRecoverySpec
CONSTANTS
  NumFiles = 3
  Item = {"clear", "vague"}
  Author <- Authors
  Vague = {"vague"}
  DrainCap = 2
  ApplyCap = 2
  MaxFaults = 1
  Gateway = {g}
  Session = {s}
  Message = {m}
  Loop = {l}
  MaxStarts = 1
  MaxFailures = 1
INVARIANTS ItemsAccounted EndsAreOutlived
PROPERTY CaptureSettles
CHECK_DEADLOCK FALSE
