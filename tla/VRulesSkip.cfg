SPECIFICATION BusSpec
CONSTANTS
  Rule = {r}
  Actions <- OneWebhook
  MaxEvents = 2
  Writers = 2
  MaxDepth = 1
  MaxAttempts = 2
  RateLimit = 1
  BatchSize = 2
  MaxConcurrency = 1
  MaxCrashes = 0
  MaxRuns = 2
  SinkBatch = 2
  SinkCrashes = 0
  MaxBatch = 1
  MaxRows = 0
  MaxFaults = 0
INVARIANT NothingSkipped
CHECK_DEADLOCK FALSE
