SPECIFICATION FairBusSpec
CONSTANTS
  Rule = {r}
  Actions <- OneWebhook
  MaxEvents = 2
  Writers = 1
  MaxDepth = 1
  MaxAttempts = 2
  RateLimit = 1
  BatchSize = 2
  MaxConcurrency = 1
  MaxCrashes = 1
  MaxRuns = 2
  SinkBatch = 2
  SinkCrashes = 1
  MaxBatch = 2
  MaxRows = 2
  MaxFaults = 2
INVARIANTS ReadersSkipNothing EffectsBounded EnvelopesAccounted
PROPERTIES EventsGetThrough
CHECK_DEADLOCK FALSE
