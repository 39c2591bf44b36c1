SPECIFICATION FairServicesSpec
CONSTANTS
  Server = {s}
  Caller = {a, b}
  MaxConns = 3
  MaxEdits = 2
  None = None
  Node = {n, m}
  Peers <- Mutual
  RunnerName = {q, r, x}
  MaxUlid = 3
  MaxClock = 2
  Batch = 2
  MaxWrites = 3
  MaxFailures = 1
INVARIANTS CallsAttended PullsLoseNothing
PROPERTIES ImplementsCalls CallAnswered RowsConverge
CHECK_DEADLOCK FALSE
