SPECIFICATION ReportsSpec
CONSTANTS
  StartToken = 0
  CheckEvery = 2
  Grace = 2
  Supervised = TRUE
  MaxTasks = 2
  MaxMoves = 2
  MaxFaults = 1
  BhServers <- McServers
  LoadingRetry = 1
  UnstableRetry = 2
  RuntimeStale = 1
  SupervisorStale = 2
  BhMaxAge = 4
INVARIANTS SessionSafe LiveMeansAlive
PROPERTIES TokenHeals DrainRunsItsTime
CHECK_DEADLOCK FALSE
