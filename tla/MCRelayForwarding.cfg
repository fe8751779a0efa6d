SPECIFICATION FairSpec
CONSTANTS
  Calls = {c1, c2}
  Streams = {c2}
  HttpBinds = {2}
  MaxBinds = 2
  WriteBuffer = 1
  QueueSize = 1
  MaxEvents = 1
CHECK_DEADLOCK FALSE
INVARIANTS PendingExact ToldTruth StreamGapFree
PROPERTY WaitsEnd
