SPECIFICATION PathSpec
CONSTANTS
  Procs = {p1, p2, p3}
  t1 = t1
  t2 = t2
  Jtis = {t1, t2}
  None = None
  Terminal = {"completed", "failed", "cancelled", "expired", "rejected"}
  NotBefore <- McNotBefore
  ExpiresAt <- McExpiresAt
  Skew = 1
  Retention = 2
  Limit = 1
  MaxDelay = 1
  MaxClock = 7
  c1 = c1
  c2 = c2
  Conns = {c1, c2}
  Gated = TRUE
  MaxConcurrent = 1
  Streaming = TRUE
  WriteBuffer = 1
  MaxRequests <- McRequests
  MaxEvents = 1
  r3 = r3
  CdRequests = {r1, r2, r3}
  CdBodies <- McCdBodies
  CdNodes = {"a", "b", "c"}
  CdInfo <- McCdInfo
  CdDiscoveries <- McCdDiscoveries
  CdConfig <- McCdConfig
  CdBalances = {NoValue, 0, 1}
  CdNonces = {x1}
  NoValue = NoValue
  n1 = n1
  n2 = n2
  n3 = n3
  n4 = n4
  SdkNodes = {n1, n2, n3, n4}
  SdkNode <- McSdkNode
  SdkConfigs <- McSdkConfigs
INVARIANTS SessionSound SessionBudgetHolds AwardsEarned NoResendToSilentNode SentOnlyAsAgreed
PROPERTY ImplementsTicket
CHECK_DEADLOCK FALSE
