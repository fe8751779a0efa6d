SPECIFICATION MeshSpec
CONSTANTS
  w1 = w1
  w2 = w2
  k1 = k1
  Workers = {w1, w2}
  Tcp = {s1, s2}
  Http = {h1}
  Tickets = {k1}
  TicketFor <- McTicketFor
  None = None
  RequireTicket = FALSE
  MaxSessions = 1
  a = a
  b = b
  x = x
  PgNodes = {a, b, x}
  PgMesh = {a, b}
  PgKeepers = {a}
  NoKey = NoKey
  PgKey <- McPgKey
  PgExpiry = 0
  BootstrapLimit = 1
  PgMaxCrashes = 1
  PgMaxLosses = 1
INVARIANTS TicketOneUseUntilExpiry SessionCap
PROPERTIES NobodyElseRemoves LostSessionLeaves GossipIsMutual
CHECK_DEADLOCK FALSE
