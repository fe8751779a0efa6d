SPECIFICATION StateSpec
CONSTANTS
  t1 = t1
  o1 = o1
  Tasks = {t1, t2}
  Keys = {k1}
  None = None
  Procs = {p1, p2}
  Observers = {o1}
  Watches <- McWatches
  MaxEvents = 2
  MaxSequence = 3
  MaxLives = 2
  Writers = {w1, w2}
  Threads = {v1, v2}
  j1 = j1
  j2 = j2
  TtJtis = {j1, j2}
  JtiExpires <- McJtiExpires
  TtMaxVersion = 1
  TtMaxClock = 2
  TtMaxVerifies = 1
  TtMaxWrites = 1
  NsConfigs <- McNsConfigs
  NsNets <- McNsNets
SYMMETRY TrustSymmetry
INVARIANTS TablesConsistent CancelReturnsItsEnd ObserverGapFree NoLostInstall NothingStaleAccepted PlaceholderNeverRegistered ServeLeavesNothing
PROPERTY ImplementsLifecycle
CHECK_DEADLOCK FALSE
