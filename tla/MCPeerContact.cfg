SPECIFICATION PcSpec
CONSTANTS
  a = a
  b = b
  x = x
  PgNodes = {a, b, x}
  PgMesh = {a, b}
  PgKeepers = {}
  NoKey = NoKey
  PgKey <- McPgKey
  PgExpiry = 3
  BootstrapLimit = 1
  PgMaxCrashes = 1
  PgMaxLosses = 0
PROPERTY PrunedWithoutContact
CHECK_DEADLOCK FALSE
