SPECIFICATION NsSpec
CONSTANTS
  NsConfigs <- McNsConfigs
  NsNets <- McNsNets
INVARIANT RegistersMappedWan
CHECK_DEADLOCK FALSE
