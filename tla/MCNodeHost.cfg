SPECIFICATION HostSpec
CONSTANTS
  Tunnels = {1, 2, 3, 4}
  MaxRespawns = 2
  MaxHealthFails = 2
  DeadBehavior = "retry"
  p1 = p1
  p2 = p2
  p3 = p3
  n1 = n1
  n2 = n2
  SvProcs = {p1, p2, p3}
  SvNodeOf <- McNodeOf
  SvSupervised = {p1, p2}
  SvForced = {p3}
  SvMaxFaults = 1
  SvFleets <- McFleets
  UpProcs = {u1, u2}
  UpMaxVersion = 3
  UpMaxFailures = 2
  UpMaxDelay = 2
INVARIANTS CloseLeavesNoTunnel
PROPERTIES TunnelComesBack EveryNodeReloads SupervisedNodeComesBack EveryProcessUpdates
CHECK_DEADLOCK FALSE
