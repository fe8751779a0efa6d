SPECIFICATION RoutingSpec
CONSTANTS
  Requests = {r1}
  Nodes = {n1, n2, n3}
  UnsafeNodes = {n3}
  NativeNodes = {n2}
  Threshold = 2
  MaxRetries = 2
  FanOut = 2
  MaxCandidates = 2
  Statuses = {"success", "completed"}
  Handlers = {h1}
  Replicas = {b1}
  PdMode = "auto"
  RouteLimit = 2
INVARIANT RoutingSound
PROPERTIES RequestsEnd ResolutionsEnd
CHECK_DEADLOCK FALSE
