CONSTANTS
    Requests = {r1}
    Nodes = {n1, n2}
    UnsafeNodes = {}
    NativeNodes = {}
    Threshold = 1
    MaxRetries = 2
    FanOut = 2
    MaxCandidates = 2
    Statuses = {"success"}
SPECIFICATION Spec
INVARIANT TaskExecutedOnce
