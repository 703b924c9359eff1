CONSTANTS
    h1 = h1
    h2 = h2
    HostLists <- MCHostLists
    Unreadable = Unreadable
    Values <- MCValues
    Thresholds = {1, 2}
    MinHosts = {0, 1, 2}
    MaxExpressions = 3
SPECIFICATION Spec
CHECK_DEADLOCK FALSE
INVARIANTS
    EachHostByItself
    OrIsAny
PROPERTY MinHostDecides
