CONSTANTS
    Daemons = {d1, d2}
    WebDaemons = {}
    CheckerCalled = TRUE
    Refetch = Refetch
    MaxCheck = 1
    MaxVer = 1
    Many = 1
    Copies = 1
    MaxCrashes = 1
    DialsSelf = TRUE
    Lossy = FALSE
    WritesMayFail = FALSE
    QueriesMayFail = FALSE
    TicksMayFail = FALSE
SPECIFICATION FairSpec
PROPERTIES
    EveryVersionIsRun
    DeadPeersAreForgotten
