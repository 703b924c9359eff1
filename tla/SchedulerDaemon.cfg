CONSTANTS
    Daemons = {d1}
    WebDaemons = {d1}
    CheckerCalled = TRUE
    Refetch = Refetch
    MaxCheck = 1
    MaxVer = 2
    Many = 1
    Copies = 2
    MaxCrashes = 1
    DialsSelf = TRUE
    Lossy = FALSE
    WritesMayFail = FALSE
    QueriesMayFail = FALSE
    TicksMayFail = TRUE
SPECIFICATION FairSpec
INVARIANTS
    TypeOK
PROPERTIES
    NoCreatedCheckIsForgotten
    EveryVersionIsRun
