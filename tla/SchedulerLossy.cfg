CONSTANTS
    Daemons = {d1}
    WebDaemons = {d1}
    CheckerCalled = TRUE
    Refetch = Refetch
    MaxCheck = 2
    MaxVer = 2
    Many = 1
    Copies = 1
    MaxCrashes = 0
    DialsSelf = TRUE
    Lossy = TRUE
    WritesMayFail = TRUE
    QueriesMayFail = TRUE
    TicksMayFail = TRUE
SPECIFICATION Spec
INVARIANT HeldRowsInv
PROPERTIES
    DispatchNeverGoesBack
    DeletedStaysDeleted
