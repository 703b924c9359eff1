CONSTANTS
    Metrics = {1, 2}
    Ranges = {0, 1}
    MaxAsked = 2
    MaxStreams = 2
    Counts = {1}
    None = None
    ItemsPerPage = 3
    MaxLogs = 10
    Arrows = {{"older"}, {"older", "newer"}}
    Grain = 120
    Draws <- AllDraws
SPECIFICATION PagesSpec
INVARIANTS
    ChartIsOfTheDialog
    OneLiveStream
    EventsAreSorted
    ColorsSuitTheirUse
PROPERTIES
    EveryAskIsTold
    EveryLogIsSeen
    NewerGoesBack
