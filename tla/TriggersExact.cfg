CONSTANTS
    Runners = {r1, r2}
    Triggers <- MCTriggers
    Retentions = {2, 3}
    MaxTime = 4
    PrunerRunning = TRUE
    QueriesMayFail = TRUE
SYMMETRY RunnersAreAlike
SPECIFICATION Spec
PROPERTIES
    ActsOnExactCounts
    TicksActForEveryTrigger
