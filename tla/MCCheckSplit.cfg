CONSTANTS
    Ids = {1, 2, 3, 4, 5}
    Peers = {d1, d2, d3}
SPECIFICATION SplitSpec
INVARIANTS
    SharesPartition
    LoopIsShare
PROPERTY
    DeleteKeepsNewerShares
