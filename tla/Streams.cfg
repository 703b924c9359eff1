CONSTANTS
    Clients = {c1, c2}
    Streams = {g1}
    None = None
SPECIFICATION FairSpec
CHECK_DEADLOCK FALSE
INVARIANT
    ChannelInv
PROPERTIES
    MetricsReachClients
    DisconnectedIsForgotten
