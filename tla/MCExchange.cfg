SPECIFICATION Spec
CONSTANTS
    CacheSize = 3
    CacheLifetime = 1
    MaxRetransmit = 1
    AckTimeouts = {1}
    ServerTimeout = 1
    SendTimeout = 1
    MidOffset = 10
    OrphanBlocks = FALSE
    Traffic <- MCTraffic
    MaxExchanges = 2
INVARIANTS
    BlocksInOrder
    SuccessComplete
    ExchangeInOrder
PROPERTIES
    NotRepeated
