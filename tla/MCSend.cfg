SPECIFICATION Spec
CONSTANTS
    QueueSize = 3
    IdAll = 65535
    BlockSize = 2
    Kinds <- MCKinds
    FirstCounter = 65533
    HandlerLeaves = FALSE
    HandlerQueues = FALSE
    MaxRequests = 5
    MaxDepth = 3
INVARIANTS
    QueueInOrder
    PayloadExact
PROPERTIES
    PromiseKept
CHECK_DEADLOCK FALSE
