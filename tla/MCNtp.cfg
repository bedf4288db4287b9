CONSTANTS
    MaxAttempts = 2
    MaxPeriod = 2
    Periods = {0, 1, 2}
    MaxSyncs = 3
SPECIFICATION Spec
INVARIANTS
    SyncInOrder
PROPERTIES
    GivesUpAfterAll
    SyncEnds
