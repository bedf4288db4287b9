SPECIFICATION Spec
CONSTANTS
    U8Max = 255
    U16Max = 65535
    U32Max = 99999
    MaxRecords = 2
    MaxRecordLen = 2
    UriSize = 3
    KeySize = 2
    BindingSize = 3
    RetryDefaults <- MCRetryDefaults
    DisableDefault = 86400
    MinTemp = 0
    MaxTemp = 1
    TypeSize = 3
    DataSize = 2
    MaxCompPaths = 2
    MaxObjects = 5
    BlockRecords = 2
    ServerCuts = {0, 13}
    Accounts <- MCAccounts
    Workloads <- MCWorkloads
INVARIANTS
    WriteExact
    ReadComplete
    ModelInOrder
PROPERTIES
    RolledBack
    ChangesAnnounced
    RestoredAsStored
