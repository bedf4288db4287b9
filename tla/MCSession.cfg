SPECIFICATION Spec
CONSTANTS
    RetryCount = 2
    SeqRetryCount = 2
    RetryTimer = 1
    SeqDelay = 1
    BsOnRegFailure = TRUE
    BsRetryCount = 0
    BsRetryTimeout = 1
    BsLifetime = 1
    HoldOff = 1
    QueueMode = TRUE
    QueueTimeout = 1
    DisableTimes = {1}
    UpdatePeriods = {2}
    LongLocation = FALSE
    SmallMtu = FALSE
    ApiInCallback = FALSE
    AppChanges = TRUE
INVARIANTS
    AllAttemptsMade
    InstancesReported
    NothingLeftBehind
PROPERTIES
    TransitionsKept
