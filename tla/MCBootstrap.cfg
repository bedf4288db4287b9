SPECIFICATION Spec
CONSTANTS
    RetryCount = 1
    SeqRetryCount = 1
    RetryTimer = 1
    SeqDelay = 1
    BsOnRegFailure = TRUE
    BsRetryCount = 1
    BsRetryTimeout = 1
    BsLifetime = 1
    HoldOff = 0
    QueueMode = FALSE
    QueueTimeout = 1
    DisableTimes = {}
    UpdatePeriods = {1, 2}
    LongLocation = FALSE
    SmallMtu = TRUE
    ApiInCallback = TRUE
    AppChanges = FALSE
INVARIANTS
    BootstrapSequence
    AllBootstrapAttemptsMade
    LifetimeReported
