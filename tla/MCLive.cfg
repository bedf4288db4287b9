SPECIFICATION FairSpec
CONSTANTS
    RetryCount = 1
    SeqRetryCount = 2
    RetryTimer = 1
    SeqDelay = 1
    BsOnRegFailure = TRUE
    BsRetryCount = 0
    BsRetryTimeout = 1
    BsLifetime = 1
    HoldOff = 0
    QueueMode = TRUE
    QueueTimeout = 1
    DisableTimes = {}
    UpdatePeriods = {2}
    LongLocation = FALSE
    SmallMtu = FALSE
    ApiInCallback = FALSE
    AppChanges = FALSE
PROPERTIES
    RestartHappens
    RegisteringEnds
