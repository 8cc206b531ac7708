SPECIFICATION FairSpec
CHECK_DEADLOCK FALSE
CONSTANTS
    Passes = {host, cli}
    Host = host
    Mixes <- MCMixes
    HourlyLimit = 2
    BackoffAfter = 2
    MaxEvents = 2
    MaxTroubles = 1
    NULL = NULL
INVARIANTS
    MarkCovers
    WokenOnce
    NoFreeWake
PROPERTIES
    EventuallyWoken
