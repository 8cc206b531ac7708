SPECIFICATION FairSpec
CHECK_DEADLOCK FALSE
CONSTANTS
    Procs <- MCDaemon
    MaxEvents = 2
    BatchLimit = 2
    SegmentCap = 2
    TailDepth = 2
    Authenticated = TRUE
    MaxDeaths = 1
    MaxRestores = 1
    MaxResets = 1
    MaxRepairs = 1
    MaxRefusals = 1
INVARIANT CursorNeverAhead
INVARIANT NothingSteppedOver
PROPERTY DeliveredOrReported
