SPECIFICATION Spec
CONSTANTS
    ann = ann
    ben = ben
    n1 = n1
    n2 = n2
    NULL = NULL
    Events <- PullEvents
    Nodes <- PullNodes
    Clients <- PullClients
    Lamport <- PullLamport
    Kind <- PullKind
    Subject <- PullSubject
    PushedBy <- PullPushedBy
    PageSize = 2
    Overlap = 1
    PushTimeout = 1
    MaxJump = 10
    MaxLamportClock = 16
    MaxTime = 2
    MaxFaults = 1
INVARIANTS
    NothingSlips
    CursorWithinReach
    RetrySettles
PROPERTIES
    EveryEventArrives
