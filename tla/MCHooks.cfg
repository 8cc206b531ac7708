SPECIFICATION Spec
CONSTANTS
    NULL = NULL
    Triggers = {daemon, command}
    command = command
    daemon = daemon
    Daemon = daemon
    h1 = h1
    Hooks = {h1}
    MaxEvents = 3
    Matches <- EveryPair
    Configs <- WithAndWithoutHook
    PageSize = 2
    Lease = 0
    MaxSeq = 2
    MaxFaults = 1
INVARIANTS
    HookTypeOK
    OpenClaimsAboveFloor
    NothingSkipped
    OneFiringPerLease
PROPERTIES
    OutcomeIsFinal
    EveryEventDispatched
