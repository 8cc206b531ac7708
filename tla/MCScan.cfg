SPECIFICATION ScanSpec
CONSTANTS
    p = p
    c = c
    NULL = NULL
    Nodes <- MCNodes
    ParentOf <- MCParentOf
    LinkInputs <- MCLinks
    SyncedLinks <- MCLinks
    StatusInputs = {}
    RootInputs = {}
    Authors = {"ann"}
    WakeTimes = {1, 2}
    MaxTime = 2
    Scale = 1
    Retention = 1
INVARIANTS
    WakeOnlyWhileDeferred
    NoDanglingReferences
PROPERTIES
    PurgeSparesLive
    WakeOnlyWhenDue
    ScanWakesDue
CHECK_DEADLOCK FALSE
