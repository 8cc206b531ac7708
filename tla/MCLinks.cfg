SPECIFICATION TreeSpec
CONSTANTS
    p = p
    c = c
    d = d
    q = q
    NULL = NULL
    Nodes <- Tree
    ParentOf <- TreeParent
    LinkInputs <- TreeLinks
    SyncedLinks <- TreeSynced
    StatusInputs <- TreeInputs
    RootInputs = {}
    Authors = {"ann"}
    WakeTimes = {}
    MaxTime = 0
    Scale = 2
INVARIANTS
    CyclesComeFromSync
PROPERTIES
    ResolvingUnblocks
    ProgressFollowsChildren
CHECK_DEADLOCK FALSE
