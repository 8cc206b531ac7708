SPECIFICATION HistorySpec
CONSTANTS
    p = p
    c = c
    d = d
    NULL = NULL
    Nodes <- MCNodes
    ParentOf <- MCParentOf
    LinkInputs = {}
    SyncedLinks = {}
    StatusInputs = {"done"}
    RootInputs <- MCRootInputs
    Authors = {"ann"}
    WakeTimes = {}
    MaxTime = 1
    Scale = 1
INVARIANTS
    ProvenanceMatchesHistory
PROPERTIES
    UndeleteStaysInGroup
CHECK_DEADLOCK FALSE
