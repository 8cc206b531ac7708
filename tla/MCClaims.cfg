SPECIFICATION ClaimsSpec
CONSTANTS
    t = t
    ann = ann
    bob = bob
    NULL = NULL
    Nodes <- MCNodes
    ParentOf <- MCParentOf
    Agents <- MCAgents
    AssigneeInputs <- MCEdits
    LinkInputs = {}
    SyncedLinks = {}
    StatusInputs = {"done", "open", "blocked", "invalidated"}
    RootInputs = {}
    Authors = {}
    WakeTimes = {}
    MaxTime = 1
    Scale = 1
    StaleAfter = 1
    MaxCalls = 1
INVARIANTS
    InProgressHasAssignee
    ClosedWhenResolved
    BlockedRemembers
PROPERTIES
    NoTakeoverFromActiveAgent
    StatusStepsFollowTheMachine
CHECK_DEADLOCK FALSE
