SPECIFICATION Spec
CONSTANTS
    ra = ra
    rb = rb
    NULL = NULL
    Replicas <- ApplyReplicas
    Machine <- TwoMachines
    EventIds = {1, 2, 3}
    WallTimes = {1, 2}
    InitialTitle = 0
    AssigneeInputs <- AssigneeValues
    Targets = {"done", "open", "deferred"}
    Malformed <- MalformedEvents
    MaxWrites = 3
CHECK_DEADLOCK FALSE
INVARIANTS
    WinnerOwnsTheRow
    NoSilentLoss
PROPERTIES
    TaskImplemented
