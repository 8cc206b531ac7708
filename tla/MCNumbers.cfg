SPECIFICATION Spec
CONSTANTS
    a = a
    b = b
    x = x
    w = w
    y = y
    l = l
    NULL = NULL
    Clients = {a, b}
    Work <- Family
    BatchSize = 2
    MaxNumber = 3
    MaxDepth = 1
    MaxRestores = 1
    MaxTroubles = 1
CHECK_DEADLOCK FALSE
INVARIANTS
    SameTaskEverywhere
    NumbersAgree
    QuietMeansComplete
