SPECIFICATION FairSpec
CHECK_DEADLOCK FALSE
CONSTANTS
    Scripts = {a, b, c}
    MaxMail = 3
    MaxRuns = 2
    MaxTroubles = 2
    Unknown = Unknown
    NULL = NULL
INVARIANTS
    OneRunUnlessLapsed
PROPERTIES
    MarkAnswered
