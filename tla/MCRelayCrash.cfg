SPECIFICATION FairSpec
CHECK_DEADLOCK FALSE
CONSTANTS
    Procs <- MCDaemon
    MaxEvents = 2
    BatchLimit = 2
    SegmentCap = 2
    TailDepth = 2
    Authenticated = TRUE
    MaxDeaths = 1
    MaxRestores = 0
    MaxResets = 0
    MaxRepairs = 0
    MaxRefusals = 0
PROPERTY PublicationResumes
