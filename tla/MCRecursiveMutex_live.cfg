SPECIFICATION FairSpec
CONSTANTS
    Process = {p1, p2}
    NoProcess = NoProcess
    MaxNest = 1
    Crashable = {}
    GroupSignals = TRUE
PROPERTIES
    CleanupTerminates
CHECK_DEADLOCK FALSE
