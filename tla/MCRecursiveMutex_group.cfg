SPECIFICATION Spec
CONSTANTS
    Process = {p1, p2}
    NoProcess = NoProcess
    MaxNest = 2
    Crashable = {}
    GroupSignals = TRUE
INVARIANTS
    MutualExclusion
CHECK_DEADLOCK FALSE
