SPECIFICATION Spec
CONSTANTS
    Process = {p1, p2}
    NoProcess = NoProcess
    MaxNest = 2
    Crashable = {}
    GroupSignals = FALSE
INVARIANTS
    NeverBlocksItself
CHECK_DEADLOCK FALSE
