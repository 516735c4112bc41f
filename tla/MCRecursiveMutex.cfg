SPECIFICATION Spec
CONSTANTS
    Process = {p1, p2}
    NoProcess = NoProcess
    MaxNest = 3
    Crashable = {p1, p2}
    GroupSignals = FALSE
SYMMETRY Symmetry
INVARIANTS
    IInv
    MutualExclusion
    ReleasedOutside
PROPERTIES
    ImplementsProcessLock
CHECK_DEADLOCK FALSE
