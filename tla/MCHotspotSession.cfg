SPECIFICATION FairSpec
CONSTANTS
    Worker = {w1, w2}
    Instance = {p1, p2}
    p1 = p1
    p2 = p2
    home = home
    away = away
    Outside = {p2}
    Null = Null
    Freed = Freed
    Ssid = {away}
    Band = {b5}
    Shipped <- HomeAnyBand
    AnyBand = AnyBand
    MaxEvents = 1
INVARIANTS
    TypeOK
    BarHasOwner
    ViewsAgree
    NotRunningMeansNone
    TimersRemoved
    StopHitsShown
    StartedAsAsked
    QrShowsRunning
    CrashNeedsOverlap
PROPERTIES
    WindowSettles
CHECK_DEADLOCK FALSE
