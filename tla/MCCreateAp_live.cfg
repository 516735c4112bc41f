SPECIFICATION FairSpec
CONSTANTS
    p1 = p1
    p2 = p2
    eth0 = eth0
    Process = {p1, p2}
    NoProcess = NoProcess
    Uplink = {eth0}
    Internet <- OneUplink
    Share <- NatAndBridge
    Bridges = {eth0}
    Virtual = {}
    Haveged = {p1}
    Crashable = {}
    MaxSlot = 1
PROPERTIES
    CleanupEnds
CHECK_DEADLOCK FALSE
