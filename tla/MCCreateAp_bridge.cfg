SPECIFICATION Spec
CONSTANTS
    p1 = p1
    p2 = p2
    eth0 = eth0
    Process = {p1, p2}
    NoProcess = NoProcess
    Uplink = {eth0}
    Internet <- OneUplink
    Share <- NatAndBridge
    Bridges = {}
    Virtual = {p1, p2}
    Haveged = {p1, p2}
    Crashable = {p1}
    MaxSlot = 1
INVARIANTS
    ServingKeepsSettings
    InterfacesOwned
    AllRestored
PROPERTIES
    ImplementsHost
CHECK_DEADLOCK FALSE
