SPECIFICATION Spec
CONSTANTS
    p1 = p1
    p2 = p2
    eth0 = eth0
    Process = {p1, p2}
    NoProcess = NoProcess
    Uplink = {eth0}
    Internet <- OneUplink
    Share <- AllNat
    Bridges = {}
    Virtual = {p1, p2}
    Haveged = {p1}
    Crashable = {p2}
    MaxSlot = 1
INVARIANTS
    IInv
    SectionsExclusive
    SettingsRecoverable
    ServingKeepsSettings
    InterfacesOwned
    AllRestored
PROPERTIES
    CommonKeptForOthers
CHECK_DEADLOCK FALSE
