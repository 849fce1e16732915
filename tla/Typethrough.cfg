\* One board, with all that can end or disturb its pump.
SPECIFICATION FairPumpSpec
CONSTANTS
    d1 = d1
    Devices = {d1}
    Keys = {k}
    Splits <- MCSplits
    Clients = {c1}
    EventCap = 1
    CmdBound = 1
    Incidents = {"refuse", "overflow", "unplug"}
INVARIANTS
    NoStuckKey
PROPERTIES
    AcknowledgedModeHolds
    ReleasesReachWindows
CHECK_DEADLOCK FALSE
