\* A gesture on either board, however the other thread's load and store fall.
SPECIFICATION PausingSpec
CONSTANTS
    Claimed = {w}
    Tapped = {i}
    Tap = Tap
    Keys = {LCtrl}
    LCtrl = LCtrl
    Bound = {}
    TakePlans <- MCWhole
    CtlBound = 1
    EventCap = 0
    Incidents = {"arm"}
PROPERTIES
    EscapeIsHeard
CHECK_DEADLOCK FALSE
