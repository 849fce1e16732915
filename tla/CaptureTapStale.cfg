\* A gesture on the claimed board, then a stroke on the Interception board.
SPECIFICATION Spec
CONSTANTS
    Claimed = {w}
    Tapped = {i}
    Tap = Tap
    Keys = {LCtrl}
    LCtrl = LCtrl
    Bound = {}
    TakePlans <- MCWhole
    CtlBound = 1
    EventCap = 1
    Incidents = {}
PROPERTIES
    LatchFreesTappedBoards
CHECK_DEADLOCK FALSE
