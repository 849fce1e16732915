\* A claimed board and an Interception board that share the latch.
SPECIFICATION Spec
CONSTANTS
    Claimed = {w}
    Tapped = {i}
    Tap = Tap
    Keys = {LCtrl}
    LCtrl = LCtrl
    Bound = {}
    TakePlans <- MCWhole
    CtlBound = 1
    EventCap = 0
    Incidents = {"unplug", "arm"}
INVARIANTS
    NeverLeftCaptured
PROPERTIES
    EscapeIsNotUndone
CHECK_DEADLOCK FALSE
