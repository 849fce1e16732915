\* A gesture on the claimed board between a load and the store that follows it.
SPECIFICATION Spec
CONSTANTS
    Claimed = {w}
    Tapped = {i}
    Tap = Tap
    Keys = {LCtrl}
    LCtrl = LCtrl
    Bound = {}
    TakePlans <- MCWhole
    CtlBound = 1
    EventCap = 1
    Incidents = {}
PROPERTIES
    EscapeIsNeverUndone
CHECK_DEADLOCK FALSE
