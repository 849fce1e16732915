\* One claimed board whose user frees and re-captures it.
SPECIFICATION Spec
CONSTANTS
    Claimed = {w}
    Tapped = {}
    Tap = Tap
    Keys = {LCtrl}
    LCtrl = LCtrl
    Bound = {}
    TakePlans <- MCWhole
    CtlBound = 1
    EventCap = 1
    Incidents = {}
INVARIANTS
    NoKeyHeldForever
CHECK_DEADLOCK FALSE
