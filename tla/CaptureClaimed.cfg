\* One claimed board with everything that can end or disturb its thread.
SPECIFICATION FairSpec
CONSTANTS
    Claimed = {w}
    Tapped = {}
    Tap = Tap
    Keys = {LCtrl}
    LCtrl = LCtrl
    Bound = {LCtrl}
    TakePlans <- MCBound
    CtlBound = 1
    EventCap = 1
    Incidents = {"unplug", "refuse", "hangup", "panic"}
PROPERTIES
    NothingStranded
    ShutdownEnds
CHECK_DEADLOCK FALSE
