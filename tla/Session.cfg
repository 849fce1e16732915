SPECIFICATION FairSessionSpec
CONSTANTS
    a = a
    Boards = {a}
    Captures = TRUE
    MaxSessions = 2
    MaxToggles = 2
    MaxStops = 1
    InboxBound = 2
INVARIANTS
    CaptureFollowsView
PROPERTIES
    NothingIsOverlooked
