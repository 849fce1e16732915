SPECIFICATION FairSessionSpec
CONSTANTS
    a = a
    Boards = {a}
    Captures = TRUE
    MaxSessions = 2
    MaxToggles = 0
    MaxStops = 0
    InboxBound = 2
PROPERTIES
    TripEndsItsSession
CHECK_DEADLOCK FALSE
