\* One connection, the tray and the programmer around the loop.
SPECIFICATION FairSpec
CONSTANTS
    Clients = {pipe}
    Verbs = {"start", "resume", "play", "stop", "map", "assign", "apply"}
    Tray = {"quit"}
    None = None
    Slots = {1}
    Games = {"g"}
    MaxSaves = 2
    MaxEdits = 1
    MaxApplies = 1
    QueueBound = 1
INVARIANTS
    PanelFollowsSession
    NeverProgramsWhilePlaying
    NoEditIsForgotten
PROPERTIES
    AnswersAreTrue
    QuitLeavesNothing
CHECK_DEADLOCK FALSE
