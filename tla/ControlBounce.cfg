\* A save with reload beside a session that starts, plays or has just ended.
SPECIFICATION Spec
CONSTANTS
    Clients = {pipe}
    Verbs = {"start", "map"}
    Tray = {}
    Slots = {1}
    None = None
    Games = {"g"}
    MaxSaves = 1
    MaxEdits = 1
    MaxApplies = 1
    QueueBound = 1
PROPERTIES
    OnlyStructureBounces
CHECK_DEADLOCK FALSE
