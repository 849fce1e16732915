SPECIFICATION FairSpec
CONSTANTS
    d1 = d1
    Devices = {d1}
    Slots = {1, 2}
    Feeds <- MCFeeds
    MacroSlots = {1}
    Capacity = 1
    KeyCap = 1
    CtlBound = 1
INVARIANTS
    NothingIsLeftHeld
PROPERTIES
    SessionEnds
    IsARegister
