\* Two boards that come and go, every sequence of up to five key events,
\* one board away at a time.
SPECIFICATION DetectorSpec
CONSTANTS
    Keyboards = {b1, b2}
    LeftControl = LeftControl
    RightControl = RightControl
    Alt = Alt
    Del = Del
    Other = Other
    Threshold = 2
    MaxEvents = 5
CONSTRAINT OneAway
SYMMETRY BoardSymmetry
INVARIANTS
    SequencesMatchHistory
PROPERTIES
    StopIsPhysical
CHECK_DEADLOCK FALSE
