\* Every transform on three keys and a mouse button, a thread that may be late.
SPECIFICATION Spec
CONSTANTS
    a = a
    b = b
    c = c
    m = m
    KbdKeys = {a, b, c}
    MouseKeys = {m}
    Controls = {"A", "B", "X"}
    Names <- MCNames
    Preset <- MCPreset
    MaxLate = 2
INVARIANTS
    PadIsCurrent
    Bookkeeping
    OrderDecides
PROPERTIES
    StepsAreSeen
    ExitsLetGo
    RunsEnd
CHECK_DEADLOCK FALSE
