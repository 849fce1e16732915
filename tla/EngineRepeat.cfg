\* Escape with a toggle's key held, then autorepeat.
SPECIFICATION Spec
CONSTANTS
    a = a
    b = b
    c = c
    m = m
    KbdKeys = {a, b, c}
    MouseKeys = {m}
    Controls = {"A", "B", "X"}
    Names = {"latches"}
    Preset <- MCPreset
    MaxLate = 1
PROPERTIES
    AutorepeatIsNoPress
CHECK_DEADLOCK FALSE
