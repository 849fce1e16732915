SPECIFICATION Spec
CONSTANTS
    Boards = {b1, b2}
    Txs = {t1, t2}
    Oems = {o1, o2}
    None = None
    MaxSpare = 1
    MaxFaults = 2
SYMMETRY Symmetry
PROPERTIES
    LastKeyboardIsLeft
