\* A trial write that dies between two packets.
SPECIFICATION Spec
CONSTANTS
    Packets = 2
    Vendor <- MCVendor
    Values = {0, 1}
    None = None
    MaxPrior = 2
    MaxBackups = 2
INVARIANTS
    RemedyIsOpen
CHECK_DEADLOCK FALSE
