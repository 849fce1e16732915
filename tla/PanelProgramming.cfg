\* Two packets of two values; five backups let a trial, its restore, a full chart and
\* two more operations be interrupted.
SPECIFICATION Spec
CONSTANTS
    Packets = 2
    Vendor <- MCVendor
    Values = {0, 1}
    None = None
    MaxPrior = 2
    MaxBackups = 5
INVARIANTS
    UnseenIsMarked
    WayBackIsKept
    WriterIsProved
CHECK_DEADLOCK FALSE
