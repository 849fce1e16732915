\* Up to three slots for a host of two pads, and leases shorter than a deadline.
SPECIFICATION Spec
CONSTANTS
    MaxSlot = 3
    Limit = 2
    Lease = 2
    Patience = 3
    States = {n, p}
    Neutral = n
    Nothing = Nothing
INVARIANTS
    Agreement
PROPERTIES
    OnlySilenceCostsAPad
    NoPadOutlivesItsClient
