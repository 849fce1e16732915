\* A second learn-key while the first one listens, every call acknowledged.
SPECIFICATION Spec
CONSTANTS
    MaxLearns = 2
    MaxTests = 0
    SlowPump = FALSE
INVARIANTS
    CurrentLearnHears
CHECK_DEADLOCK FALSE
