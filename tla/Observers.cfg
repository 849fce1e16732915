\* Two learns and a test that take turns, a pump that may miss ACK_TIMEOUT.
SPECIFICATION FairSpec
CONSTANTS
    MaxLearns = 2
    MaxTests = 1
    SlowPump = TRUE
INVARIANTS
    TestIsAlone
    HitIsCurrent
    PanelComesBack
PROPERTIES
    LearnSettles
CHECK_DEADLOCK FALSE
