CONSTANTS
    Calls = {c1, c2, c3, c4, c5}
    MaxParallel = 2
    MaxCaptures = 2
    MaxFaults = 1
    HooksAreKilled = TRUE
    None = None
SPECIFICATION Spec
SYMMETRY Symmetry
INVARIANT TypeOK
INVARIANT ReviewTookPlace
PROPERTY ClockHeld
CHECK_DEADLOCK FALSE
