SPECIFICATION Spec
CONSTANTS
    LastTurn = 2
    MaxCalls = 1
    MaxSent = 3
    MaxCrash = 0
    Rewinds = FALSE
CHECK_DEADLOCK FALSE
INVARIANT LedgerTurnsDoNotDecrease
