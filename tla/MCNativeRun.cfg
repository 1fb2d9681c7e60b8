SPECIFICATION Spec
CONSTANTS
    LastTurn = 3
    MaxCalls = 1
    MaxSent = 5
    MaxCrash = 2
    Rewinds = TRUE
CHECK_DEADLOCK FALSE
INVARIANTS TypeOK CommittedTurnsAreNotResent CommittedIsRemembered GradedLedgerIsOfCommitted
