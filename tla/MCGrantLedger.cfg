CONSTANTS
    Runs = {r1, r2}
    Threads = {t1, t2}
    MaxCalls <- Ceilings
    MaxDispatch = 3
    MaxReopens = 1
SPECIFICATION GrantSpec
SYMMETRY Symmetry
INVARIANT GrantTypeOK
INVARIANT PassedMeansAccounted
INVARIANT OrderlyRunIsClean
CHECK_DEADLOCK FALSE
