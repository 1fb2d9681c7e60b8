SPECIFICATION Spec
CONSTANTS
    Handles = {h1, h2}
    Outsiders = {h2}
    Manifests = {m1}
    Rows = {r1, r2}
    MaxLines = 3
    MaxCrash = 2
    MaxDamage = 1
    Remaining = {1, 2}
CHECK_DEADLOCK FALSE
INVARIANTS TypeOK AckedRowsAreServed ReadersAgree
