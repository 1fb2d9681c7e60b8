SPECIFICATION Spec
CONSTANTS
    p1 = p1
    fast = fast
    slow = slow
    Calls = {c1, c2}
    Routes = {fast, slow}
    SlowRoutes = {slow}
    AuthRoutes = {slow}
    PagedRoutes = {slow}
    Lacks = {"nothing", "header"}
    RefreshPath = refresh
    LimitEvery = 3
    Parents = {p1}
    PageCount <- OneParent
    States = {v1, v2}
    InitialState = v1
    InitialRequests = 1
    IdleResets = TRUE
    MaxEvents = 3
    MaxSwitch = 1
    MaxRestart = 1
SYMMETRY Symmetry
CHECK_DEADLOCK FALSE
INVARIANTS TypeOK RestartIsFaithful OracleIsTrue WalkIsSound
