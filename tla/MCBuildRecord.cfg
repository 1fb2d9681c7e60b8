CONSTANTS
    None = None
    Torn = Torn
    Writers = {w1, w2}
    Plans = {p1, p2}
    RunStages = {}
    EnvStages = {"s6_run", "s7_publish"}
    Codes = {weakened}
    RegenerateTotal = 2
    Reported = {"s3_closure", "s7_publish"}
    MaxEdits = 2
    MaxSteps = 6
SPECIFICATION Spec
SYMMETRY Symmetry
INVARIANT TypeOK
INVARIANT VerifiedPlanWasApproved
INVARIANT GreenPlanWasChecked
INVARIANT OwedToTheUser
CHECK_DEADLOCK FALSE
