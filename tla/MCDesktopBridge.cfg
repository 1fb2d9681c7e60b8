CONSTANTS
    MaxRequests = 3
    MaxConns = 2
    MaxCrashes = 1
    MaxIds = 2
    Faulted = {"capture"}
    Budget = 1
    None = None
SPECIFICATION Spec
INVARIANT TypeOK
INVARIANT AnswersSurviveRaces
INVARIANT NothingPassesReview
PROPERTY DeadlineIsMet
CHECK_DEADLOCK FALSE
