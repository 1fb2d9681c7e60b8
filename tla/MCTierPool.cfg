CONSTANTS
    N = 3
    MaxWorkers = 2
    Epochs = 2
    MaxTiers = 2
    MaxForeign = 1
SPECIFICATION Spec
INVARIANT TypeOK
INVARIANT FailureIsHandled
PROPERTY EvidenceIsKept
PROPERTY KeepsPromise
PROPERTY TierAnswers
CHECK_DEADLOCK FALSE
