SPECIFICATION OperatorSpec
CONSTANTS
    Scenarios <- MCBeatScenarios
    Workflow = {w0, w1}
    Unnamed = w0
    MaxReapprovals = 1
    RevisionLimit = 1
CHECK_DEADLOCK FALSE
INVARIANT CompletedRunSaidItsBeats
