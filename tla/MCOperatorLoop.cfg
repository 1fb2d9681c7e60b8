SPECIFICATION OperatorSpec
CONSTANTS
    Scenarios <- MCScenarios
    Workflow = {w0, w1}
    Unnamed = w0
    MaxReapprovals = 1
    RevisionLimit = 1
CHECK_DEADLOCK FALSE
INVARIANTS OperatorTypeOK QueuedBeatsAreSaid ApprovalsAreSound
PROPERTY ScriptIsKept
