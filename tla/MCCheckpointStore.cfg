SPECIFICATION Spec
CONSTANTS
    MaxTurn = 3
    Content = {a, b}
    Modes = {"native-resume", "handoff"}
    Statuses = {"complete", "incomplete"}
    MaxLoss = 1
    MaxSkip = 1
    MaxDamage = 1
    MaxCrash = 2
    Pins = {p1, p2}
    Tears = {"line"}
CHECK_DEADLOCK FALSE
INVARIANTS TypeOK AckedDurable NoFork HistoryIsResumable NoSpuriousRefusal
PROPERTY AppendOnly
