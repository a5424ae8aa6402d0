CONSTANTS
    Employees = {emp1}
    Swipes = {s1, s2}
    NoSwipe = NoSwipe
    Attempts = 2
    StreamMax = 1
    Faults = {"noReply", "kill", "expire", "reset", "failover"}
    MaxLosses = 1
SPECIFICATION Spec
SYMMETRY Symmetry
CHECK_DEADLOCK FALSE
INVARIANTS
    TypeOK
    AntiPassback
    AnswerFlags
    StateChain
    EntryBeforeExit
    AnswerIsLastDecision
    RecoveryWindow
