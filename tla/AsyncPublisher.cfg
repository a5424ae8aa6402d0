CONSTANTS
    Events = {e1, e2}
    Workers = {w1, w2}
    QueueSize = 1
    BatchSize = 2
SPECIFICATION FairSpec
CHECK_DEADLOCK FALSE
INVARIANTS
    TypeOK
    NoLossBeforeClose
    SingleCustody
    CountersAccount
    ShutdownDelivers
PROPERTIES
    CloseReturns
    AcceptedIsWritten
