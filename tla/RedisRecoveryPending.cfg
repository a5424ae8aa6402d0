CONSTANTS
    e1 = e1
    e2 = e2
    e3 = e3
    e4 = e4
    emp1 = emp1
    emp2 = emp2
    recovery1 = recovery1
    noFields = noFields
    RecoveryWriter = recovery1
    Writers = {recovery1}
    NoFields = noFields
    BatchSize = 2
    StreamMax = 3
    Events = {e1, e2, e3, e4}
    Employees = {emp1, emp2}
    EmployeeOf <- MCEmployeeOf
    StateOf <- MCStateOf
    TimeOf <- MCTimeOf
    Seeded = {emp2}
    Malformed = {}
    Skipped = {}
    Rejected = {}
    DbFaults = TRUE
SPECIFICATION RecoveryFairSpec
CHECK_DEADLOCK FALSE
PROPERTIES
    PendingRetried
