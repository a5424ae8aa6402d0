CONSTANTS
    e1 = e1
    e2 = e2
    e3 = e3
    emp1 = emp1
    emp2 = emp2
    kafka = kafka
    recovery1 = recovery1
    noFields = noFields
    KafkaWriter = kafka
    RecoveryWriter = recovery1
    Writers = {kafka, recovery1}
    NoFields = noFields
    TopicMax = 2
    BatchSize = 2
    StreamMax = 1
    Events = {e1, e2}
    Employees = {emp1, emp2}
    EmployeeOf <- MCEmployeeOf
    StateOf <- MCStateOf
    TimeOf <- MCTimeOf
    Seeded = {emp2}
    Malformed = {}
    Skipped = {}
    Rejected = {}
    DbFaults = TRUE
SPECIFICATION PipelineSpec
CHECK_DEADLOCK FALSE
INVARIANTS
    DbTypeOK
    MarkerSafety
    OneRowPerRequest
    OutcomeTrue
    EmployeeColumnsSaved
PROPERTIES
    KeepsPromise
