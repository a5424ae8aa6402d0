CONSTANTS
    e1 = e1
    e2 = e2
    e3 = e3
    e4 = e4
    e5 = e5
    emp1 = emp1
    emp2 = emp2
    kafka = kafka
    KafkaWriter = kafka
    Writers = {kafka}
    Events = {e1, e2, e3, e4, e5}
    Employees = {emp1, emp2}
    EmployeeOf <- MCEmployeeOf
    StateOf <- MCStateOf
    TimeOf <- MCTimeOf
    Seeded = {emp2}
    Malformed = {e4}
    Skipped = {e5}
    Rejected = {e3}
    DbFaults = TRUE
    TopicMax = 4
SPECIFICATION KafkaFairSpec
CHECK_DEADLOCK FALSE
INVARIANTS
    KafkaTypeOK
    OffsetSafety
    NoOvertaking
PROPERTIES
    TopicSaved
