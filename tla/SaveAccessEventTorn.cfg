CONSTANTS
    e1 = e1
    e2 = e2
    e3 = e3
    e4 = e4
    emp1 = emp1
    emp2 = emp2
    Writers = {w1, w2}
    Events = {e1, e2, e3, e4}
    Employees = {emp1, emp2}
    EmployeeOf <- MCEmployeeOf
    StateOf <- MCStateOf
    TimeOf <- MCTimeOf
    Seeded = {emp1, emp2}
    Malformed = {}
    Skipped = {}
    Rejected = {}
    DbFaults = FALSE
SPECIFICATION DbSpec
CHECK_DEADLOCK FALSE
INVARIANTS
    RowOfOneEvent
