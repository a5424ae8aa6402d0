SPECIFICATION Spec
CONSTANTS
    Departments = {1, 2}
    NoDepartment = 9
    ParentOf <- MCParentOf
    Employees = {1, 2, 3}
    DepartmentOf <- MCDepartmentOf
    Users <- MCUsers
    Anonymous = "anonymous"
    RoleOf <- MCRoleOf
    ScopesOf <- MCScopesOf
    NoEmployee = 0
    EmployeeOfUser <- MCEmployeeOfUser
    Requests = {"r"}
    Worker = "worker"
    Forms <- MCForms
    ReportPresets = {"last3m"}
    Calendar <- MCCalendar
    WorkerUsers <- MCWorkerUsers
    Excluded = {2}
    SwipeBound = 1
    FailureBound = 1
INVARIANTS
    OneRowPerKey
    ServedInScope
    WindowsMoveForward
PROPERTIES
    SnapshotsCatchUp
CHECK_DEADLOCK FALSE
