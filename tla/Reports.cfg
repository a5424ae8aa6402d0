SPECIFICATION Spec
CONSTANTS
    Departments = {1, 2, 3, 4}
    NoDepartment = 9
    ParentOf <- MCParentOf
    Employees = {1, 2, 3, 4}
    DepartmentOf <- MCDepartmentOf
    Users <- MCUsers
    Anonymous = "anonymous"
    RoleOf <- MCRoleOf
    ScopesOf <- MCScopesOf
    NoEmployee = 0
    EmployeeOfUser <- MCEmployeeOfUser
    Swipes <- MCSwipes
    MainGates = {"FAB_A", "FAB-A"}
    SuffixGates = {"FAB_A"}
    Notes = {"seen"}
    NoNote = "none"
    Today <- Mar2
    NowTime = 43200
    OvertimeHours = 12
    Requests <- MCRequests
    Windows <- MCWindows
    RemarkBound = 2
INVARIANTS
    ReportsTypeOK
    PathsAgree
    FiguresAgree
    OutsideMakesNoDifference
    RemarkShown
CHECK_DEADLOCK FALSE
