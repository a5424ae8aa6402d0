----------------------------- MODULE ReportScope -----------------------------
(***************************************************************************)
(* What a user of the Reporting API may see: permissions.py and the scope  *)
(* helpers at the end of repositories.py, which every report filters by.   *)
(*                                                                         *)
(* The lists of department ids are sets.  None, the list of a user who     *)
(* sees everything, is the set of all departments with NoDepartment, for   *)
(* it also lets the employees without a department through.                *)
(***************************************************************************)
EXTENDS Integers, FiniteSets

CONSTANTS
    Departments,
    NoDepartment,     \* the department of an employee who has none
    ParentOf,         \* the parent of a department, or NoDepartment
    Employees,
    DepartmentOf,     \* the department of an employee, or NoDepartment
    Users,
    Anonymous,        \* the user of a request without a session
    RoleOf,           \* the role of a user
    ScopesOf,         \* the department scopes of a user
    NoEmployee,
    EmployeeOfUser    \* the employee a user is, or NoEmployee

Roles == {"EMPLOYEE", "MANAGER", "EXECUTIVE", "ADMIN"}
Scopes == [department : Departments, descendants : BOOLEAN]

ASSUME TreeOfDepartments ==
    /\ IsFiniteSet(Departments) /\ IsFiniteSet(Employees) /\ NoDepartment \notin Departments
    /\ ParentOf \in [Departments -> Departments \union {NoDepartment}]
    /\ DepartmentOf \in [Employees -> Departments \union {NoDepartment}]
ASSUME UserAccounts ==
    /\ Anonymous \in Users
    /\ RoleOf \in [Users -> Roles]
    /\ ScopesOf \in [Users -> SUBSET Scopes]
    /\ \A u \in Users : \A s, q \in ScopesOf[u] : s.department = q.department => s = q
    /\ EmployeeOfUser \in [Users -> Employees \union {NoEmployee}]
    /\ NoEmployee \notin Employees

Everything == Departments \union {NoDepartment}

\* get_descendant_department_ids, the recursive query.
Below ==
    [department \in Departments |->
       LET level[n \in Nat] ==
             IF n = 0 THEN {department}
             ELSE LET parents == level[n - 1] IN {d \in Departments : ParentOf[d] \in parents}
       IN  UNION {level[n] : n \in 1..Cardinality(Departments)}]

Requested(departments) == departments \union UNION {Below[d] : d \in departments}

\* get_visible_department_ids: a user without a scope falls back on the
\* department of their own.
Visible ==
    [user \in Users |->
       LET scoped == UNION {{s.department} \union
                               (IF s.descendants THEN Below[s.department] ELSE {}) :
                            s \in ScopesOf[user]}
           own == IF EmployeeOfUser[user] = NoEmployee THEN {}
                  ELSE {DepartmentOf[EmployeeOfUser[user]]} \ {NoDepartment}
       IN  IF RoleOf[user] \in {"ADMIN", "EXECUTIVE"} THEN Everything
           ELSE IF scoped = {} THEN own ELSE scoped]

\* _visible_department_ids and _multi_dept_visible_ids; no department is
\* requested by {}.
VisibleDepartmentIds(user, departments) ==
    IF user = Anonymous THEN {}
    ELSE IF departments = {} THEN Visible[user]
    ELSE Requested(departments) \intersect Visible[user]

\* The condition an EMPLOYEE's queries carry: the rows of their own only.
OwnOnly(user) == /\ user # Anonymous
                 /\ RoleOf[user] = "EMPLOYEE"
                 /\ EmployeeOfUser[user] # NoEmployee

IsOwn(user, employee) == OwnOnly(user) => employee = EmployeeOfUser[user]

ScopedEmployees(user, departments) ==
    LET visible == VisibleDepartmentIds(user, departments)
    IN  {p \in Employees : DepartmentOf[p] \in visible /\ IsOwn(user, p)}

\* _can_use_shared_department_snapshot
SeesWhole(user, departments) ==
    /\ user # Anonymous /\ departments # {}
    /\ Requested(departments) \subseteq Visible[user]

\* _report_center_snapshot_compute_user: the report kept for all who see the whole
\* department is computed as an EXECUTIVE sees it, if there is one.
ComputeUser(user, departments) ==
    LET executives == {u \in Users \ {Anonymous} : RoleOf[u] = "EXECUTIVE"}
    IN  IF SeesWhole(user, departments) /\ executives # {} THEN CHOOSE u \in executives : TRUE
        ELSE user

\* serialize_department_tree, of the departments a user sees.
Roots(departments) ==
    {d \in departments : ParentOf[d] \notin departments}

TreeChildren(department, departments) == {d \in departments : ParentOf[d] = department}
=============================================================================
