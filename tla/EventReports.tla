----------------------------- MODULE EventReports -----------------------------
(***************************************************************************)
(* The reports that list and count swipes: the access summary, the list of *)
(* events and its export, the hours of the day, the metrics of the         *)
(* dashboard, and the lists of employees.                                  *)
(***************************************************************************)
EXTENDS ReportTables

CONSTANTS Today, NowTime      \* the date and the time of day of the requests

ASSUME RequestsAreDated ==
    IsDate(Today) /\ Today.year >= 2020 /\ NowTime \in TimesOfDay

Now == Midnight(Today) + NowTime

Inside(db, people) == {p \in people : db.known[p].state = "IN"}

\* get_access_summary
AccessSummary(db, user, departments, w) ==
    LET swipes == ScopedEvents(db, user, departments, w)
        people == ScopedEmployees(user, departments)
    IN  [total |-> Cardinality(swipes),
         granted |-> Cardinality(Granted(swipes)),
         denied |-> Cardinality(Denied(swipes)),
         known |-> Cardinality(people),
         inside |-> Cardinality(Inside(db, people)),
         outside |-> Cardinality(people) - Cardinality(Inside(db, people)),
         updated |-> IF swipes = {} THEN NoTime ELSE Max({At(e) : e \in swipes})]

\* The filters of the list of events, each a set of the values let through; q is
\* the employees and the gates the search text matches.
Matching(swipes, f) ==
    {e \in swipes : /\ e.employee \in f.employees /\ e.decision \in f.decisions
                    /\ e.direction \in f.directions /\ e.reason \in f.reasons
                    /\ e.employee \in f.q \/ e.gate \in f.q}

\* query_access_events
QueryAccessEvents(db, user, departments, w, f, limit, offset) ==
    LET rows == NewestFirst(Matching(ScopedEvents(db, user, departments, w), f))
    IN  [items |-> Page(rows, Clamp(limit, 1, 200), Max({offset, 0})), total |-> Len(rows)]

\* iter_access_events_for_export
ExportEvents(db, user, departments, w, f) ==
    NewestFirst(Matching(ScopedEvents(db, user, departments, w), f))

AnyReason == {e.reason : e \in Swipes}
AnyOf(employees) ==
    [employees |-> employees, decisions |-> {"GRANTED", "DENIED"},
     directions |-> {"IN", "OUT"}, reasons |-> AnyReason, q |-> Employees]

\* list_anomalies
Anomalies(db, user, departments, w, limit, offset) ==
    QueryAccessEvents(db, user, departments, w,
                      [AnyOf(Employees) EXCEPT !.decisions = {"DENIED"}], limit, offset)

Buckets(swipes, Bucket(_)) ==
    [b \in {Bucket(e) : e \in swipes} |->
        LET these == {e \in swipes : Bucket(e) = b}
        IN  [total |-> Cardinality(these),
             granted |-> Cardinality(Granted(these)), denied |-> Cardinality(Denied(these)),
             in |-> Cardinality(Going("IN", these)), out |-> Cardinality(Going("OUT", these))]]

\* get_timeseries: the hours, of every day, that have a swipe.
Timeseries(db, user, departments, w) ==
    LET hour(e) == At(e) \div 3600
    IN  Buckets(ScopedEvents(db, user, departments, w), hour)

\* metrics and hourlyActivity of the report center.
CenterMetrics(swipes) ==
    LET all(e) == "all"
        hour(e) == e.time \div 3600
    IN  [metrics |-> Buckets(swipes, all), hourly |-> Buckets(swipes, hour)]

----------------------------------------------------------------------------
(* Lists of employees.                                                      *)

\* get_employee_states
EmployeeStates(db, user, departments, states, limit, offset) ==
    LET people == {p \in ScopedEmployees(user, departments) : db.known[p].state \in states}
        key == [p \in people |-> <<db.known[p].seen, p>>]
    IN  [items |-> Page(Descending(people, key), Clamp(limit, 1, 500), Max({offset, 0})),
         total |-> Cardinality(people)]

ByDepartment(people) ==
    Descending(people, [p \in people |-> <<-DepartmentOf[p], -p>>])

\* search_employee_options; found are the employees the keyword matches.
EmployeeOptions(user, departments, found, limit) ==
    LET people == ScopedEmployees(user, departments) \intersect found
    IN  [items |-> Page(ByDepartment(people), Clamp(limit, 1, 200), 0),
         total |-> Cardinality(people)]

----------------------------------------------------------------------------
(* Departments.                                                             *)

\* get_department_tree: the nodes of the answer, each with its children.
DepartmentTree(user) ==
    LET visible == VisibleDepartmentIds(user, {}) \intersect Departments
    IN  [roots |-> Roots(visible), children |-> [d \in visible |-> TreeChildren(d, visible)]]

\* The nodes get_department_analytics shows: the children of a single root.
DisplayNodes(user) ==
    LET tree == DepartmentTree(user)
        root == CHOOSE d \in tree.roots : TRUE
    IN  IF Cardinality(tree.roots) = 1 /\ tree.children[root] # {} THEN tree.children[root]
        ELSE tree.roots

\* The departments a shown node adds up.
Leaves(user, node) == Requested({node}) \intersect VisibleDepartmentIds(user, {})
=============================================================================
