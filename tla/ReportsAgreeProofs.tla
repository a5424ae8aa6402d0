-------------------------- MODULE ReportsAgreeProofs --------------------------
(***************************************************************************)
(* Proofs about what the reports of one state say of each other, for any   *)
(* employees, departments, users, swipes, windows and requests: what is    *)
(* outside the scope makes no difference (OutsideIsOutside), the loops of  *)
(* the SQLite paths make what the queries give (PathsAlwaysAgree), and the *)
(* figures add up (FiguresAlwaysAgree).                                    *)
(*                                                                         *)
(* The loops and the sums are folds, functions of the parts of a set that  *)
(* say what they are of a part by what they are of it without one element. *)
(* A function that says the same of every part is the same function: where *)
(* they differed, they would differ on a part with the fewest elements.    *)
(***************************************************************************)
EXTENDS ReportsProofs, WellFoundedInduction

----------------------------------------------------------------------------
(* What is outside the scope.                                               *)

\* Tables that are the same as far as some employees go.
SameFor(people, a, b) ==
    /\ a.stored \in SUBSET Swipes /\ b.stored \in SUBSET Swipes
    /\ \A e \in Swipes : e.employee \in people => (e \in a.stored <=> e \in b.stored)
    /\ \A e \in Swipes : e.employee \in people => a.remark[e] = b.remark[e]
    /\ \A p \in people : a.known[p] = b.known[p]

\* The rows a report takes are rows of employees in scope, the same in both.
LEMMA SameEvents ==
    ASSUME NEW a, NEW b, NEW people, SameFor(people, a, b),
           NEW user, NEW departments, ScopedEmployees(user, departments) \subseteq people
    PROVE  \A w : /\ ScopedEvents(a, user, departments, w) = ScopedEvents(b, user, departments, w)
                  /\ DashboardWindow(a, user, departments) = DashboardWindow(b, user, departments)
<1>1. {e \in a.stored : e.employee \in ScopedEmployees(user, departments)}
          = {e \in b.stored : e.employee \in ScopedEmployees(user, departments)}
  BY DEF SameFor
<1>2. DashboardWindow(a, user, departments) = DashboardWindow(b, user, departments)
  BY <1>1, Zenon DEF DashboardWindow
<1>3. \A w : ScopedEvents(a, user, departments, w) = ScopedEvents(b, user, departments, w)
  BY DEF ScopedEvents, SameFor
<1> QED
  BY <1>2, <1>3

\* Those of them who are inside are the same in both,
LEMMA SameInside ==
    ASSUME NEW a, NEW b, NEW people, SameFor(people, a, b), NEW P \in SUBSET people
    PROVE  /\ Inside(a, P) = Inside(b, P)
           /\ \A state : {p \in P : a.known[p].state = state} = {p \in P : b.known[p].state = state}
           /\ \A states : {p \in P : a.known[p].state \in states}
                              = {p \in P : b.known[p].state \in states}
BY DEF Inside, SameFor

\* the list of states,
LEMMA SameStates ==
    ASSUME NEW a, NEW b, NEW people, SameFor(people, a, b),
           NEW user, NEW departments, ScopedEmployees(user, departments) \subseteq people,
           NEW states
    PROVE  EmployeeStates(a, user, departments, states, 500, 0)
               = EmployeeStates(b, user, departments, states, 500, 0)
<1> DEFINE P == {p \in ScopedEmployees(user, departments) : a.known[p].state \in states}
<1>1. P = {p \in ScopedEmployees(user, departments) : b.known[p].state \in states}
  BY SameInside
<1>2. [p \in P |-> <<a.known[p].seen, p>>] = [p \in P |-> <<b.known[p].seen, p>>]
  BY DEF SameFor
<1> QED
  BY <1>1, <1>2, ZenonT(60) DEF EmployeeStates

\* the dashboard
LEMMA SameDashboard ==
    ASSUME NEW a, NEW b, NEW people, SameFor(people, a, b),
           NEW user, NEW departments, ScopedEmployees(user, departments) \subseteq people
    PROVE  Dashboard(a, user, departments) = Dashboard(b, user, departments)
<1> DEFINE P == ScopedEmployees(user, departments)
<1>1. \A w : ScopedEvents(a, user, departments, w) = ScopedEvents(b, user, departments, w)
  BY SameEvents
<1>2. DashboardWindow(a, user, departments) = DashboardWindow(b, user, departments)
  BY SameEvents
<1>3. Inside(a, P) = Inside(b, P)
  BY SameInside
<1> HIDE DEF P
<1>4. \A w : AccessSummary(a, user, departments, w) = AccessSummary(b, user, departments, w)
  BY <1>1, <1>3 DEF AccessSummary, P
<1>5. \A w : OperationalMetrics(a, user, departments, w)
                 = OperationalMetrics(b, user, departments, w)
  <2> TAKE w
  <2> DEFINE history == [w EXCEPT !.from = Min({w.from, w.to - Days(7)})]
  <2>1. ScopedEvents(a, user, departments, history) = ScopedEvents(b, user, departments, history)
    BY <1>1
  <2>2. Inside(a, ScopedEmployees(user, departments))
            = Inside(b, ScopedEmployees(user, departments))
    BY <1>3 DEF P
  <2> QED
    BY <2>1, <2>2 DEF OperationalMetrics
<1>6. \A w : Anomalies(a, user, departments, w, 10, 0) = Anomalies(b, user, departments, w, 10, 0)
  BY <1>1 DEF Anomalies, QueryAccessEvents
<1>7. \A w : Timeseries(a, user, departments, w) = Timeseries(b, user, departments, w)
  BY <1>1 DEF Timeseries
<1> QED
  BY <1>2, <1>4, <1>5, <1>6, <1>7 DEF Dashboard

\* the metrics of the report center
LEMMA SameMetrics ==
    ASSUME NEW a, NEW b, NEW people, SameFor(people, a, b),
           NEW user, NEW departments, NEW w, ScopedEmployees(user, departments) \subseteq people
    PROVE  ReportCenter(a, user, departments, w, NoEmployee, 500).metrics
               = ReportCenter(b, user, departments, w, NoEmployee, 500).metrics
<1> DEFINE asked == IF NoEmployee = NoEmployee THEN Employees ELSE {NoEmployee}
           of(db) == {e \in ScopedEvents(db, user, departments, w) : e.employee \in asked}
           metrics(db) == ReportCenter(db, user, departments, w, NoEmployee, 500).metrics
<1>1. of(a) = of(b)
  <2>1. ScopedEvents(a, user, departments, w) = ScopedEvents(b, user, departments, w)
    BY SameEvents
  <2> QED
    BY <2>1
<1>2. \A db : metrics(db) = CenterMetrics(of(db))
  BY DEF ReportCenter
<1> HIDE DEF of, metrics
<1>3. metrics(a) = metrics(b)
  BY <1>1, <1>2
<1> QED
  BY <1>3 DEF metrics

\* and its other parts.
LEMMA SameCenter ==
    ASSUME NEW a, NEW b, NEW people, SameFor(people, a, b),
           NEW user, NEW departments, NEW w,
           ScopedEmployees(user, departments) \subseteq people,
           ScopedEmployees(user, IF Cardinality(departments) > 1 THEN {} ELSE departments)
               \subseteq people
    PROVE  ReportCenter(a, user, departments, w, NoEmployee, 500)
               = ReportCenter(b, user, departments, w, NoEmployee, 500)
<1> DEFINE one == IF Cardinality(departments) > 1 THEN {} ELSE departments
<1>2. \A v : ScopedEvents(a, user, one, v) = ScopedEvents(b, user, one, v)
  BY SameEvents
<1> HIDE DEF one
<1>3. \A v : WorkHoursSql(a, user, one, NoEmployee, v) = WorkHoursSql(b, user, one, NoEmployee, v)
  BY <1>2 DEF WorkHoursSql
<1>4. \A f, limit : QueryAccessEvents(a, user, one, w, f, limit, 0)
                        = QueryAccessEvents(b, user, one, w, f, limit, 0)
  BY <1>2 DEF QueryAccessEvents
<1> DEFINE metrics(db) == ReportCenter(db, user, departments, w, NoEmployee, 500).metrics
           hours(db) == ReportCenter(db, user, departments, w, NoEmployee, 500).workHours
           events(db) == ReportCenter(db, user, departments, w, NoEmployee, 500).events
           attendance(db) == ReportCenter(db, user, departments, w, NoEmployee, 500).attendance
<1>5. \A db : ReportCenter(db, user, departments, w, NoEmployee, 500) =
               [metrics |-> metrics(db), workHours |-> hours(db), events |-> events(db),
                attendance |-> attendance(db)]
  BY DEF ReportCenter
<1> DEFINE asked == IF NoEmployee = NoEmployee THEN Employees ELSE {NoEmployee}
           of(db, scope) == {e \in ScopedEvents(db, user, scope, w) : e.employee \in asked}
<1>6. metrics(a) = metrics(b)
  BY SameMetrics
<1>7. hours(a) = hours(b)
  BY <1>3 DEF ReportCenter, one
<1>8. events(a) = events(b)
  BY <1>4 DEF ReportCenter, one
<1>9. attendance(a) = attendance(b)
  <2>1. of(a, one) = of(b, one)
    BY <1>2
  <2>2. \A db : attendance(db) = CenterAttendance(of(db, one))
    BY DEF ReportCenter, one
  <2> HIDE DEF of, attendance
  <2> QED
    BY <2>1, <2>2
<1> HIDE DEF metrics, hours, events, attendance
<1> QED
  BY <1>5, <1>6, <1>7, <1>8, <1>9

\* The days of employees whose rows are the same are the same.
LEMMA SameDays ==
    ASSUME NEW S, NEW T, NEW people,
           \A e : e.employee \in people => (e \in S <=> e \in T)
    PROVE  \A d : d.employee \in people => (d \in Daily(S) <=> d \in Daily(T))
<1>1. ASSUME NEW p \in people, NEW date
      PROVE  DayOf(S, p, date) = DayOf(T, p, date)
  <2>1. OnDay(S, p, date) = OnDay(T, p, date)
    BY DEF OnDay
  <2> QED
    BY <2>1, Zenon DEF DayOf
<1>2. \A p, date : DayOf(S, p, date).employee = p /\ DayOf(T, p, date).employee = p
  BY DEF DayOf
<1>3. /\ \A d : d \in Daily(S) <=> \E e \in S : d = DayOf(S, e.employee, e.date)
      /\ \A d : d \in Daily(T) <=> \E e \in T : d = DayOf(T, e.employee, e.date)
  BY DailyIsDays
<1> QED
  BY <1>1, <1>2, <1>3

\* A list of days: an employee's own or all a user sees, or those of an employee who
\* is named.
LEMMA SameAttendance ==
    ASSUME NEW a, NEW b, NEW people, SameFor(people, a, b),
           NEW user, NEW departments, NEW employee,
           \/ Visibly(user, departments) \subseteq people
           \/ employee = NoEmployee /\ ScopedEmployees(user, departments) \subseteq people
    PROVE  AttendanceDaily(a, user, employee, departments, 31)
               = AttendanceDaily(b, user, employee, departments, 31)
<1> DEFINE target == IF employee = NoEmployee /\ user # Anonymous THEN EmployeeOfUser[user]
                     ELSE employee
           since == Now - Days(Clamp(31, 1, 120))
           visible == VisibleDepartmentIds(user, departments)
           rows(db) == {e \in MainSwipes(db.stored) :
                           /\ At(e) >= since
                           /\ DepartmentOf[e.employee] \in visible
                           /\ target = NoEmployee \/ e.employee = target}
           key(R) == [d \in Daily(R) |-> <<Ordinal(d.date), -d.employee>>]
           items(R) == Page(Descending(Daily(R), key(R)), Clamp(31, 1, 120), 0)
           list(R) == [i \in DOMAIN items(R) |->
                          [day |-> items(R)[i], status |-> Status(items(R)[i])]]
<1>1. \A db : AttendanceDaily(db, user, employee, departments, 31) = list(rows(db))
  BY DEF AttendanceDaily
<1>2. ASSUME NEW e \in Swipes, DepartmentOf[e.employee] \in visible,
             target = NoEmployee \/ e.employee = target
      PROVE  e.employee \in people
  <2>1. e.employee \in Employees
    BY SwipeRows
  <2>2. CASE Visibly(user, departments) \subseteq people
    BY <1>2, <2>1, <2>2 DEF Visibly
  <2>3. CASE employee = NoEmployee /\ ScopedEmployees(user, departments) \subseteq people
    <3>1. user # Anonymous
      BY <1>2 DEF VisibleDepartmentIds
    <3>2. IsOwn(user, e.employee)
      BY <1>2, <2>3, <3>1 DEF IsOwn, OwnOnly
    <3> QED
      BY <1>2, <2>1, <2>3, <3>2 DEF ScopedEmployees
  <2> QED
    BY <2>2, <2>3
<1> HIDE DEF target, since, visible
<1>3. rows(a) = rows(b)
  BY <1>2 DEF SameFor, MainSwipes, Granted
<1> HIDE DEF rows, list
<1> QED
  BY <1>1, <1>3

\* The figures of a department's employees.
LEMMA SameMonthly ==
    ASSUME NEW a, NEW b, NEW people, SameFor(people, a, b), NEW P \in SUBSET people
    PROVE  MonthlyMetrics(a, P) = MonthlyMetrics(b, P)
<1> DEFINE rows(db) == {e \in db.stored : /\ e.employee \in P
                                         /\ MonthToNow.from <= At(e) /\ At(e) <= MonthToNow.to}
           metrics(R) == [p \in P |-> MetricRow(p, Daily(MainSwipes(R)),
                                                LateInSql(Daily(MainSwipes(R))), Denied(R))]
<1>1. \A db : MonthlyMetrics(db, P) = metrics(rows(db))
  BY DEF MonthlyMetrics
<1>2. rows(a) = rows(b)
  BY DEF SameFor
<1> HIDE DEF rows, metrics
<1> QED
  BY <1>1, <1>2

\* The analytics are of the days of all employees of the departments a user sees.
LEMMA AnalyticsOfSame ==
    ASSUME NEW a, NEW b, NEW people, SameFor(people, a, b),
           NEW user, Visibly(user, {}) \subseteq people,
           NEW A, NEW B, \A d : d \in A \/ d \in B => d.employee \in Employees,
           \A d : d.employee \in people => (d \in A <=> d \in B)
    PROVE  AnalyticsOf(a, user, A, LateInSql(A)) = AnalyticsOf(b, user, B, LateInSql(B))
<1> DEFINE of(S, leaves) == {d \in S : DepartmentOf[d.employee] \in leaves}
           normal(days) == {d \in days : Complete(d)} \ LateInSql(days)
           overtime(days) == Overtime(days, OvertimeHours)
           member(leaves) == {p \in Employees : DepartmentOf[p] \in leaves}
           row(inside, days, leaves) ==
               [known |-> Cardinality(member(leaves)), inside |-> Cardinality(inside),
                daily |-> Cardinality(of(days, leaves)),
                normal |-> Cardinality(of(normal(days), leaves)),
                late |-> Cardinality(of(LateInSql(days), leaves)),
                overtime |-> Cardinality(of(overtime(days), leaves))]
<1>1. \A node : Leaves(user, node) \subseteq VisibleDepartmentIds(user, {})
  BY DEF Leaves
<1>2. \A p \in Employees : DepartmentOf[p] \in VisibleDepartmentIds(user, {}) => p \in people
  BY DEF Visibly
<1>3. ASSUME NEW node
      PROVE  LET leaves == Leaves(user, node)
             IN  row(Inside(a, member(leaves)), A, leaves)
                     = row(Inside(b, member(leaves)), B, leaves)
  <2> DEFINE leaves == Leaves(user, node)
  <2>1. Inside(a, member(leaves)) = Inside(b, member(leaves))
    <3>1. member(leaves) \in SUBSET people
      BY <1>1, <1>2
    <3> HIDE DEF member, leaves
    <3> QED
      BY <3>1, SameInside
  <2>2. \A d : d.employee \in Employees /\ DepartmentOf[d.employee] \in leaves
                   => (d \in A <=> d \in B)
    BY <1>1, <1>2
  <2> HIDE DEF leaves
  <2>3. of(A, leaves) = of(B, leaves)
    BY <2>2
  <2>4. of(normal(A), leaves) = of(normal(B), leaves)
    BY <2>2 DEF LateInSql
  <2>5. of(LateInSql(A), leaves) = of(LateInSql(B), leaves)
    BY <2>2 DEF LateInSql
  <2>6. of(overtime(A), leaves) = of(overtime(B), leaves)
    BY <2>2 DEF Overtime
  <2> HIDE DEF of, normal, overtime, member
  <2> QED
    BY <2>1, <2>3, <2>4, <2>5, <2>6 DEF leaves
<1>4. /\ AnalyticsOf(a, user, A, LateInSql(A)) =
             [node \in DisplayNodes(user) |->
                 row(Inside(a, member(Leaves(user, node))), A, Leaves(user, node))]
      /\ AnalyticsOf(b, user, B, LateInSql(B)) =
             [node \in DisplayNodes(user) |->
                 row(Inside(b, member(Leaves(user, node))), B, Leaves(user, node))]
  BY DEF AnalyticsOf
<1> HIDE DEF row, member
<1> QED
  BY <1>3, <1>4

\* The days of rows are days of employees.
LEMMA DaysAreOfEmployees ==
    ASSUME NEW S \in SUBSET Swipes
    PROVE  \A d \in Daily(S) : d.employee \in Employees
<1>1. \A p, date : DayOf(S, p, date).employee = p
  BY DEF DayOf
<1>2. \A e \in Swipes : e.employee \in Employees
  BY SwipeRows
<1> QED
  BY <1>1, <1>2, DailyIsDays

\* The nodes of the analytics, then.
LEMMA SameAnalytics ==
    ASSUME NEW a, NEW b, NEW people, SameFor(people, a, b),
           NEW user, Visibly(user, {}) \subseteq people
    PROVE  DepartmentAnalytics(a, user, 31) = DepartmentAnalytics(b, user, 31)
<1> DEFINE since == Now - Days(Clamp(31, 1, 120))
           S == MainSwipes({e \in a.stored : At(e) >= since})
           T == MainSwipes({e \in b.stored : At(e) >= since})
<1>1. /\ DepartmentAnalytics(a, user, 31) = AnalyticsOf(a, user, Daily(S), LateInSql(Daily(S)))
      /\ DepartmentAnalytics(b, user, 31) = AnalyticsOf(b, user, Daily(T), LateInSql(Daily(T)))
  BY DEF DepartmentAnalytics
<1>2. S \in SUBSET Swipes /\ T \in SUBSET Swipes
  BY DEF SameFor, MainSwipes, Granted
<1>3. \A e : e.employee \in people => (e \in S <=> e \in T)
  BY DEF SameFor, MainSwipes, Granted
<1> HIDE DEF S, T
<1>4. \A d : d.employee \in people => (d \in Daily(S) <=> d \in Daily(T))
  BY <1>3, SameDays
<1>5. \A d : d \in Daily(S) \/ d \in Daily(T) => d.employee \in Employees
  BY <1>2, DaysAreOfEmployees
<1> QED
  BY <1>1, <1>4, <1>5, AnalyticsOfSame

\* A page of some employees has no others.
LEMMA PageOfEmployees ==
    ASSUME NEW P \in SUBSET Employees, NEW limit \in Nat, NEW offset \in Nat
    PROVE  Page(ByDepartment(P), limit, offset) \in Seq(P)
<1> DEFINE key == [p \in P |-> <<-DepartmentOf[p], -p>>]
<1>1. IsFiniteSet(P)
  BY TreeOfDepartments, FS_Subset
<1>2. \A p \in P : p \in Int /\ DepartmentOf[p] \in Int
  <2> TAKE p \in P
  <2>1. p \in Employees /\ p \in Nat
    BY OrderedIds
  <2>2. DepartmentOf[p] \in Departments \union {NoDepartment}
    BY <2>1, TreeOfDepartments
  <2>3. Departments \union {NoDepartment} \subseteq Nat
    BY OrderedIds
  <2> QED
    BY <2>1, <2>2, <2>3
<1>3. \A p \in P : key[p] \in Keys(2)
  BY <1>2 DEF Keys
<1>4. ASSUME NEW p \in P, NEW q \in P, key[p] = key[q]
      PROVE  p = q
  <2>1. \A x, y, v, w : <<x, y>> = <<v, w>> => y = w
    OBVIOUS
  <2>2. -p = -q
    BY <1>4, <2>1
  <2> QED
    BY <1>2, <2>2
<1>5. ByDepartment(P) = Descending(P, key)
  BY DEF ByDepartment
<1> HIDE DEF key
<1>6. Descending(P, key) \in [1..Cardinality(P) -> P]
  BY <1>1, <1>3, <1>4, DescendingSorts
<1>7. Descending(P, key) \in Seq(P)
  BY <1>1, <1>6, FS_CardinalityType
<1> QED
  BY <1>5, <1>7, PageOfSeq

\* The employees of one of the departments asked for are in scope.
LEMMA DepartmentInScope ==
    ASSUME NEW user, NEW departments, NEW d \in departments
    PROVE  /\ ScopedEmployees(user, {d}) \subseteq ScopedEmployees(user, departments)
           /\ ScopedEmployees(user, departments) \subseteq ScopedEmployees(user, {})
BY DEF ScopedEmployees, VisibleDepartmentIds, Requested

\* So are the employees of a department with their figures.
LEMMA SameDepartment ==
    ASSUME NEW a, NEW b, NEW people, SameFor(people, a, b),
           NEW user, NEW d, ScopedEmployees(user, {d}) \subseteq people
    PROVE  DepartmentEmployees(a, user, d, 500, 0) = DepartmentEmployees(b, user, d, 500, 0)
<1> DEFINE limit == Clamp(500, 1, 500)
           offset == Max({0, 0})
           P == ScopedEmployees(user, {d})
           page == Page(ByDepartment(P), limit, offset)
           in(db, state) == {p \in Range(page) : db.known[p].state = state}
           row(metrics, inside, outside, unknown) ==
               [items |-> page, metrics |-> metrics, total |-> Cardinality(P),
                inside |-> Cardinality(inside), outside |-> Cardinality(outside),
                unknown |-> Cardinality(unknown),
                seconds |-> MapThenSumSet(LAMBDA p : metrics[p].seconds, Range(page)),
                anomalies |-> MapThenSumSet(LAMBDA p : metrics[p].anomalies, Range(page))]
<1>1. \A db : DepartmentEmployees(db, user, d, 500, 0) =
                  row(MonthlyMetrics(db, Range(page)), in(db, "IN"), in(db, "OUT"),
                      in(db, "UNKNOWN"))
  BY DEF DepartmentEmployees
<1>2. limit \in Nat /\ offset \in Nat
  BY DEF Clamp, Max
<1>3. P \in SUBSET Employees
  BY DEF ScopedEmployees
<1> HIDE DEF limit, offset, P
<1>4. page \in Seq(P)
  BY <1>2, <1>3, PageOfEmployees
<1> HIDE DEF page
<1>5. Range(page) \in SUBSET people
  BY <1>4 DEF Range, P
<1>6. MonthlyMetrics(a, Range(page)) = MonthlyMetrics(b, Range(page))
  BY <1>5, SameMonthly
<1>7. \A state : in(a, state) = in(b, state)
  BY <1>5, SameInside
<1> HIDE DEF in, row
<1> QED
  BY <1>1, <1>6, <1>7

\* A long day has an exit among the rows, and one that is the last.
LEMMA LongDayHasExit ==
    ASSUME NEW db, db.stored \in SUBSET Swipes, IsFiniteSet(db.stored),
           NEW S \in SUBSET db.stored, NEW d \in LongDays(S)
    PROVE  \E e \in db.stored : /\ ExitsOf(db, d) = {e}
                                /\ e.employee = d.employee
                                /\ OvertimeItem(db, d).note = db.remark[e]
<1> DEFINE main == MainSwipes(S)
           day == Going("OUT", OnDay(MainSwipes(db.stored), d.employee, d.date))
<1>1. S \in SUBSET Swipes /\ IsFiniteSet(S)
  BY FS_Subset
<1>2. main \in SUBSET S /\ main \in SUBSET Swipes /\ IsFiniteSet(main)
  BY <1>1, MainOfRows
<1>3. d \in Daily(main) /\ d.last # NoTime
  BY DEF LongDays, Overtime, Complete
<1>4. Going("OUT", OnDay(main, d.employee, d.date)) # {}
  <2> HIDE DEF main
  <2> QED
    BY <1>2, <1>3, DaysOfRows
<1>5. Going("OUT", OnDay(main, d.employee, d.date)) \subseteq day
  BY DEF Going, OnDay, MainSwipes, Granted
<1>6. day \in SUBSET db.stored /\ \A e \in day : e.employee = d.employee
  BY DEF Going, OnDay, MainSwipes, Granted
<1>7. ExitsOf(db, d) = Latest(day)
  BY DEF ExitsOf
<1> HIDE DEF day, main
<1>8. IsFiniteSet(day) /\ day \in SUBSET Swipes /\ day # {}
  BY <1>4, <1>5, <1>6, FS_Subset
<1>9. PICK e \in Latest(day) : e \in day
  BY <1>8, LatestAndEarliest
<1>10. ExitsOf(db, d) = {e}
  BY <1>7, <1>8, <1>9, OneLatestOneEarliest
<1>11. ChooseUnique(ExitsOf(db, d), LAMBDA x : TRUE) = e
  BY <1>10 DEF ChooseUnique
<1>12. OvertimeItem(db, d).note = db.remark[e]
  BY <1>11 DEF OvertimeItem
<1> QED
  BY <1>6, <1>9, <1>10, <1>12

\* The items of a kind, over rows of employees the tables are the same for.
LEMMA SameItems ==
    ASSUME NEW a, NEW b, NEW people, SameFor(people, a, b),
           IsFiniteSet(a.stored), IsFiniteSet(b.stored),
           NEW S \in SUBSET a.stored, S \in SUBSET b.stored,
           \A e \in S : e.employee \in people
    PROVE  /\ OvertimeItems(a, S) = OvertimeItems(b, S)
           /\ LateItems(a, S) = LateItems(b, S)
           /\ DeniedItems(a, S) = DeniedItems(b, S)
<1>1. S \in SUBSET Swipes /\ IsFiniteSet(S)
  BY FS_Subset DEF SameFor
<1>2. /\ LateEntries(S) \in SUBSET Swipes /\ IsFiniteSet(LateEntries(S))
      /\ Denied(S) \in SUBSET Swipes /\ IsFiniteSet(Denied(S))
      /\ MainSwipes(S) \in SUBSET Swipes /\ IsFiniteSet(MainSwipes(S))
      /\ LateEntries(S) \in SUBSET S
  BY <1>1, MainOfRows DEF LateEntries
<1>3. \A e \in S : LateItem(a, e) = LateItem(b, e) /\ DeniedItem(a, e) = DeniedItem(b, e)
  BY <1>1 DEF LateItem, DeniedItem, SameFor
<1>4. LateItems(a, S) = LateItems(b, S)
  <2> DEFINE rows == NewestFirst(LateEntries(S))
             item == [e \in LateEntries(S) |-> e]
  <2>1. \A db : LateItems(db, S) = [i \in DOMAIN rows |-> LateItem(db, rows[i])]
    BY DEF LateItems, LateEntries
  <2>2. \A i \in DOMAIN rows : rows[i] \in LateEntries(S)
    <3>1. \A e \in LateEntries(S) : item[e] \in S
      BY <1>2
    <3> HIDE DEF item
    <3> QED
      BY <1>2, <3>1, SwipesMakeSeq
  <2> HIDE DEF rows
  <2> QED
    BY <1>2, <1>3, <2>1, <2>2
<1>5. DeniedItems(a, S) = DeniedItems(b, S)
  <2> DEFINE rows == NewestFirst(Denied(S))
             item == [e \in Denied(S) |-> e]
  <2>1. \A db : DeniedItems(db, S) = [i \in DOMAIN rows |-> DeniedItem(db, rows[i])]
    BY DEF DeniedItems, DeniedItem
  <2>2. \A i \in DOMAIN rows : rows[i] \in Denied(S)
    <3>1. \A e \in Denied(S) : item[e] \in Swipes
      BY <1>2
    <3> HIDE DEF item
    <3> QED
      BY <1>2, <3>1, SwipesMakeSeq
  <2>3. Denied(S) \subseteq S
    BY DEF Denied
  <2> HIDE DEF rows
  <2> QED
    BY <1>3, <2>1, <2>2, <2>3
<1>6. OvertimeItems(a, S) = OvertimeItems(b, S)
  <2> DEFINE long == LongDays(S)
             key == [d \in long |-> <<Ordinal(d.date), Stay(d), d.employee>>]
             item == [d \in long |-> d]
             rows == Descending(long, key)
  <2>1. \A db : OvertimeItems(db, S) = [i \in DOMAIN rows |-> OvertimeItem(db, rows[i])]
    BY DEF OvertimeItems, OvertimeItem, ExitsOf, LongDays, long
  <2>2. ASSUME NEW d \in long
        PROVE  OvertimeItem(a, d) = OvertimeItem(b, d)
    <3>1. PICK e \in a.stored : /\ ExitsOf(a, d) = {e} /\ e.employee = d.employee
                                /\ OvertimeItem(a, d).note = a.remark[e]
      BY LongDayHasExit DEF SameFor
    <3>2. PICK f \in b.stored : /\ ExitsOf(b, d) = {f} /\ f.employee = d.employee
                                /\ OvertimeItem(b, d).note = b.remark[f]
      BY LongDayHasExit DEF SameFor
    <3>3. d.employee \in people
      <4>1. MainSwipes(S) \subseteq S
        BY DEF MainSwipes, Granted
      <4>2. d \in Daily(MainSwipes(S))
        BY DEF LongDays, Overtime
      <4>3. \E g \in MainSwipes(S) : g.employee = d.employee
        BY <1>2, <4>2, DaysOfRows
      <4> QED
        BY <4>1, <4>3
    <3>4. OnDay(MainSwipes(a.stored), d.employee, d.date)
              = OnDay(MainSwipes(b.stored), d.employee, d.date)
      BY <3>3 DEF SameFor, OnDay, MainSwipes, Granted
    <3>5. ExitsOf(a, d) = ExitsOf(b, d)
      BY <3>4 DEF ExitsOf
    <3>6. a.remark[e] = b.remark[f]
      BY <3>1, <3>2, <3>3, <3>5 DEF SameFor
    <3>7. \A db : OvertimeItem(db, d) = [id |-> DayId("overtime", d), at |-> d.last,
                                         note |-> OvertimeItem(db, d).note]
      BY DEF OvertimeItem
    <3> QED
      BY <3>1, <3>2, <3>6, <3>7
  <2>3. \A i \in DOMAIN rows : rows[i] \in long
    <3>1. long \in SUBSET Daily(MainSwipes(S))
      BY DEF LongDays, Overtime
    <3>2. \A d \in long : \E n \in Int : key[d] = <<Ordinal(d.date), n, d.employee>>
      <4> TAKE d \in long
      <4>1. d.first \in Int /\ d.last \in Int
        BY <1>2, <3>1, DaysOfRows
      <4>2. Stay(d) \in Int
        BY <4>1 DEF Stay
      <4> QED
        BY <4>2
    <3>3. \A d \in long : item[d] \in long
      OBVIOUS
    <3> HIDE DEF item, key, long
    <3> QED
      BY <1>2, <3>1, <3>2, <3>3, DaysMakeSeq
  <2> HIDE DEF rows, long
  <2> QED
    BY <2>1, <2>2, <2>3
<1> QED
  BY <1>4, <1>5, <1>6

\* So the compliance list is the same.
LEMMA SameCompliance ==
    ASSUME NEW a, NEW b, NEW people, SameFor(people, a, b),
           IsFiniteSet(a.stored), IsFiniteSet(b.stored),
           NEW user, NEW departments, ScopedEmployees(user, departments) \subseteq people,
           NEW w, NEW kind, NEW limit, NEW offset
    PROVE  ComplianceAnomalies(a, user, departments, kind, w, limit, offset)
               = ComplianceAnomalies(b, user, departments, kind, w, limit, offset)
<1> DEFINE S == ScopedEvents(a, user, departments, w)
           most == Clamp(limit, 1, 200)
           after == Max({offset, 0})
           lists(db) == [k \in DOMAIN Kinds |->
                            IF kind \in {"all", Kinds[k]}
                            THEN Page(Items(db, Kinds[k], S), most, after) ELSE <<>>]
           items(db) == Page(Merged(lists(db)), most, 0)
           answer(db) == [items |-> items(db),
                          total |-> IF kind = "all" THEN Len(items(db)) + after
                                    ELSE CountOf(kind, S)]
<1>1. ScopedEvents(b, user, departments, w) = S
  BY SameEvents
<1>2. /\ ComplianceAnomalies(a, user, departments, kind, w, limit, offset) = answer(a)
      /\ ComplianceAnomalies(b, user, departments, kind, w, limit, offset) = answer(b)
  BY <1>1, Zenon DEF ComplianceAnomalies
<1>3. S \in SUBSET a.stored /\ S \in SUBSET b.stored /\ \A e \in S : e.employee \in people
  BY <1>1 DEF ScopedEvents
<1> HIDE DEF S, most, after
<1>4. \A k \in DOMAIN Kinds : Items(a, Kinds[k], S) = Items(b, Kinds[k], S)
  <2>1. /\ OvertimeItems(a, S) = OvertimeItems(b, S)
        /\ LateItems(a, S) = LateItems(b, S)
        /\ DeniedItems(a, S) = DeniedItems(b, S)
    BY <1>3, SameItems
  <2> QED
    BY <2>1 DEF Items, Kinds
<1>5. lists(a) = lists(b)
  BY <1>4
<1> HIDE DEF lists
<1> QED
  BY <1>2, <1>5

\* All that is shown, then,
LEMMA SameShown ==
    ASSUME NEW a, NEW b, NEW people, SameFor(people, a, b),
           NEW user, NEW departments, ScopedEmployees(user, departments) \subseteq people
    PROVE  Shown(a, user, departments) = Shown(b, user, departments)
<1> DEFINE all == {"IN", "OUT", "UNKNOWN"}
<1>1. Dashboard(a, user, departments) = Dashboard(b, user, departments)
  BY SameDashboard
<1>2. EmployeeStates(a, user, departments, all, 500, 0)
          = EmployeeStates(b, user, departments, all, 500, 0)
  BY SameStates
<1>3. ASSUME NEW d \in departments
      PROVE  DepartmentEmployees(a, user, d, 500, 0) = DepartmentEmployees(b, user, d, 500, 0)
  <2>1. ScopedEmployees(user, {d}) \subseteq people
    BY DepartmentInScope
  <2> QED
    BY <2>1, SameDepartment
<1>4. AttendanceDaily(a, user, NoEmployee, departments, 31)
          = AttendanceDaily(b, user, NoEmployee, departments, 31)
  BY SameAttendance
<1> QED
  BY <1>1, <1>2, <1>3, <1>4 DEF Shown

\* in any window,
LEMMA SameShownOf ==
    ASSUME NEW a, NEW b, NEW people, SameFor(people, a, b),
           IsFiniteSet(a.stored), IsFiniteSet(b.stored),
           NEW user, NEW departments, NEW w,
           ScopedEmployees(user, departments) \subseteq people,
           ScopedEmployees(user, IF Cardinality(departments) > 1 THEN {} ELSE departments)
               \subseteq people
    PROVE  ShownOf(a, user, departments, w) = ShownOf(b, user, departments, w)
<1>1. ReportCenter(a, user, departments, w, NoEmployee, 500)
          = ReportCenter(b, user, departments, w, NoEmployee, 500)
  BY SameCenter
<1>2. ComplianceAnomalies(a, user, departments, "all", w, 200, 0)
          = ComplianceAnomalies(b, user, departments, "all", w, 200, 0)
  BY SameCompliance
<1> QED
  BY <1>1, <1>2 DEF ShownOf

\* and the lists of several departments.
LEMMA SameListed ==
    ASSUME NEW a, NEW b, NEW people, SameFor(people, a, b),
           NEW user, NEW departments, NEW w, ScopedEmployees(user, departments) \subseteq people
    PROVE  ListedOf(a, user, departments, w) = ListedOf(b, user, departments, w)
<1>1. ScopedEvents(a, user, departments, w) = ScopedEvents(b, user, departments, w)
  BY SameEvents
<1>2. QueryAccessEvents(a, user, departments, w, AnyOf(Employees), 200, 0)
          = QueryAccessEvents(b, user, departments, w, AnyOf(Employees), 200, 0)
  BY <1>1 DEF QueryAccessEvents
<1>3. ExportEvents(a, user, departments, w, AnyOf(Employees))
          = ExportEvents(b, user, departments, w, AnyOf(Employees))
  BY <1>1 DEF ExportEvents
<1>4. ReportCenter(a, user, departments, w, NoEmployee, 500).metrics
          = ReportCenter(b, user, departments, w, NoEmployee, 500).metrics
  BY SameMetrics
<1> QED
  BY <1>2, <1>3, <1>4 DEF ListedOf

\* The tables without what is of anybody else are the same as far as some go.
LEMMA OnlyIsSame ==
    ASSUME ReportsInv, NEW people \in SUBSET Employees
    PROVE  /\ SameFor(people, Only(people), Tables)
           /\ IsFiniteSet(Only(people).stored) /\ IsFiniteSet(Tables.stored)
<1>1. stored \in SUBSET Swipes /\ IsFiniteSet(stored)
  BY DEF ReportsInv, ReportsTypeOK
<1>2. SameFor(people, Only(people), Tables)
  BY <1>1 DEF SameFor, Only, Tables
<1>3. Only(people).stored \in SUBSET stored /\ Tables.stored = stored
  BY DEF Only, Tables
<1> QED
  BY <1>1, <1>2, <1>3, FS_Subset

\* What is of employees outside a request's scope makes no difference to what the
\* routes answer, but for the parts that are of every visible department when several
\* are asked for, and the analytics and the named attendance, which are of the whole
\* departments: for any tables, users, roles, scopes, departments and windows.
THEOREM OutsideIsOutside == Spec => []OutsideMakesNoDifference
<1>1. ReportsInv => OutsideMakesNoDifference
  <2> SUFFICES ASSUME ReportsInv, NEW r \in Requests
               PROVE  LET asked == Only(ScopedEmployees(r.user, r.departments))
                          seen == Only(ScopedEmployees(r.user, {}))
                          several == Cardinality(r.departments) > 1
                      IN  /\ ~several => Shown(asked, r.user, r.departments) =
                                             Shown(Tables, r.user, r.departments)
                          /\ \A w \in Windows :
                                 /\ ListedOf(asked, r.user, r.departments, w) =
                                        ListedOf(Tables, r.user, r.departments, w)
                                 /\ ShownOf(IF several THEN seen ELSE asked,
                                            r.user, r.departments, w) =
                                        ShownOf(Tables, r.user, r.departments, w)
                          /\ DepartmentAnalytics(Only(Visibly(r.user, {})), r.user, 31) =
                                 DepartmentAnalytics(Tables, r.user, 31)
                          /\ \A p \in Employees :
                                 AttendanceDaily(Only(Visibly(r.user, r.departments)),
                                                 r.user, p, r.departments, 31) =
                                     AttendanceDaily(Tables, r.user, p, r.departments, 31)
    BY DEF OutsideMakesNoDifference
  <2> DEFINE user == r.user
             departments == r.departments
             asked == ScopedEmployees(user, departments)
             seen == ScopedEmployees(user, {})
             several == Cardinality(departments) > 1
             some == IF several THEN seen ELSE asked
  <2>1. /\ asked \in SUBSET Employees /\ seen \in SUBSET Employees
        /\ Visibly(user, {}) \in SUBSET Employees
        /\ Visibly(user, departments) \in SUBSET Employees
    BY DEF ScopedEmployees, Visibly
  <2>2. asked \subseteq seen
    <3>1. CASE departments = {}
      BY <3>1
    <3>2. CASE departments # {}
      BY <3>2, DepartmentInScope
    <3> QED
      BY <3>1, <3>2
  <2>3. /\ asked \subseteq some
        /\ ScopedEmployees(user, IF several THEN {} ELSE departments) \subseteq some
        /\ some \in SUBSET Employees
    BY <2>1, <2>2
  <2> HIDE DEF user, departments, asked, seen, several, some
  <2>4. SameFor(asked, Only(asked), Tables)
    BY <2>1, OnlyIsSame
  <2>5. Shown(Only(asked), user, departments) = Shown(Tables, user, departments)
    BY <2>4, SameShown DEF asked
  <2>6. ASSUME NEW w
        PROVE  ListedOf(Only(asked), user, departments, w) = ListedOf(Tables, user, departments, w)
    BY <2>4, SameListed DEF asked
  <2>7. ASSUME NEW w
        PROVE  ShownOf(Only(some), user, departments, w) = ShownOf(Tables, user, departments, w)
    <3>1. /\ SameFor(some, Only(some), Tables)
          /\ IsFiniteSet(Only(some).stored) /\ IsFiniteSet(Tables.stored)
      BY <2>3, OnlyIsSame
    <3> QED
      BY <2>3, <3>1, SameShownOf DEF asked, several
  <2>8. DepartmentAnalytics(Only(Visibly(user, {})), user, 31) = DepartmentAnalytics(Tables, user, 31)
    <3>1. SameFor(Visibly(user, {}), Only(Visibly(user, {})), Tables)
      BY <2>1, OnlyIsSame
    <3> QED
      BY <3>1, SameAnalytics
  <2>9. ASSUME NEW p
        PROVE  AttendanceDaily(Only(Visibly(user, departments)), user, p, departments, 31)
                   = AttendanceDaily(Tables, user, p, departments, 31)
    <3>1. SameFor(Visibly(user, departments), Only(Visibly(user, departments)), Tables)
      BY <2>1, OnlyIsSame
    <3> QED
      BY <3>1, SameAttendance
  <2>10. Only(some) = IF several THEN Only(seen) ELSE Only(asked)
    BY DEF some
  <2> QED
    BY <2>5, <2>6, <2>7, <2>8, <2>9, <2>10 DEF user, departments, asked, seen, several
<1> QED
  BY <1>1, ReportsInvHolds, PTL

----------------------------------------------------------------------------
(* Folds.                                                                   *)

\* Some numbers, if there are any, have a least one.
LEMMA LeastNumber ==
    ASSUME NEW S \in SUBSET Nat, S # {}
    PROVE  \E n \in S : \A m \in S : n <= m
<1> DEFINE R == OpToRel(<, Nat)
<1>1. PICK n \in S : \A m \in S : <<m, n>> \notin R
  BY NatLessThanWellFounded, WFMin
<1>2. \A m \in S : ~(m < n)
  <2> TAKE m \in S
  <2>1. m \in Nat /\ n \in Nat
    OBVIOUS
  <2> QED
    BY <1>1, <2>1 DEF OpToRel
<1>3. \A m \in S : n <= m
  <2> TAKE m \in S
  <2>1. m \in Nat /\ n \in Nat
    OBVIOUS
  <2> QED
    BY <1>2, <2>1
<1> QED
  BY <1>3

\* Two functions of the parts of S that are alike once they are so without an element.
BuiltAlike(S, pick, a, b) ==
    /\ a[{}] = b[{}]
    /\ \A s \in SUBSET S : s # {} => pick[s] \in s
    /\ \A s \in SUBSET S : s # {} /\ a[s \ {pick[s]}] = b[s \ {pick[s]}] => a[s] = b[s]

\* Two that a fold builds alike, an element at a time, are alike for all of S.
LEMMA FoldsAlike ==
    ASSUME NEW S, IsFiniteSet(S), NEW pick, NEW a, NEW b, BuiltAlike(S, pick, a, b)
    PROVE  a[S] = b[S]
<1> DEFINE Differ == {s \in SUBSET S : a[s] # b[s]}
           sizes == {Cardinality(s) : s \in Differ}
<1>1. SUFFICES ASSUME Differ # {}
               PROVE  FALSE
  OBVIOUS
<1>2. \A s \in SUBSET S : IsFiniteSet(s) /\ Cardinality(s) \in Nat
  BY FS_Subset, FS_CardinalityType
<1>3. sizes \in SUBSET Nat /\ sizes # {}
  BY <1>1, <1>2
<1>4. PICK n \in sizes : \A m \in sizes : n <= m
  <2> HIDE DEF sizes
  <2> QED
    BY <1>3, LeastNumber
<1>5. PICK s \in Differ : Cardinality(s) = n
  OBVIOUS
<1>6. s # {} /\ pick[s] \in s
  BY DEF BuiltAlike
<1> DEFINE rest == s \ {pick[s]}
<1>7. Cardinality(rest) = Cardinality(s) - 1
  BY <1>2, <1>6, FS_RemoveElement
<1>8. rest \in SUBSET S /\ rest \notin Differ
  <2>1. rest \in Differ => Cardinality(rest) \in sizes
    OBVIOUS
  <2>2. Cardinality(rest) \in sizes => n <= Cardinality(rest)
    BY <1>4
  <2>3. Cardinality(s) \in Nat /\ rest \in SUBSET S
    BY <1>2
  <2> HIDE DEF sizes, Differ
  <2>4. ~(n <= Cardinality(rest))
    BY <1>5, <1>7, <2>3
  <2> QED
    BY <2>1, <2>2, <2>3, <2>4
<1> QED
  BY <1>6, <1>8 DEF BuiltAlike

\* Numbers up to some number, if there are any, have a greatest one.
LEMMA GreatestNumber ==
    ASSUME NEW n \in Nat, NEW S \in SUBSET (1..n), S # {}
    PROVE  Max(S) \in S /\ \A m \in S : m <= Max(S)
<1> DEFINE down == {n - m : m \in S}
<1>1. down \in SUBSET Nat /\ down # {}
  <2>1. \A m \in S : n - m \in Nat
    OBVIOUS
  <2> QED
    BY <2>1
<1>2. PICK d \in down : \A c \in down : d <= c
  <2> HIDE DEF down
  <2> QED
    BY <1>1, LeastNumber
<1>3. PICK k \in S : d = n - k
  OBVIOUS
<1>4. \A m \in S : k >= m
  <2> TAKE m \in S
  <2>1. d <= n - m
    BY <1>2
  <2> QED
    BY <1>3, <2>1
<1>5. Max(S) \in S /\ \A m \in S : Max(S) >= m
  BY <1>4 DEF Max
<1> QED
  BY <1>5

\* A fold over the places of a sequence, given what it comes to for every set of them.
LEMMA FoldOfPlaces ==
    ASSUME NEW n \in Nat, NEW it, NEW value, it[{}] = value[{}],
           \A s \in SUBSET (1..n) :
               s # {} /\ it[s \ {Max(s)}] = value[s \ {Max(s)}] => it[s] = value[s]
    PROVE  it[1..n] = value[1..n]
<1> DEFINE pick == [s \in SUBSET (1..n) |-> Max(s)]
<1>1. IsFiniteSet(1..n)
  BY FS_Interval
<1>2. \A s \in SUBSET (1..n) : s # {} => pick[s] \in s /\ pick[s] = Max(s)
  BY GreatestNumber
<1> HIDE DEF pick
<1> DEFINE places == 1..n
<1>3. \A s \in SUBSET places :
          s # {} /\ it[s \ {pick[s]}] = value[s \ {pick[s]}] => it[s] = value[s]
  BY <1>2
<1>4. IsFiniteSet(places) /\ \A s \in SUBSET places : s # {} => pick[s] \in s
  BY <1>1, <1>2
<1>5. it[places] = value[places]
  <2> HIDE DEF places
  <2>1. BuiltAlike(places, pick, it, value)
    BY <1>3, <1>4 DEF BuiltAlike
  <2> QED
    BY <1>4, <2>1, FoldsAlike
<1> QED
  BY <1>5

----------------------------------------------------------------------------
(* The loops of the SQLite paths.                                           *)

\* The earliest and the latest time of some rows.
LEMMA TimesOfRows ==
    ASSUME NEW T \in SUBSET Swipes, IsFiniteSet(T), T # {}
    PROVE  LET times == {At(e) : e \in T}
           IN  /\ times \in SUBSET Nat
               /\ Min(times) \in times /\ \A t \in times : Min(times) <= t
               /\ Max(times) \in times /\ \A t \in times : t <= Max(times)
<1> DEFINE times == {At(e) : e \in T}
<1>1. PICK e \in T : \A f \in T : At(f) <= At(e)
  BY LatestAndEarliest
<1>2. PICK g \in T : \A f \in T : At(g) <= At(f)
  BY LatestAndEarliest
<1>3. times \in SUBSET Nat
  BY MomentsOfRows
<1>4. At(e) \in times /\ \A t \in times : At(e) >= t
  BY <1>1, <1>3
<1>5. At(g) \in times /\ \A t \in times : At(g) <= t
  BY <1>2
<1> HIDE DEF times
<1>6. Max(times) \in times /\ \A t \in times : Max(times) >= t
  BY <1>4 DEF Max
<1>7. Min(times) \in times /\ \A t \in times : Min(times) <= t
  BY <1>5 DEF Min
<1>8. \A t \in times : t <= Max(times)
  BY <1>3, <1>6
<1> QED
  BY <1>3, <1>6, <1>7, <1>8 DEF times

\* Rows in their order: each is there once, and none is earlier than one before it.
LEMMA RowsInOrder ==
    ASSUME NEW S \in SUBSET Swipes, IsFiniteSet(S)
    PROVE  /\ Cardinality(S) \in Nat
           /\ OldestFirst(S) \in [1..Cardinality(S) -> S]
           /\ \A e \in S : \E i \in 1..Cardinality(S) : OldestFirst(S)[i] = e
           /\ \A i, j \in 1..Cardinality(S) :
                 i < j => Lower(Moment(OldestFirst(S)[i]), Moment(OldestFirst(S)[j]))
<1> DEFINE key == [e \in S |-> <<-At(e), -e.id>>]
           rows == OldestFirst(S)
           size == Cardinality(S)
<1>1. (\A e \in S : key[e] \in Keys(2)) /\ (\A e, f \in S : key[e] = key[f] => e = f)
  BY SwipeKeys
<1>2. rows = Descending(S, key)
  BY DEF OldestFirst
<1>3. \A e \in S : key[e] = <<-At(e), -e.id>>
  OBVIOUS
<1> HIDE DEF key, rows
<1>4. /\ rows \in [1..size -> S]
      /\ \A e \in S : \E i \in 1..size : rows[i] = e
      /\ \A i, j \in 1..size : i < j => Lower(key[rows[j]], key[rows[i]])
  BY <1>1, <1>2, DescendingSorts
<1>5. \A e, f \in S : Lower(key[f], key[e]) => Lower(Moment(e), Moment(f))
  <2> TAKE e \in S, f \in S
  <2>1. At(e) \in Nat /\ e.id \in Nat /\ At(f) \in Nat /\ f.id \in Nat
    BY MomentsOfRows
  <2>2. Lower(<<-At(f), -f.id>>, <<-At(e), -e.id>>) => Lower(<<At(e), e.id>>, <<At(f), f.id>>)
    BY <2>1 DEF Lower
  <2> QED
    BY <1>3, <2>2 DEF Moment
<1>6. size \in Nat
  BY FS_CardinalityType
<1> HIDE DEF size
<1> QED
  BY <1>4, <1>5, <1>6 DEF rows, size

\* Nor is its time.
LEMMA LaterIsNotEarlier ==
    ASSUME NEW e \in Swipes, NEW f \in Swipes, Lower(Moment(e), Moment(f))
    PROVE  At(e) <= At(f) /\ At(e) \in Nat /\ At(f) \in Nat
<1>1. At(e) \in Nat /\ At(f) \in Nat
  BY MomentsOfRows
<1>2. At(e) < At(f) \/ (At(e) = At(f) /\ e.id < f.id)
  BY SwipeKeys
<1> QED
  BY <1>1, <1>2

\* The rows of a sequence at some of its places.
RowsAt(rows, s) == {rows[i] : i \in s}

\* The last place of some has the last row, and the others the rows before it.
LEMMA LastRow ==
    ASSUME NEW S \in SUBSET Swipes, IsFiniteSet(S),
           NEW s \in SUBSET (1..Cardinality(S)), s # {}
    PROVE  LET rows == OldestFirst(S)
               last == rows[Max(s)]
               before == RowsAt(rows, s \ {Max(s)})
           IN  /\ last \in S /\ before \in SUBSET S
               /\ RowsAt(rows, s) = before \union {last}
               /\ \A f \in before : Lower(Moment(f), Moment(last))
<1> DEFINE rows == OldestFirst(S)
           size == Cardinality(S)
           max == Max(s)
           before == RowsAt(rows, s \ {max})
<1>1. /\ size \in Nat /\ rows \in [1..size -> S]
      /\ \A i, j \in 1..size : i < j => Lower(Moment(rows[i]), Moment(rows[j]))
  BY RowsInOrder
<1>2. max \in s /\ \A m \in s : m <= max
  BY <1>1, GreatestNumber
<1> HIDE DEF rows, size, max
<1>3. s \in SUBSET (1..size)
  BY DEF size
<1>4. rows[max] \in S /\ before \in SUBSET S /\ RowsAt(rows, s) = before \union {rows[max]}
  BY <1>1, <1>2, <1>3 DEF RowsAt
<1>5. \A f \in before : Lower(Moment(f), Moment(rows[max]))
  <2> SUFFICES ASSUME NEW i \in s \ {max}
               PROVE  Lower(Moment(rows[i]), Moment(rows[max]))
    BY DEF RowsAt
  <2>1. i \in 1..size /\ max \in 1..size /\ i < max
    BY <1>1, <1>2, <1>3
  <2> QED
    BY <1>1, <2>1
<1> QED
  BY <1>4, <1>5 DEF rows, max

\* The times of a day once a row is added that none is later than: the first entry is
\* the one there was, if any, and the last exit the row's.
LEMMA DayGrows ==
    ASSUME NEW R \in SUBSET Swipes, IsFiniteSet(R), NEW e \in Swipes,
           \A f \in R : At(f) <= At(e)
    PROVE  LET old == DayOf(R, e.employee, e.date)
               first == e.direction = "IN" /\ (old.first = NoTime \/ At(e) < old.first)
               last == e.direction = "OUT" /\ (old.last = NoTime \/ At(e) > old.last)
               day == DayOf(R \union {e}, e.employee, e.date)
           IN  /\ day.first = IF first THEN At(e) ELSE old.first
               /\ day.last = IF last THEN At(e) ELSE old.last
<1> DEFINE went(direction) == Going(direction, OnDay(R, e.employee, e.date))
           goes(direction) == Going(direction, OnDay(R \union {e}, e.employee, e.date))
           in == went("IN")
           out == went("OUT")
           times(T) == {At(f) : f \in T}
           least(T) == IF times(T) = {} THEN NoTime ELSE Min(times(T))
           most(T) == IF times(T) = {} THEN NoTime ELSE Max(times(T))
           old == DayOf(R, e.employee, e.date)
           day == DayOf(R \union {e}, e.employee, e.date)
<1>1. /\ old.first = least(in) /\ old.last = most(out)
      /\ day.first = least(goes("IN")) /\ day.last = most(goes("OUT"))
  BY DEF DayOf
<1>2. \A direction : goes(direction) = IF e.direction = direction THEN went(direction) \union {e}
                                       ELSE went(direction)
  BY DEF Going, OnDay
<1>3. in \in SUBSET R /\ out \in SUBSET R
  BY DEF Going, OnDay
<1> HIDE DEF went, goes, in, out, old, day
<1>4. ASSUME NEW T \in SUBSET R
      PROVE  /\ T = {} => least(T) = NoTime /\ most(T) = NoTime
             /\ T # {} => least(T) \in Nat /\ least(T) <= At(e)
                          /\ most(T) \in Nat /\ most(T) <= At(e)
             /\ least(T \union {e}) = IF T = {} THEN At(e) ELSE least(T)
             /\ most(T \union {e}) = At(e)
  <2>1. IsFiniteSet(T) /\ IsFiniteSet(T \union {e}) /\ T \in SUBSET Swipes
        /\ T \union {e} \in SUBSET Swipes
    BY FS_Subset, FS_AddElement
  <2>2. times(T \union {e}) = times(T) \union {At(e)} /\ At(e) \in Nat
    BY MomentsOfRows
  <2>3. /\ times(T \union {e}) \in SUBSET Nat
        /\ Min(times(T \union {e})) \in times(T \union {e})
        /\ \A t \in times(T \union {e}) : Min(times(T \union {e})) <= t
        /\ Max(times(T \union {e})) \in times(T \union {e})
        /\ \A t \in times(T \union {e}) : t <= Max(times(T \union {e}))
    BY <2>1, TimesOfRows
  <2>4. T # {} => /\ Min(times(T)) \in times(T) /\ \A t \in times(T) : Min(times(T)) <= t
                  /\ Max(times(T)) \in times(T)
    BY <2>1, TimesOfRows
  <2>5. times(T) = {} <=> T = {}
    OBVIOUS
  <2>6. \A t \in times(T) : t <= At(e)
    OBVIOUS
  <2> HIDE DEF times
  <2>7. Max(times(T \union {e})) = At(e)
    BY <2>2, <2>3, <2>6
  <2>8. T # {} => Min(times(T \union {e})) = Min(times(T))
    BY <2>2, <2>3, <2>4, <2>6
  <2>9. T = {} => Min(times(T \union {e})) = At(e)
    BY <2>2, <2>3, <2>5
  <2> QED
    BY <2>2, <2>3, <2>4, <2>5, <2>6, <2>7, <2>8, <2>9
<1>5. At(e) \in Nat
  BY MomentsOfRows
<1> HIDE DEF least, most
<1>6. day.first = IF e.direction = "IN" /\ (old.first = NoTime \/ At(e) < old.first)
                  THEN At(e) ELSE old.first
  BY <1>1, <1>2, <1>3, <1>4, <1>5 DEF in, NoTime
<1>7. day.last = IF e.direction = "OUT" /\ (old.last = NoTime \/ At(e) > old.last)
                 THEN At(e) ELSE old.last
  <2>1. CASE e.direction = "OUT"
    <3>1. day.last = most(out \union {e}) /\ old.last = most(out)
      BY <1>1, <1>2, <2>1 DEF out
    <3>2. day.last = At(e)
      BY <1>3, <1>4, <3>1
    <3>3. old.last = NoTime \/ (old.last \in Nat /\ old.last <= At(e))
      BY <1>3, <1>4, <3>1
    <3> QED
      BY <1>5, <2>1, <3>2, <3>3
  <2>2. CASE e.direction # "OUT"
    <3>1. day.last = most(out) /\ old.last = most(out)
      BY <1>1, <1>2, <2>2 DEF out
    <3> QED
      BY <2>2, <3>1
  <2> QED
    BY <2>1, <2>2
<1> QED
  BY <1>6, <1>7 DEF old, day

\* The first entry and last exit of each employee on each date.
DaysSoFar(R) ==
    [k \in {<<e.employee, e.date>> : e \in R} |->
        [first |-> DayOf(R, k[1], k[2]).first, last |-> DayOf(R, k[1], k[2]).last]]

\* One turn of the loop over the rows.
LEMMA DaysGrow ==
    ASSUME NEW R \in SUBSET Swipes, IsFiniteSet(R), NEW e \in Swipes,
           \A f \in R : At(f) <= At(e)
    PROVE  LET days == DaysSoFar(R)
               unseen == [first |-> NoTime, last |-> NoTime]
               key == <<e.employee, e.date>>
               old == IF key \in DOMAIN days THEN days[key] ELSE unseen
               first == e.direction = "IN" /\ (old.first = NoTime \/ At(e) < old.first)
               last == e.direction = "OUT" /\ (old.last = NoTime \/ At(e) > old.last)
               day == [first |-> IF first THEN At(e) ELSE old.first,
                       last |-> IF last THEN At(e) ELSE old.last]
           IN  [k \in DOMAIN days \union {key} |-> IF k = key THEN day ELSE days[k]]
                   = DaysSoFar(R \union {e})
<1> DEFINE days == DaysSoFar(R)
           unseen == [first |-> NoTime, last |-> NoTime]
           key == <<e.employee, e.date>>
           old == IF key \in DOMAIN days THEN days[key] ELSE unseen
           first == e.direction = "IN" /\ (old.first = NoTime \/ At(e) < old.first)
           last == e.direction = "OUT" /\ (old.last = NoTime \/ At(e) > old.last)
           day == [first |-> IF first THEN At(e) ELSE old.first,
                   last |-> IF last THEN At(e) ELSE old.last]
           keys(T) == {<<f.employee, f.date>> : f \in T}
           times(T, k) == [first |-> DayOf(T, k[1], k[2]).first, last |-> DayOf(T, k[1], k[2]).last]
<1>1. \A T : DaysSoFar(T) = [k \in keys(T) |-> times(T, k)]
  BY DEF DaysSoFar
<1>2. keys(R \union {e}) = keys(R) \union {key}
  OBVIOUS
<1>3. key[1] = e.employee /\ key[2] = e.date
  OBVIOUS
<1>4. old = times(R, key)
  <2>1. CASE key \in keys(R)
    BY <1>1, <2>1
  <2>2. CASE key \notin keys(R)
    <3>1. \A direction : Going(direction, OnDay(R, e.employee, e.date)) = {}
      BY <2>2 DEF Going, OnDay
    <3>2. times(R, key) = unseen
      BY <1>3, <3>1 DEF DayOf
    <3>3. key \notin DOMAIN days
      BY <1>1, <2>2
    <3> QED
      BY <3>2, <3>3
  <2> QED
    BY <2>1, <2>2
<1>5. day = times(R \union {e}, key)
  <2>1. /\ old.first = DayOf(R, e.employee, e.date).first
        /\ old.last = DayOf(R, e.employee, e.date).last
    BY <1>3, <1>4
  <2> HIDE DEF old
  <2> QED
    BY <1>3, <2>1, DayGrows
<1>6. \A k \in keys(R) : k # key => times(R \union {e}, k) = times(R, k)
  <2> SUFFICES ASSUME NEW f \in R, <<f.employee, f.date>> # key
               PROVE  DayOf(R \union {e}, f.employee, f.date) = DayOf(R, f.employee, f.date)
    OBVIOUS
  <2>1. OnDay(R \union {e}, f.employee, f.date) = OnDay(R, f.employee, f.date)
    BY DEF OnDay
  <2> QED
    BY <2>1 DEF DayOf
<1> HIDE DEF key, day, keys, times, old
<1>8. DOMAIN days = keys(R) /\ \A k \in keys(R) : days[k] = times(R, k)
  BY <1>1
<1> HIDE DEF days
<1>9. [k \in DOMAIN days \union {key} |-> IF k = key THEN day ELSE days[k]]
          = [k \in keys(R \union {e}) |-> times(R \union {e}, k)]
  BY <1>2, <1>5, <1>6, <1>8
<1> QED
  BY <1>1, <1>9 DEF key, day, old, days

\* The loop comes to the days that the query groups its rows into.
LEMMA LoopMakesDays ==
    ASSUME NEW S \in SUBSET Swipes, IsFiniteSet(S), NEW counted
    PROVE  DailyInPython(OldestFirst(S), counted) = Daily(S \intersect counted)
<1> DEFINE rows == OldestFirst(S)
           size == Cardinality(S)
           unseen == [first |-> NoTime, last |-> NoTime]
           entered(days, e) ==
               LET key == <<e.employee, e.date>>
                   old == IF key \in DOMAIN days THEN days[key] ELSE unseen
                   first == e.direction = "IN" /\ (old.first = NoTime \/ At(e) < old.first)
                   last == e.direction = "OUT" /\ (old.last = NoTime \/ At(e) > old.last)
                   day == [first |-> IF first THEN At(e) ELSE old.first,
                           last |-> IF last THEN At(e) ELSE old.last]
               IN  [k \in DOMAIN days \union {key} |-> IF k = key THEN day ELSE days[k]]
           next(days, e) == IF e \in counted THEN entered(days, e) ELSE days
           loop == FoldLeft(next, <<>>, rows)
           so(s) == RowsAt(rows, s) \intersect counted
           value == [s \in SUBSET (1..size) |-> DaysSoFar(so(s))]
           Turn(f) == [s \in SUBSET (1..size) |->
                         IF s = {} THEN <<>> ELSE next(f[s \ {Max(s)}], rows[Max(s)])]
           it == CHOOSE f : f = Turn(f)
<1>1. /\ size \in Nat /\ DOMAIN rows = 1..size
      /\ rows \in [1..size -> S] /\ \A e \in S : \E i \in 1..size : rows[i] = e
  BY RowsInOrder
<1>2. DailyInPython(rows, counted) =
          {[employee |-> k[1], date |-> k[2], first |-> loop[k].first, last |-> loop[k].last] :
           k \in DOMAIN loop}
  BY DEF DailyInPython
<1>3. loop = it[1..size]
  <2>1. loop = (CHOOSE f : f = [s \in SUBSET DOMAIN rows |->
                                  IF s = {} THEN <<>> ELSE next(f[s \ {Max(s)}], rows[Max(s)])])
                   [DOMAIN rows]
    <3> HIDE DEF rows, next
    <3> QED
      BY DEF FoldLeft, MapThenFoldSet
  <2> HIDE DEF rows, next, loop
  <2> QED
    BY <1>1, <2>1
<1>4. value[{}] = <<>>
  <2>1. so({}) = {}
    BY DEF RowsAt
  <2>2. DaysSoFar({}) = <<>>
    BY DEF DaysSoFar
  <2>3. {} \in SUBSET (1..size)
    OBVIOUS
  <2> HIDE DEF so
  <2> QED
    BY <2>1, <2>2, <2>3
<1>5. ASSUME NEW s \in SUBSET (1..size), s # {}
      PROVE  value[s] = next(value[s \ {Max(s)}], rows[Max(s)])
  <2> DEFINE last == rows[Max(s)]
             before == RowsAt(rows, s \ {Max(s)})
             R == before \intersect counted
  <2>1. /\ last \in S /\ before \in SUBSET S /\ RowsAt(rows, s) = before \union {last}
        /\ \A f \in before : Lower(Moment(f), Moment(last))
    BY <1>5, LastRow
  <2>2. value[s] = DaysSoFar(RowsAt(rows, s) \intersect counted)
    OBVIOUS
  <2>3. value[s \ {Max(s)}] = DaysSoFar(R)
    OBVIOUS
  <2>4. \A f \in before : At(f) <= At(last)
    BY <2>1, LaterIsNotEarlier
  <2> HIDE DEF value, last, before
  <2>5. R \in SUBSET Swipes /\ IsFiniteSet(R)
    BY <2>1, FS_Subset
  <2>6. CASE last \in counted
    <3>1. RowsAt(rows, s) \intersect counted = R \union {last}
      BY <2>1, <2>6
    <3> HIDE DEF R
    <3>2. entered(DaysSoFar(R), last) = DaysSoFar(R \union {last})
      BY <2>1, <2>4, <2>5, DaysGrow DEF R
    <3> HIDE DEF entered
    <3> QED
      BY <2>2, <2>3, <2>6, <3>1, <3>2 DEF last
  <2>7. CASE last \notin counted
    <3>1. RowsAt(rows, s) \intersect counted = R
      BY <2>1, <2>7
    <3> HIDE DEF R, entered
    <3> QED
      BY <2>2, <2>3, <2>7, <3>1 DEF last
  <2> QED
    BY <2>6, <2>7
<1> HIDE DEF next
<1>6. value = Turn(value)
  BY <1>4, <1>5
<1>7. it = Turn(it)
  <2> HIDE DEF value, Turn
  <2> QED
    BY <1>6
<1> HIDE DEF value, it
<1>8. it[{}] = value[{}]
  BY <1>4, <1>7
<1>9. \A s \in SUBSET (1..size) :
          s # {} /\ it[s \ {Max(s)}] = value[s \ {Max(s)}] => it[s] = value[s]
  BY <1>5, <1>7
<1>10. loop = value[1..size]
  <2> HIDE DEF size, Turn, loop
  <2> QED
    BY <1>1, <1>3, <1>8, <1>9, FoldOfPlaces
<1>11. loop = DaysSoFar(S \intersect counted)
  <2>1. RowsAt(rows, 1..size) = S
    <3> HIDE DEF rows, size
    <3> QED
      BY <1>1 DEF RowsAt
  <2> HIDE DEF rows, loop
  <2> QED
    BY <1>10, <2>1 DEF value
<1> DEFINE R == S \intersect counted
           row(k) == [employee |-> k[1], date |-> k[2], first |-> DaysSoFar(R)[k].first,
                      last |-> DaysSoFar(R)[k].last]
<1>12. DailyInPython(rows, counted) = {row(k) : k \in DOMAIN DaysSoFar(R)}
  <2> HIDE DEF rows, loop
  <2> QED
    BY <1>2, <1>11
<1>13. \A e \in R : row(<<e.employee, e.date>>) = DayOf(R, e.employee, e.date)
  <2> TAKE e \in R
  <2> HIDE DEF R
  <2>1. row(<<e.employee, e.date>>) =
            [employee |-> e.employee, date |-> e.date,
             first |-> DayOf(R, e.employee, e.date).first,
             last |-> DayOf(R, e.employee, e.date).last]
    BY DEF DaysSoFar
  <2> QED
    BY <2>1 DEF DayOf
<1>14. DOMAIN DaysSoFar(R) = {<<e.employee, e.date>> : e \in R}
  BY DEF DaysSoFar
<1>15. Daily(R) = {DayOf(R, e.employee, e.date) : e \in R}
  BY DailyIsDays
<1> HIDE DEF row
<1>16. {row(k) : k \in DOMAIN DaysSoFar(R)} = {row(<<e.employee, e.date>>) : e \in R}
  <2> HIDE DEF R
  <2> QED
    BY <1>14
<1>17. {row(<<e.employee, e.date>>) : e \in R} = Daily(R)
  <2> HIDE DEF R
  <2> QED
    BY <1>13, <1>15
<1> QED
  BY <1>12, <1>16, <1>17

\* A first entry is an entry by a main gate that no other of its day is earlier than.
LEMMA FirstEntriesAre ==
    ASSUME NEW R
    PROVE  \A f : f \in FirstEntries(R) <=>
               /\ f \in Going("IN", MainSwipes(R))
               /\ \A g \in OnDay(Going("IN", MainSwipes(R)), f.employee, f.date) \ {f} :
                     Lower(Moment(f), Moment(g))
BY DEF FirstEntries, Earliest, OnDay

\* One turn of the loop over the late arrivals.
LEMMA EntriesGrow ==
    ASSUME NEW R \in SUBSET Swipes, IsFiniteSet(R), NEW e \in Swipes,
           \A f \in R : Lower(Moment(f), Moment(e))
    PROVE  LET kept == FirstEntries(R)
               same == OnDay(kept, e.employee, e.date)
           IN  FirstEntries(R \union {e}) =
                   IF ~IsMain(e) \/ e.decision # "GRANTED" \/ e.direction # "IN" THEN kept
                   ELSE IF \A old \in same : At(e) < At(old) THEN (kept \ same) \union {e}
                   ELSE kept
<1> DEFINE kept == FirstEntries(R)
           same == OnDay(kept, e.employee, e.date)
           entries == Going("IN", MainSwipes(R))
           day == OnDay(entries, e.employee, e.date)
           more == Going("IN", MainSwipes(R \union {e}))
           enters == IsMain(e) /\ e.decision = "GRANTED" /\ e.direction = "IN"
<1>1. entries \in SUBSET R /\ day \in SUBSET entries
  BY DEF Going, MainSwipes, Granted, OnDay
<1>2. more = IF enters THEN entries \union {e} ELSE entries
  BY DEF Going, MainSwipes, Granted
<1>3. /\ \A f : f \in kept <=>
             f \in entries /\ \A g \in OnDay(entries, f.employee, f.date) \ {f} :
                                 Lower(Moment(f), Moment(g))
      /\ \A f : f \in FirstEntries(R \union {e}) <=>
             f \in more /\ \A g \in OnDay(more, f.employee, f.date) \ {f} :
                              Lower(Moment(f), Moment(g))
  BY FirstEntriesAre
<1>4. e \notin R /\ \A f \in R : ~Lower(Moment(e), Moment(f))
  <2>1. \A f \in Swipes : ~Lower(Moment(e), Moment(e))
                          /\ (Lower(Moment(f), Moment(e)) => ~Lower(Moment(e), Moment(f)))
    BY SwipeKeys, LowerOrder
  <2> QED
    BY <2>1
<1> HIDE DEF kept, entries, more
<1>5. CASE ~enters
  <2>1. \A f : f \in FirstEntries(R \union {e}) <=> f \in kept
    BY <1>2, <1>3, <1>5
  <2> QED
    BY <1>5, <2>1 DEF kept
<1>6. CASE enters
  <2>1. ASSUME NEW f, f # e
        PROVE  f \in FirstEntries(R \union {e}) <=> f \in kept
    <3>1. OnDay(more, f.employee, f.date) \subseteq OnDay(entries, f.employee, f.date) \union {e}
          /\ OnDay(entries, f.employee, f.date) \subseteq OnDay(more, f.employee, f.date)
      BY <1>2, <1>6 DEF OnDay
    <3>2. f \in entries => Lower(Moment(f), Moment(e))
      BY <1>1
    <3> QED
      BY <1>2, <1>3, <1>6, <2>1, <3>1, <3>2
  <2>2. e \in FirstEntries(R \union {e}) <=> day = {}
    <3>1. OnDay(more, e.employee, e.date) \ {e} = day
      BY <1>1, <1>2, <1>4, <1>6 DEF OnDay
    <3>2. e \in more /\ \A g \in day : ~Lower(Moment(e), Moment(g))
      BY <1>1, <1>2, <1>4, <1>6
    <3> HIDE DEF day
    <3> QED
      BY <1>3, <3>1, <3>2
  <2>3. e \notin kept
    BY <1>1, <1>3, <1>4
  <2>4. same = {} <=> day = {}
    <3>1. day # {} => same # {}
      <4> SUFFICES ASSUME day # {} PROVE same # {}
        OBVIOUS
      <4>1. day \in SUBSET Swipes /\ IsFiniteSet(day)
        BY <1>1, FS_Subset
      <4>2. PICK g \in Earliest(day) : g \in day
        <5> HIDE DEF day
        <5> QED
          BY <4>1, LatestAndEarliest
      <4>3. g \in entries /\ g.employee = e.employee /\ g.date = e.date
        BY <4>2 DEF OnDay
      <4>4. g \in kept
        BY <1>3, <4>2, <4>3 DEF Earliest
      <4> QED
        BY <4>3, <4>4 DEF OnDay
    <3>2. same \subseteq day
      BY <1>3 DEF OnDay
    <3> QED
      BY <3>1, <3>2
  <2>5. CASE day = {}
    <3>1. FirstEntries(R \union {e}) = kept \union {e}
      BY <2>1, <2>2, <2>5
    <3> HIDE DEF same, day
    <3> QED
      BY <1>6, <2>4, <2>5, <3>1 DEF same, kept
  <2>6. CASE day # {}
    <3>1. FirstEntries(R \union {e}) = kept
      BY <2>1, <2>2, <2>3, <2>6
    <3>2. PICK old \in same : TRUE
      BY <2>4, <2>6
    <3>3. old \in R
      BY <1>1, <1>3, <3>2 DEF OnDay
    <3>4. ~(At(e) < At(old))
      BY <3>3, LaterIsNotEarlier
    <3>5. ~\A x \in same : At(e) < At(x)
      BY <3>2, <3>4
    <3> HIDE DEF same, day
    <3> QED
      BY <1>6, <3>1, <3>5 DEF same, kept
  <2> QED
    BY <2>5, <2>6
<1> QED
  BY <1>5, <1>6 DEF kept

\* A first page has the first rows of its list, as many as of any list so long.
LEMMA FirstRows ==
    ASSUME NEW T, NEW rows \in Seq(T), NEW limit \in Nat
    PROVE  /\ Page(rows, limit, 0) \in Seq(T)
           /\ Len(Page(rows, limit, 0)) = Clamp(limit, 0, Len(rows))
           /\ \A i \in 1..Clamp(limit, 0, Len(rows)) :
                  i \in 1..Len(rows) /\ Page(rows, limit, 0)[i] = rows[i]
<1> DEFINE last == Clamp(limit, 0, Len(rows))
<1>1. Len(rows) \in Nat /\ last \in 0..Len(rows)
  BY DEF Clamp
<1>2. Page(rows, limit, 0) = SubSeq(rows, 1, last)
  <2>1. 0 + 1 = 1 /\ 0 + limit = limit
    OBVIOUS
  <2>2. Page(rows, limit, 0) = SubSeq(rows, 0 + 1, Clamp(0 + limit, 0, Len(rows)))
    BY DEF Page
  <2> QED
    BY <2>1, <2>2, Zenon
<1> HIDE DEF last
<1>3. SubSeq(rows, 1, last) = [i \in 1..last |-> rows[i]]
  BY <1>1
<1>4. \A i \in 1..last : i \in 1..Len(rows) /\ rows[i] \in T
  BY <1>1
<1>5. /\ Page(rows, limit, 0) \in Seq(T) /\ Len(Page(rows, limit, 0)) = last
      /\ \A i \in 1..last : Page(rows, limit, 0)[i] = rows[i]
  BY <1>1, <1>2, <1>3, <1>4
<1> QED
  BY <1>4, <1>5 DEF last

\* The late list of the loop is a first page of that of the query, where the two tell
\* the main gates alike.
LEMMA LoopMakesLate ==
    ASSUME NEW db, NEW S \in SUBSET Swipes, IsFiniteSet(S), NEW limit \in Nat,
           \A e \in S : IsMain(e) <=> EndsInA(e)
    PROVE  LateItemsInPython(db, OldestFirst(S), limit) = Page(LateItems(db, S), limit, 0)
<1> DEFINE rows == OldestFirst(S)
           size == Cardinality(S)
           sooner(kept, e) ==
               LET same == OnDay(kept, e.employee, e.date)
               IN  IF ~EndsInA(e) \/ e.decision # "GRANTED" \/ e.direction # "IN" THEN kept
                   ELSE IF \A old \in same : At(e) < At(old) THEN (kept \ same) \union {e}
                   ELSE kept
           loop == FoldLeft(sooner, {}, rows)
           value == [s \in SUBSET (1..size) |-> FirstEntries(RowsAt(rows, s))]
           Turn(f) == [s \in SUBSET (1..size) |->
                         IF s = {} THEN {} ELSE sooner(f[s \ {Max(s)}], rows[Max(s)])]
           it == CHOOSE f : f = Turn(f)
           page(late) == Page(NewestFirst(late), limit, 0)
           list(late) == [i \in DOMAIN page(late) |-> LateItem(db, page(late)[i])]
<1>1. /\ size \in Nat /\ DOMAIN rows = 1..size
      /\ rows \in [1..size -> S] /\ \A e \in S : \E i \in 1..size : rows[i] = e
  BY RowsInOrder
<1>2. LateItemsInPython(db, rows, limit) = list({e \in loop : IsLateTime(e.time)})
  BY DEF LateItemsInPython
<1>3. loop = it[1..size]
  <2>1. loop = (CHOOSE f : f = [s \in SUBSET DOMAIN rows |->
                                  IF s = {} THEN {} ELSE sooner(f[s \ {Max(s)}], rows[Max(s)])])
                   [DOMAIN rows]
    <3> HIDE DEF rows, sooner
    <3> QED
      BY DEF FoldLeft, MapThenFoldSet
  <2> HIDE DEF rows, sooner, loop
  <2> QED
    BY <1>1, <2>1
<1>4. value[{}] = {}
  <2>1. RowsAt(rows, {}) = {}
    BY DEF RowsAt
  <2>2. FirstEntries({}) = {}
    BY DEF FirstEntries, Going, MainSwipes, Granted
  <2>3. {} \in SUBSET (1..size)
    OBVIOUS
  <2> QED
    BY <2>1, <2>2, <2>3
<1>5. ASSUME NEW s \in SUBSET (1..size), s # {}
      PROVE  value[s] = sooner(value[s \ {Max(s)}], rows[Max(s)])
  <2> DEFINE last == rows[Max(s)]
             before == RowsAt(rows, s \ {Max(s)})
  <2>1. /\ last \in S /\ before \in SUBSET S /\ RowsAt(rows, s) = before \union {last}
        /\ \A f \in before : Lower(Moment(f), Moment(last))
    BY <1>5, LastRow
  <2>2. value[s] = FirstEntries(RowsAt(rows, s)) /\ value[s \ {Max(s)}] = FirstEntries(before)
    OBVIOUS
  <2> HIDE DEF value, last, before
  <2>3. before \in SUBSET Swipes /\ IsFiniteSet(before) /\ last \in Swipes
    BY <2>1, FS_Subset
  <2>4. FirstEntries(before \union {last}) = sooner(FirstEntries(before), last)
    <3>1. IsMain(last) <=> EndsInA(last)
      BY <2>1
    <3> QED
      BY <2>1, <2>3, <3>1, EntriesGrow
  <2> HIDE DEF sooner
  <2> QED
    BY <2>1, <2>2, <2>4 DEF last
<1> HIDE DEF sooner
<1>6. value = Turn(value)
  BY <1>4, <1>5
<1>7. it = Turn(it)
  <2> HIDE DEF value, Turn
  <2> QED
    BY <1>6
<1> HIDE DEF value, it
<1>8. it[{}] = value[{}]
  BY <1>4, <1>7
<1>9. \A s \in SUBSET (1..size) :
          s # {} /\ it[s \ {Max(s)}] = value[s \ {Max(s)}] => it[s] = value[s]
  BY <1>5, <1>7
<1>10. loop = value[1..size]
  <2> HIDE DEF size, Turn, loop
  <2> QED
    BY <1>1, <1>3, <1>8, <1>9, FoldOfPlaces
<1>11. loop = FirstEntries(S)
  <2>1. RowsAt(rows, 1..size) = S
    <3> HIDE DEF rows, size
    <3> QED
      BY <1>1 DEF RowsAt
  <2> HIDE DEF rows, loop
  <2> QED
    BY <1>10, <2>1 DEF value
<1>12. {e \in loop : IsLateTime(e.time)} = {e \in FirstEntries(S) : LateSql(e.time)}
  <2>1. \A e \in FirstEntries(S) : e.time \in TimesOfDay
    BY MainOfRows, SwipeRows
  <2> HIDE DEF loop
  <2> QED
    BY <1>11, <2>1, LateRulesAgree
<1>13. Page(LateItems(db, S), limit, 0) = list(LateEntries(S))
  <2> DEFINE late == LateEntries(S)
             order == NewestFirst(late)
             same == [e \in late |-> e]
  <2>1. late \in SUBSET Swipes /\ IsFiniteSet(late)
    BY MainOfRows
  <2>2. LateItems(db, S) = [i \in DOMAIN order |-> LateItem(db, order[i])]
    BY DEF LateItems, LateEntries
  <2>3. order \in Seq(late)
    <3>1. \A e \in late : same[e] \in late
      OBVIOUS
    <3> HIDE DEF same, late
    <3>2. /\ [i \in DOMAIN NewestFirst(late) |-> same[NewestFirst(late)[i]]] \in Seq(late)
          /\ \A i \in DOMAIN NewestFirst(late) : NewestFirst(late)[i] \in late
      BY <2>1, <3>1, SwipesMakeSeq
    <3>3. NewestFirst(late) = [i \in DOMAIN NewestFirst(late) |-> NewestFirst(late)[i]]
      <4> DEFINE key == [e \in late |-> Moment(e)]
      <4>1. NewestFirst(late) = Descending(late, key)
        BY DEF NewestFirst
      <4> HIDE DEF key
      <4>2. Descending(late, key) = [i \in DOMAIN Descending(late, key) |->
                                        Descending(late, key)[i]]
        BY DEF Descending
      <4> QED
        BY <4>1, <4>2
    <3>4. \A i \in DOMAIN order : same[order[i]] = order[i]
      BY <3>2 DEF same
    <3> QED
      BY <3>2, <3>3, <3>4
  <2> DEFINE all == LateItems(db, S)
             made == {LateItem(db, e) : e \in late}
             part == Page(order, limit, 0)
             last == Clamp(limit, 0, Len(order))
  <2>4. \A i \in DOMAIN order : LateItem(db, order[i]) \in made
    BY <2>3
  <2> HIDE DEF late, order, made
  <2>5. DOMAIN order = 1..Len(order) /\ Len(order) \in Nat
    BY <2>3
  <2>6. /\ all \in Seq(made) /\ Len(all) = Len(order)
        /\ \A i \in 1..Len(order) : all[i] = LateItem(db, order[i])
    BY <2>2, <2>4, <2>5
  <2> HIDE DEF all
  <2>7. /\ part \in Seq(late) /\ Len(part) = last
        /\ \A i \in 1..last : i \in 1..Len(order) /\ part[i] = order[i]
    BY <2>3, FirstRows
  <2>8. /\ Page(all, limit, 0) \in Seq(made)
        /\ Len(Page(all, limit, 0)) = Clamp(limit, 0, Len(all))
        /\ \A i \in 1..Clamp(limit, 0, Len(all)) : Page(all, limit, 0)[i] = all[i]
    BY <2>6, FirstRows
  <2>9. Clamp(limit, 0, Len(all)) = last
    BY <2>6
  <2> HIDE DEF part, last
  <2>10. /\ DOMAIN part = 1..last /\ DOMAIN Page(all, limit, 0) = 1..last
         /\ Page(all, limit, 0) = [i \in 1..last |-> Page(all, limit, 0)[i]]
    BY <2>7, <2>8, <2>9
  <2>11. \A i \in 1..last : Page(all, limit, 0)[i] = LateItem(db, part[i])
    BY <2>6, <2>7, <2>8, <2>9
  <2>12. Page(all, limit, 0) = [i \in DOMAIN part |-> LateItem(db, part[i])]
    BY <2>10, <2>11
  <2> QED
    BY <2>12 DEF order, late, all, part
<1> HIDE DEF rows, loop, list
<1> QED
  BY <1>2, <1>12, <1>13 DEF rows, LateEntries

----------------------------------------------------------------------------
(* The queries and the loops.                                               *)

\* The rows of a page in their order are the rows in scope.
LEMMA RowsOfPage ==
    ASSUME NEW db, db.stored \in SUBSET Swipes, IsFiniteSet(db.stored),
           NEW user, NEW departments, NEW w
    PROVE  LET S == ScopedEvents(db, user, departments, w)
           IN  /\ S \in SUBSET Swipes /\ IsFiniteSet(S)
               /\ DashboardRows(db, user, departments, w) = OldestFirst(S)
               /\ Range(OldestFirst(S)) = S
<1> DEFINE S == ScopedEvents(db, user, departments, w)
           rows == OldestFirst(S)
<1>1. S \in SUBSET db.stored
  BY DEF ScopedEvents
<1>2. DashboardRows(db, user, departments, w) = OldestFirst(S)
  BY DEF DashboardRows
<1> HIDE DEF S, rows
<1>3. S \in SUBSET Swipes /\ IsFiniteSet(S)
  BY <1>1, FS_Subset
<1>4. /\ rows \in [1..Cardinality(S) -> S]
      /\ \A e \in S : \E i \in 1..Cardinality(S) : rows[i] = e
  BY <1>3, RowsInOrder DEF rows
<1>5. Range(rows) = S
  BY <1>4 DEF Range
<1> QED
  BY <1>2, <1>3, <1>5 DEF S, rows

\* Both forms of the rule find the same days late.
LEMMA LateDaysAgree ==
    ASSUME NEW S \in SUBSET Swipes, IsFiniteSet(S)
    PROVE  LateInSql(Daily(S)) = Late(Daily(S))
<1> DEFINE last == 86399
<1>1. \A n \in Int : n % 86400 \in 0..last
  <2>1. \A n \in Int : n % 86400 \in Int /\ 0 <= n % 86400 /\ n % 86400 < 86400
    OBVIOUS
  <2>2. last \in Int /\ 86400 = last + 1
    OBVIOUS
  <2> HIDE DEF last
  <2>3. \A m \in Int : 0 <= m /\ m < last + 1 => m \in 0..last
    BY <2>2
  <2> QED
    BY <2>1, <2>2, <2>3
<1>2. TimesOfDay = 0..last
  BY DEF TimesOfDay
<1> HIDE DEF last
<1>3. \A d \in Daily(S) : d.first \in Int
  BY DaysOfRows
<1>4. \A d \in Daily(S) : LateSql(d.first % 86400) <=> IsLateTime(d.first % 86400)
  BY <1>1, <1>2, <1>3, LateRulesAgree
<1> QED
  BY <1>4 DEF LateInSql, Late

\* The first page of the query's late list is that of the loop, where they tell the
\* main gates alike,
LEMMA LateListsAgree ==
    ASSUME NEW db, db.stored \in SUBSET Swipes, IsFiniteSet(db.stored),
           \A e \in db.stored : IsMain(e) <=> EndsInA(e),
           NEW user, NEW departments, NEW w, NEW limit \in Nat
    PROVE  Page(LateItems(db, ScopedEvents(db, user, departments, w)), limit, 0)
               = LateItemsInPython(db, DashboardRows(db, user, departments, w), limit)
<1> DEFINE S == ScopedEvents(db, user, departments, w)
<1>1. S \in SUBSET db.stored
  BY DEF ScopedEvents
<1>2. /\ S \in SUBSET Swipes /\ IsFiniteSet(S)
      /\ DashboardRows(db, user, departments, w) = OldestFirst(S)
  BY RowsOfPage
<1> HIDE DEF S
<1>3. LateItemsInPython(db, OldestFirst(S), limit) = Page(LateItems(db, S), limit, 0)
  BY <1>1, <1>2, LoopMakesLate
<1> QED
  BY <1>2, <1>3 DEF S


\* and so are the work hours,
LEMMA WorkHoursAgree ==
    ASSUME NEW db, db.stored \in SUBSET Swipes, IsFiniteSet(db.stored),
           NEW user, NEW departments, NEW employee, NEW to
    PROVE  WorkHoursSql(db, user, departments, employee, to)
               = WorkHoursInPython(db, user, departments, employee, to)
<1> DEFINE S == ScopedEvents(db, user, departments, Year(to))
           rows == DashboardRows(db, user, departments, Year(to))
           counted == {e \in MainSwipes(Range(rows)) : OfEmployee(user, employee, e)}
           asked == {e \in MainSwipes(S) : OfEmployee(user, employee, e)}
<1>1. /\ S \in SUBSET Swipes /\ IsFiniteSet(S) /\ rows = OldestFirst(S) /\ Range(rows) = S
  BY RowsOfPage
<1>2. /\ WorkHoursSql(db, user, departments, employee, to) = WorkHours(Worked(Daily(asked)))
      /\ WorkHoursInPython(db, user, departments, employee, to)
             = WorkHours(Worked(DailyInPython(rows, counted)))
  BY DEF WorkHoursSql, WorkHoursInPython
<1> HIDE DEF S, rows
<1>3. S \intersect counted = asked
  BY <1>1 DEF MainSwipes, Granted
<1> HIDE DEF counted, asked
<1>4. DailyInPython(rows, counted) = Daily(asked)
  BY <1>1, <1>3, LoopMakesDays
<1> QED
  BY <1>2, <1>4

\* The loop over the main gates' rows, which every other page has.
LEMMA MainDaysAgree ==
    ASSUME NEW db, db.stored \in SUBSET Swipes, IsFiniteSet(db.stored),
           NEW user, NEW departments, NEW w
    PROVE  LET S == ScopedEvents(db, user, departments, w)
               rows == DashboardRows(db, user, departments, w)
               days == DailyInPython(rows, MainSwipes(Range(rows)))
           IN  /\ days = Daily(MainSwipes(S))
               /\ Late(days) = LateInSql(Daily(MainSwipes(S)))
<1> DEFINE S == ScopedEvents(db, user, departments, w)
           rows == DashboardRows(db, user, departments, w)
<1>1. /\ S \in SUBSET Swipes /\ IsFiniteSet(S) /\ rows = OldestFirst(S) /\ Range(rows) = S
  BY RowsOfPage
<1> HIDE DEF S, rows
<1>2. S \intersect MainSwipes(S) = MainSwipes(S)
  BY DEF MainSwipes, Granted
<1>3. DailyInPython(rows, MainSwipes(Range(rows))) = Daily(MainSwipes(S))
  BY <1>1, <1>2, LoopMakesDays
<1>4. MainSwipes(S) \in SUBSET Swipes /\ IsFiniteSet(MainSwipes(S))
  BY <1>1, MainOfRows
<1>5. LateInSql(Daily(MainSwipes(S))) = Late(Daily(MainSwipes(S)))
  BY <1>4, LateDaysAgree
<1> QED
  BY <1>3, <1>5 DEF S, rows

\* the monthly figures
LEMMA MonthlyAgrees ==
    ASSUME NEW db, db.stored \in SUBSET Swipes, IsFiniteSet(db.stored),
           NEW user, NEW departments
    PROVE  MonthlyMetrics(db, ScopedEmployees(user, departments))
               = MonthlyInPython(db, user, departments, ScopedEmployees(user, departments))
<1> DEFINE people == ScopedEmployees(user, departments)
           S == ScopedEvents(db, user, departments, MonthToNow)
           R == {e \in db.stored : /\ e.employee \in people
                                  /\ MonthToNow.from <= At(e) /\ At(e) <= MonthToNow.to}
           rows == DashboardRows(db, user, departments, MonthToNow)
           days == DailyInPython(rows, MainSwipes(Range(rows)))
           table(daily, late, denied) == [p \in people |-> MetricRow(p, daily, late, denied)]
<1>1. MonthlyMetrics(db, people) =
          table(Daily(MainSwipes(R)), LateInSql(Daily(MainSwipes(R))), Denied(R))
  BY DEF MonthlyMetrics
<1>2. MonthlyInPython(db, user, departments, people) =
          table(days, Late(days), {e \in Range(rows) : e.decision = "DENIED"})
  BY DEF MonthlyInPython
<1>3. R = S
  BY DEF ScopedEvents
<1>4. days = Daily(MainSwipes(S)) /\ Late(days) = LateInSql(Daily(MainSwipes(S)))
  BY MainDaysAgree
<1>5. {e \in Range(rows) : e.decision = "DENIED"} = Denied(S)
  <2>1. Range(rows) = S
    BY RowsOfPage
  <2> QED
    BY <2>1 DEF Denied
<1> HIDE DEF R, S, rows, days, table
<1> QED
  BY <1>1, <1>2, <1>3, <1>4, <1>5 DEF days, rows

\* and, with no row later than now, the analytics: an EMPLOYEE's loop gives what the
\* query would of their own rows.
LEMMA AnalyticsAgree ==
    ASSUME NEW db, db.stored \in SUBSET Swipes, IsFiniteSet(db.stored),
           \A e \in db.stored : At(e) <= Now,
           NEW user, NEW own, own.known = db.known,
           own.stored = {e \in db.stored : IsOwn(user, e.employee)}
    PROVE  DepartmentAnalytics(own, user, 31) = AnalyticsInPython(db, user, 31)
<1> DEFINE since == Now - Days(Clamp(31, 1, 120))
           w == [from |-> since, to |-> Now]
           people == Visibly(user, {})
           S == ScopedEvents(db, user, {}, w)
           rows == DashboardRows(db, user, {}, w)
           days == DailyInPython(rows, MainSwipes(Range(rows)))
           A == MainSwipes({e \in own.stored : At(e) >= since})
           B == MainSwipes(S)
<1>1. DepartmentAnalytics(own, user, 31) = AnalyticsOf(own, user, Daily(A), LateInSql(Daily(A)))
  BY DEF DepartmentAnalytics
<1>2. AnalyticsInPython(db, user, 31) = AnalyticsOf(db, user, days, Late(days))
  BY DEF AnalyticsInPython
<1>3. days = Daily(B) /\ Late(days) = LateInSql(Daily(B))
  BY MainDaysAgree
<1>4. since \in Int /\ Now \in Int
  BY NowType DEF Days, Clamp
<1>5. \A e : e.employee \in people => (e \in A <=> e \in B)
  <2>1. w.from = since /\ w.to = Now
    OBVIOUS
  <2>2. \A e \in db.stored : At(e) \in Int
    BY MomentsOfRows
  <2>3. \A p \in people : p \in ScopedEmployees(user, {}) <=> IsOwn(user, p)
    BY DEF Visibly, ScopedEmployees
  <2> HIDE DEF since, people, w
  <2>4. \A e \in db.stored : At(e) >= since <=> w.from <= At(e) /\ At(e) <= w.to
    BY <1>4, <2>1, <2>2
  <2> QED
    BY <2>3, <2>4 DEF ScopedEvents, MainSwipes, Granted
<1>6. A \in SUBSET Swipes /\ B \in SUBSET Swipes
  BY DEF MainSwipes, Granted, ScopedEvents
<1> HIDE DEF A, B, days, since, w
<1>7. \A d : d.employee \in people => (d \in Daily(A) <=> d \in Daily(B))
  BY <1>5, SameDays
<1>8. \A d : d \in Daily(A) \/ d \in Daily(B) => d.employee \in Employees
  BY <1>6, DaysAreOfEmployees
<1>9. SameFor(people, db, db)
  BY DEF SameFor
<1>10. AnalyticsOf(db, user, Daily(A), LateInSql(Daily(A)))
           = AnalyticsOf(db, user, Daily(B), LateInSql(Daily(B)))
  BY <1>7, <1>8, <1>9, AnalyticsOfSame
<1>11. AnalyticsOf(own, user, Daily(A), LateInSql(Daily(A)))
           = AnalyticsOf(db, user, Daily(A), LateInSql(Daily(A)))
  <2>1. \A P : Inside(own, P) = Inside(db, P)
    BY DEF Inside
  <2> QED
    BY <2>1 DEF AnalyticsOf
<1> QED
  BY <1>1, <1>2, <1>3, <1>10, <1>11

\* The queries of PostgreSQL and the loops of SQLite, which the tests see, give the same
\* work hours and monthly figures, for any swipes, gates, users and windows; the same
\* first page of the late list where the pattern of the query and the suffix of the loop
\* pick the same gates; and, with no row later than the request, the same analytics,
\* once an EMPLOYEE's query is given their own rows only.
THEOREM PathsAlwaysAgree == Spec => []PathsAgree
<1>1. ReportsInv => PathsAgree
  <2> SUFFICES ASSUME ReportsInv
               PROVE  PathsAgree
    OBVIOUS
  <2>1. Tables.stored \in SUBSET Swipes /\ IsFiniteSet(Tables.stored) /\ Tables.stored = stored
    BY DEF ReportsInv, ReportsTypeOK, Tables
  <2>2. ASSUME \A e \in stored : IsMain(e) <=> EndsInA(e)
        PROVE  \A r \in Requests, w \in Windows, limit \in {1, 200} :
                   Page(LateItems(Tables, ScopedEvents(Tables, r.user, r.departments, w)), limit, 0) =
                       LateItemsInPython(Tables, DashboardRows(Tables, r.user, r.departments, w), limit)
    BY <2>1, <2>2, LateListsAgree
  <2>3. \A r \in Requests, p \in Employees \union {NoEmployee} :
            WorkHoursSql(Tables, r.user, r.departments, p, Now) =
                WorkHoursInPython(Tables, r.user, r.departments, p, Now)
    BY <2>1, WorkHoursAgree
  <2>4. \A r \in Requests :
            MonthlyMetrics(Tables, ScopedEmployees(r.user, r.departments)) =
                MonthlyInPython(Tables, r.user, r.departments,
                                ScopedEmployees(r.user, r.departments))
    BY <2>1, MonthlyAgrees
  <2>5. ASSUME \A e \in stored : At(e) <= Now, NEW user
        PROVE  DepartmentAnalytics(OwnRows(user), user, 31) = AnalyticsInPython(Tables, user, 31)
    <3>1. /\ OwnRows(user).known = Tables.known
          /\ OwnRows(user).stored = {e \in Tables.stored : IsOwn(user, e.employee)}
      BY DEF OwnRows, Tables
    <3> QED
      BY <2>1, <2>5, <3>1, AnalyticsAgree
  <2> QED
    BY <2>2, <2>3, <2>4, <2>5 DEF PathsAgree
<1> QED
  BY <1>1, ReportsInvHolds, PTL

----------------------------------------------------------------------------
(* Totals.                                                                  *)

\* What a sum comes to for every part of a tally.
Sums(value, tally) ==
    /\ value = [s \in SUBSET DOMAIN tally |-> value[s]]
    /\ value[{}] = 0
    /\ \A s \in SUBSET DOMAIN tally : \A k \in s : value[s] = tally[k] + value[s \ {k}]

\* A total is the sum of all of the tally.
LEMMA TotalIsSum ==
    ASSUME NEW K, IsFiniteSet(K), NEW tally, DOMAIN tally = K, NEW value, Sums(value, tally)
    PROVE  Total(tally) = value[K]
<1> DEFINE some(s) == CHOOSE k \in s : TRUE
           Turn(f) == [s \in SUBSET K |->
                          IF s = {} THEN 0 ELSE tally[some(s)] + f[s \ {some(s)}]]
           it == CHOOSE f : f = Turn(f)
           pick == [s \in SUBSET K |-> some(s)]
<1>1. \A s \in SUBSET K : s # {} => pick[s] \in s /\ pick[s] = some(s)
  OBVIOUS
<1>2. Total(tally) = it[K]
  BY DEF Total, MapThenSumSet, MapThenFoldSet
<1> HIDE DEF pick, some
<1>3. /\ value = [s \in SUBSET K |-> value[s]]
      /\ value[{}] = 0
      /\ \A s \in SUBSET K : \A k \in s : value[s] = tally[k] + value[s \ {k}]
  BY DEF Sums
<1>4. \A s \in SUBSET K : s # {} => value[s] = tally[pick[s]] + value[s \ {pick[s]}]
  BY <1>1, <1>3
<1>5. value = Turn(value)
  BY <1>1, <1>3, <1>4
<1>6. it = Turn(it)
  <2> HIDE DEF Turn
  <2> QED
    BY <1>5
<1> HIDE DEF it
<1>7. it[{}] = value[{}]
  <2>1. Turn(it)[{}] = 0
    OBVIOUS
  <2> HIDE DEF Turn
  <2> QED
    BY <1>3, <1>6, <2>1
<1>8. ASSUME NEW s \in SUBSET K, s # {}, it[s \ {pick[s]}] = value[s \ {pick[s]}]
      PROVE  it[s] = value[s]
  <2>1. Turn(it)[s] = tally[pick[s]] + it[s \ {pick[s]}]
    BY <1>1, <1>8
  <2> HIDE DEF Turn
  <2> QED
    BY <1>4, <1>6, <1>8, <2>1
<1>9. BuiltAlike(K, pick, it, value)
  BY <1>1, <1>7, <1>8 DEF BuiltAlike
<1> HIDE DEF Turn
<1>10. it[K] = value[K]
  BY <1>9, FoldsAlike
<1> QED
  BY <1>2, <1>10

\* Sets apart have as many members together as each of them has.
LEMMA DisjointUnion ==
    ASSUME NEW A, NEW B, IsFiniteSet(A), IsFiniteSet(B), A \intersect B = {}
    PROVE  /\ IsFiniteSet(A \union B)
           /\ Cardinality(A \union B) = Cardinality(A) + Cardinality(B)
<1>1. Cardinality(A) \in Nat /\ Cardinality(B) \in Nat /\ Cardinality(A \intersect B) = 0
  BY FS_CardinalityType, FS_EmptySet
<1>2. /\ IsFiniteSet(A \union B)
      /\ Cardinality(A \union B) = Cardinality(A) + Cardinality(B) - Cardinality(A \intersect B)
  BY FS_Union
<1> QED
  BY <1>1, <1>2

\* A tally by a key every member has.
Tallies(tally, X, key) ==
    /\ \A x \in X : key[x] \in DOMAIN tally
    /\ \A k \in DOMAIN tally : tally[k] = Cardinality({x \in X : key[x] = k})

\* What is tallied by a key adds up to all there is.
LEMMA TotalOfTally ==
    ASSUME NEW X, IsFiniteSet(X), NEW key, NEW tally, IsFiniteSet(DOMAIN tally),
           Tallies(tally, X, key)
    PROVE  Total(tally) = Cardinality(X)
<1> DEFINE K == DOMAIN tally
           under(s) == {x \in X : key[x] \in s}
           value == [s \in SUBSET K |-> Cardinality(under(s))]
<1>1. \A s : under(s) \in SUBSET X /\ IsFiniteSet(under(s)) /\ Cardinality(under(s)) \in Nat
  <2> TAKE s
  <2>1. under(s) \in SUBSET X
    OBVIOUS
  <2> HIDE DEF under
  <2> QED
    BY <2>1, FS_Subset, FS_CardinalityType
<1>2. value = [s \in SUBSET K |-> value[s]]
  OBVIOUS
<1>3. value[{}] = 0
  <2>1. under({}) = {}
    OBVIOUS
  <2> HIDE DEF under
  <2> QED
    BY <2>1, FS_EmptySet
<1>4. ASSUME NEW s \in SUBSET K, NEW k \in s
      PROVE  value[s] = tally[k] + value[s \ {k}]
  <2>1. under(s) = under({k}) \union under(s \ {k}) /\ under({k}) \intersect under(s \ {k}) = {}
    OBVIOUS
  <2>2. tally[k] = Cardinality(under({k}))
    <3>1. under({k}) = {x \in X : key[x] = k}
      OBVIOUS
    <3>2. tally[k] = Cardinality({x \in X : key[x] = k})
      BY DEF Tallies
    <3> HIDE DEF under
    <3> QED
      BY <3>1, <3>2
  <2>3. value[s] = Cardinality(under(s)) /\ value[s \ {k}] = Cardinality(under(s \ {k}))
    OBVIOUS
  <2> HIDE DEF under, value
  <2>4. Cardinality(under(s)) = Cardinality(under({k})) + Cardinality(under(s \ {k}))
    <3> DEFINE A == under({k})
               B == under(s \ {k})
    <3>1. IsFiniteSet(A) /\ IsFiniteSet(B)
      BY <1>1
    <3>2. under(s) = A \union B /\ A \intersect B = {}
      BY <2>1
    <3> HIDE DEF A, B
    <3>3. Cardinality(under(s)) = Cardinality(A) + Cardinality(B)
      BY <3>1, <3>2, DisjointUnion
    <3> QED
      BY <3>3 DEF A, B
  <2> QED
    BY <2>2, <2>3, <2>4
<1>5. value[K] = Cardinality(X)
  <2>1. under(K) = X
    BY DEF Tallies
  <2> HIDE DEF under
  <2> QED
    BY <2>1
<1>6. \A s \in SUBSET K : \A k \in s : value[s] = tally[k] + value[s \ {k}]
  BY <1>4
<1> HIDE DEF value
<1>7. Sums(value, tally)
  BY <1>2, <1>3, <1>6 DEF Sums
<1>8. Total(tally) = value[K]
  BY <1>7, TotalIsSum
<1> QED
  BY <1>5, <1>8

\* The total of four.
LEMMA TotalOfKinds ==
    ASSUME NEW tally, DOMAIN tally = Range(Kinds), \A kind \in Range(Kinds) : tally[kind] \in Int
    PROVE  Total(tally) = tally[Kinds[1]] + tally[Kinds[2]] + tally[Kinds[3]] + tally[Kinds[4]]
<1> DEFINE K == Range(Kinds)
           of(s, kind) == IF kind \in s THEN tally[kind] ELSE 0
           value == [s \in SUBSET K |-> of(s, Kinds[1]) + of(s, Kinds[2])
                                            + of(s, Kinds[3]) + of(s, Kinds[4])]
<1>1. /\ K = {Kinds[1], Kinds[2], Kinds[3], Kinds[4]}
      /\ Kinds[1] # Kinds[2] /\ Kinds[1] # Kinds[3] /\ Kinds[1] # Kinds[4]
      /\ Kinds[2] # Kinds[3] /\ Kinds[2] # Kinds[4] /\ Kinds[3] # Kinds[4]
  BY DEF Kinds, Range
<1> HIDE DEF K
<1>2. IsFiniteSet(K)
  <2>1. IsFiniteSet({Kinds[1]}) /\ IsFiniteSet({Kinds[2]})
    BY FS_Singleton
  <2>2. IsFiniteSet({Kinds[3]}) /\ IsFiniteSet({Kinds[4]})
    BY FS_Singleton
  <2>3. IsFiniteSet({Kinds[1]} \union {Kinds[2]}) /\ IsFiniteSet({Kinds[3]} \union {Kinds[4]})
    BY <2>1, <2>2, FS_Union
  <2>4. IsFiniteSet(({Kinds[1]} \union {Kinds[2]}) \union ({Kinds[3]} \union {Kinds[4]}))
    BY <2>3, FS_Union
  <2>5. K = ({Kinds[1]} \union {Kinds[2]}) \union ({Kinds[3]} \union {Kinds[4]})
    BY <1>1
  <2> QED
    BY <2>4, <2>5
<1>3. \A s \in SUBSET K : \A kind \in K : of(s, kind) \in Int
  BY DEF K
<1>4. value = [s \in SUBSET K |-> value[s]]
  OBVIOUS
<1>5. value[{}] = 0
  OBVIOUS
<1>6. ASSUME NEW s \in SUBSET K, NEW k \in s
      PROVE  value[s] = tally[k] + value[s \ {k}]
  <2>1. \A kind \in K : of(s, kind) = (IF kind = k THEN tally[k] ELSE 0) + of(s \ {k}, kind)
    BY DEF K
  <2>2. tally[k] \in Int /\ \A kind \in K : of(s \ {k}, kind) \in Int
    BY DEF K
  <2>3. /\ value[s] = of(s, Kinds[1]) + of(s, Kinds[2]) + of(s, Kinds[3]) + of(s, Kinds[4])
        /\ value[s \ {k}] = of(s \ {k}, Kinds[1]) + of(s \ {k}, Kinds[2])
                                + of(s \ {k}, Kinds[3]) + of(s \ {k}, Kinds[4])
    OBVIOUS
  <2> HIDE DEF value, of
  <2> QED
    BY <1>1, <2>1, <2>2, <2>3
<1>7. value[K] = tally[Kinds[1]] + tally[Kinds[2]] + tally[Kinds[3]] + tally[Kinds[4]]
  BY <1>1
<1>8. \A s \in SUBSET K : \A k \in s : value[s] = tally[k] + value[s \ {k}]
  BY <1>6
<1>9. DOMAIN tally = K
  BY DEF K
<1> HIDE DEF value
<1>10. Sums(value, tally)
  BY <1>4, <1>5, <1>8, <1>9 DEF Sums
<1>11. Total(tally) = value[K]
  BY <1>2, <1>9, <1>10, TotalIsSum
<1> QED
  BY <1>7, <1>11

----------------------------------------------------------------------------
(* The lengths of lists.                                                    *)

\* A list of at most two hundred shows so many.
LEMMA CutIs ==
    ASSUME NEW count \in Nat
    PROVE  Cut(count) = IF count <= 200 THEN count ELSE 200
<1> DEFINE least == IF count <= 200 THEN count ELSE 200
<1>1. /\ least \in {200, count} /\ \A n \in {200, count} : least <= n
      /\ \A m \in {200, count} : (\A n \in {200, count} : m <= n) => m = least
  OBVIOUS
<1> HIDE DEF least
<1>2. Min({200, count}) = least
  BY <1>1 DEF Min
<1> QED
  BY <1>2 DEF Cut, least

\* The first page of a list.
LEMMA FirstPage ==
    ASSUME NEW T, NEW rows \in Seq(T)
    PROVE  /\ Page(rows, 200, 0) \in Seq(T)
           /\ Len(Page(rows, 200, 0)) = Cut(Len(rows))
<1> DEFINE last == Clamp(0 + 200, 0, Len(rows))
<1>1. Len(rows) \in Nat
  OBVIOUS
<1>2. last = Cut(Len(rows)) /\ last \in 0..Len(rows)
  BY <1>1, CutIs DEF Clamp
<1> HIDE DEF last
<1>3. Page(rows, 200, 0) = SubSeq(rows, 1, last)
  BY DEF Page, last
<1>4. SubSeq(rows, 1, last) \in Seq(T) /\ Len(SubSeq(rows, 1, last)) = last
  <2>1. \A i \in 1..last : rows[i] \in T
    BY <1>1, <1>2
  <2>2. last \in Int /\ (1 <= last \/ last = 0)
    BY <1>1, <1>2
  <2> QED
    BY <1>1, <1>2, <2>1, <2>2, SubSeqProperties
<1> QED
  BY <1>2, <1>3, <1>4

\* Cut once or twice, the length is the same.
LEMMA CutTwice ==
    ASSUME NEW a \in Nat, NEW b \in Nat, NEW c \in Nat, NEW d \in Nat
    PROVE  Cut(Cut(a) + Cut(b) + Cut(c) + Cut(d)) = Cut(a + b + c + d)
<1> DEFINE least(n) == IF n <= 200 THEN n ELSE 200
<1>1. \A n \in Nat : Cut(n) = least(n) /\ least(n) \in Nat
  BY CutIs
<1>2. least(a) + least(b) + least(c) + least(d) \in Nat /\ a + b + c + d \in Nat
  OBVIOUS
<1>3. least(least(a) + least(b) + least(c) + least(d)) = least(a + b + c + d)
  OBVIOUS
<1> HIDE DEF least
<1> QED
  BY <1>1, <1>2, <1>3

\* The merged list has every item of the four.
LEMMA MergedLength ==
    ASSUME NEW T, \A t \in T : t.at \in Int, NEW lists \in [1..4 -> Seq(T)]
    PROVE  Len(Merged(lists)) =
               Len(lists[1]) + Len(lists[2]) + Len(lists[3]) + Len(lists[4])
<1> DEFINE of(k) == {<<lists[k][i], k, i>> : i \in DOMAIN lists[k]}
           all == UNION {of(k) : k \in DOMAIN lists}
           key == [x \in all |-> <<x[1].at, -x[2], -x[3]>>]
           size(k) == Len(lists[k])
<1>1. DOMAIN lists = 1..4
  OBVIOUS
<1>2. ASSUME NEW k \in 1..4
      PROVE  IsFiniteSet(of(k)) /\ Cardinality(of(k)) = size(k) /\ size(k) \in Nat
  <2>1. lists[k] \in Seq(T)
    OBVIOUS
  <2>2. DOMAIN lists[k] = 1..size(k) /\ size(k) \in Nat
    BY <2>1
  <2> DEFINE f == [i \in 1..size(k) |-> <<lists[k][i], k, i>>]
             places == 1..size(k)
  <2>3. of(k) = {f[i] : i \in places}
    BY <2>2
  <2>4. \A i, j \in places : f[i] = f[j] => i = j
    OBVIOUS
  <2>5. IsFiniteSet(places) /\ Cardinality(places) = size(k)
    BY <2>2, FS_Interval
  <2> HIDE DEF f, places, of, size
  <2>6. \A i \in places : f[i] \in of(k)
    BY <2>3
  <2>7. \A x \in of(k) : \E i \in places : f[i] = x
    BY <2>3
  <2>8. Cardinality(places) = Cardinality(of(k))
    BY <2>4, <2>5, <2>6, <2>7, MatchedSets
  <2>9. IsFiniteSet(of(k))
    <3>1. IsFiniteSet({f[i] : i \in places})
      BY <2>5, FiniteImage
    <3> QED
      BY <2>3, <3>1
  <2> QED
    BY <2>2, <2>5, <2>8, <2>9
<1>3. ASSUME NEW k \in 1..4, NEW m \in 1..4, k # m
      PROVE  of(k) \intersect of(m) = {}
  <2>1. \A x \in of(k) : x[2] = k
    OBVIOUS
  <2>2. \A x \in of(m) : x[2] = m
    OBVIOUS
  <2> HIDE DEF of
  <2> QED
    BY <1>3, <2>1, <2>2
<1>4. all = (of(1) \union of(2)) \union (of(3) \union of(4))
  <2> HIDE DEF of
  <2> QED
    BY <1>1
<1> HIDE DEF of, size
<1>5. IsFiniteSet(all) /\ Cardinality(all) = size(1) + size(2) + size(3) + size(4)
  <2> HIDE DEF all
  <2>1. /\ IsFiniteSet(of(1)) /\ Cardinality(of(1)) = size(1) /\ size(1) \in Nat
        /\ IsFiniteSet(of(2)) /\ Cardinality(of(2)) = size(2) /\ size(2) \in Nat
        /\ IsFiniteSet(of(3)) /\ Cardinality(of(3)) = size(3) /\ size(3) \in Nat
        /\ IsFiniteSet(of(4)) /\ Cardinality(of(4)) = size(4) /\ size(4) \in Nat
    BY <1>2
  <2>2. /\ of(1) \intersect of(2) = {} /\ of(3) \intersect of(4) = {}
        /\ (of(1) \union of(2)) \intersect (of(3) \union of(4)) = {}
    <3>1. /\ of(1) \intersect of(2) = {} /\ of(3) \intersect of(4) = {}
          /\ of(1) \intersect of(3) = {} /\ of(1) \intersect of(4) = {}
          /\ of(2) \intersect of(3) = {} /\ of(2) \intersect of(4) = {}
      BY <1>3
    <3> QED
      BY <3>1
  <2>3. /\ IsFiniteSet(of(1) \union of(2))
        /\ Cardinality(of(1) \union of(2)) = Cardinality(of(1)) + Cardinality(of(2))
    BY <2>1, <2>2, DisjointUnion
  <2>4. /\ IsFiniteSet(of(3) \union of(4))
        /\ Cardinality(of(3) \union of(4)) = Cardinality(of(3)) + Cardinality(of(4))
    BY <2>1, <2>2, DisjointUnion
  <2>5. /\ IsFiniteSet(all)
        /\ Cardinality(all) = Cardinality(of(1) \union of(2)) + Cardinality(of(3) \union of(4))
    BY <1>4, <2>2, <2>3, <2>4, DisjointUnion
  <2> QED
    BY <2>1, <2>3, <2>4, <2>5
<1>6. Merged(lists) = [n \in DOMAIN Descending(all, key) |-> Descending(all, key)[n][1]]
  BY DEF Merged, of
<1>7. DOMAIN Descending(all, key) = 1..Cardinality(all)
  BY DEF Descending
<1>8. DOMAIN Merged(lists) = 1..Cardinality(all)
  <2> HIDE DEF all, key
  <2> QED
    BY <1>6, <1>7
<1>9. Merged(lists) \in Seq(T)
  BY MergedOfSeqs
<1>10. Len(Merged(lists)) = Cardinality(all)
  <2> DEFINE merged == Merged(lists)
             n == Cardinality(all)
  <2>1. merged \in Seq(T) /\ DOMAIN merged = 1..n
    BY <1>8, <1>9
  <2>2. n \in Nat
    BY <1>5, FS_CardinalityType
  <2> HIDE DEF merged, n
  <2>3. Len(merged) \in Nat /\ DOMAIN merged = 1..Len(merged)
    BY <2>1
  <2>4. Len(merged) = n
    BY <2>1, <2>2, <2>3
  <2> QED
    BY <2>4 DEF merged, n
<1> QED
  BY <1>5, <1>10 DEF size

\* A list over the places up to a number has that length.
LEMMA LengthByPlaces ==
    ASSUME NEW T, NEW rows \in Seq(T), NEW n \in Nat, DOMAIN rows = 1..n
    PROVE  Len(rows) = n
<1>1. Len(rows) \in Nat /\ DOMAIN rows = 1..Len(rows)
  OBVIOUS
<1> QED
  BY <1>1

\* Each kind lists all it counts.
LEMMA ListsCount ==
    ASSUME NEW db, NEW S \in SUBSET Swipes, IsFiniteSet(S), NEW k \in 1..4
    PROVE  /\ Items(db, Kinds[k], S) \in Seq(Listed(db, S))
           /\ CountOf(Kinds[k], S) \in Nat
           /\ Len(Items(db, Kinds[k], S)) = CountOf(Kinds[k], S)
<1> DEFINE main == MainSwipes(S)
           T == Listed(db, S)
<1>1. main \in SUBSET Swipes /\ IsFiniteSet(main)
  BY MainOfRows
<1>2. IsFiniteSet(Daily(main))
  BY <1>1, DaysOfRows
<1>3. LongDays(S) \in SUBSET Daily(main) /\ OpenDays(S) \in SUBSET Daily(main)
  BY DEF LongDays, OpenDays, Overtime, Unpaired
<1> HIDE DEF main
<1>4. /\ Cardinality(LongDays(S)) \in Nat /\ Cardinality(LateEntries(S)) \in Nat
      /\ Cardinality(OpenDays(S)) \in Nat /\ Cardinality(Denied(S)) \in Nat
  <2>1. IsFiniteSet(LongDays(S)) /\ IsFiniteSet(OpenDays(S))
    BY <1>2, <1>3, FS_Subset
  <2>2. IsFiniteSet(LateEntries(S)) /\ IsFiniteSet(Denied(S))
    BY MainOfRows
  <2> QED
    BY <2>1, <2>2, FS_CardinalityType
<1>5. /\ OvertimeItems(db, S) \in Seq(T) /\ LateItems(db, S) \in Seq(T)
      /\ UnpairedItems(S) \in Seq(T) /\ DeniedItems(db, S) \in Seq(T)
  BY ItemsOfKinds
<1>6. \A X, key : DOMAIN Descending(X, key) = 1..Cardinality(X)
  BY DEF Descending
<1> HIDE DEF T
<1>7. CASE k = 1
  <2>1. Kinds[k] = "overtime_daily"
    BY <1>7 DEF Kinds
  <2>2. Items(db, Kinds[k], S) = OvertimeItems(db, S)
    BY <2>1 DEF Items
  <2>3. CountOf(Kinds[k], S) = Cardinality(LongDays(S))
    BY <2>1 DEF CountOf, LongDays
  <2>4. DOMAIN OvertimeItems(db, S) = 1..Cardinality(LongDays(S))
    BY <1>6 DEF OvertimeItems, LongDays
  <2>5. Len(OvertimeItems(db, S)) = Cardinality(LongDays(S))
    BY <1>4, <1>5, <2>4, LengthByPlaces
  <2> QED
    BY <1>4, <1>5, <2>2, <2>3, <2>5 DEF T
<1>8. CASE k = 2
  <2>1. Kinds[k] = "late_arrival"
    BY <1>8 DEF Kinds
  <2>2. Items(db, Kinds[k], S) = LateItems(db, S)
    BY <2>1 DEF Items
  <2>3. CountOf(Kinds[k], S) = Cardinality(LateEntries(S))
    BY <2>1 DEF CountOf, LateEntries
  <2>4. DOMAIN LateItems(db, S) = 1..Cardinality(LateEntries(S))
    BY <1>6 DEF LateItems, LateEntries, NewestFirst
  <2>5. Len(LateItems(db, S)) = Cardinality(LateEntries(S))
    BY <1>4, <1>5, <2>4, LengthByPlaces
  <2> QED
    BY <1>4, <1>5, <2>2, <2>3, <2>5 DEF T
<1>9. CASE k = 3
  <2>1. Kinds[k] = "unpaired_access"
    BY <1>9 DEF Kinds
  <2>2. Items(db, Kinds[k], S) = UnpairedItems(S)
    BY <2>1 DEF Items
  <2>3. CountOf(Kinds[k], S) = Cardinality(OpenDays(S))
    BY <2>1 DEF CountOf, OpenDays
  <2>4. DOMAIN UnpairedItems(S) = 1..Cardinality(OpenDays(S))
    BY <1>6 DEF UnpairedItems, OpenDays
  <2>5. Len(UnpairedItems(S)) = Cardinality(OpenDays(S))
    BY <1>4, <1>5, <2>4, LengthByPlaces
  <2> QED
    BY <1>4, <1>5, <2>2, <2>3, <2>5 DEF T
<1>10. CASE k = 4
  <2>1. Kinds[k] = "denied_access"
    BY <1>10 DEF Kinds
  <2>2. Items(db, Kinds[k], S) = DeniedItems(db, S)
    BY <2>1 DEF Items
  <2>3. CountOf(Kinds[k], S) = Cardinality(Denied(S))
    BY <2>1 DEF CountOf
  <2>4. DOMAIN DeniedItems(db, S) = 1..Cardinality(Denied(S))
    BY <1>6 DEF DeniedItems, NewestFirst
  <2>5. Len(DeniedItems(db, S)) = Cardinality(Denied(S))
    BY <1>4, <1>5, <2>4, LengthByPlaces
  <2> QED
    BY <1>4, <1>5, <2>2, <2>3, <2>5 DEF T
<1> QED
  BY <1>7, <1>8, <1>9, <1>10

\* The list of one kind shows all of it, up to two hundred; that of all kinds counts
\* what it shows, which is all of the four up to two hundred.
LEMMA ListAddsUp ==
    ASSUME NEW db, NEW user, NEW departments, NEW w,
           ScopedEvents(db, user, departments, w) \in SUBSET Swipes,
           IsFiniteSet(ScopedEvents(db, user, departments, w)),
           NEW kind \in Range(Kinds) \union {"all"}
    PROVE  LET list == ComplianceAnomalies(db, user, departments, kind, w, 200, 0)
               count(k) == CountOf(Kinds[k], ScopedEvents(db, user, departments, w))
           IN  /\ \A k \in 1..4 : kind = Kinds[k] => list.total = count(k)
               /\ kind # "all" => Len(list.items) = Cut(list.total)
               /\ kind = "all" =>
                      list.total = Cut(count(1) + count(2) + count(3) + count(4))
<1> DEFINE S == ScopedEvents(db, user, departments, w)
           T == Listed(db, S)
           most == Clamp(200, 1, 200)
           after == Max({0, 0})
           lists == [k \in DOMAIN Kinds |-> IF kind \in {"all", Kinds[k]}
                                           THEN Page(Items(db, Kinds[k], S), most, after) ELSE <<>>]
           items == Page(Merged(lists), most, 0)
           list == ComplianceAnomalies(db, user, departments, kind, w, 200, 0)
           count(k) == CountOf(Kinds[k], S)
           size(k) == IF kind \in {"all", Kinds[k]} THEN Cut(count(k)) ELSE 0
<1>1. /\ list.items = items
      /\ list.total = IF kind = "all" THEN Len(items) + after ELSE CountOf(kind, S)
  BY DEF ComplianceAnomalies
<1>2. most = 200 /\ after = 0
  BY DEF Clamp, Max
<1>3. S \in SUBSET Swipes /\ IsFiniteSet(S)
  OBVIOUS
<1> HIDE DEF S, most, after
<1>4. \A item \in T : item.at \in Int
  BY <1>3, ItemsOfKinds
<1>5. DOMAIN Kinds = 1..4
  BY DEF Kinds
<1>6. \A k \in 1..4 : /\ Items(db, Kinds[k], S) \in Seq(T) /\ count(k) \in Nat
                      /\ Len(Items(db, Kinds[k], S)) = count(k)
  BY <1>3, ListsCount
<1> HIDE DEF T, count, list
<1>7. ASSUME NEW k \in 1..4
      PROVE  lists[k] \in Seq(T) /\ Len(lists[k]) = size(k) /\ size(k) \in Nat
  <2>1. lists[k] = IF kind \in {"all", Kinds[k]} THEN Page(Items(db, Kinds[k], S), 200, 0)
                   ELSE <<>>
    BY <1>2, <1>5
  <2>2. /\ Page(Items(db, Kinds[k], S), 200, 0) \in Seq(T)
        /\ Len(Page(Items(db, Kinds[k], S), 200, 0)) = Cut(count(k))
    BY <1>6, FirstPage
  <2>3. Cut(count(k)) \in Nat
    BY <1>6, CutIs
  <2>4. <<>> \in Seq(T) /\ Len(<<>>) = 0
    OBVIOUS
  <2> HIDE DEF lists
  <2>5. CASE kind \in {"all", Kinds[k]}
    BY <2>1, <2>2, <2>3, <2>5
  <2>6. CASE kind \notin {"all", Kinds[k]}
    BY <2>1, <2>4, <2>6
  <2> QED
    BY <2>5, <2>6
<1>8. lists \in [1..4 -> Seq(T)]
  <2>1. lists = [k \in 1..4 |-> lists[k]]
    BY <1>5
  <2> HIDE DEF lists
  <2> QED
    BY <1>7, <2>1
<1> HIDE DEF lists
<1>9. Len(Merged(lists)) = size(1) + size(2) + size(3) + size(4)
  <2>1. Len(Merged(lists)) = Len(lists[1]) + Len(lists[2]) + Len(lists[3]) + Len(lists[4])
    BY <1>4, <1>8, MergedLength
  <2> HIDE DEF size
  <2>2. /\ Len(lists[1]) = size(1) /\ Len(lists[2]) = size(2)
        /\ Len(lists[3]) = size(3) /\ Len(lists[4]) = size(4)
    BY <1>7
  <2> QED
    BY <2>1, <2>2
<1>10. Len(items) = Cut(size(1) + size(2) + size(3) + size(4))
  <2>1. Merged(lists) \in Seq(T)
    BY <1>4, <1>8, MergedOfSeqs
  <2>2. Len(Page(Merged(lists), 200, 0)) = Cut(Len(Merged(lists)))
    BY <2>1, FirstPage
  <2> QED
    BY <1>2, <1>9, <2>2
<1>11. \A k \in 1..4 : count(k) \in Nat
  BY <1>6
<1>12. CASE kind = "all"
  <2>1. \A k \in 1..4 : size(k) = Cut(count(k)) /\ kind # Kinds[k]
    BY <1>12 DEF Kinds
  <2>2. Len(items) = Cut(count(1) + count(2) + count(3) + count(4))
    <3>1. /\ size(1) = Cut(count(1)) /\ size(2) = Cut(count(2))
          /\ size(3) = Cut(count(3)) /\ size(4) = Cut(count(4))
      BY <2>1
    <3>2. count(1) \in Nat /\ count(2) \in Nat /\ count(3) \in Nat /\ count(4) \in Nat
      BY <1>11
    <3>3. PICK a \in Nat, b \in Nat, c \in Nat, d \in Nat :
              a = count(1) /\ b = count(2) /\ c = count(3) /\ d = count(4)
      BY <3>2
    <3>4. Cut(Cut(a) + Cut(b) + Cut(c) + Cut(d)) = Cut(a + b + c + d)
      BY CutTwice
    <3> HIDE DEF size, items
    <3> QED
      BY <1>10, <3>1, <3>3, <3>4
  <2>3. Len(items) \in Nat
    <3>1. count(1) + count(2) + count(3) + count(4) \in Nat
      BY <1>11
    <3> HIDE DEF items
    <3> QED
      BY <2>2, <3>1, CutIs
  <2>4. list.total = Len(items)
    BY <1>1, <1>2, <1>12, <2>3
  <2> HIDE DEF items
  <2> QED
    BY <1>12, <2>1, <2>2, <2>4 DEF S, count, list
<1>13. CASE kind # "all"
  <2>1. PICK n \in 1..4 : kind = Kinds[n] /\ \A k \in 1..4 : kind = Kinds[k] => k = n
    <3>1. \A k, m \in 1..4 : Kinds[k] = Kinds[m] => k = m
      BY DEF Kinds
    <3>2. kind \in Range(Kinds)
      BY <1>13
    <3> QED
      BY <1>5, <3>1, <3>2 DEF Range
  <2>2. list.total = count(n)
    BY <1>1, <1>13, <2>1 DEF count
  <2>3. \A k \in 1..4 : size(k) = IF k = n THEN Cut(count(n)) ELSE 0
    BY <1>13, <2>1
  <2>4. Cut(count(n)) \in Nat /\ Cut(Cut(count(n))) = Cut(count(n))
    <3>1. Cut(count(n)) = IF count(n) <= 200 THEN count(n) ELSE 200
      BY <1>11, CutIs
    <3>2. Cut(count(n)) \in Nat /\ Cut(count(n)) <= 200
      BY <1>11, <3>1
    <3> QED
      BY <3>2, CutIs
  <2>5. size(1) + size(2) + size(3) + size(4) = Cut(count(n))
    <3> HIDE DEF size
    <3> QED
      BY <2>3, <2>4
  <2>6. Len(list.items) = Cut(list.total)
    <3> HIDE DEF items, size
    <3> QED
      BY <1>1, <1>10, <2>2, <2>4, <2>5
  <2> HIDE DEF items, size
  <2>7. \A k \in 1..4 : kind = Kinds[k] => list.total = count(k)
    BY <2>1, <2>2
  <2> QED
    BY <1>13, <2>6, <2>7 DEF S, count, list
<1> QED
  BY <1>12, <1>13

----------------------------------------------------------------------------
(* The figures of a month, and the hours.                                   *)

\* Figures of one employee each add up to that of all.
LEMMA TotalOfEmployees ==
    ASSUME NEW X, IsFiniteSet(X), NEW people \in SUBSET Employees,
           \A x \in X : x.employee \in people,
           NEW tally, DOMAIN tally = people,
           \A p \in people : tally[p] = Cardinality({x \in X : x.employee = p})
    PROVE  Total(tally) = Cardinality(X)
<1> DEFINE key == [x \in X |-> x.employee]
<1>1. IsFiniteSet(people)
  BY TreeOfDepartments, FS_Subset
<1>2. ASSUME NEW p \in people
      PROVE  tally[p] = Cardinality({x \in X : key[x] = p})
  <2>1. {x \in X : x.employee = p} = {x \in X : key[x] = p}
    OBVIOUS
  <2>2. tally[p] = Cardinality({x \in X : x.employee = p})
    OBVIOUS
  <2> HIDE DEF key
  <2> QED
    BY <2>1, <2>2
<1>3. \A x \in X : key[x] \in people
  OBVIOUS
<1> HIDE DEF key
<1>4. Tallies(tally, X, key)
  BY <1>2, <1>3 DEF Tallies
<1> QED
  BY <1>1, <1>4, TotalOfTally

\* The first entry of a day is the earliest of its entries.
LEMMA EarliestIsFirst ==
    ASSUME NEW S \in SUBSET Swipes, NEW employee, NEW date,
           NEW e \in Earliest(Going("IN", OnDay(S, employee, date)))
    PROVE  /\ DayOf(S, employee, date).first = At(e)
           /\ At(e) # NoTime /\ At(e) % 86400 = e.time
<1> DEFINE entries == Going("IN", OnDay(S, employee, date))
           times == {At(f) : f \in entries}
<1>1. entries \in SUBSET Swipes
  BY DEF Going, OnDay
<1>2. e \in entries /\ \A f \in entries \ {e} : Lower(Moment(e), Moment(f))
  BY DEF Earliest
<1>3. DayOf(S, employee, date).first = IF times = {} THEN NoTime ELSE Min(times)
  BY DEF DayOf
<1> HIDE DEF entries
<1>4. At(e) \in Nat
  BY <1>1, <1>2, MomentsOfRows
<1>5. \A f \in entries : At(f) \in Nat /\ At(e) <= At(f)
  <2> TAKE f \in entries
  <2>1. At(f) \in Nat
    BY <1>1, MomentsOfRows
  <2>2. CASE f = e
    BY <1>4, <2>2
  <2>3. CASE f # e
    <3>1. Lower(Moment(e), Moment(f))
      BY <1>2, <2>3
    <3>2. At(e) < At(f) \/ At(e) = At(f)
      BY <1>1, <1>2, <3>1, SwipeKeys
    <3> QED
      BY <1>4, <2>1, <3>2
  <2> QED
    BY <2>2, <2>3
<1>6. /\ At(e) \in times /\ \A t \in times : t \in Nat /\ At(e) <= t
  BY <1>2, <1>5
<1> HIDE DEF times
<1>7. Min(times) = At(e)
  <2>1. Min(times) \in times /\ \A t \in times : Min(times) <= t
    BY <1>6 DEF Min
  <2> QED
    BY <1>4, <1>6, <2>1
<1>8. At(e) # NoTime
  BY <1>4 DEF NoTime
<1>9. At(e) % 86400 = e.time
  <2> DEFINE n == Midnight(e.date)
  <2>1. e \in Swipes
    BY <1>1, <1>2
  <2>2. n \in Nat /\ n % 86400 = 0
    BY <2>1, MomentsOfRows
  <2>3. e.time \in Int /\ 0 <= e.time /\ e.time < 86400
    BY <2>1, SwipeRows, TimesOfDayType
  <2>4. At(e) = n + e.time
    BY DEF At
  <2> HIDE DEF n
  <2> QED
    BY <2>2, <2>3, <2>4
<1> QED
  BY <1>3, <1>6, <1>7, <1>8, <1>9

\* A day is late by its first entry, and no other row of the day is the first.
LEMMA LateDaysHaveEntries ==
    ASSUME NEW S \in SUBSET Swipes, IsFiniteSet(S)
    PROVE  Cardinality(LateEntries(S)) = Cardinality(LateInSql(Daily(MainSwipes(S))))
<1> DEFINE main == MainSwipes(S)
           entries(p, date) == Going("IN", OnDay(main, p, date))
           day == [e \in LateEntries(S) |-> DayOf(main, e.employee, e.date)]
           late == LateInSql(Daily(main))
<1>1. /\ main \in SUBSET Swipes /\ IsFiniteSet(main)
      /\ LateEntries(S) \in SUBSET Swipes /\ IsFiniteSet(LateEntries(S))
  BY MainOfRows
<1>2. \A e : e \in LateEntries(S) <=>
          e \in main /\ e \in Earliest(entries(e.employee, e.date)) /\ LateSql(e.time)
  <2>1. \A p, date : OnDay(Going("IN", main), p, date) = entries(p, date)
    BY DEF OnDay, Going
  <2>2. \A e : e \in FirstEntries(S) <=>
            \E g \in Going("IN", main) : e \in Earliest(entries(g.employee, g.date))
    BY <2>1 DEF FirstEntries
  <2>3. \A p, date : \A e \in Earliest(entries(p, date)) :
            e \in Going("IN", main) /\ e.employee = p /\ e.date = date
    BY DEF Earliest, Going, OnDay
  <2>4. Going("IN", main) \in SUBSET main
    BY DEF Going
  <2> HIDE DEF main, entries
  <2>5. \A e : e \in FirstEntries(S) <=>
            e \in main /\ e \in Earliest(entries(e.employee, e.date))
    BY <2>2, <2>3, <2>4
  <2> QED
    BY <2>5 DEF LateEntries
<1>3. \A p, date : entries(p, date) \in SUBSET main
  BY DEF Going, OnDay
<1>4. \A p, date : /\ DayOf(main, p, date).employee = p
                   /\ DayOf(main, p, date).date = date
  BY DEF DayOf
<1>5. \A d : d \in late <=> d \in Daily(main) /\ d.first # NoTime /\ LateSql(d.first % 86400)
  BY DEF LateInSql
<1>6. \A e \in LateEntries(S) : day[e] = DayOf(main, e.employee, e.date)
  OBVIOUS
<1> HIDE DEF main, day, late
<1>7. ASSUME NEW e \in LateEntries(S)
      PROVE  day[e] \in late
  <2>1. e \in main /\ e \in Earliest(entries(e.employee, e.date)) /\ LateSql(e.time)
    BY <1>2
  <2>2. /\ day[e].first = At(e) /\ At(e) # NoTime /\ At(e) % 86400 = e.time
    BY <1>1, <1>6, <2>1, EarliestIsFirst
  <2>3. day[e] \in Daily(main)
    BY <1>6, <2>1, DailyIsDays
  <2> QED
    BY <1>5, <2>1, <2>2, <2>3
<1>8. ASSUME NEW d \in late
      PROVE  \E e \in LateEntries(S) : day[e] = d
  <2> DEFINE of == entries(d.employee, d.date)
  <2>1. d \in Daily(main) /\ d.first # NoTime /\ LateSql(d.first % 86400)
    BY <1>5
  <2>2. of # {} /\ d = DayOf(main, d.employee, d.date)
    BY <1>1, <2>1, DaysOfRows
  <2>3. of \in SUBSET Swipes /\ of \in SUBSET main /\ IsFiniteSet(of)
    BY <1>1, <1>3, FS_Subset
  <2>4. PICK e \in Earliest(of) : e \in of
    <3> HIDE DEF of
    <3> QED
      BY <2>2, <2>3, LatestAndEarliest
  <2>5. e.employee = d.employee /\ e.date = d.date
    BY <2>4 DEF Going, OnDay
  <2>6. DayOf(main, d.employee, d.date).first = At(e) /\ At(e) % 86400 = e.time
    BY <1>1, <2>4, EarliestIsFirst
  <2>7. e \in LateEntries(S)
    <3>1. LateSql(e.time)
      BY <2>1, <2>2, <2>6
    <3>2. e \in main /\ e \in Earliest(entries(e.employee, e.date))
      BY <2>3, <2>4, <2>5
    <3> QED
      BY <1>2, <3>1, <3>2
  <2> QED
    BY <1>6, <2>2, <2>5, <2>7
<1>9. ASSUME NEW e \in LateEntries(S), NEW f \in LateEntries(S), day[e] = day[f]
      PROVE  e = f
  <2>1. e.employee = f.employee /\ e.date = f.date
    <3>1. /\ DayOf(main, e.employee, e.date).employee = e.employee
          /\ DayOf(main, e.employee, e.date).date = e.date
          /\ DayOf(main, f.employee, f.date).employee = f.employee
          /\ DayOf(main, f.employee, f.date).date = f.date
      BY <1>4
    <3>2. DayOf(main, e.employee, e.date) = DayOf(main, f.employee, f.date)
      BY <1>6, <1>9
    <3> QED
      BY <3>1, <3>2
  <2>2. e \in Earliest(entries(e.employee, e.date)) /\ f \in Earliest(entries(e.employee, e.date))
    BY <1>2, <2>1
  <2>3. entries(e.employee, e.date) \in SUBSET Swipes
    BY <1>1, <1>3
  <2> HIDE DEF entries
  <2> QED
    BY <2>2, <2>3, OneLatestOneEarliest
<1>10. /\ \A e \in LateEntries(S) : day[e] \in late
       /\ \A d \in late : \E e \in LateEntries(S) : day[e] = d
       /\ \A e, f \in LateEntries(S) : day[e] = day[f] => e = f
  BY <1>7, <1>8, <1>9
<1>11. Cardinality(LateEntries(S)) = Cardinality(late)
  BY <1>1, <1>10, MatchedSets
<1> QED
  BY <1>11 DEF late, main

\* The monthly figures of the employees in scope, added up, are the counts of the list.
LEMMA MonthlyAddsUp ==
    ASSUME NEW db, db.stored \in SUBSET Swipes, IsFiniteSet(db.stored),
           NEW user, NEW departments
    PROVE  LET people == ScopedEmployees(user, departments)
               metrics == MonthlyMetrics(db, people)
               sum(figure) == Total([p \in people |-> metrics[p].counts[figure]])
               S == ScopedEvents(db, user, departments, MonthToNow)
           IN  /\ sum("late") = CountOf("late_arrival", S)
               /\ sum("overtime") = CountOf("overtime_daily", S)
               /\ sum("denied") = CountOf("denied_access", S)
<1> DEFINE people == ScopedEmployees(user, departments)
           metrics == MonthlyMetrics(db, people)
           S == ScopedEvents(db, user, departments, MonthToNow)
           days == Daily(MainSwipes(S))
           long == Overtime(days, OvertimeHours)
           late == LateInSql(days)
           refused == Denied(S)
<1>1. /\ S \in SUBSET Swipes /\ IsFiniteSet(S)
      /\ \A e \in S : e.employee \in people
  <2>1. S \in SUBSET db.stored /\ \A e \in S : e.employee \in people
    BY DEF ScopedEvents
  <2> HIDE DEF S, people
  <2> QED
    BY <2>1, FS_Subset
<1>2. people \in SUBSET Employees
  BY DEF ScopedEmployees
<1>3. \A p \in people : metrics[p] = MetricRow(p, days, late, refused)
  <2>1. {e \in db.stored : /\ e.employee \in people
                           /\ MonthToNow.from <= At(e) /\ At(e) <= MonthToNow.to} = S
    BY DEF ScopedEvents
  <2>2. metrics = [p \in people |-> MetricRow(p, days, late, refused)]
    <3> HIDE DEF S, people
    <3> QED
      BY <2>1 DEF MonthlyMetrics
  <2> HIDE DEF people, metrics, days, late, refused
  <2> QED
    BY <2>2
<1>4. /\ CountOf("late_arrival", S) = Cardinality(LateEntries(S))
      /\ CountOf("overtime_daily", S) = Cardinality(long)
      /\ CountOf("denied_access", S) = Cardinality(refused)
  BY DEF CountOf, LateEntries
<1> HIDE DEF people, metrics, S
<1>5. MainSwipes(S) \in SUBSET S /\ MainSwipes(S) \in SUBSET Swipes /\ IsFiniteSet(MainSwipes(S))
  BY <1>1, MainOfRows
<1>6. IsFiniteSet(days) /\ \A d \in days : d.employee \in people
  BY <1>1, <1>5, DaysOfRows
<1>7. Cardinality(LateEntries(S)) = Cardinality(late)
  BY <1>1, LateDaysHaveEntries
<1> HIDE DEF days
<1>8. IsFiniteSet(late) /\ IsFiniteSet(long) /\ IsFiniteSet(refused)
  <2>1. late \in SUBSET days /\ long \in SUBSET days /\ refused \in SUBSET S
    BY DEF LateInSql, Overtime, Denied
  <2> HIDE DEF late, long, refused
  <2> QED
    BY <1>1, <1>6, <2>1, FS_Subset
<1>9. /\ \A d \in late : d.employee \in people
      /\ \A d \in long : d.employee \in people
      /\ \A e \in refused : e.employee \in people
  BY <1>1, <1>6 DEF LateInSql, Overtime, Denied
<1>10. ASSUME NEW p \in people
       PROVE  /\ metrics[p].counts["late"] = Cardinality({d \in late : d.employee = p})
              /\ metrics[p].counts["overtime"] = Cardinality({d \in long : d.employee = p})
              /\ metrics[p].counts["denied"] = Cardinality({e \in refused : e.employee = p})
  <2>1. Overtime({d \in days : d.employee = p}, OvertimeHours) = {d \in long : d.employee = p}
    BY DEF Overtime
  <2> HIDE DEF late, long, refused
  <2>2. MetricRow(p, days, late, refused).counts =
            [late |-> Cardinality({d \in late : d.employee = p}),
             denied |-> Cardinality({e \in refused : e.employee = p}),
             overtime |-> Cardinality(Overtime({d \in days : d.employee = p}, OvertimeHours))]
    BY DEF MetricRow
  <2> DEFINE a == Cardinality({d \in late : d.employee = p})
             b == Cardinality({d \in long : d.employee = p})
             c == Cardinality({e \in refused : e.employee = p})
  <2>3. metrics[p].counts = [late |-> a, denied |-> c, overtime |-> b]
    BY <1>3, <2>1, <2>2
  <2> HIDE DEF a, b, c
  <2>4. /\ metrics[p].counts["late"] = a /\ metrics[p].counts["overtime"] = b
        /\ metrics[p].counts["denied"] = c
    BY <2>3
  <2> QED
    BY <2>4 DEF a, b, c
<1> HIDE DEF late, long, refused
<1>11. Total([p \in people |-> metrics[p].counts["late"]]) = Cardinality(late)
  <2> DEFINE tally == [p \in people |-> metrics[p].counts["late"]]
  <2>1. DOMAIN tally = people
    OBVIOUS
  <2>2. \A p \in people : tally[p] = Cardinality({x \in late : x.employee = p})
    BY <1>10
  <2> HIDE DEF tally
  <2>3. Total(tally) = Cardinality(late)
    BY <1>2, <1>8, <1>9, <2>1, <2>2, TotalOfEmployees
  <2> QED
    BY <2>3 DEF tally
<1>12. Total([p \in people |-> metrics[p].counts["overtime"]]) = Cardinality(long)
  <2> DEFINE tally == [p \in people |-> metrics[p].counts["overtime"]]
  <2>1. DOMAIN tally = people
    OBVIOUS
  <2>2. \A p \in people : tally[p] = Cardinality({x \in long : x.employee = p})
    BY <1>10
  <2> HIDE DEF tally
  <2>3. Total(tally) = Cardinality(long)
    BY <1>2, <1>8, <1>9, <2>1, <2>2, TotalOfEmployees
  <2> QED
    BY <2>3 DEF tally
<1>13. Total([p \in people |-> metrics[p].counts["denied"]]) = Cardinality(refused)
  <2> DEFINE tally == [p \in people |-> metrics[p].counts["denied"]]
  <2>1. DOMAIN tally = people
    OBVIOUS
  <2>2. \A p \in people : tally[p] = Cardinality({x \in refused : x.employee = p})
    BY <1>10
  <2> HIDE DEF tally
  <2>3. Total(tally) = Cardinality(refused)
    BY <1>2, <1>8, <1>9, <2>1, <2>2, TotalOfEmployees
  <2> QED
    BY <2>3 DEF tally
<1> QED
  BY <1>4, <1>7, <1>11, <1>12, <1>13 DEF people, metrics, S

\* Hours that count what falls into each count all there is.
Hourly(hours, X, hour) ==
    /\ DOMAIN hours = {hour[x] : x \in X}
    /\ \A b \in DOMAIN hours : hours[b].total = Cardinality({x \in X : hour[x] = b})

\* Such hours add up to all there is.
LEMMA HoursCountAll ==
    ASSUME NEW X, IsFiniteSet(X), NEW hour, NEW hours, Hourly(hours, X, hour)
    PROVE  Total([b \in DOMAIN hours |-> hours[b].total]) = Cardinality(X)
<1> DEFINE tally == [b \in DOMAIN hours |-> hours[b].total]
<1>1. /\ DOMAIN hours = {hour[x] : x \in X}
      /\ \A b \in DOMAIN hours : hours[b].total = Cardinality({x \in X : hour[x] = b})
  BY DEF Hourly
<1>2. IsFiniteSet(DOMAIN hours)
  BY <1>1, FiniteImage
<1>3. DOMAIN tally = DOMAIN hours /\ \A b \in DOMAIN hours : tally[b] = hours[b].total
  OBVIOUS
<1> HIDE DEF tally
<1>4. Tallies(tally, X, hour)
  BY <1>1, <1>3 DEF Tallies
<1>5. Total(tally) = Cardinality(X)
  BY <1>2, <1>3, <1>4, TotalOfTally
<1> QED
  BY <1>5 DEF tally

\* The hours of the timeseries and of the report center do.
LEMMA ReportsHaveHours ==
    ASSUME NEW db, db.stored \in SUBSET Swipes, IsFiniteSet(db.stored),
           NEW user, NEW departments, NEW w
    PROVE  HoursAddUp({Timeseries(db, user, departments, w),
                       ReportCenter(db, user, departments, w, NoEmployee, 500).metrics.hourly},
                      AccessSummary(db, user, departments, w))
<1> DEFINE S == ScopedEvents(db, user, departments, w)
           asked == {e \in S : e.employee \in Employees}
           ofDay == [e \in S |-> At(e) \div 3600]
           ofTime == [e \in S |-> e.time \div 3600]
           series == Timeseries(db, user, departments, w)
           hourly == ReportCenter(db, user, departments, w, NoEmployee, 500).metrics.hourly
<1>1. IsFiniteSet(S) /\ asked = S
  <2>1. S \in SUBSET db.stored /\ \A e \in S : e.employee \in Employees
    BY DEF ScopedEvents, ScopedEmployees
  <2> HIDE DEF S
  <2> QED
    BY <2>1, FS_Subset
<1>2. AccessSummary(db, user, departments, w).total = Cardinality(S)
  BY DEF AccessSummary
<1>3. hourly = CenterMetrics(S).hourly
  <2>1. hourly = CenterMetrics(asked).hourly
    BY DEF ReportCenter
  <2> HIDE DEF hourly, asked
  <2> QED
    BY <1>1, <2>1
<1>4. series = Timeseries(db, user, departments, w)
  OBVIOUS
<1> HIDE DEF hourly, series
<1>5. Hourly(series, S, ofDay)
  <2>1. {At(e) \div 3600 : e \in S} = {ofDay[x] : x \in S}
    OBVIOUS
  <2>2. DOMAIN series = {At(e) \div 3600 : e \in S}
    BY <1>4 DEF Timeseries, Buckets
  <2>3. ASSUME NEW b \in DOMAIN series
        PROVE  series[b].total = Cardinality({x \in S : ofDay[x] = b})
    <3>1. series[b].total = Cardinality({e \in S : At(e) \div 3600 = b})
      BY <1>4 DEF Timeseries, Buckets
    <3>2. {e \in S : At(e) \div 3600 = b} = {x \in S : ofDay[x] = b}
      OBVIOUS
    <3> HIDE DEF ofDay, S
    <3> QED
      BY <3>1, <3>2
  <2> HIDE DEF S, ofDay
  <2> QED
    BY <2>1, <2>2, <2>3 DEF Hourly
<1>6. Hourly(hourly, S, ofTime)
  <2> HIDE DEF S
  <2>1. {e.time \div 3600 : e \in S} = {ofTime[x] : x \in S}
    OBVIOUS
  <2>2. DOMAIN hourly = {e.time \div 3600 : e \in S}
    BY <1>3 DEF CenterMetrics, Buckets
  <2>3. ASSUME NEW b \in DOMAIN hourly
        PROVE  hourly[b].total = Cardinality({x \in S : ofTime[x] = b})
    <3>1. hourly[b].total = Cardinality({e \in S : e.time \div 3600 = b})
      BY <1>3 DEF CenterMetrics, Buckets
    <3>2. {e \in S : e.time \div 3600 = b} = {x \in S : ofTime[x] = b}
      OBVIOUS
    <3> HIDE DEF ofTime, S
    <3> QED
      BY <3>1, <3>2
  <2> HIDE DEF ofTime
  <2> QED
    BY <2>1, <2>2, <2>3 DEF Hourly
<1> HIDE DEF S, ofDay, ofTime
<1>7. /\ Total([b \in DOMAIN series |-> series[b].total]) = Cardinality(S)
      /\ Total([b \in DOMAIN hourly |-> hourly[b].total]) = Cardinality(S)
  BY <1>1, <1>5, <1>6, HoursCountAll
<1> QED
  BY <1>2, <1>7 DEF HoursAddUp, series, hourly

\* So the month's figures and the lists of its anomalies add up.
LEMMA MonthListsAddUp ==
    ASSUME NEW db, db.stored \in SUBSET Swipes, IsFiniteSet(db.stored),
           NEW user, NEW departments
    PROVE  LET people == ScopedEmployees(user, departments)
               list(kind) ==
                   ComplianceAnomalies(db, user, departments, kind, MonthToNow, 200, 0)
               lists == [kind \in Range(Kinds) \union {"all"} |-> list(kind)]
           IN  MonthAddsUp(people, MonthlyMetrics(db, people), lists)
<1> DEFINE people == ScopedEmployees(user, departments)
           metrics == MonthlyMetrics(db, people)
           list(kind) == ComplianceAnomalies(db, user, departments, kind, MonthToNow, 200, 0)
           lists == [kind \in Range(Kinds) \union {"all"} |-> list(kind)]
           total == [kind \in Range(Kinds) |-> lists[kind].total]
           sum(figure) == Total([p \in people |-> metrics[p].counts[figure]])
           S == ScopedEvents(db, user, departments, MonthToNow)
           count(k) == CountOf(Kinds[k], S)
<1>1. S \in SUBSET Swipes /\ IsFiniteSet(S)
  <2>1. S \in SUBSET db.stored
    BY DEF ScopedEvents
  <2> HIDE DEF S
  <2> QED
    BY <2>1, FS_Subset
<1>2. /\ sum("late") = CountOf("late_arrival", S)
      /\ sum("overtime") = CountOf("overtime_daily", S)
      /\ sum("denied") = CountOf("denied_access", S)
  BY MonthlyAddsUp
<1>3. /\ Kinds[1] = "overtime_daily" /\ Kinds[2] = "late_arrival" /\ Kinds[4] = "denied_access"
      /\ \A kind \in Range(Kinds) : kind # "all" /\ \E k \in 1..4 : kind = Kinds[k]
      /\ \A k \in 1..4 : Kinds[k] \in Range(Kinds)
  BY DEF Kinds, Range
<1>4. \A kind \in Range(Kinds) \union {"all"} :
          /\ \A k \in 1..4 : kind = Kinds[k] => list(kind).total = count(k)
          /\ kind # "all" => Len(list(kind).items) = Cut(list(kind).total)
          /\ kind = "all" => list(kind).total = Cut(count(1) + count(2) + count(3) + count(4))
  BY <1>1, ListAddsUp
<1>5. \A k \in 1..4 : count(k) \in Nat
  BY <1>1, ListsCount
<1>6. \A kind \in Range(Kinds) \union {"all"} : lists[kind] = list(kind)
  OBVIOUS
<1>7. /\ DOMAIN total = Range(Kinds)
      /\ \A kind \in Range(Kinds) : total[kind] = lists[kind].total
  OBVIOUS
<1> HIDE DEF sum, S, list, lists, total
<1>8. \A k \in 1..4 : total[Kinds[k]] = count(k)
  BY <1>3, <1>4, <1>6, <1>7
<1>9. \A kind \in Range(Kinds) : total[kind] \in Int
  BY <1>3, <1>5, <1>8
<1>10. Total(total) = count(1) + count(2) + count(3) + count(4)
  <2>1. Total(total) = total[Kinds[1]] + total[Kinds[2]] + total[Kinds[3]] + total[Kinds[4]]
    BY <1>7, <1>9, TotalOfKinds
  <2>2. /\ total[Kinds[1]] = count(1) /\ total[Kinds[2]] = count(2)
        /\ total[Kinds[3]] = count(3) /\ total[Kinds[4]] = count(4)
    BY <1>8
  <2> HIDE DEF count
  <2> QED
    BY <2>1, <2>2
<1>11. lists["all"].total = Cut(Total(total))
  BY <1>4, <1>6, <1>10
<1>12. \A kind \in Range(Kinds) : Len(lists[kind].items) = Cut(total[kind])
  BY <1>3, <1>4, <1>6, <1>7
<1>13. /\ total["overtime_daily"] = sum("overtime") /\ total["late_arrival"] = sum("late")
       /\ total["denied_access"] = sum("denied")
  <2>1. total[Kinds[1]] = count(1) /\ total[Kinds[2]] = count(2) /\ total[Kinds[4]] = count(4)
    BY <1>8
  <2> QED
    BY <1>2, <1>3, <2>1
<1> QED
  BY <1>11, <1>12, <1>13 DEF MonthAddsUp, sum, total, lists, list

\* The attendance of the dashboard is of those inside.
LEMMA AttendedOfMetrics ==
    ASSUME NEW events, NEW people, NEW inside, NEW w
    PROVE  MetricsOf(events, people, inside, w).attended = Cardinality(inside)
BY DEF MetricsOf, Tally

\* The figures of one state agree, for any swipes, gates, departments and requests:
\* the month's late arrivals, long days and denials are those of the compliance list,
\* the list counts what it shows, each hour is counted once, and the dashboard counts
\* the attendance of the list of states.
THEOREM FiguresAlwaysAgree == Spec => []FiguresAgree
<1>1. ReportsInv => FiguresAgree
  <2> SUFFICES ASSUME ReportsInv, NEW r \in Requests
               PROVE
        LET people == ScopedEmployees(r.user, r.departments)
            list(kind) ==
                ComplianceAnomalies(Tables, r.user, r.departments, kind, MonthToNow, 200, 0)
            lists == [kind \in Range(Kinds) \union {"all"} |-> list(kind)]
            center == ReportCenter(Tables, r.user, r.departments, MonthToNow, NoEmployee, 500)
            hours == Timeseries(Tables, r.user, r.departments, MonthToNow)
        IN  /\ MonthAddsUp(people, MonthlyMetrics(Tables, people), lists)
            /\ HoursAddUp({hours, center.metrics.hourly},
                          AccessSummary(Tables, r.user, r.departments, MonthToNow))
            /\ OperationalMetrics(Tables, r.user, r.departments, MonthToNow).attended =
                   EmployeeStates(Tables, r.user, r.departments, {"IN"}, 500, 0).total
    BY DEF FiguresAgree
  <2> DEFINE people == ScopedEmployees(r.user, r.departments)
  <2>1. Tables.stored \in SUBSET Swipes /\ IsFiniteSet(Tables.stored)
    BY DEF ReportsInv, ReportsTypeOK, Tables
  <2>2. OperationalMetrics(Tables, r.user, r.departments, MonthToNow).attended =
            Cardinality({p \in people : Tables.known[p].state = "IN"})
    <3> DEFINE history ==
                   [MonthToNow EXCEPT !.from = Min({MonthToNow.from, MonthToNow.to - Days(7)})]
               events == ScopedEvents(Tables, r.user, r.departments, history)
    <3>1. OperationalMetrics(Tables, r.user, r.departments, MonthToNow)
              = MetricsOf(events, people, Inside(Tables, people), MonthToNow)
      BY DEF OperationalMetrics
    <3> HIDE DEF events, people
    <3>2. MetricsOf(events, people, Inside(Tables, people), MonthToNow).attended
              = Cardinality(Inside(Tables, people))
      BY AttendedOfMetrics
    <3> QED
      BY <3>1, <3>2 DEF Inside
  <2>3. EmployeeStates(Tables, r.user, r.departments, {"IN"}, 500, 0).total =
            Cardinality({p \in people : Tables.known[p].state \in {"IN"}})
    BY DEF EmployeeStates
  <2>4. {p \in people : Tables.known[p].state = "IN"}
            = {p \in people : Tables.known[p].state \in {"IN"}}
    OBVIOUS
  <2>5. OperationalMetrics(Tables, r.user, r.departments, MonthToNow).attended =
            EmployeeStates(Tables, r.user, r.departments, {"IN"}, 500, 0).total
    <3> HIDE DEF people
    <3> QED
      BY <2>2, <2>3, <2>4
  <2> QED
    BY <2>1, <2>5, MonthListsAddUp, ReportsHaveHours
<1> QED
  BY <1>1, ReportsInvHolds, PTL
=============================================================================
