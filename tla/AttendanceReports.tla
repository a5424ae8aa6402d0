-------------------------- MODULE AttendanceReports --------------------------
(***************************************************************************)
(* The reports built from an employee's day: the first entry and the last  *)
(* exit of each employee on each date.  PostgreSQL groups the rows of a    *)
(* select, the SQLite paths of the code loop over them; both are here.     *)
(***************************************************************************)
EXTENDS EventReports, SequencesExt

CONSTANT OvertimeHours       \* attendance_overtime_hours

----------------------------------------------------------------------------
(* An employee's days.                                                      *)

\* Mutant of Daily: the last exit is the first one.
DailyFirstOut(swipes) ==
    LET key(e) == <<e.employee, e.date>>
        least(S) == IF S = {} THEN NoTime ELSE Min({At(e) : e \in S})
        of(k) == {e \in swipes : key(e) = k}
    IN  {[employee |-> k[1], date |-> k[2],
          first |-> least(Going("IN", of(k))), last |-> least(Going("OUT", of(k)))] :
         k \in {key(e) : e \in swipes}}

\* The common table expression "daily" of the queries.
Daily(swipes) ==
    LET key(e) == <<e.employee, e.date>>
        times(direction, k) == {At(e) : e \in {x \in Going(direction, swipes) : key(x) = k}}
    IN  {[employee |-> k[1], date |-> k[2],
          first |-> IF times("IN", k) = {} THEN NoTime ELSE Min(times("IN", k)),
          last |-> IF times("OUT", k) = {} THEN NoTime ELSE Max(times("OUT", k))] :
         k \in {key(e) : e \in swipes}}

\* The loop over the rows in their order, which skips those that do not count.
DailyInPython(rows, counted) ==
    LET unseen == [first |-> NoTime, last |-> NoTime]
        entered(days, e) ==
            LET key == <<e.employee, e.date>>
                old == IF key \in DOMAIN days THEN days[key] ELSE unseen
                first == e.direction = "IN" /\ (old.first = NoTime \/ At(e) < old.first)
                last == e.direction = "OUT" /\ (old.last = NoTime \/ At(e) > old.last)
                day == [first |-> IF first THEN At(e) ELSE old.first,
                        last |-> IF last THEN At(e) ELSE old.last]
            IN  [k \in DOMAIN days \union {key} |-> IF k = key THEN day ELSE days[k]]
        next(days, e) == IF e \in counted THEN entered(days, e) ELSE days
        days == FoldLeft(next, <<>>, rows)
    IN  {[employee |-> k[1], date |-> k[2], first |-> days[k].first, last |-> days[k].last] :
         k \in DOMAIN days}

IsMain(e) == e.gate \in MainGates
MainSwipes(swipes) == {e \in Granted(swipes) : IsMain(e)}

Complete(day) == day.first # NoTime /\ day.last # NoTime
Stay(day) == day.last - day.first
Worked(days) == {d \in days : Complete(d) /\ d.last > d.first}
Seconds(days) == MapThenSumSet(Stay, days)

Late(days) == {d \in days : d.first # NoTime /\ IsLateTime(d.first % 86400)}
LateInSql(days) == {d \in days : d.first # NoTime /\ LateSql(d.first % 86400)}
Overtime(days, hours) == {d \in days : Complete(d) /\ Stay(d) > Hours(hours)}
Unpaired(days) == {d \in days : ~Complete(d)}

----------------------------------------------------------------------------
(* Work hours: the year before a day, by month, quarter and year.           *)

Trend(worked, Label(_), kept) ==
    LET labels == {Label(d) : d \in worked}
    IN  [l \in {x \in labels : Cardinality({y \in labels : y > x}) < kept} |->
            LET these == {d \in worked : Label(d) = l}
            IN  [seconds |-> Seconds(these), days |-> Cardinality(these)]]

WorkHours(worked) ==
    LET month(d) == 12 * d.date.year + d.date.month
        quarter(d) == 4 * d.date.year + (d.date.month - 1) \div 3
        year(d) == d.date.year
    IN  [seconds |-> Seconds(worked), days |-> Cardinality(worked),
         monthly |-> Trend(worked, month, 12), quarterly |-> Trend(worked, quarter, 4),
         yearly |-> Trend(worked, year, 3)]

Year(to) == [from |-> to - Days(370), to |-> to]

\* An EMPLOYEE's own rows are all there are, whoever is asked for.
OfEmployee(user, employee, e) ==
    OwnOnly(user) \/ employee = NoEmployee \/ e.employee = employee

WorkHoursSql(db, user, departments, employee, to) ==
    WorkHours(Worked(Daily({e \in MainSwipes(ScopedEvents(db, user, departments, Year(to))) :
                                OfEmployee(user, employee, e)})))

WorkHoursInPython(db, user, departments, employee, to) ==
    LET rows == DashboardRows(db, user, departments, Year(to))
        counted == {e \in MainSwipes(Range(rows)) : OfEmployee(user, employee, e)}
    IN  WorkHours(Worked(DailyInPython(rows, counted)))

----------------------------------------------------------------------------
(* The dashboard.                                                           *)

\* get_dashboard_operational_metrics of the swipes it selects, of a week at least:
\* every gate counts, and twelve hours.
MetricsOf(events, people, inside, w) ==
    LET window == {e \in events : w.from <= At(e)}
        days == DailyInPython(OldestFirst(events), Granted(events))
        late == {d \in Late(days) : Midnight(d.date) \in w.from - 86399..w.to}
        department(d) == DepartmentOf[d.employee]
        weekday(d) == Ordinal(d.date) % 7
        alerts == Overtime(days, 12)
        alert == [d \in alerts |-> <<d.last, Stay(d), d.employee>>]
        gateHour(e) == <<e.gate, e.time \div 3600>>
        gate(e) == e.gate
        who(e) == e.employee
    IN  [expected |-> Cardinality(people), attended |-> Cardinality(inside),
         lateDepartment |-> MostCommon(Tally(late, department)),
         lateWeekday |-> MostCommon(Tally(late, weekday)),
         alerts |-> Page(Descending(alerts, alert), 5, 0), alertCount |-> Cardinality(alerts),
         violations |-> Tally({e \in Denied(window) : e.reason = "ANTI_PASSBACK"}, who),
         peak |-> MostCommon(Tally(window, gateHour)), traffic |-> Tally(window, gate)]

OperationalMetrics(db, user, departments, w) ==
    LET people == ScopedEmployees(user, departments)
        history == [w EXCEPT !.from = Min({w.from, w.to - Days(7)})]
    IN  MetricsOf(ScopedEvents(db, user, departments, history), people, Inside(db, people), w)

\* The day up to the last swipe in scope, when no window is asked for.
DashboardWindow(db, user, departments) ==
    LET people == ScopedEmployees(user, departments)
        times == {At(e) : e \in {x \in db.stored : x.employee \in people}}
        to == IF times = {} THEN Now ELSE Max(times)
    IN  [from |-> to - Hours(24), to |-> to]

\* get_dashboard, without its cache.
Dashboard(db, user, departments) ==
    LET w == DashboardWindow(db, user, departments)
    IN  [summary |-> AccessSummary(db, user, departments, w),
         metrics |-> OperationalMetrics(db, user, departments, w),
         anomalies |-> Anomalies(db, user, departments, w, 10, 0),
         timeseries |-> Timeseries(db, user, departments, w)]

----------------------------------------------------------------------------
(* The report center.                                                       *)

\* _compute_report_center_attendance: every gate, and the days of denials too.
CenterAttendance(swipes) ==
    LET denied(d) == {e \in Denied(swipes) : e.employee = d.employee /\ e.date = d.date}
        granted == Daily(Granted(swipes))
        refused == {[employee |-> e.employee, date |-> e.date,
                     first |-> NoTime, last |-> NoTime] : e \in Denied(swipes)}
        rows == granted \union {d \in refused : \A g \in granted :
                                    g.employee # d.employee \/ g.date # d.date}
        attended == {d \in rows : d.first # NoTime}
        normal == {d \in rows : Complete(d) /\ denied(d) = {}}
        people(days) == {d.employee : d \in days}
        date(d) == Ordinal(d.date)
        of(days, department) == {d \in days : DepartmentOf[d.employee] = department}
    IN  [people |-> Cardinality(people(attended)),
         stay |-> Seconds(Worked(rows)), stays |-> Cardinality(Worked(rows)),
         rows |-> Cardinality(rows), attended |-> Cardinality(attended),
         normal |-> Cardinality(normal), anomalies |-> Cardinality(rows \ normal),
         trend |-> Tally(attended, date),
         departments |->
            [department \in {DepartmentOf[d.employee] : d \in rows} |->
                LET worked == Worked(of(rows, department))
                IN  [seconds |-> Seconds(worked), days |-> Cardinality(worked),
                     people |-> Cardinality(people(worked)),
                     rows |-> Cardinality(of(rows, department)),
                     normal |-> Cardinality(of(normal, department))]]]

\* _compute_report_center_live.  With several departments only the metrics are
\* theirs: the other parts are of every department the user sees.
ReportCenter(db, user, departments, w, employee, limit) ==
    LET one == IF Cardinality(departments) > 1 THEN {} ELSE departments
        asked == IF employee = NoEmployee THEN Employees ELSE {employee}
        of(scope) == {e \in ScopedEvents(db, user, scope, w) : e.employee \in asked}
    IN  [metrics |-> CenterMetrics(of(departments)),
         workHours |-> WorkHoursSql(db, user, one, employee, w.to),
         events |->
            QueryAccessEvents(db, user, one, w, AnyOf(asked), Clamp(limit, 1, 1000), 0).items,
         attendance |-> CenterAttendance(of(one))]

----------------------------------------------------------------------------
(* Departments and their employees.                                         *)

\* The counters of department_analytics, over days of which these are late.
AnalyticsOf(db, user, days, late) ==
    LET of(S, leaves) == {d \in S : DepartmentOf[d.employee] \in leaves}
        normal == {d \in days : Complete(d)} \ late
        overtime == Overtime(days, OvertimeHours)
    IN  [node \in DisplayNodes(user) |->
            LET leaves == Leaves(user, node)
                people == {p \in Employees : DepartmentOf[p] \in leaves}
            IN  [known |-> Cardinality(people), inside |-> Cardinality(Inside(db, people)),
                 daily |-> Cardinality(of(days, leaves)),
                 normal |-> Cardinality(of(normal, leaves)),
                 late |-> Cardinality(of(late, leaves)),
                 overtime |-> Cardinality(of(overtime, leaves))]]

\* get_department_analytics: no filter on an EMPLOYEE's own rows.
DepartmentAnalytics(db, user, days) ==
    LET since == Now - Days(Clamp(days, 1, 120))
        daily == Daily(MainSwipes({e \in db.stored : At(e) >= since}))
    IN  AnalyticsOf(db, user, daily, LateInSql(daily))

\* _department_daily_rows_in_python
AnalyticsInPython(db, user, days) ==
    LET w == [from |-> Now - Days(Clamp(days, 1, 120)), to |-> Now]
        rows == DashboardRows(db, user, {}, w)
        daily == DailyInPython(rows, MainSwipes(Range(rows)))
    IN  AnalyticsOf(db, user, daily, Late(daily))

\* _format_employee_metric_row of an employee's days, the late ones and denials.
MetricRow(employee, days, late, denied) ==
    LET of(S) == {d \in S : d.employee = employee}
        counts == [late |-> Cardinality(of(late)), denied |-> Cardinality(of(denied)),
                   overtime |-> Cardinality(Overtime(of(days), OvertimeHours))]
    IN  [counts |-> counts, anomalies |-> Total(counts), seconds |-> Seconds(Worked(of(days))),
         attendance |-> Cardinality({d \in of(days) : d.first # NoTime})]

MonthToNow == [from |-> Midnight([Today EXCEPT !.day = 1]), to |-> Now]

\* _monthly_employee_metrics, of the employees a scoped select gave.
MonthlyMetrics(db, employees) ==
    LET rows == {e \in db.stored : /\ e.employee \in employees
                                /\ MonthToNow.from <= At(e) /\ At(e) <= MonthToNow.to}
        days == Daily(MainSwipes(rows))
    IN  [p \in employees |-> MetricRow(p, days, LateInSql(days), Denied(rows))]

MonthlyInPython(db, user, departments, employees) ==
    LET rows == DashboardRows(db, user, departments, MonthToNow)
        days == DailyInPython(rows, MainSwipes(Range(rows)))
    IN  [p \in employees |->
            MetricRow(p, days, Late(days), {e \in Range(rows) : e.decision = "DENIED"})]

\* get_department_employee_metrics
DepartmentEmployees(db, user, department, limit, offset) ==
    LET people == ScopedEmployees(user, {department})
        page == Page(ByDepartment(people), Clamp(limit, 1, 500), Max({offset, 0}))
        metrics == MonthlyMetrics(db, Range(page))
        in(state) == Cardinality({p \in Range(page) : db.known[p].state = state})
        sum(Figure(_)) == MapThenSumSet(LAMBDA p : Figure(metrics[p]), Range(page))
    IN  [items |-> page, metrics |-> metrics, total |-> Cardinality(people),
         inside |-> in("IN"), outside |-> in("OUT"), unknown |-> in("UNKNOWN"),
         seconds |-> sum(LAMBDA row : row.seconds), anomalies |-> sum(LAMBDA row : row.anomalies)]
=============================================================================
