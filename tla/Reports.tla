------------------------------- MODULE Reports -------------------------------
(***************************************************************************)
(* The reports of the Reporting API over rows that arrive: every saved     *)
(* swipe, in whatever order the consumers commit them, and every remark a  *)
(* user gives to an item of the compliance list.  A report is an operator  *)
(* of the tables; the properties say how the reports of one state agree,   *)
(* and what one step may change in them.                                   *)
(***************************************************************************)
EXTENDS ComplianceReports

CONSTANTS
    Requests,      \* the users and departments reports are asked for
    Windows,       \* the windows they are asked for
    RemarkBound    \* the bound on the rows that have a remark

VARIABLES
    stored,        \* the rows of access_events
    remark,        \* the remark of a row
    known          \* last_known_state and last_seen_at of an employee

tables == <<stored, remark, known>>

Tables == [stored |-> stored, remark |-> remark, known |-> known]

ASSUME WindowsOfMoments == \A w \in Windows : w.from \in Int /\ w.to \in Int

Unknown == [state |-> "UNKNOWN", seen |-> NoTime]

Init ==
    /\ stored = {}
    /\ remark = [e \in Swipes |-> NoNote]
    /\ known = [p \in Employees |-> Unknown]

\* Mutant of Save: the employee is seen when the swipe is saved.
SaveSeenNow(e) ==
    /\ e \notin stored
    /\ stored' = stored \union {e}
    /\ known' = [known EXCEPT ![e.employee] = [state |-> e.state, seen |-> Now]]
    /\ UNCHANGED remark

\* save_access_event, whose steps SaveAccessEvent has: the row, and the state and
\* time of its employee, whichever swipe was the later one.
Save(e) ==
    /\ e \notin stored
    /\ stored' = stored \union {e}
    /\ known' = [known EXCEPT ![e.employee] = [state |-> e.state, seen |-> At(e)]]
    /\ UNCHANGED remark

\* Ids of the compliance list, as a page may still show them.
AnomalyIds ==
    {DeniedId(e) : e \in Denied(Swipes)} \union
    UNION {{DayId("late", e), DayId("overtime", e),
            UnpairedId([date |-> e.date, employee |-> e.employee, first |-> NoTime]),
            UnpairedId([date |-> e.date, employee |-> e.employee, first |-> 0])} :
           e \in MainSwipes(Swipes)}

UpdateRemark(user, id, note) ==
    /\ Target(Tables, user, id) # {}
    /\ remark' = [e \in Swipes |-> IF e \in Target(Tables, user, id) THEN note ELSE remark[e]]
    /\ Cardinality({e \in Swipes : remark'[e] # NoNote}) <= RemarkBound
    /\ UNCHANGED <<stored, known>>

Next == \/ \E e \in Swipes : Save(e)
        \/ \E user \in Users, id \in AnomalyIds, note \in Notes \union {NoNote} :
               UpdateRemark(user, id, note)

Spec == Init /\ [][Next]_tables

----------------------------------------------------------------------------
(* Properties.                                                              *)

\* Only rows have remarks, and what an employee is known by is one of their rows.
ReportsTypeOK ==
    /\ stored \subseteq Swipes
    /\ remark \in [Swipes -> Notes \union {NoNote}]
    /\ \A e \in Swipes \ stored : remark[e] = NoNote
    /\ \A p \in Employees :
           \/ known[p] = Unknown
           \/ \E e \in stored : e.employee = p /\ known[p] = [state |-> e.state, seen |-> At(e)]

\* The rows of an EMPLOYEE's own, and of everybody else's scope all rows.
OwnRows(user) == [Tables EXCEPT !.stored = {e \in stored : IsOwn(user, e.employee)}]

\* The queries of PostgreSQL and the loops of the SQLite paths, which the tests
\* run, give the same
\*   - first page of the late list, while no gate is told apart by the pattern of the
\*     query and the suffix _A of the loop; the loop has no other page, for it ignores
\*     the offset;
\*   - work hours and monthly figures;
\*   - analytics, while no row is later than the request, where the loop ends and the
\*     query does not: but an EMPLOYEE's loop has only rows of their own, where the
\*     query has the whole department's.
PathsAgree ==
    /\ (\A e \in stored : IsMain(e) <=> EndsInA(e)) =>
           \A r \in Requests, w \in Windows, limit \in {1, 200} :
               Page(LateItems(Tables, ScopedEvents(Tables, r.user, r.departments, w)), limit, 0) =
                   LateItemsInPython(Tables, DashboardRows(Tables, r.user, r.departments, w), limit)
    /\ \A r \in Requests, p \in Employees \union {NoEmployee} :
           WorkHoursSql(Tables, r.user, r.departments, p, Now) =
               WorkHoursInPython(Tables, r.user, r.departments, p, Now)
    /\ \A r \in Requests :
           LET people == ScopedEmployees(r.user, r.departments)
           IN  MonthlyMetrics(Tables, people) =
                   MonthlyInPython(Tables, r.user, r.departments, people)
    /\ (\A e \in stored : At(e) <= Now) =>
           \A user \in {r.user : r \in Requests} :
               DepartmentAnalytics(OwnRows(user), user, 31) = AnalyticsInPython(Tables, user, 31)

\* What a list of at most two hundred items shows of so many.
Cut(count) == Min({200, count})

MonthAddsUp(people, metrics, lists) ==
    LET sum(figure) == Total([p \in people |-> metrics[p].counts[figure]])
        total == [kind \in Range(Kinds) |-> lists[kind].total]
    IN  /\ total["late_arrival"] = sum("late")
        /\ total["overtime_daily"] = sum("overtime")
        /\ total["denied_access"] = sum("denied")
        /\ \A kind \in Range(Kinds) : Len(lists[kind].items) = Cut(total[kind])
        /\ lists["all"].total = Cut(Total(total))

HoursAddUp(hourlies, summary) ==
    \A hours \in hourlies : Total([b \in DOMAIN hours |-> hours[b].total]) = summary.total

\* The monthly figures of the employees in scope add up to the totals of the
\* compliance list over the month, which lists all it counts up to its limit; the
\* hours of the timeseries and of the report center add up to the summary; the
\* dashboard counts the attendance the list of current states has.
FiguresAgree ==
    \A r \in Requests :
        LET people == ScopedEmployees(r.user, r.departments)
            list(kind) ==
                ComplianceAnomalies(Tables, r.user, r.departments, kind, MonthToNow, 200, 0)
            lists == [kind \in Range(Kinds) \union {"all"} |-> list(kind)]
            center == ReportCenter(Tables, r.user, r.departments, MonthToNow, NoEmployee, 500)
            hours == Timeseries(Tables, r.user, r.departments, MonthToNow)
        IN  /\ MonthAddsUp(people, MonthlyMetrics(Tables, people), lists)
            /\ HoursAddUp({hours, center.metrics.hourly},
                          AccessSummary(Tables, r.user, r.departments, MonthToNow))
            /\ OperationalMetrics(Tables, r.user, r.departments, MonthToNow).attended =
                   EmployeeStates(Tables, r.user, r.departments, {"IN"}, 500, 0).total

AllDays == [from |-> 0, to |-> Now]

\* The items of a user's list that show a remark: an unpaired one shows none.
NotedItems(user, w) ==
    LET list == ComplianceAnomalies(Tables, user, {}, "all", w, 200, 0).items
    IN  {item \in Range(list) : item.id.kind # "unpaired"}

EachShowsItsOwn(user, noted) ==
    /\ \A item \in noted : \E e \in Target(Tables, user, item.id) : item.note = remark[e]
    /\ Cardinality(UNION {Target(Tables, user, item.id) : item \in noted}) = Cardinality(noted)

\* A remark is shown by the item it is given to, and by it alone: over whole days
\* the row an update finds is the one the list reads the item's note from, and no
\* two items have one row.
RemarkShown ==
    \A user \in Users, w \in {AllDays} \union {v \in Windows : v.from % 86400 = 0} :
        EachShowsItsOwn(user, NotedItems(user, w))

\* The tables without what is of anybody else.
Only(people) ==
    [stored |-> {e \in stored : e.employee \in people},
     remark |-> [e \in Swipes |-> IF e.employee \in people THEN remark[e] ELSE NoNote],
     known |-> [p \in Employees |-> IF p \in people THEN known[p] ELSE Unknown]]

\* The employees of the departments a user sees, an EMPLOYEE's colleagues among them.
Visibly(user, departments) ==
    {p \in Employees : DepartmentOf[p] \in VisibleDepartmentIds(user, departments)}

\* Swipes, remarks and states of employees outside the departments asked for, or
\* whom the user may not see, make no difference to what the routes answer: for an
\* EMPLOYEE, those of anybody else.  There are three exceptions, each within the
\* departments the user sees:
\*   - with several departments, the preview, the work hours and the attendance of the
\*     report center are of every department the user sees, asked for or not;
\*   - the analytics, and the attendance of an employee who is named, are of the whole
\*     departments, an EMPLOYEE's colleagues among them (see OwnRecordsOnly).
OutsideMakesNoDifference ==
    \A r \in Requests :
        LET asked == Only(ScopedEmployees(r.user, r.departments))
            seen == Only(ScopedEmployees(r.user, {}))
            several == Cardinality(r.departments) > 1
        IN  /\ ~several => Shown(asked, r.user, r.departments) =
                               Shown(Tables, r.user, r.departments)
            /\ \A w \in Windows :
                   /\ ListedOf(asked, r.user, r.departments, w) =
                          ListedOf(Tables, r.user, r.departments, w)
                   /\ ShownOf(IF several THEN seen ELSE asked, r.user, r.departments, w) =
                          ShownOf(Tables, r.user, r.departments, w)
            /\ DepartmentAnalytics(Only(Visibly(r.user, {})), r.user, 31) =
                   DepartmentAnalytics(Tables, r.user, 31)
            /\ \A p \in Employees :
                   AttendanceDaily(Only(Visibly(r.user, r.departments)), r.user, p, r.departments, 31) =
                       AttendanceDaily(Tables, r.user, p, r.departments, 31)

\* reporting-api/API.md:62: an EMPLOYEE can view only the employee's own records.  So
\* nothing of anybody else would make a difference to what an EMPLOYEE is answered,
\* the report center of a preset as it is computed for a snapshot included.
OwnRecordsOnly ==
    \A r \in Requests :
        LET own == Only({EmployeeOfUser[r.user]})
            center(db, w) == ReportCenter(db, ComputeUser(r.user, r.departments),
                                          r.departments, w, NoEmployee, 500)
        IN  OwnOnly(r.user) =>
                /\ DepartmentAnalytics(own, r.user, 31) = DepartmentAnalytics(Tables, r.user, 31)
                /\ \A p \in Employees : AttendanceDaily(own, r.user, p, r.departments, 31) =
                                            AttendanceDaily(Tables, r.user, p, r.departments, 31)
                /\ \A w \in Windows : center(own, w) = center(Tables, w)
=============================================================================
