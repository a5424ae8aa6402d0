-------------------------- MODULE ComplianceReports --------------------------
(***************************************************************************)
(* The attendance list of an employee, the compliance list with its four   *)
(* kinds of anomaly, and the remarks managers give to its items.           *)
(***************************************************************************)
EXTENDS AttendanceReports

----------------------------------------------------------------------------
(* get_attendance_daily.                                                    *)

Status(day) ==
    CASE day.first = NoTime -> "no entry"
      [] day.first # NoTime /\ day.last = NoTime -> "no exit"
      [] Complete(day) /\ LateSql(day.first % 86400) -> "late"
      [] OTHER -> IF Overtime({day}, OvertimeHours) # {} THEN "overtime" ELSE "normal"

\* A user who is an employee gets their own days unless they ask for another's.
AttendanceDaily(db, user, employee, departments, limit) ==
    LET target == IF employee = NoEmployee /\ user # Anonymous THEN EmployeeOfUser[user]
                  ELSE employee
        since == Now - Days(Clamp(limit, 1, 120))
        visible == VisibleDepartmentIds(user, departments)
        rows == {e \in MainSwipes(db.stored) :
                    /\ At(e) >= since
                    /\ DepartmentOf[e.employee] \in visible
                    /\ target = NoEmployee \/ e.employee = target}
        key == [d \in Daily(rows) |-> <<Ordinal(d.date), -d.employee>>]
        items == Page(Descending(Daily(rows), key), Clamp(limit, 1, 120), 0)
    IN  [i \in DOMAIN items |-> [day |-> items[i], status |-> Status(items[i])]]

----------------------------------------------------------------------------
(* The items of the compliance list.  The id of an item of a day is its     *)
(* kind, date, employee and, for an unpaired one, the direction missing; of *)
(* a denial, its request id.                                                *)

DayId(kind, day) == [kind |-> kind, date |-> day.date, employee |-> day.employee]
UnpairedId(day) == [kind |-> "unpaired", date |-> day.date, employee |-> day.employee,
                    missing |-> IF day.first = NoTime THEN "IN" ELSE "OUT"]
DeniedId(e) == [kind |-> "denied", request |-> e.id]

\* ORDER BY occurred_at, id LIMIT 1, both ways.
Earliest(swipes) == {e \in swipes : \A f \in swipes \ {e} : Lower(Moment(e), Moment(f))}
Latest(swipes) == {e \in swipes : \A f \in swipes \ {e} : Lower(Moment(f), Moment(e))}

OnDay(swipes, employee, date) == {e \in swipes : e.employee = employee /\ e.date = date}

\* A long day's note is that of the last exit of the date, in the window or not.
OvertimeItems(db, swipes) ==
    LET days == Overtime(Daily(MainSwipes(swipes)), OvertimeHours)
        key == [d \in days |-> <<Ordinal(d.date), Stay(d), d.employee>>]
        out(d) == Latest(Going("OUT", OnDay(MainSwipes(db.stored), d.employee, d.date)))
        item(d) == [id |-> DayId("overtime", d), at |-> d.last,
                    note |-> db.remark[ChooseUnique(out(d), LAMBDA e : TRUE)]]
        rows == Descending(days, key)
    IN  [i \in DOMAIN rows |-> item(rows[i])]

\* _query_late_arrival_items: row_number() = 1 over each day's entries.
FirstEntries(swipes) ==
    LET entries == Going("IN", MainSwipes(swipes))
    IN  UNION {Earliest(OnDay(entries, e.employee, e.date)) : e \in entries}

LateItem(db, e) == [id |-> DayId("late", e), at |-> At(e), note |-> db.remark[e]]

LateItems(db, swipes) ==
    LET rows == NewestFirst({e \in FirstEntries(swipes) : LateSql(e.time)})
    IN  [i \in DOMAIN rows |-> LateItem(db, rows[i])]

\* The loop does not ask for the pattern of the main gates, whose _ stands for any
\* character.
EndsInA(e) == e.gate \in SuffixGates

\* _query_late_arrival_items_in_python: a row replaces a later one of its day.  It is
\* given a limit and no offset.
LateItemsInPython(db, rows, limit) ==
    LET sooner(kept, e) ==
            LET same == OnDay(kept, e.employee, e.date)
            IN  IF ~EndsInA(e) \/ e.decision # "GRANTED" \/ e.direction # "IN" THEN kept
                ELSE IF \A old \in same : At(e) < At(old) THEN (kept \ same) \union {e}
                ELSE kept
        late == {e \in FoldLeft(sooner, {}, rows) : IsLateTime(e.time)}
        ordered == Page(NewestFirst(late), limit, 0)
    IN  [i \in DOMAIN ordered |-> LateItem(db, ordered[i])]

\* Its note says what is missing, never the remark.
UnpairedItems(swipes) ==
    LET at(d) == IF d.last # NoTime THEN d.last ELSE d.first
        days == Unpaired(Daily(MainSwipes(swipes)))
        rows == Descending(days, [d \in days |-> <<Ordinal(d.date), at(d), d.employee>>])
    IN  [i \in DOMAIN rows |-> [id |-> UnpairedId(rows[i]), at |-> at(rows[i]), note |-> NoNote]]

DeniedItems(db, swipes) ==
    LET rows == NewestFirst(Denied(swipes))
    IN  [i \in DOMAIN rows |-> [id |-> DeniedId(rows[i]), at |-> At(rows[i]),
                                note |-> db.remark[rows[i]]]]

Kinds == <<"overtime_daily", "late_arrival", "unpaired_access", "denied_access">>

Items(db, kind, swipes) ==
    CASE kind = "overtime_daily" -> OvertimeItems(db, swipes)
      [] kind = "late_arrival" -> LateItems(db, swipes)
      [] kind = "unpaired_access" -> UnpairedItems(swipes)
      [] kind = "denied_access" -> DeniedItems(db, swipes)

\* Mutant of CountOf: the count of unpaired days leaves out a missing entry.
CountOfMissingExits(kind, swipes) ==
    LET days == Daily(MainSwipes(swipes))
    IN  CASE kind = "overtime_daily" -> Cardinality(Overtime(days, OvertimeHours))
          [] kind = "late_arrival" -> Cardinality({e \in FirstEntries(swipes) : LateSql(e.time)})
          [] kind = "unpaired_access" -> Cardinality({d \in Unpaired(days) : d.last = NoTime})
          [] kind = "denied_access" -> Cardinality(Denied(swipes))

\* The SELECT count(*) of a single kind.
CountOf(kind, swipes) ==
    LET days == Daily(MainSwipes(swipes))
    IN  CASE kind = "overtime_daily" -> Cardinality(Overtime(days, OvertimeHours))
          [] kind = "late_arrival" -> Cardinality({e \in FirstEntries(swipes) : LateSql(e.time)})
          [] kind = "unpaired_access" -> Cardinality(Unpaired(days))
          [] kind = "denied_access" -> Cardinality(Denied(swipes))

\* sorted(..., key=occurredAt, reverse=True) keeps the order of equals.
Merged(lists) ==
    LET all == UNION {{<<lists[k][i], k, i>> : i \in DOMAIN lists[k]} : k \in DOMAIN lists}
        order == Descending(all, [x \in all |-> <<x[1].at, -x[2], -x[3]>>])
    IN  [n \in DOMAIN order |-> order[n][1]]

\* get_compliance_anomalies.  Each kind is cut to its own page, and the merged
\* list once more to the limit.
ComplianceAnomalies(db, user, departments, kind, w, limit, offset) ==
    LET swipes == ScopedEvents(db, user, departments, w)
        most == Clamp(limit, 1, 200)
        after == Max({offset, 0})
        lists == [k \in DOMAIN Kinds |-> IF kind \in {"all", Kinds[k]}
                                        THEN Page(Items(db, Kinds[k], swipes), most, after)
                                        ELSE <<>>]
        items == Page(Merged(lists), most, 0)
    IN  [items |-> items,
         total |-> IF kind = "all" THEN Len(items) + after ELSE CountOf(kind, swipes)]

----------------------------------------------------------------------------
(* update_compliance_anomaly_remark and update_denied_access_remark: the    *)
(* row the remark of an item goes to, none when the item is not in scope.   *)

\* Mutant of Target: an overtime remark goes to the last entry of the day.
TargetLastEntry(db, user, id) ==
    LET people == ScopedEmployees(user, {})
        seen == {e \in db.stored : e.employee \in people}
        day == OnDay(MainSwipes(seen), id.employee, id.date)
    IN  CASE id.kind = "denied" -> {e \in Denied(seen) : e.id = id.request}
          [] id.kind = "late" -> Earliest(Going("IN", day))
          [] id.kind = "overtime" -> Latest(Going("IN", day))
          [] id.kind = "unpaired" -> Latest(Going(IF id.missing = "IN" THEN "OUT" ELSE "IN", day))

Target(db, user, id) ==
    LET people == ScopedEmployees(user, {})
        seen == {e \in db.stored : e.employee \in people}
        day == OnDay(MainSwipes(seen), id.employee, id.date)
    IN  CASE id.kind = "denied" -> {e \in Denied(seen) : e.id = id.request}
          [] id.kind = "late" -> Earliest(Going("IN", day))
          [] id.kind = "overtime" -> Latest(Going("OUT", day))
          [] id.kind = "unpaired" -> Latest(Going(IF id.missing = "IN" THEN "OUT" ELSE "IN", day))

----------------------------------------------------------------------------
(* What the routes answer a user.                                           *)

\* Those that take one department at most; without one, all the user sees.
Shown(db, user, departments) ==
    [dashboard |-> Dashboard(db, user, departments),
     states |-> EmployeeStates(db, user, departments, {"IN", "OUT", "UNKNOWN"}, 500, 0),
     monthly |-> [d \in departments |-> DepartmentEmployees(db, user, d, 500, 0)],
     attendance |-> AttendanceDaily(db, user, NoEmployee, departments, 31)]

\* Those that take a window as well, the report center with one department.
ShownOf(db, user, departments, w) ==
    [center |-> ReportCenter(db, user, departments, w, NoEmployee, 500),
     compliance |-> ComplianceAnomalies(db, user, departments, "all", w, 200, 0)]

\* Those that take several departments: the list of events, its export, and the
\* metrics of the report center.
ListedOf(db, user, departments, w) ==
    [events |-> QueryAccessEvents(db, user, departments, w, AnyOf(Employees), 200, 0),
     export |-> ExportEvents(db, user, departments, w, AnyOf(Employees)),
     metrics |-> ReportCenter(db, user, departments, w, NoEmployee, 500).metrics]
=============================================================================
