----------------------------- MODULE ReportTables -----------------------------
(***************************************************************************)
(* The tables the reports of the Reporting API read, access_events and the *)
(* state columns of employees, and the selects every report starts from.   *)
(*                                                                         *)
(* A row of access_events is a swipe, its date and time of day those of    *)
(* Taipei, the zone of every connection; its remark, the one column the    *)
(* API updates, is kept apart.  Latencies and names are left out.  Ids are *)
(* numbers, ordered as the code's ORDER BYs order the strings.             *)
(*                                                                         *)
(* The session db that every function of the code is given is the tables   *)
(* it reads: the rows stored, the remark of each, and what is known of an  *)
(* employee, last_known_state and last_seen_at.                            *)
(***************************************************************************)
EXTENDS AttendanceRules, ReportScope, Sequences, FiniteSetsExt

CONSTANTS
    Swipes,        \* the swipes that may be saved
    MainGates,     \* the gates whose id is LIKE the main gate pattern
    SuffixGates,   \* the gates whose id ends in _A
    Notes,         \* the remarks a user may give
    NoNote         \* no remark: NULL, and what strip() leaves of blanks

ASSUME OrderedIds ==
    /\ Employees \subseteq Nat
    /\ Departments \subseteq Nat /\ NoDepartment \in Nat
    /\ \A d \in Departments : d < NoDepartment
ASSUME SwipeRows ==
    /\ \A e \in Swipes : /\ e.id \in Nat /\ e.employee \in Employees
                         /\ e.direction \in {"IN", "OUT"}
                         /\ e.decision \in {"GRANTED", "DENIED"}
                         /\ e.state \in {"IN", "OUT"}
                         /\ IsDate(e.date) /\ e.date.year >= 2020 /\ e.time \in TimesOfDay
    /\ \A e, f \in Swipes : e.id = f.id => e = f
    /\ NoNote \notin Notes

Hours(n) == 3600 * n
Days(n) == 86400 * n
NoTime == -1       \* NULL

\* Moments are counted in seconds from the first midnight of 2020.
Epoch == Ordinal([year |-> 2020, month |-> 1, day |-> 1])
Midnight(date) == Days(Ordinal(date) - Epoch)

At(e) == Midnight(e.date) + e.time

\* A window of whole days, both included, as the page asks for one.
WholeDays(from, to) == [from |-> Midnight(from), to |-> Midnight(to) + 86399]

\* Mutant of ScopedEvents: the departments asked for are ignored.
ScopedEventsAllSeen(db, user, departments, w) ==
    LET people == ScopedEmployees(user, {})
    IN  {e \in db.stored : e.employee \in people /\ w.from <= At(e) /\ At(e) <= w.to}

ScopedEvents(db, user, departments, w) ==
    LET people == ScopedEmployees(user, departments)
    IN  {e \in db.stored : e.employee \in people /\ w.from <= At(e) /\ At(e) <= w.to}

Granted(swipes) == {e \in swipes : e.decision = "GRANTED"}
Denied(swipes) == {e \in swipes : e.decision = "DENIED"}
Going(direction, swipes) == {e \in swipes : e.direction = direction}

----------------------------------------------------------------------------
(* ORDER BY, LIMIT and OFFSET.                                              *)

Lower(a, b) == \E i \in DOMAIN a : a[i] < b[i] /\ \A j \in 1..i - 1 : a[j] = b[j]

\* S from the highest key to the lowest; no two have one key.
Descending(S, key) ==
    LET above(x) == {y \in S : Lower(key[x], key[y])}
    IN  [i \in 1..Cardinality(S) |-> CHOOSE x \in S : Cardinality(above(x)) = i - 1]

\* Newest first.  The code names no key for swipes of one instant.
Moment(e) == <<At(e), e.id>>
NewestFirst(swipes) == Descending(swipes, [e \in swipes |-> Moment(e)])
OldestFirst(swipes) == Descending(swipes, [e \in swipes |-> <<-At(e), -e.id>>])

Clamp(n, low, high) == IF n < low THEN low ELSE IF n > high THEN high ELSE n

Page(rows, limit, offset) ==
    SubSeq(rows, offset + 1, Clamp(offset + limit, 0, Len(rows)))

\* _dashboard_event_rows
DashboardRows(db, user, departments, w) == OldestFirst(ScopedEvents(db, user, departments, w))

----------------------------------------------------------------------------
(* Counting.                                                                *)

\* A Counter, and the keys most_common(1) takes the first of.
Tally(S, Key(_)) == [k \in {Key(x) : x \in S} |-> Cardinality({x \in S : Key(x) = k})]
MostCommon(tally) == {k \in DOMAIN tally : \A j \in DOMAIN tally : tally[j] <= tally[k]}

Total(tally) == MapThenSumSet(LAMBDA k : tally[k], DOMAIN tally)
=============================================================================
