--------------------------- MODULE SaveAccessEvent ---------------------------
(***************************************************************************)
(* How an access event gets into PostgreSQL: save_access_event of          *)
(* reporting-api/app/repositories.py, run in threads by writers that do    *)
(* not know of each other (the Kafka consumer and the Redis recovery       *)
(* consumer).  A transaction reads, then flushes and commits; PostgreSQL   *)
(* runs it at READ COMMITTED, so what it read may be stale by then, and    *)
(* row locks make flush and commit one step for the other transactions.    *)
(*                                                                         *)
(* Abstracted: the columns of an event but its employee, its currentState  *)
(* and its timestamp; both columns of the employee row that are set.       *)
(***************************************************************************)
EXTENDS Naturals, Sequences, Functions

CONSTANTS
    Writers,      \* who saves events
    Events,       \* the events; an event is its requestId
    Employees,
    EmployeeOf,   \* the employeeId of an event
    StateOf,      \* the currentState of an event
    TimeOf,       \* the timestamp of an event
    Seeded,       \* employees with a row from the start
    Malformed,    \* events without one of the REQUIRED_EVENT_FIELDS: no call is made for them
    Skipped,      \* events of load tests, acknowledged and never saved
    Rejected,     \* events PostgreSQL never accepts (a value too long for its column)
    DbFaults      \* TRUE: PostgreSQL may fail

States == {"UNKNOWN", "IN", "OUT"}

ASSUME EventColumns == /\ EmployeeOf \in [Events -> Employees]
                       /\ StateOf \in [Events -> States]
                       /\ TimeOf \in [Events -> Nat \ {0}]
ASSUME EventKinds == /\ Events # {}
                     /\ Seeded \subseteq Employees /\ Skipped \subseteq Events
                     /\ Rejected \subseteq Events /\ Malformed \subseteq Events
                     /\ DbFaults \in BOOLEAN

VARIABLES
    rows,         \* access_events: the requestIds, in the order of their commits
    employees,    \* the employees table; state and seen are its two columns
    unassigned,   \* the department UNASSIGNED exists
    txn           \* per writer: its call of save_access_event

dbVars == <<rows, employees, unassigned, txn>>

NoRow == [known |-> FALSE, state |-> "UNKNOWN", seen |-> 0]
EmployeeRows == [known : BOOLEAN, state : States, seen : Nat]

\* A call ends in one of four ways: True, False, False for a skipped event, or
\* an exception.
Outcomes == {"inserted", "duplicate", "skipped", "failed"}
Running == {"lookup", "load", "commit"}
TxnSteps == {"idle"} \union Running \union Outcomes

DbInit ==
    /\ rows = <<>>
    /\ employees = [p \in Employees |-> [NoRow EXCEPT !.known = p \in Seeded]]
    /\ unassigned = FALSE
    /\ txn = [w \in Writers |-> [step |-> "idle", event |-> CHOOSE e \in Events : TRUE,
                                  row |-> NoRow, dept |-> FALSE]]

Step(w, step) == txn' = [txn EXCEPT ![w].step = step]

----------------------------------------------------------------------------
(* The call and its statements.                                             *)

SaveStart(w, e) ==
    /\ txn[w].step = "idle"
    /\ txn' = [txn EXCEPT ![w].step = IF e \in Skipped THEN "skipped" ELSE "lookup",
                          ![w].event = e]
    /\ UNCHANGED <<rows, employees, unassigned>>

\* select AccessEvent.id where request_id = ...
Lookup(w) ==
    /\ txn[w].step = "lookup"
    /\ Step(w, IF txn[w].event \in Range(rows) THEN "duplicate" ELSE "load")
    /\ UNCHANGED <<rows, employees, unassigned>>

\* db.get(Employee), and db.get(Department) for an employee without a row.
Load(w) ==
    /\ txn[w].step = "load"
    /\ txn' = [txn EXCEPT ![w].step = "commit",
                          ![w].row = employees[EmployeeOf[txn[w].event]],
                          ![w].dept = unassigned]
    /\ UNCHANGED <<rows, employees, unassigned>>

\* Mutant of Conflict: access_events without its unique constraint.
ConflictNotUnique(w) ==
    LET t == txn[w]
    IN  \/ ~t.row.known /\ employees[EmployeeOf[t.event]].known
        \/ ~t.row.known /\ ~t.dept /\ unassigned
        \/ t.event \in Rejected

\* Constraints the commit can violate: uq_access_events_request_id, the primary
\* keys of rows this transaction found missing, and the columns of the event.
Conflict(w) ==
    LET t == txn[w]
    IN  \/ t.event \in Range(rows)
        \/ ~t.row.known /\ employees[EmployeeOf[t.event]].known
        \/ ~t.row.known /\ ~t.dept /\ unassigned
        \/ t.event \in Rejected

\* Mutants of NewEmployeeRow: the decision is stored for the state; the state
\* before the event is.
NewEmployeeRowPrevious(e, read, current) ==
    [known |-> TRUE, state |-> read.state, seen |-> TimeOf[e]]

NewEmployeeRowDecision(e, read, current) ==
    [known |-> TRUE, state |-> "GRANTED", seen |-> TimeOf[e]]

\* The UPDATE names only the attributes whose value differs from what was read.
NewEmployeeRow(e, read, current) ==
    [known |-> TRUE,
     state |-> IF read.known /\ StateOf[e] = read.state THEN current.state ELSE StateOf[e],
     seen |-> IF read.known /\ TimeOf[e] = read.seen THEN current.seen ELSE TimeOf[e]]

CommitRows(w) ==
    LET e == txn[w].event
        p == EmployeeOf[e]
    IN  /\ txn[w].step = "commit"
        /\ ~Conflict(w)
        /\ rows' = Append(rows, e)
        /\ employees' = [employees EXCEPT ![p] = NewEmployeeRow(e, txn[w].row, @)]
        /\ unassigned' = (unassigned \/ ~txn[w].row.known)

Commit(w) == CommitRows(w) /\ Step(w, "inserted")

\* The connection breaks after PostgreSQL has committed.
CommitReplyLost(w) == DbFaults /\ CommitRows(w) /\ Step(w, "failed")

\* Mutant of CommitConflict: an integrity error is taken for a duplicate.
CommitConflictDuplicate(w) ==
    /\ txn[w].step = "commit"
    /\ Conflict(w)
    /\ Step(w, "duplicate")
    /\ UNCHANGED <<rows, employees, unassigned>>

CommitConflict(w) ==
    /\ txn[w].step = "commit"
    /\ Conflict(w)
    /\ Step(w, "failed")
    /\ UNCHANGED <<rows, employees, unassigned>>

DbError(w) ==
    /\ DbFaults
    /\ txn[w].step \in Running
    /\ Step(w, "failed")
    /\ UNCHANGED <<rows, employees, unassigned>>

\* The caller takes the outcome.
SaveEnd(w) ==
    /\ txn[w].step \in Outcomes
    /\ Step(w, "idle")
    /\ UNCHANGED <<rows, employees, unassigned>>

\* The process of these writers dies: PostgreSQL aborts what was not committed.
AbortSaves(ws) ==
    /\ txn' = [w \in Writers |-> IF w \in ws THEN [txn[w] EXCEPT !.step = "idle"] ELSE txn[w]]
    /\ UNCHANGED <<rows, employees, unassigned>>

SaveStep(w) == \/ Lookup(w) \/ Load(w) \/ Commit(w)
               \/ CommitReplyLost(w) \/ CommitConflict(w) \/ DbError(w)

DbNext == \E w \in Writers : \/ \E e \in Events \ Malformed : SaveStart(w, e)
                             \/ SaveStep(w)
                             \/ SaveEnd(w)
                             \/ txn[w].step \in Running /\ AbortSaves({w})

DbSpec == DbInit /\ [][DbNext]_dbVars

\* A thread makes its next step, and PostgreSQL does not fail for ever: what is
\* tried again and again succeeds at last.
SaveFairness(w) ==
    /\ WF_dbVars(SaveStep(w))
    /\ SF_dbVars(Lookup(w))
    /\ SF_dbVars(Load(w))
    /\ SF_dbVars(Commit(w))

----------------------------------------------------------------------------
(* Properties.                                                              *)

Saved == Range(rows)

\* What is acknowledged without being saved.
Unsavable == Skipped \union Malformed

DbTypeOK ==
    /\ rows \in Seq(Events)
    /\ employees \in [Employees -> EmployeeRows]
    /\ unassigned \in BOOLEAN
    /\ txn \in [Writers -> [step : TxnSteps, event : Events, row : EmployeeRows,
                            dept : BOOLEAN]]

\* No event has two rows, however many writers save it at the same time and
\* however often a save is repeated after an error (reporting-api/README.md:107).
OneRowPerRequest ==
    \A i, j \in DOMAIN rows : i # j => rows[i] # rows[j]

\* What a save returns is true when the caller looks at it: True and False both
\* mean that the row is there, and a skipped event never gets a row.
OutcomeTrue ==
    \A w \in Writers :
        /\ txn[w].step \in {"inserted", "duplicate"} => txn[w].event \in Saved
        /\ txn[w].step = "skipped" => txn[w].event \notin Saved

\* Every event of the table has its employee row (the foreign key), and each
\* column of an employee row comes from an event that was saved.
EmployeeColumnsSaved ==
    /\ \A e \in Saved : employees[EmployeeOf[e]].known
    /\ \A p \in Employees : employees[p].seen # 0 =>
          /\ \E e \in Saved : EmployeeOf[e] = p /\ StateOf[e] = employees[p].state
          /\ \E e \in Saved : EmployeeOf[e] = p /\ TimeOf[e] = employees[p].seen

\* reporting-api/README.md:71: employees holds the current last state (目前最後狀態),
\* so that the row of an employee tells the swipe that was made last of those saved.
LastStateIsNewest ==
    \A p \in Employees : employees[p].seen # 0 =>
        \A e \in Saved : EmployeeOf[e] = p =>
            /\ TimeOf[e] <= employees[p].seen
            /\ TimeOf[e] = employees[p].seen => StateOf[e] = employees[p].state

\* reporting-api/README.md:104: the consumer updates last_known_state and
\* last_seen_at; the two columns then tell of the same event.
RowOfOneEvent ==
    \A p \in Employees : employees[p].seen # 0 =>
        \E e \in Saved : /\ EmployeeOf[e] = p
                         /\ StateOf[e] = employees[p].state
                         /\ TimeOf[e] = employees[p].seen
=============================================================================
