--------------------------- MODULE ReportSnapshots ---------------------------
(***************************************************************************)
(* The stored snapshots of the report center: table report_center_snapshots,*)
(* the requests that read it and fill it, and the precompute worker, one   *)
(* thread of a process of its own, that refreshes it job after job.        *)
(*                                                                         *)
(* The content of a report is the employees it covers, its window and a    *)
(* version: how many swipes were saved when its queries ran.  A statement  *)
(* of a process is an action; a transaction is the one commit of a store.  *)
(* Times are versions too: generated_at is the version at that moment.     *)
(***************************************************************************)
EXTENDS AttendanceRules, ReportScope, Sequences

CONSTANTS
    Requests,         \* the threads that serve requests
    Worker,           \* the precompute worker
    Forms,            \* the users and targets the requests name
    ReportPresets,    \* the presets asked for and precomputed
    Calendar,         \* the days of a behaviour
    WorkerUsers,      \* the active users of the roles that have reports, in order
    Excluded,         \* REPORT_CENTER_PRECOMPUTE_EXCLUDED_DEPARTMENT_IDS
    SwipeBound,       \* the bound on the swipes saved
    FailureBound      \* the bound on the database errors

VARIABLES
    swipes,           \* the number of swipes saved
    today,            \* the index of the day
    rows,             \* the rows of report_center_snapshots
    proc,             \* what a thread works on
    job,              \* the jobs left of the worker's cycle
    failures          \* the number of database errors

vars == <<swipes, today, rows, proc, job, failures>>

Procs == Requests \union {Worker}
All == NoDepartment                  \* REPORT_CENTER_TARGET_ALL
Targets == Departments \union {All}

ASSUME SnapshotConstants ==
    /\ Worker \notin Requests /\ ReportPresets \subseteq Presets
    /\ Forms \subseteq [user : Users, target : Targets]
    /\ Calendar \in Seq([year : Nat, month : 1..12, day : 1..31]) /\ Calendar # <<>>
    /\ \A i \in DOMAIN Calendar : IsDate(Calendar[i]) /\ Calendar[i].year > 1
    /\ WorkerUsers \in Seq(Users \ {Anonymous}) /\ Excluded \subseteq Departments
    /\ SwipeBound \in Nat /\ FailureBound \in Nat

----------------------------------------------------------------------------
(* What a request or a job asks for.                                        *)

Asked(target) == {target} \ {All}

\* The columns of uq_report_center_snapshots_lookup; a snapshot users share has no
\* owner, and the scope, hashed there, is the department's.
Key(user, preset, target) ==
    LET shared == SeesWhole(user, Asked(target))
    IN  [owner |-> IF shared THEN {} ELSE {user},
         preset |-> preset, target |-> target,
         scope |-> IF shared THEN Requested({target})
                   ELSE VisibleDepartmentIds(user, Asked(target)),
         from |-> PresetFrom(preset, Calendar[today]), to |-> Ordinal(Calendar[today])]

\* The employees whose rows a user's report is computed from.
ComputedPeople(user, target) ==
    ScopedEmployees(ComputeUser(user, Asked(target)), Asked(target))

NoRow == 0
NoContent == [people |-> {}, from |-> 0, to |-> 0, version |-> 0]
Idle == [step |-> "idle", user |-> Anonymous, key |-> <<>>, content |-> NoContent,
         generated |-> 0, row |-> NoRow]

RowsOf(key) == {r \in rows : r.key = key}
Newest(S) == {r \in S : \A q \in S : q.generated <= r.generated}

\* _read_any_department_snapshot: whoever's row of the department it is.
DepartmentRows(key) ==
    {r \in rows : /\ key.target # All
                  /\ r.key.preset = key.preset /\ r.key.target = key.target
                  /\ r.key.from = key.from /\ r.key.to = key.to}

Goto(p, step) == proc' = [proc EXCEPT ![p].step = step]

Serve(p, r) ==
    proc' = [proc EXCEPT ![p].step = "served", ![p].content = r.content,
                         ![p].generated = r.generated]

----------------------------------------------------------------------------
(* get_report_center of a preset without an employee.                       *)

Ask(p, user, preset, target) ==
    /\ proc[p].step = "idle"
    /\ proc' = [proc EXCEPT ![p] = [Idle EXCEPT !.step = "lookup", !.user = user,
                                               !.key = Key(user, preset, target)]]
    /\ UNCHANGED <<swipes, today, rows, job, failures>>

\* Mutant of Lookup: any row of the department will do for anyone.
LookupAnyRow(p) ==
    LET found == DepartmentRows(proc[p].key)
    IN  /\ proc[p].step = "lookup"
        /\ IF found = {} THEN Goto(p, "compute") ELSE \E r \in found : Serve(p, r)
        /\ UNCHANGED <<swipes, today, rows, job, failures>>

\* _read_report_center_snapshot_for_request, the two reads in one.
Lookup(p) ==
    LET key == proc[p].key
        found == IF RowsOf(key) # {} THEN Newest(RowsOf(key))
                 ELSE IF SeesWhole(proc[p].user, Asked(key.target)) THEN Newest(DepartmentRows(key))
                 ELSE {}
    IN  /\ proc[p].step = "lookup"
        /\ IF found = {} THEN Goto(p, "compute") ELSE \E r \in found : Serve(p, r)
        /\ UNCHANGED <<swipes, today, rows, job, failures>>

\* _compute_report_center_live of _report_center_snapshot_compute_user.
Compute(p) ==
    LET key == proc[p].key
    IN  /\ proc[p].step = "compute"
        /\ proc' = [proc EXCEPT ![p].step = "read",
                       ![p].content = [people |-> ComputedPeople(proc[p].user, key.target),
                                       from |-> key.from, to |-> key.to, version |-> swipes]]
        /\ UNCHANGED <<swipes, today, rows, job, failures>>

----------------------------------------------------------------------------
(* _store_report_center_snapshot.                                           *)

\* generated_at, then the row to update.
ReadRow(p) ==
    LET found == RowsOf(proc[p].key)
    IN  /\ proc[p].step = "read"
        /\ \E r \in IF found = {} THEN {[id |-> NoRow]} ELSE Newest(found) :
               proc' = [proc EXCEPT ![p].step = "commit", ![p].generated = swipes,
                                    ![p].row = r.id]
        /\ UNCHANGED <<swipes, today, rows, job, failures>>

\* The row a process writes: its content, and the time taken before the row was read.
Stored(p, id) == [id |-> id, key |-> proc[p].key, content |-> proc[p].content,
                  generated |-> proc[p].generated]

Insert(p) ==
    /\ proc[p].step = "commit" /\ proc[p].row = NoRow
    /\ RowsOf(proc[p].key) = {}
    /\ rows' = rows \union {Stored(p, Cardinality(RowsOf(proc[p].key)) + 1)}
    /\ Goto(p, "served")
    /\ UNCHANGED <<swipes, today, job, failures>>

\* Mutant of Conflict: without its unique constraint the table takes the row.
ConflictInserts(p) ==
    /\ proc[p].step = "commit" /\ proc[p].row = NoRow
    /\ RowsOf(proc[p].key) # {}
    /\ rows' = rows \union {Stored(p, Cardinality(RowsOf(proc[p].key)) + 1)}
    /\ Goto(p, "served")
    /\ UNCHANGED <<swipes, today, job, failures>>

\* The unique constraint fails the commit: rollback, and read the row again.
Conflict(p) ==
    /\ proc[p].step = "commit" /\ proc[p].row = NoRow
    /\ RowsOf(proc[p].key) # {}
    /\ \E r \in Newest(RowsOf(proc[p].key)) :
           proc' = [proc EXCEPT ![p].step = "commit", ![p].row = r.id]
    /\ UNCHANGED <<swipes, today, rows, job, failures>>

\* Mutant of Update: the row keeps the content it was inserted with.
UpdateTimeOnly(p) ==
    /\ proc[p].step = "commit" /\ proc[p].row # NoRow
    /\ rows' = {IF r.key = proc[p].key /\ r.id = proc[p].row
                   THEN [r EXCEPT !.generated = proc[p].generated] ELSE r : r \in rows}
    /\ Goto(p, "served")
    /\ UNCHANGED <<swipes, today, job, failures>>

Update(p) ==
    /\ proc[p].step = "commit" /\ proc[p].row # NoRow
    /\ rows' = {IF r.key = proc[p].key /\ r.id = proc[p].row THEN Stored(p, r.id) ELSE r :
                   r \in rows}
    /\ Goto(p, "served")
    /\ UNCHANGED <<swipes, today, job, failures>>

Respond(p) ==
    /\ proc[p].step = "served"
    /\ proc' = [proc EXCEPT ![p] = Idle]
    /\ UNCHANGED <<swipes, today, rows, job, failures>>

\* A statement fails: a request is answered with an error, the worker logs it and
\* takes its next job.
DatabaseError(p) ==
    /\ proc[p].step \notin {"idle", "served"}
    /\ failures < FailureBound
    /\ failures' = failures + 1
    /\ proc' = [proc EXCEPT ![p] = Idle]
    /\ UNCHANGED <<swipes, today, rows, job>>

----------------------------------------------------------------------------
(* The worker: refresh_all over users, presets and departments.             *)

\* target_department_ids; the target ALL is not among them.
TargetDepartments(user) == (Visible[user] \intersect Departments) \ Excluded

Cycle == UNION {[user : {WorkerUsers[i]}, preset : ReportPresets,
                 target : TargetDepartments(WorkerUsers[i])] : i \in DOMAIN WorkerUsers}

StartCycle ==
    /\ job = {} /\ proc[Worker].step = "idle"
    /\ job' = Cycle
    /\ UNCHANGED <<swipes, today, rows, proc, failures>>

\* refresh_job computes at once; the jobs are taken in any order.
StartJob(j) ==
    /\ j \in job /\ proc[Worker].step = "idle"
    /\ job' = job \ {j}
    /\ proc' = [proc EXCEPT ![Worker] = [Idle EXCEPT !.step = "compute", !.user = j.user,
                                            !.key = Key(j.user, j.preset, j.target)]]
    /\ UNCHANGED <<swipes, today, rows, failures>>

\* active_report_user_ids or target_department_ids raises, which nothing catches:
\* the process ends, and its container is restarted (restart: on-failure).
WorkerDies ==
    /\ proc[Worker].step = "idle"
    /\ failures < FailureBound
    /\ failures' = failures + 1
    /\ job' = {}
    /\ UNCHANGED <<swipes, today, rows, proc>>

----------------------------------------------------------------------------
(* The rest of the system.                                                  *)

\* A consumer saves a swipe; midnight.
SaveSwipe ==
    /\ swipes < SwipeBound
    /\ swipes' = swipes + 1
    /\ UNCHANGED <<today, rows, proc, job, failures>>

NextDay ==
    /\ today < Len(Calendar)
    /\ today' = today + 1
    /\ UNCHANGED <<swipes, rows, proc, job, failures>>

Init ==
    /\ swipes = 0 /\ today = 1 /\ rows = {} /\ job = {} /\ failures = 0
    /\ proc = [p \in Procs |-> Idle]

Step(p) == \/ Lookup(p) \/ Compute(p) \/ ReadRow(p)
           \/ Insert(p) \/ Conflict(p) \/ Update(p) \/ Respond(p)

WorkerStep == Step(Worker) \/ StartCycle \/ \E j \in Cycle : StartJob(j)

Next ==
    \/ \E p \in Procs : Step(p) \/ DatabaseError(p)
    \/ \E p \in Requests, form \in Forms, preset \in ReportPresets :
           Ask(p, form.user, preset, form.target)
    \/ StartCycle \/ WorkerDies \/ \E j \in Cycle : StartJob(j)
    \/ SaveSwipe \/ NextDay

\* A thread that has begun goes on, and the worker's loop never ends, or is started
\* again.
Fairness == WF_vars(WorkerStep) /\ \A p \in Requests : WF_vars(Step(p))

Spec == Init /\ [][Next]_vars /\ Fairness

----------------------------------------------------------------------------
(* Properties.                                                              *)

\* A lookup finds one snapshot: however stores overlap, no key has two rows, and
\* the row a store has read is still the row of its key.
OneRowPerKey ==
    /\ \A r, q \in rows : r.key = q.key => r = q
    /\ \A p \in Procs : proc[p].step = "commit" /\ proc[p].row # NoRow =>
           \E r \in rows : r.id = proc[p].row /\ r.key = proc[p].key

\* What a user is served holds rows only of the departments that they see and asked
\* for, and exactly the rows they may see unless they see the whole of the
\* department, over the window of the day they asked on.  A user who sees the whole
\* is served whatever report of it is newest: for an EMPLOYEE that includes their
\* colleagues' rows, which OwnRecordsOnly of Reports is about, and it may lack those
\* that a user who sees a part of the department does not see.
ServedInScope ==
    \A p \in Requests :
        LET served == proc[p]
            departments == Asked(served.key.target)
            visible == VisibleDepartmentIds(served.user, departments)
        IN  served.step = "served" =>
                /\ \A e \in served.content.people : e \in Employees /\ DepartmentOf[e] \in visible
                /\ SeesWhole(served.user, departments)
                      \/ served.content.people = ScopedEmployees(served.user, departments)
                /\ served.content.from = served.key.from /\ served.content.to = served.key.to
                /\ served.content.version <= served.generated

\* However long the months between are, the snapshot of a later day does not begin
\* before that of an earlier one of its preset, and none is of no day: the last of May
\* less three months is not in March.
WindowsMoveForward ==
    /\ \A r \in rows : r.content.from <= r.content.to
    /\ \A r, q \in rows :
           r.key.preset = q.key.preset /\ r.content.to <= q.content.to =>
               r.content.from <= q.content.from

\* Whatever slow requests stored in between, the snapshots the worker refreshes
\* come to show every swipe saved, and keep showing them.
SnapshotsCatchUp ==
    <>[](\A j \in Cycle : \E r \in RowsOf(Key(j.user, j.preset, j.target)) :
             r.content.version = swipes)
=============================================================================
