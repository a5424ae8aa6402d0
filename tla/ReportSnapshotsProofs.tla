------------------------- MODULE ReportSnapshotsProofs -------------------------
(***************************************************************************)
(* Proofs about ReportSnapshots, for any departments, users, targets,      *)
(* presets, calendar and number of threads: the table of snapshots has one *)
(* row per key, nobody is served rows of departments they do not see, nor, *)
(* where they see a part, rows that are not theirs, and windows follow the *)
(* days.                                                                   *)
(*                                                                         *)
(* The key of a task tells the departments its user sees of the target,    *)
(* whose content it is when it is nobody else's, and the window of one     *)
(* day; the content of a task and of a row agrees with its key.            *)
(***************************************************************************)
EXTENDS ReportSnapshots, AttendanceRulesProofs, TLAPS

\* The fields of a task, so that changing one keeps the others.
Task(step, user, key, content, generated, row) ==
    [step |-> step, user |-> user, key |-> key, content |-> content,
     generated |-> generated, row |-> row]

IsTask(t) == t = Task(t.step, t.user, t.key, t.content, t.generated, t.row)

\* The employees of some departments.
Of(scope) == {e \in Employees : DepartmentOf[e] \in scope}

\* The content is the owner's own report.
Own(people, key) ==
    \A u \in key.owner : people = ScopedEmployees(u, Asked(key.target))

\* A content computed for a key.
Fits(content, key) ==
    /\ content.people \subseteq Of(key.scope) /\ Own(content.people, key)
    /\ content.from = key.from /\ content.to = key.to
    /\ content.version \in Nat

\* The window of a key is that of its preset on some day of the calendar.
WindowOf(key) ==
    /\ key.preset \in Presets
    /\ \E i \in DOMAIN Calendar : /\ key.from = PresetFrom(key.preset, Calendar[i])
                                  /\ key.to = Ordinal(Calendar[i])

\* The key a user's report is computed for.
KeyOf(user, key) ==
    /\ key.scope = VisibleDepartmentIds(user, Asked(key.target))
    /\ key.owner = IF SeesWhole(user, Asked(key.target)) THEN {} ELSE {user}
    /\ WindowOf(key)

\* What a user may be served of a target.
MayServe(people, user, target) ==
    /\ people \subseteq Of(VisibleDepartmentIds(user, Asked(target)))
    /\ SeesWhole(user, Asked(target)) \/ people = ScopedEmployees(user, Asked(target))

\* What is known of a task when the table is S and n swipes are saved.
TaskOK(t, S, n) ==
    /\ IsTask(t)
    /\ t.step # "idle" => KeyOf(t.user, t.key)
    /\ t.step = "read" => Fits(t.content, t.key) /\ t.content.version <= n
    /\ t.step = "commit" =>
           /\ Fits(t.content, t.key) /\ t.content.version <= t.generated
           /\ t.row # NoRow => \E r \in S : r.id = t.row /\ r.key = t.key
    /\ t.step = "served" =>
           /\ MayServe(t.content.people, t.user, t.key.target)
           /\ t.content.from = t.key.from /\ t.content.to = t.key.to
           /\ t.content.version <= t.generated

RowOK(r) ==
    /\ Fits(r.content, r.key) /\ r.content.version <= r.generated /\ WindowOf(r.key)
    /\ r.key.target # All => r.key.scope \subseteq Requested({r.key.target})

RowsOK(S) == /\ \A r \in S : RowOK(r)
             /\ \A r, q \in S : r.key = q.key => r = q

SnapInv ==
    /\ swipes \in Nat
    /\ proc = [p \in Procs |-> proc[p]]
    /\ \A p \in Procs : TaskOK(proc[p], rows, swipes)
    /\ RowsOK(rows)

Dated == today \in DOMAIN Calendar

----------------------------------------------------------------------------
(* Scopes.                                                                  *)

\* A user who sees the whole of a department sees it and those below it.
LEMMA WholeIsVisible ==
    ASSUME NEW user, NEW target, SeesWhole(user, Asked(target))
    PROVE  /\ target # All /\ Asked(target) = {target}
           /\ VisibleDepartmentIds(user, Asked(target)) = Requested({target})
<1>1. target # All /\ Asked(target) = {target}
  BY DEF SeesWhole, Asked
<1>2. QED
  BY <1>1 DEF SeesWhole, VisibleDepartmentIds

\* Of a department nobody sees more than it and those below it.
LEMMA VisibleOfTarget ==
    ASSUME NEW user, NEW target, target # All
    PROVE  VisibleDepartmentIds(user, Asked(target)) \subseteq Requested({target})
BY DEF Asked, VisibleDepartmentIds

\* Rows are only of the departments that are seen.
LEMMA ScopedAreOf ==
    ASSUME NEW user, NEW target
    PROVE  ScopedEmployees(user, Asked(target)) \subseteq
               Of(VisibleDepartmentIds(user, Asked(target)))
BY DEF ScopedEmployees, Of

\* The report _report_center_snapshot_compute_user is given holds rows only of what
\* the user sees, and is the user's own unless they see the whole of the department.
LEMMA ComputedMayServe ==
    ASSUME NEW user, NEW target
    PROVE  MayServe(ComputedPeople(user, target), user, target)
<1> DEFINE departments == Asked(target)
           computer == ComputeUser(user, departments)
<1>1. CASE SeesWhole(user, departments)
  <2>1. /\ target # All
        /\ VisibleDepartmentIds(user, departments) = Requested({target})
    BY <1>1, WholeIsVisible
  <2>2. PICK u : u = computer
    OBVIOUS
  <2>3. ScopedEmployees(u, departments) \subseteq Of(VisibleDepartmentIds(u, departments))
    BY ScopedAreOf
  <2>4. VisibleDepartmentIds(u, departments) \subseteq Requested({target})
    BY <2>1, VisibleOfTarget
  <2>5. ScopedEmployees(u, departments) \subseteq Of(VisibleDepartmentIds(user, departments))
    BY <2>1, <2>3, <2>4 DEF Of
  <2>6. QED
    BY <1>1, <2>2, <2>5 DEF MayServe, ComputedPeople
<1>2. CASE ~SeesWhole(user, departments)
  <2>1. ComputedPeople(user, target) = ScopedEmployees(user, departments)
    BY <1>2 DEF ComputedPeople, ComputeUser
  <2>2. QED
    BY <2>1, ScopedAreOf DEF MayServe
<1>3. QED
  BY <1>1, <1>2

\* What fits the key of a user may be served to the user.
LEMMA FitsMayServe ==
    ASSUME NEW user, NEW key, KeyOf(user, key), NEW content, Fits(content, key)
    PROVE  MayServe(content.people, user, key.target)
BY DEF KeyOf, Fits, Own, MayServe

\* The key of a request tells the scope it is computed over, and a window of today.
LEMMA KeyScope ==
    ASSUME Dated, NEW user, NEW preset \in ReportPresets, NEW target
    PROVE  /\ Key(user, preset, target).target = target
           /\ KeyOf(user, Key(user, preset, target))
<1>1. SeesWhole(user, Asked(target)) =>
          Requested({target}) = VisibleDepartmentIds(user, Asked(target))
  BY WholeIsVisible
<1>2. WindowOf(Key(user, preset, target))
  BY SnapshotConstants DEF Key, WindowOf, Dated
<1>3. QED
  BY <1>1, <1>2 DEF Key, KeyOf

----------------------------------------------------------------------------
(* Steps of one task.                                                       *)

\* What is known of a task stays known while rows keep their ids and keys, and
\* swipes are saved.
LEMMA TaskKept ==
    ASSUME NEW t, NEW S, NEW T, NEW n \in Nat, NEW m \in Nat, n <= m, TaskOK(t, S, n),
           \A r \in S : \E q \in T : q.id = r.id /\ q.key = r.key
    PROVE  TaskOK(t, T, m)
<1>1. t.step = "read" => t.content.version <= m
  BY DEF TaskOK, Fits
<1>2. t.step = "commit" /\ t.row # NoRow => \E q \in T : q.id = t.row /\ q.key = t.key
  BY DEF TaskOK
<1>3. QED
  BY <1>1, <1>2 DEF TaskOK

\* A step that changes one task and no row.
LEMMA OneTask ==
    ASSUME SnapInv, NEW p \in Procs, NEW t, TaskOK(t, rows, swipes),
           proc' = [proc EXCEPT ![p] = t], UNCHANGED <<rows, swipes>>
    PROVE  SnapInv'
<1>1. proc' = [q \in Procs |-> proc'[q]]
  BY DEF SnapInv
<1>2. \A q \in Procs : proc'[q] = IF q = p THEN t ELSE proc[q]
  BY DEF SnapInv
<1>3. \A q \in Procs : TaskOK(proc'[q], rows, swipes)
  BY <1>2 DEF SnapInv
<1>4. QED
  BY <1>1, <1>3 DEF SnapInv

\* A step of task p that changes the rows and keeps their ids and keys, too.
LEMMA TaskAndRows ==
    ASSUME SnapInv, NEW p \in Procs, NEW t, TaskOK(t, rows', swipes), RowsOK(rows'),
           \A r \in rows : \E q \in rows' : q.id = r.id /\ q.key = r.key,
           proc' = [proc EXCEPT ![p] = t], UNCHANGED swipes
    PROVE  SnapInv'
<1>1. proc' = [q \in Procs |-> proc'[q]]
  BY DEF SnapInv
<1>2. \A q \in Procs : proc'[q] = IF q = p THEN t ELSE proc[q]
  BY DEF SnapInv
<1>3. \A q \in Procs : TaskOK(proc[q], rows', swipes)
  BY TaskKept DEF SnapInv
<1>4. \A q \in Procs : TaskOK(proc'[q], rows', swipes)
  BY <1>2, <1>3
<1>5. QED
  BY <1>1, <1>4 DEF SnapInv

\* The idle task.
LEMMA IdleOK == ASSUME NEW S, NEW n PROVE TaskOK(Idle, S, n)
BY DEF TaskOK, IsTask, Task, Idle

----------------------------------------------------------------------------
(* What the EXCEPTs of the actions make of a task.                          *)

\* The assignments of Compute, ReadRow and Conflict, as Goto and Serve are those of
\* the other actions.
SetContent(p, content) == proc' = [proc EXCEPT ![p].step = "read", ![p].content = content]
SetCommit(p, generated, id) ==
    proc' = [proc EXCEPT ![p].step = "commit", ![p].generated = generated, ![p].row = id]
SetRow(p, id) == proc' = [proc EXCEPT ![p].step = "commit", ![p].row = id]
SetKey(p, step, user, key) ==
    proc' = [proc EXCEPT ![p] = [Idle EXCEPT !.step = step, !.user = user, !.key = key]]

\* Only the step changes.
LEMMA GotoTask ==
    ASSUME NEW p, IsTask(proc[p]), NEW next, Goto(p, next)
    PROVE  proc' = [proc EXCEPT ![p] =
                       Task(next, proc[p].user, proc[p].key, proc[p].content,
                            proc[p].generated, proc[p].row)]
<1>1. PICK old, user, key, content, generated, row :
          proc[p] = Task(old, user, key, content, generated, row)
  BY DEF IsTask
<1>2. /\ user = proc[p].user /\ key = proc[p].key /\ content = proc[p].content
      /\ generated = proc[p].generated /\ row = proc[p].row
  BY <1>1 DEF Task
<1> DEFINE a == [proc[p] EXCEPT !.step = next]
<1>3. a = Task(next, user, key, content, generated, row)
  BY <1>1 DEF Task
<1> HIDE DEF a
<1>4. proc' = [proc EXCEPT ![p] = a]
  BY DEF Goto, a
<1>5. QED
  BY <1>2, <1>3, <1>4

\* The content and its time are those of the row served.
LEMMA ServeTask ==
    ASSUME NEW p, IsTask(proc[p]), NEW r, Serve(p, r)
    PROVE  proc' = [proc EXCEPT ![p] =
                       Task("served", proc[p].user, proc[p].key, r.content,
                            r.generated, proc[p].row)]
<1>1. PICK old, user, key, content, generated, row :
          proc[p] = Task(old, user, key, content, generated, row)
  BY DEF IsTask
<1>2. /\ user = proc[p].user /\ key = proc[p].key /\ content = proc[p].content
      /\ generated = proc[p].generated /\ row = proc[p].row
  BY <1>1 DEF Task
<1> DEFINE a == [proc[p] EXCEPT !.step = "served"]
<1>3. a = Task("served", user, key, content, generated, row)
  BY <1>1 DEF Task
<1> HIDE DEF a
<1> DEFINE b == [a EXCEPT !.content = r.content]
<1>4. b = Task("served", user, key, r.content, generated, row)
  BY <1>3 DEF Task
<1> HIDE DEF b
<1> DEFINE c == [b EXCEPT !.generated = r.generated]
<1>5. c = Task("served", user, key, r.content, r.generated, row)
  BY <1>4 DEF Task
<1> HIDE DEF c
<1>6. proc' = [proc EXCEPT ![p] = c]
  BY DEF Serve, a, b, c
<1>7. QED
  BY <1>2, <1>5, <1>6

\* The content is the one computed.
LEMMA ContentTask ==
    ASSUME NEW p, IsTask(proc[p]), NEW new, SetContent(p, new)
    PROVE  proc' = [proc EXCEPT ![p] =
                       Task("read", proc[p].user, proc[p].key, new, proc[p].generated, proc[p].row)]
<1>1. PICK old, user, key, content, generated, row :
          proc[p] = Task(old, user, key, content, generated, row)
  BY DEF IsTask
<1>2. /\ user = proc[p].user /\ key = proc[p].key /\ content = proc[p].content
      /\ generated = proc[p].generated /\ row = proc[p].row
  BY <1>1 DEF Task
<1> DEFINE a == [proc[p] EXCEPT !.step = "read"]
<1>3. a = Task("read", user, key, content, generated, row)
  BY <1>1 DEF Task
<1> HIDE DEF a
<1> DEFINE b == [a EXCEPT !.content = new]
<1>4. b = Task("read", user, key, new, generated, row)
  BY <1>3 DEF Task
<1> HIDE DEF b
<1>5. proc' = [proc EXCEPT ![p] = b]
  BY DEF SetContent, a, b
<1>6. QED
  BY <1>2, <1>4, <1>5

\* The time and the row to update are the ones read.
LEMMA CommitTask ==
    ASSUME NEW p, IsTask(proc[p]), NEW time, NEW id, SetCommit(p, time, id)
    PROVE  proc' = [proc EXCEPT ![p] =
                       Task("commit", proc[p].user, proc[p].key, proc[p].content, time, id)]
<1>1. PICK old, user, key, content, generated, row :
          proc[p] = Task(old, user, key, content, generated, row)
  BY DEF IsTask
<1>2. /\ user = proc[p].user /\ key = proc[p].key /\ content = proc[p].content
      /\ generated = proc[p].generated /\ row = proc[p].row
  BY <1>1 DEF Task
<1> DEFINE a == [proc[p] EXCEPT !.step = "commit"]
<1>3. a = Task("commit", user, key, content, generated, row)
  BY <1>1 DEF Task
<1> HIDE DEF a
<1> DEFINE b == [a EXCEPT !.generated = time]
<1>4. b = Task("commit", user, key, content, time, row)
  BY <1>3 DEF Task
<1> HIDE DEF b
<1> DEFINE c == [b EXCEPT !.row = id]
<1>5. c = Task("commit", user, key, content, time, id)
  BY <1>4 DEF Task
<1> HIDE DEF c
<1>6. proc' = [proc EXCEPT ![p] = c]
  BY DEF SetCommit, a, b, c
<1>7. QED
  BY <1>2, <1>5, <1>6

\* Only the row to update changes.
LEMMA RowTask ==
    ASSUME NEW p, IsTask(proc[p]), NEW id, SetRow(p, id)
    PROVE  proc' = [proc EXCEPT ![p] =
                       Task("commit", proc[p].user, proc[p].key, proc[p].content,
                            proc[p].generated, id)]
<1>1. PICK old, user, key, content, generated, row :
          proc[p] = Task(old, user, key, content, generated, row)
  BY DEF IsTask
<1>2. /\ user = proc[p].user /\ key = proc[p].key /\ content = proc[p].content
      /\ generated = proc[p].generated /\ row = proc[p].row
  BY <1>1 DEF Task
<1> DEFINE a == [proc[p] EXCEPT !.step = "commit"]
<1>3. a = Task("commit", user, key, content, generated, row)
  BY <1>1 DEF Task
<1> HIDE DEF a
<1> DEFINE b == [a EXCEPT !.row = id]
<1>4. b = Task("commit", user, key, content, generated, id)
  BY <1>3 DEF Task
<1> HIDE DEF b
<1>5. proc' = [proc EXCEPT ![p] = b]
  BY DEF SetRow, a, b
<1>6. QED
  BY <1>2, <1>4, <1>5

\* The task of a thread that takes a request or a job.
LEMMA KeyTask ==
    ASSUME NEW p, NEW user, NEW key, NEW step, SetKey(p, step, user, key)
    PROVE  proc' = [proc EXCEPT ![p] = Task(step, user, key, NoContent, 0, NoRow)]
<1> DEFINE a == [Idle EXCEPT !.step = step]
<1>1. a = Task(step, Idle.user, Idle.key, NoContent, 0, NoRow)
  BY DEF Idle, Task
<1> HIDE DEF a
<1> DEFINE b == [a EXCEPT !.user = user]
<1>2. b = Task(step, user, Idle.key, NoContent, 0, NoRow)
  BY <1>1 DEF Task
<1> HIDE DEF b
<1> DEFINE c == [b EXCEPT !.key = key]
<1>3. c = Task(step, user, key, NoContent, 0, NoRow)
  BY <1>2 DEF Task
<1> HIDE DEF c
<1>4. proc' = [proc EXCEPT ![p] = c]
  BY DEF SetKey, a, b, c
<1>5. QED
  BY <1>3, <1>4

----------------------------------------------------------------------------
(* One lemma per action.                                                    *)

\* Ask and StartJob give an idle thread a key of today.
LEMMA AskStep ==
    ASSUME SnapInv, Dated, NEW p \in Procs,
           NEW user, NEW preset \in ReportPresets, NEW target, NEW step \in {"lookup", "compute"},
           SetKey(p, step, user, Key(user, preset, target)), UNCHANGED <<rows, swipes>>
    PROVE  SnapInv'
<1>1. PICK key : key = Key(user, preset, target)
  OBVIOUS
<1>2. KeyOf(user, key)
  BY <1>1, KeyScope
<1>3. PICK t : t = Task(step, user, key, NoContent, 0, NoRow)
  OBVIOUS
<1>4. proc' = [proc EXCEPT ![p] = t]
  <2>1. SetKey(p, step, user, key)
    BY <1>1
  <2>2. proc' = [proc EXCEPT ![p] = Task(step, user, key, NoContent, 0, NoRow)]
    BY <2>1, KeyTask
  <2>3. QED
    BY <1>3, <2>2
<1>5. TaskOK(t, rows, swipes)
  BY <1>2, <1>3 DEF TaskOK, IsTask, Task
<1>6. QED
  BY <1>4, <1>5, OneTask

\* Lookup serves a row of the key, or, to a user who sees the whole department,
\* any row of the department: both are in scope.
LEMMA LookupStep == ASSUME SnapInv, NEW p \in Procs, Lookup(p) PROVE SnapInv'
<1> DEFINE t == proc[p]
           key == t.key
<1>1. /\ IsTask(t) /\ t.step = "lookup" /\ KeyOf(t.user, key)
      /\ UNCHANGED <<rows, swipes>>
  BY DEF SnapInv, TaskOK, Lookup
<1>2. CASE Goto(p, "compute")
  <2>1. PICK u : u = Task("compute", t.user, t.key, t.content, t.generated, t.row)
    OBVIOUS
  <2>2. proc' = [proc EXCEPT ![p] = u]
    BY <1>1, <1>2, <2>1, GotoTask
  <2>3. TaskOK(u, rows, swipes)
    BY <1>1, <2>1 DEF TaskOK, IsTask, Task
  <2>4. QED
    BY <1>1, <2>2, <2>3, OneTask
<1>3. ASSUME NEW r \in rows, Serve(p, r),
             \/ r.key = key
             \/ /\ SeesWhole(t.user, Asked(key.target)) /\ r.key.target = key.target
                /\ r.key.from = key.from /\ r.key.to = key.to
      PROVE  SnapInv'
  <2>1. RowOK(r)
    BY DEF SnapInv, RowsOK
  <2>2. MayServe(r.content.people, t.user, key.target)
    <3>1. CASE r.key = key
      BY <1>1, <2>1, <3>1, FitsMayServe DEF RowOK
    <3>2. CASE SeesWhole(t.user, Asked(key.target)) /\ r.key.target = key.target
      <4>1. /\ key.target # All
            /\ VisibleDepartmentIds(t.user, Asked(key.target)) = Requested({key.target})
        BY <3>2, WholeIsVisible
      <4>2. r.content.people \subseteq Of(Requested({key.target}))
        BY <2>1, <3>2, <4>1 DEF RowOK, Fits, Of
      <4>3. QED
        BY <3>2, <4>1, <4>2 DEF MayServe
    <3>3. QED
      BY <1>3, <3>1, <3>2
  <2>3. /\ r.content.from = key.from /\ r.content.to = key.to
        /\ r.content.version <= r.generated
    BY <1>3, <2>1 DEF RowOK, Fits
  <2>4. PICK u : u = Task("served", t.user, t.key, r.content, r.generated, t.row)
    OBVIOUS
  <2>5. proc' = [proc EXCEPT ![p] = u]
    BY <1>1, <1>3, <2>4, ServeTask
  <2>6. TaskOK(u, rows, swipes)
    BY <1>1, <2>2, <2>3, <2>4 DEF TaskOK, IsTask, Task
  <2>7. QED
    BY <1>1, <2>5, <2>6, OneTask
<1>4. QED
  <2>1. CASE RowsOf(key) # {}
    BY <1>2, <1>3, <2>1 DEF Lookup, Newest, RowsOf
  <2>2. CASE RowsOf(key) = {} /\ SeesWhole(t.user, Asked(key.target))
    BY <1>2, <1>3, <2>2 DEF Lookup, Newest, DepartmentRows
  <2>3. CASE RowsOf(key) = {} /\ ~SeesWhole(t.user, Asked(key.target))
    BY <1>2, <2>3 DEF Lookup
  <2>4. QED
    BY <2>1, <2>2, <2>3

\* What is computed covers what the key says.
LEMMA ComputeStep == ASSUME SnapInv, NEW p \in Procs, Compute(p) PROVE SnapInv'
<1> DEFINE t == proc[p]
           content == [people |-> ComputedPeople(t.user, t.key.target), from |-> t.key.from,
                       to |-> t.key.to, version |-> swipes]
<1>1. /\ IsTask(t) /\ t.step = "compute" /\ KeyOf(t.user, t.key)
      /\ UNCHANGED <<rows, swipes>> /\ swipes \in Nat
  BY DEF SnapInv, TaskOK, Compute
<1>2. Fits(content, t.key) /\ content.version = swipes
  <2>1. MayServe(ComputedPeople(t.user, t.key.target), t.user, t.key.target)
    BY ComputedMayServe
  <2>2. /\ ComputedPeople(t.user, t.key.target) \subseteq Of(t.key.scope)
        /\ Own(ComputedPeople(t.user, t.key.target), t.key)
    BY <1>1, <2>1 DEF MayServe, KeyOf, Own
  <2>3. QED
    BY <1>1, <2>2 DEF Fits
<1>3. PICK c : c = content
  OBVIOUS
<1>4. PICK u : u = Task("read", t.user, t.key, c, t.generated, t.row)
  OBVIOUS
<1>5. SetContent(p, c)
  BY <1>3 DEF Compute, SetContent
<1>6. proc' = [proc EXCEPT ![p] = u]
  BY <1>1, <1>4, <1>5, ContentTask
<1>7. TaskOK(u, rows, swipes)
  BY <1>1, <1>2, <1>3, <1>4 DEF TaskOK, IsTask, Task
<1>8. QED
  BY <1>1, <1>6, <1>7, OneTask

\* The row to update is one of the key, and generated_at is not before the content.
LEMMA ReadRowStep == ASSUME SnapInv, NEW p \in Procs, ReadRow(p) PROVE SnapInv'
<1> DEFINE t == proc[p]
<1>1. /\ IsTask(t) /\ t.step = "read" /\ KeyOf(t.user, t.key)
      /\ Fits(t.content, t.key) /\ t.content.version <= swipes
      /\ UNCHANGED <<rows, swipes>>
  BY DEF SnapInv, TaskOK, ReadRow
<1>2. PICK id : /\ SetCommit(p, swipes, id)
                /\ id # NoRow => \E r \in rows : r.id = id /\ r.key = t.key
  <2>1. PICK r \in IF RowsOf(t.key) = {} THEN {[id |-> NoRow]} ELSE Newest(RowsOf(t.key)) :
            SetCommit(p, swipes, r.id)
    BY DEF ReadRow, SetCommit
  <2>2. r.id # NoRow => r \in rows /\ r.key = t.key
    BY DEF RowsOf, Newest
  <2>3. QED
    BY <2>1, <2>2
<1>3. PICK u : u = Task("commit", t.user, t.key, t.content, swipes, id)
  OBVIOUS
<1>4. proc' = [proc EXCEPT ![p] = u]
  BY <1>1, <1>2, <1>3, CommitTask
<1>5. TaskOK(u, rows, swipes)
  BY <1>1, <1>2, <1>3 DEF TaskOK, IsTask, Task
<1>6. QED
  BY <1>1, <1>4, <1>5, OneTask

\* A task that has stored its content is served it.
LEMMA StoredIsServed ==
    ASSUME SnapInv, NEW p \in Procs, proc[p].step = "commit", Goto(p, "served"), NEW S, NEW n
    PROVE  \E t : proc' = [proc EXCEPT ![p] = t] /\ TaskOK(t, S, n)
<1> DEFINE t == proc[p]
<1>1. /\ IsTask(t) /\ KeyOf(t.user, t.key)
      /\ Fits(t.content, t.key) /\ t.content.version <= t.generated
  BY DEF SnapInv, TaskOK
<1>2. PICK u : u = Task("served", t.user, t.key, t.content, t.generated, t.row)
  OBVIOUS
<1>3. proc' = [proc EXCEPT ![p] = u]
  BY <1>1, <1>2, GotoTask
<1>4. MayServe(t.content.people, t.user, t.key.target)
  BY <1>1, FitsMayServe
<1>5. TaskOK(u, S, n)
  BY <1>1, <1>2, <1>4 DEF TaskOK, IsTask, Task, Fits
<1>6. QED
  BY <1>3, <1>5

\* The row a task stores.
LEMMA StoredOK ==
    ASSUME SnapInv, NEW p \in Procs, proc[p].step = "commit", NEW id
    PROVE  RowOK(Stored(p, id)) /\ Stored(p, id).id = id /\ Stored(p, id).key = proc[p].key
<1>1. /\ Fits(proc[p].content, proc[p].key) /\ proc[p].content.version <= proc[p].generated
      /\ KeyOf(proc[p].user, proc[p].key)
  BY DEF SnapInv, TaskOK
<1>2. QED
  BY <1>1, VisibleOfTarget DEF Stored, RowOK, KeyOf

\* An insert that succeeds adds the first row of its key.
LEMMA InsertStep == ASSUME SnapInv, NEW p \in Procs, Insert(p) PROVE SnapInv'
<1>1. PICK new : /\ rows' = rows \union {new} /\ RowOK(new) /\ new.key = proc[p].key
  BY StoredOK DEF Insert
<1>2. \A r \in rows : r.key # new.key
  BY <1>1 DEF Insert, RowsOf
<1>3. RowsOK(rows')
  BY <1>1, <1>2 DEF SnapInv, RowsOK
<1>4. Goto(p, "served") /\ proc[p].step = "commit" /\ UNCHANGED swipes
  BY DEF Insert
<1>5. PICK t : proc' = [proc EXCEPT ![p] = t] /\ TaskOK(t, rows', swipes)
  BY <1>4, StoredIsServed
<1>6. \A r \in rows : \E q \in rows' : q.id = r.id /\ q.key = r.key
  BY <1>1
<1>7. QED
  BY <1>3, <1>4, <1>5, <1>6, TaskAndRows

\* After the conflict the task holds the row that won.
LEMMA ConflictStep == ASSUME SnapInv, NEW p \in Procs, Conflict(p) PROVE SnapInv'
<1> DEFINE t == proc[p]
<1>1. /\ IsTask(t) /\ t.step = "commit" /\ KeyOf(t.user, t.key)
      /\ Fits(t.content, t.key) /\ t.content.version <= t.generated
      /\ UNCHANGED <<rows, swipes>>
  BY DEF SnapInv, TaskOK, Conflict
<1>2. PICK r \in rows : SetRow(p, r.id) /\ r.key = t.key
  BY DEF Conflict, RowsOf, Newest, SetRow
<1>3. PICK u : u = Task("commit", t.user, t.key, t.content, t.generated, r.id)
  OBVIOUS
<1>4. proc' = [proc EXCEPT ![p] = u]
  BY <1>1, <1>2, <1>3, RowTask
<1>5. TaskOK(u, rows, swipes)
  BY <1>1, <1>2, <1>3 DEF TaskOK, IsTask, Task
<1>6. QED
  BY <1>1, <1>4, <1>5, OneTask

\* An update keeps the id and the key of every row.
LEMMA UpdateStep == ASSUME SnapInv, NEW p \in Procs, Update(p) PROVE SnapInv'
<1> DEFINE of(r) == IF r.key = proc[p].key /\ r.id = proc[p].row THEN Stored(p, r.id) ELSE r
<1>1. /\ Goto(p, "served") /\ proc[p].step = "commit"
      /\ UNCHANGED swipes /\ rows' = {of(r) : r \in rows}
  BY DEF Update
<1>2. \A r \in rows : RowOK(of(r)) /\ of(r).id = r.id /\ of(r).key = r.key
  BY <1>1, StoredOK DEF SnapInv, RowsOK
<1> HIDE DEF of
<1>3. RowsOK(rows')
  BY <1>1, <1>2 DEF SnapInv, RowsOK
<1>4. PICK t : proc' = [proc EXCEPT ![p] = t] /\ TaskOK(t, rows', swipes)
  BY <1>1, StoredIsServed
<1>5. \A r \in rows : \E q \in rows' : q.id = r.id /\ q.key = r.key
  BY <1>1, <1>2
<1>6. QED
  BY <1>1, <1>3, <1>4, <1>5, TaskAndRows

\* Respond and DatabaseError leave the thread idle.
LEMMA IdleStep ==
    ASSUME SnapInv, NEW p \in Procs, proc' = [proc EXCEPT ![p] = Idle], UNCHANGED <<rows, swipes>>
    PROVE  SnapInv'
BY IdleOK, OneTask

\* The other steps change no task and no row.
LEMMA RestStep ==
    ASSUME SnapInv, UNCHANGED <<rows, proc>>, swipes' = swipes \/ swipes' = swipes + 1
    PROVE  SnapInv'
<1>1. swipes' \in Nat /\ swipes <= swipes'
  BY DEF SnapInv
<1>2. \A p \in Procs : TaskOK(proc[p], rows, swipes')
  BY <1>1, TaskKept DEF SnapInv
<1>3. QED
  BY <1>1, <1>2 DEF SnapInv

----------------------------------------------------------------------------

LEMMA SnapInit == Init => SnapInv
<1> SUFFICES ASSUME Init PROVE SnapInv
  OBVIOUS
<1>1. proc = [p \in Procs |-> Idle] /\ rows = {} /\ swipes = 0
  BY DEF Init
<1>2. QED
  BY <1>1, IdleOK DEF SnapInv, RowsOK

\* Every day is one of the calendar.
LEMMA DatedAlways == Spec => []Dated
<1>1. Init => Dated
  BY SnapshotConstants DEF Init, Dated
<1>2. ASSUME Dated, [Next]_vars PROVE Dated'
  <2>1. CASE UNCHANGED today
    BY <1>2, <2>1 DEF Dated
  <2>2. CASE NextDay
    BY <1>2, <2>2, SnapshotConstants DEF NextDay, Dated
  <2>3. UNCHANGED today \/ NextDay
    BY <1>2 DEF Next, Step, Ask, Lookup, Compute, ReadRow, Insert, Conflict, Update, Respond,
                DatabaseError, StartCycle, WorkerDies, StartJob, SaveSwipe, vars
  <2>4. QED
    BY <2>1, <2>2, <2>3
<1>3. QED
  BY <1>1, <1>2, PTL DEF Spec

\* Every step keeps the invariant.
LEMMA SnapStep == SnapInv /\ Dated /\ [Next]_vars => SnapInv'
<1> SUFFICES ASSUME SnapInv, Dated, [Next]_vars PROVE SnapInv'
  OBVIOUS
<1>1. ASSUME NEW p \in Procs, Step(p) PROVE SnapInv'
  <2>1. CASE Respond(p)
    BY <2>1, IdleStep DEF Respond
  <2>2. QED
    BY <1>1, <2>1, LookupStep, ComputeStep, ReadRowStep, InsertStep, ConflictStep, UpdateStep
    DEF Step
<1>2. ASSUME NEW p \in Procs, DatabaseError(p) PROVE SnapInv'
  BY <1>2, IdleStep DEF DatabaseError
<1>3. ASSUME NEW p \in Requests, NEW user, NEW preset \in ReportPresets, NEW target,
             Ask(p, user, preset, target)
      PROVE  SnapInv'
  <2>1. p \in Procs
    BY DEF Procs
  <2>2. QED
    BY <1>3, <2>1, AskStep DEF Ask, SetKey
<1>4. ASSUME NEW j \in Cycle, StartJob(j) PROVE SnapInv'
  <2>1. Worker \in Procs
    BY DEF Procs
  <2>2. j.preset \in ReportPresets
    BY DEF Cycle
  <2>3. SetKey(Worker, "compute", j.user, Key(j.user, j.preset, j.target))
    BY <1>4 DEF StartJob, SetKey
  <2>4. UNCHANGED <<rows, swipes>>
    BY <1>4 DEF StartJob
  <2>5. QED
    BY <2>1, <2>2, <2>3, <2>4, AskStep
<1>5. CASE StartCycle
  BY <1>5, RestStep DEF StartCycle
<1>6. CASE SaveSwipe
  BY <1>6, RestStep DEF SaveSwipe
<1>7. CASE NextDay
  BY <1>7, RestStep DEF NextDay
<1>8. CASE WorkerDies
  BY <1>8, RestStep DEF WorkerDies
<1>9. CASE UNCHANGED vars
  BY <1>9, RestStep DEF vars
<1>10. QED
  BY <1>1, <1>2, <1>3, <1>4, <1>5, <1>6, <1>7, <1>8, <1>9 DEF Next

LEMMA SnapAlways == Spec => []SnapInv
BY SnapInit, SnapStep, DatedAlways, PTL DEF Spec

\* No key has two rows, and the row that _store_report_center_snapshot goes on
\* with after its select or its IntegrityError is the row of its key.
THEOREM OneRowPerKeyHolds == Spec => []OneRowPerKey
<1>1. SnapInv => OneRowPerKey
  BY DEF SnapInv, RowsOK, TaskOK, OneRowPerKey
<1>2. QED
  BY <1>1, SnapAlways, PTL

\* Nobody is served rows of a department they do not see or did not ask for, nor of
\* another day's window, whoever computed the snapshot; who does not see the whole of
\* the department is served their own report exactly, an EMPLOYEE their own rows.
THEOREM ServedInScopeHolds == Spec => []ServedInScope
<1>1. SnapInv => ServedInScope
  BY DEF SnapInv, TaskOK, MayServe, Of, ServedInScope, Procs
<1>2. QED
  BY <1>1, SnapAlways, PTL

\* A snapshot of a later day does not begin before one of an earlier day of its
\* preset, over months of any length, and none is of no day.
THEOREM WindowsMoveForwardAlways == Spec => []WindowsMoveForward
<1>1. SnapInv => WindowsMoveForward
  <2> SUFFICES ASSUME SnapInv PROVE WindowsMoveForward
    OBVIOUS
  <2>1. ASSUME NEW r \in rows
        PROVE  /\ r.key.preset \in Presets
               /\ \E i \in DOMAIN Calendar :
                     /\ IsDate(Calendar[i]) /\ Calendar[i].year > 1
                     /\ r.content.from = PresetFrom(r.key.preset, Calendar[i])
                     /\ r.content.to = Ordinal(Calendar[i])
    BY SnapshotConstants DEF SnapInv, RowsOK, RowOK, WindowOf, Fits
  <2>2. \A r \in rows : r.content.from <= r.content.to
    BY <2>1, PresetsMoveForward
  <2>3. ASSUME NEW r \in rows, NEW q \in rows,
               r.key.preset = q.key.preset, r.content.to <= q.content.to
        PROVE  r.content.from <= q.content.from
    <3>1. PICK i \in DOMAIN Calendar :
              /\ IsDate(Calendar[i]) /\ Calendar[i].year > 1
              /\ r.content.from = PresetFrom(r.key.preset, Calendar[i])
              /\ r.content.to = Ordinal(Calendar[i])
      BY <2>1
    <3>2. PICK j \in DOMAIN Calendar :
              /\ IsDate(Calendar[j])
              /\ q.content.from = PresetFrom(q.key.preset, Calendar[j])
              /\ q.content.to = Ordinal(Calendar[j])
      BY <2>1
    <3>3. QED
      BY <2>1, <2>3, <3>1, <3>2, PresetsMoveForward
  <2>4. QED
    BY <2>2, <2>3 DEF WindowsMoveForward
<1>2. QED
  BY <1>1, SnapAlways, PTL
=============================================================================
