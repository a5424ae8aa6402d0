# Access control and event reporting in TLA+

This directory holds TLA+ models of the access-control platform of this
repository, the TLC configurations that check them, and proofs that TLAPS
checks. Paths below are relative to `src/`.

- [1. The system](#1-the-system)
- [2. Modules](#2-modules)
- [3. Runs](#3-runs)
- [4. Fairness](#4-fairness)
- [5. Proofs](#5-proofs)
- [6. Disagreements between code and documents](#6-disagreements-between-code-and-documents)
- [7. What is not modelled](#7-what-is-not-modelled)
- [8. Notes on the code](#8-notes-on-the-code)

## 1. The system

    gate --swipe--> nginx --> Access API (Go, 3 replicas or more)
                                |     \
              decide, buffer    |      \  asynchronous publisher
                                v       v
                              Redis    Kafka topic access-events
                 (state keys, stream    |
                   access:events,       |
                   markers)             |
                                \       v
                                 Reporting API (Python, one process:
                                 Redis recovery task, Kafka task)
                                        |
                                        v
                                   PostgreSQL --> reports --> frontend

A swipe is a POST of an employee, a gate and a direction. The Access API
decides in Redis whether the gate opens (anti-passback: no second entry before
an exit), records the event in a stream of the same Redis, hands it to a
publisher in memory and answers. The publisher writes it to Kafka. The
Reporting API reads Kafka, and reads the Redis stream for what Kafka lost, and
saves each event into PostgreSQL, from which all reports are made.

### Components

| Component | Source | State | Operations | Hard behaviour | Correct if |
|---|---|---|---|---|---|
| Swipe handler and Redis store | `access-api/handlers.go`, `store.go`, `models.go` | key per employee, stream, dedupe keys | Swipe (DecideAccess, AppendEventOnce, Publish), ResetState; expiry, replication, failover | handlers of several replicas race; the Redis client sends a script again when its reply is lost; keys expire; failover to a lagging replica | no two entries without an exit between, unless state was lost; nobody leaves who never came in; an event is buffered once |
| Asynchronous publisher | `access-api/publisher.go`, `main.go` | channel, batches of the workers, `closed`, `done`, counters | Publish, worker loop, retry, drain, Close | check of `closed` and send are not atomic; select takes any ready case; partial writes; unbounded retries; shutdown in the middle | no accepted event is lost before shutdown; one holder per event; counters account; Close returns |
| Saving events | `reporting-api/app/repositories.py:183-240`, `models.py` | tables access_events, employees, departments | save_access_event | two threads, stale reads, unique constraints, lost commit replies | one row per request; what the call returns is true; an employee row comes from saved events |
| Kafka consumer | `reporting-api/app/consumers/access_events.py` | position, committed offset | fetch, save, retry in place, marker, commit | redelivery, a failed save in the middle, failed offset commit, restart | nothing before the committed offset is lost; no overtaking; everything is saved in the end |
| Redis recovery consumer | `reporting-api/app/consumers/redis_recovery.py` | consumer group, pending entries, batch in memory | drain, read, skip marked, save, XACK | XACK fails in the middle of a batch; entries trimmed while pending; markers that expire | only what is done is acknowledged; all entries are read; a start works off what is pending |
| Both consumers in one process | `reporting-api/app/main.py` | all of the above, markers | restart | the same event saved by both at once; marker, save and offset are three steps | markers never ahead of the table; the process keeps the promise of `EventStore` |
| Report snapshots and precompute worker | `repositories.py:411-651`, `report_precompute_worker.py` | table report_center_snapshots, what each thread works on | get_report_center, look up, compute, store; the worker's cycles | two threads store one snapshot; a slow computation is stored after a newer one; rows of other users are served; midnight and month ends | one row per key; nobody is served departments they do not see, or another window, and whoever does not see the whole department exactly the rows they may see; what the worker refreshes comes to show every swipe |
| Reports and remarks | `repositories.py`, `routers/reports.py` | access_events, remarks, employee states | dashboard, report center, attendance, analytics, compliance list, work hours, search, export; two updates of a remark | one figure is computed by several queries, in SQL for PostgreSQL and in Python for the tests; rows arrive in any order, on boundaries of days, months, shifts and windows | the forms agree; the figures of different reports agree; a remark is shown by the item it was given to |
| Attendance, late and date rules | `repositories.py:86-131`, `:368-408`, `:859-901` | none | late or not, months before a date, windows of the presets | boundaries of shifts and months, two forms of one rule | both forms agree with each other and with the comment; dates stay dates |
| Department scope, permissions | `permissions.py`, `repositories.py:2781-2879` | users, scopes, the tree | the conditions every query carries | several departments at once, a department above the scope, employees without a department | what the routes answer does not depend on rows outside the scope |
| Login and password reset | `routers/auth.py`, `security.py`, `dependencies.py` | reset tokens, sessions | log in, log out, request, confirm | two requests or confirmations overlap without a lock; expiry | a row holds no link but the last one sent, and no spent one |
| Runtime caches | `repositories.py:411-470`, `:640-651` | three dictionaries | get, put | threads share them without a lock | not modelled |
| Live swipes, seed, simulators | `live_swipes.py`, `seed.py`, `access-api/cmd`, `simulator` | demo data | generators | - | not modelled |
| Frontend, deployment, observability | `frontend`, `k8s`, `observability` | none of its own | rendering, configuration | - | not modelled |

`PROJECT.json` lists the hazards found in this code, each with its line and the
properties about it.

## 2. Modules

| Module | Models | Composes |
|---|---|---|
| `AsyncPublisher` | `AsyncEventPublisher` over `KafkaEventPublisher` | |
| `AccessGate` | `App.Swipe`, `App.ResetState`, `RedisStore`, Redis master and replica | |
| `SaveAccessEvent` | `save_access_event` and its three tables | |
| `KafkaConsumer` | `AccessEventConsumerService` | extends `SaveAccessEvent` |
| `RedisRecovery` | `RedisRecoveryConsumerService` | extends `SaveAccessEvent` |
| `EventStore` | the abstract promise of the Reporting API | |
| `EventPipeline` | both consumers in one process | extends the two, instantiates `EventStore` |
| `AttendanceRules` | the late rule in both forms, months, presets | |
| `ReportScope` | roles, scopes, the tree of departments, the conditions on queries | |
| `ReportTables` | the tables reports read, and the selects they start from | extends the two |
| `EventReports`, `AttendanceReports`, `ComplianceReports` | the reports, each module on top of the one before | extend `ReportTables` |
| `Reports` | rows that arrive, remarks that are given, and what the reports say of them | extends the reports |
| `ReportSnapshots` | the table of snapshots, its readers and writers, the worker | extends `AttendanceRules`, `ReportScope` |
| `Accounts` | log-in, sessions, reset links | |
| `MC...` | instances for TLC | |
| `...Proofs` | theorems and proofs; `EventPipelineProofs` has those of `SaveAccessEvent`, of each consumer and of the process, `ReportsProofs` those of types and remarks, `ReportsAgreeProofs` those that compare reports with each other | |

**AsyncPublisher.** An event is its identity. `caller` is how far the call of
`Publish` for it is: the check of `closed`, the non-blocking send and the count
are three actions (`PublishCheck`, `PublishSend` or `PublishFull`,
`PublishCount`), because a handler may be held up between them. `worker` is the
program counter of each goroutine, `batch` its local slice. `Select...` and
`Collect...` are the cases of the two selects; any ready case may be taken and
timers fire at any moment. `WriteOk` and `WriteError` are `PublishBatch`: an
error may leave any part of the batch in the topic. `Retry` and `Abandon` are the
select of `publishBatchWithRecovery`, `Drain...` the loop after `done`. `Close...`
are the three steps of `Close`. `kafka` keeps the first copy of each event;
further copies are dropped by the reader. `entered`, `unlucky` and `late` are
history variables.

**AccessGate.** A swipe is its requestId, `handler` the program counter of its
handler. The two Lua scripts are atomic (`RunDecide`, `RunAppend`); each is
followed by a reply or by a lost one (`...Replied`, `...ReplyLost`), or does not
run at all (`...NotRun`), and in the last two cases the client sends it again up to
`Attempts` times. `Publish` may refuse. Redis forgets by `Expire`, `ResetState`
and `Failover`; each adds a loss to `log`, the history of decisions in the order
Redis made them, so that the properties can say *unless state was lost*. The
stream is trimmed approximately (`Trimmed`: at least the newest `StreamMax`
remain).

**SaveAccessEvent.** One call is the steps `SaveStart`, `Lookup`, `Load`, then
`Commit` or one of its failures. Reads are separate steps, so they may be stale
(READ COMMITTED); flush and commit are one step, since row locks and unique
constraints order the writers from the first statement that writes. An UPDATE
of SQLAlchemy names only the columns whose value differs from what was read
(`NewEmployeeRow`). A commit may succeed and its reply be lost.

**KafkaConsumer.** One partition. `Produce` appends any event, again and in any
order, because publishers retry and their workers do not wait for each other.
`Handle` starts the save, `NotPersisted` and `RetryMessage` are the endless loop
of `_handle_with_retry`, `CommitOffset` commits the position, `KafkaError` and
`KafkaCrash` start the task anew from the committed offset.

**RedisRecovery.** `ReadPending` and `Drained` are `_drain_pending`, `ReadNew` is
the live loop. A batch is worked off entry by entry (`SkipPersisted`,
`HandleEntry`, `EntryHandled` or `EntryNotPersisted`, `Ack`). `RedisError` is any
exception of XREADGROUP or XACK, where XACK may have run. On its own,
anything it has saved or skipped may get a marker at any moment (`SetMarker`), as from the
Kafka consumer.

**EventPipeline.** Both tasks and both transactions interleave; `Restart` ends
both tasks at any moment and aborts their transactions. `MarkSaved` sets the
marker or fails silently.

**EventStore.** The promise: an event is saved at most once, saved events stay,
and a channel (Kafka, Redis) is told to forget an event only if it is saved, is
not to be saved, or has left the window of the channel. `EventPipeline!Store`
is the refinement mapping: the Kafka channel is settled up to `committed`, the
Redis channel in what was delivered and is pending no more.

**AttendanceRules.** `IsLateTime` is `_is_late_time` with its early returns, `LateSql`
the CASE of `_late_sql`, and `LateByShift` what the comment over them promises, read
as shifts with a grace. `SubtractMonths` and `PresetFrom` are `_subtract_months` and
`resolve_report_center_preset_window`, over dates that are records.

**ReportScope.** The lists of department ids become sets; `None`, which lets everything
through, is the set of all departments with `NoDepartment`, because it also lets the
employees through that have none. `VisibleDepartmentIds` is the scope of one
department and of several, `ScopedEmployees` adds the condition on an EMPLOYEE's own rows.

**ReportTables, EventReports, AttendanceReports, ComplianceReports.** Each query and
each loop is an operator over the rows of the tables: `Daily` is the common table
expression of the SQL queries and `DailyInPython` the loop of the SQLite paths,
`LateItems` and `LateItemsInPython` the window function and the loop, and so on. ORDER BY,
LIMIT and OFFSET are `Descending` and `Page`. Every report takes the tables it is
made from as its first parameter, so that the reports of two states of the tables, or of the
tables with and without some rows, can be compared. A row has the date and time of day of Taipei.
Latencies, names and wording are left out; a rate or an average is left as its two
integers.

**Reports.** `Save` is the commit of `save_access_event`, whose steps `SaveAccessEvent`
has: rows arrive in any order. `UpdateRemark` is either update of a remark, with any id a
page may still show. `Tables` is the state the reports are made from; `Only(people)` is the
same without what is of anybody else, and `Visibly(user, departments)` are the employees of
the departments a user sees, an EMPLOYEE's colleagues among them. What the routes answer is
`Shown` (those that take one department at most), `ShownOf` (those that take a window as
well) and `ListedOf` (those that take several departments), with the analytics and
the attendance of an employee who is named. The gates are two sets, for the pattern of the
queries (`MainGates`) is not the suffix the loop over late arrivals compares
(`SuffixGates`).

**ReportSnapshots.** A task of a thread goes `lookup`, `compute`, `read`, `commit`,
`served`; each is one statement, so that other threads, swipes and midnight come between.
`Insert` and `Conflict` are the commit of an insert with and without a row of the same
key in the table (uq_report_center_snapshots_lookup), `Update` that of an update. The
content of a report is the employees whose rows it is computed from (`ComputedPeople`: of
an EXECUTIVE's view where users share it), its window and how many swipes were saved when it
was computed; that number also serves as the time. `DatabaseError` ends a request or a job,
`WorkerDies` the worker, whose container is started again. `DepartmentRows` is the fallback on any
user's row of the department (`_read_any_department_snapshot`), allowed to those who see
the whole department. The worker takes its jobs in any order, which includes its own.

**Accounts.** A request and a confirmation read the account (`StartRequest`,
`StartConfirm`) and commit later (`CommitRequest`, `CommitConfirm`), without a lock. As in
`SaveAccessEvent`, the commit of a request clears `used_at` only if the row it read had
one. `sent` and `spent` are history variables.

Every definition that stands for code is in `PROJECT.json` under `map`, with its
lines. Definitions whose comment says *Mutant of* are wrong on purpose: replacing
the named definition by one of them breaks a property, which shows that the
property depends on that code.

## 3. Runs

`tlc -workers 2 -config <cfg> <module>` in this directory. Measured with two workers.

| Run | Module, cfg | Bounds | Checks | States, time |
|---|---|---|---|---|
| publisher | `MCAsyncPublisher`, `AsyncPublisher` | 2 events, 2 workers, queue 1, batch 2 | TypeOK, NoLossBeforeClose, SingleCustody, CountersAccount, ShutdownDelivers, AcceptedIsWritten, CloseReturns | 33 000, 15 s |
| gate | `MCAccessGate`, `AccessGate` | 1 employee, 2 swipes, 2 attempts, stream of 1, all faults, 1 loss, symmetry | TypeOK, AntiPassback, AnswerFlags, StateChain, EntryBeforeExit, AnswerIsLastDecision, RecoveryWindow | 2 million, 1 min |
| save_torn | `MCSaveAccessEvent`, `SaveAccessEventTorn` | 4 events, 2 writers | RowOfOneEvent is violated | |
| kafka | `MCKafkaConsumer`, `KafkaConsumer` | 5 events (one malformed, one of a load test, one PostgreSQL rejects), topic of 4 | KafkaTypeOK, OffsetSafety, NoOvertaking, TopicSaved | 29 000, 30 s |
| last_state | `KafkaConsumerLastState` | 4 events, topic of 2, no failures | LastStateIsNewest is violated | |
| recovery | `MCRedisRecovery`, `RedisRecovery` | 3 events, one malformed, stream of 2, batch 1 | RecoveryTypeOK, AckSafety, EntriesRead, StartBackfills | 12 000, 1 min |
| recovery_pending | `RedisRecoveryPending` | 4 events, batch 2 | PendingRetried is violated | |
| pipeline | `MCEventPipeline`, `EventPipeline` | 2 events of one employee, topic of 2, batch 2, stream of 1 | DbTypeOK, MarkerSafety, OneRowPerRequest, OutcomeTrue, EmployeeColumnsSaved, KeepsPromise | 660 000, 40 s |
| reports | `MCReports`, `Reports` | 7 swipes of 4 employees on three days, 4 departments, 4 users, 7 requests, 2 windows, 1 remark on 2 rows | ReportsTypeOK, PathsAgree, FiguresAgree, OutsideMakesNoDifference, RemarkShown | 2 300, 90 s |
| own_records | `ReportsOwnRecords` | the same | OwnRecordsOnly is violated | |
| snapshots | `MCReportSnapshots`, `ReportSnapshots` | 1 request thread and the worker, 2 departments, 3 employees, 3 users, 2 days, 1 swipe, 1 error | OneRowPerKey, ServedInScope, WindowsMoveForward, SnapshotsCatchUp | 467 000, 50 s |
| accounts | `MCAccounts`, `Accounts` | 2 handlers, 1 account, 2 links, 3 passwords, clock to 3 | OnlyTheLastLink | 99 000, 3 s |

Why the bounds are enough:

- Two workers show every race for the channel and for the batches (a third holds
  events in no new way); two events with a queue of one and batches of two fill
  the queue, refuse a send, fill a batch and leave a partial one. The theorems hold
  for every number of events.
- Two swipes in two handlers show every race of two scripts and a repeat of either; two
  attempts show a script run twice. One loss of state shows each kind. IN, OUT and
  IN of one employee takes three, and the second employee a proof: `AntiPassbackHolds`
  and the other theorems of the gate have none of these bounds.
- Two events of one employee race for one row, and one event that both consumers
  save races for one request id. A topic of four with five kinds of event repeats
  events and has something before and behind each failing one. A stream of one
  entry in the pipeline makes trimming of pending entries frequent.
- The reports depend on the set of rows alone, so TLC looks at every subset of the
  swipes, however it came to be. The swipes are chosen for the boundaries: the last of
  February in a leap year and the first of March, arrivals at 08:00, 09:20 and 00:20 on
  either side of the grace of their shift, a stay of more than twelve hours and one cut
  short by a second exit, an exit without an entry and an entry without an exit, a denial
  on the day of a grant, a gate that is not a main gate and one that is by the pattern and
  not by the suffix, an employee without a
  department. One window is of whole days, the other begins and ends within a day. The
  users are one who sees all, a manager of a branch, an EMPLOYEE with a colleague in their
  department, and nobody; the departments asked for are none, one in scope, one above the
  scope, and two.
- Two writers of snapshots meet in every order at one key. The EMPLOYEE sees the whole of
  their department, where a colleague is, and a part of the one above, so that
  shared and own snapshots differ, by departments and by rows; the last of May and the first of June differ in the clamped
  day of three months before. One error reaches every statement. The theorems of
  section 5 have none of these bounds.
- Two links and two handlers have a request overlap a confirmation, and a link replaced
  while it is being confirmed. Clock 3 lets every life end.
- The bounds are the constants `TopicMax`, `MaxLosses`, `Attempts`, `RemarkBound`, `SwipeBound`, `FailureBound`,
  `ClockBound` and the sets.
  The stream holds an event once (`RecoveryWindow`, checked for
  the gate), so its length is bounded by `Events`.

Deadlock is not checked: all events may have been handled, the publisher may
have been closed, a consumer waits for messages, all swipes may have been saved and the
clock be at its bound.

Symmetry is used in the gate's run only, which has no liveness property.

## 4. Fairness

- Publisher (`Fairness`): goroutines run and timers fire, and a write returns
  within its timeout of five seconds, so weak fairness of each worker's step. `Abandon`
  is strongly fair: a worker that keeps coming back to the select finds `done`
  closed before its timer fires. A call of `Publish` or `Close` that began goes on.
  Kafka's recovery is no assumption of the specification: it is the hypothesis
  `KafkaRecovers` of `AcceptedIsWritten` alone, and `CloseReturns` does without it.
- Saving (`SaveFairness`): a thread goes on; PostgreSQL does not fail for ever, so a
  statement tried infinitely often succeeds (strong fairness of `Lookup`, `Load`,
  `Commit`). Commits that PostgreSQL rejects (`Rejected`) are exempt.
- Consumers (`ConsumerFairness`, `TaskFairness`): a task goes on; restarts after
  `KafkaError`, `RedisError` are weakly fair (the loops of `_run` always come back);
  steps that a crash or an error can preempt are strongly fair: the broker does not
  fail for ever.
- Snapshots (`Fairness` of `ReportSnapshots`): a thread that has begun goes on, and the
  worker's loop never ends, or is started again: the deployment restarts it on failure
  (weak fairness of `Step` of each request thread and of
  `WorkerStep`). The errors are bounded by `FailureBound`: PostgreSQL does not fail for
  ever. `SnapshotsCatchUp` needs the request threads too: a slow request may overwrite a
  newer snapshot with its older content, and it is the worker's next cycle that repairs
  it.
- Nothing obliges the environment: no fairness of `Produce`, `StreamAppend`,
  crashes, expiry, swipes or `CloseBegin`.

## 5. Proofs

`tlapm <module>` checks each module of proofs to the last leaf. What they rest on
are the `ASSUME`s of the modules about their constants, and no bound: any number of
events, workers, employees, swipes, writers, retries and faults. The theorems about the process of
both consumers have one hypothesis more, `TwoWriters`: the two tasks have sessions of their
own.

| Theorem | Module | Says |
|---|---|---|
| `TypeCorrect`, `NoLoss`, `ShutdownLosses` | `AsyncPublisherProofs` | TypeOK, NoLossBeforeClose, ShutdownDelivers |
| `CustodyIsSingle`, `CountersAreExact`, `OneWorkerKeepsOrder` | `AsyncPublisherProofs` | SingleCustody, CountersAccount, and SingleWorkerFifo, which no run checks: one worker keeps the order |
| `GateTypeCorrect` | `AccessGateProofs` | TypeOK |
| `AntiPassbackHolds`, `EntryBeforeExitHolds`, `StateChainHolds`, `AnswersLastDecision` | `AccessGateProofs` | AntiPassback, EntryBeforeExit, StateChain, AnswerIsLastDecision |
| `StreamKeepsNewest`, `FlagsTellTruth` | `AccessGateProofs` | RecoveryWindow, AnswerFlags |
| `DbTypeCorrect`, `RowsAreUnique`, `OutcomesAreTrue`, `ColumnsAreSaved` | `EventPipelineProofs` | DbTypeOK, OneRowPerRequest, OutcomeTrue, EmployeeColumnsSaved, for any writers |
| `KafkaTypeCorrect`, `MessagesSavedInOrder`, `ConsumerIsWriter` | `EventPipelineProofs` | KafkaTypeOK, NoOvertaking; the Kafka consumer is a writer of `SaveAccessEvent`, whose theorems are therefore its own |
| `RecoveryTypeCorrect`, `RecoveryAcksSafely` | `EventPipelineProofs` | RecoveryTypeOK, AckSafety, for recovery on its own |
| `TypesAreKept`, `OffsetIsSafe`, `AckIsSafe`, `MarkersAreSafe`, `EventsStoredOnce`, `ColumnsComeFromEvents` | `EventPipelineProofs` | KafkaTypeOK and RecoveryTypeOK, OffsetSafety, AckSafety, MarkerSafety, OneRowPerRequest, EmployeeColumnsSaved, for both consumers in one process |
| `PromiseKept` | `EventPipelineProofs` | KeepsPromise: the process implements `EventStore` |
| `OneRowPerKeyHolds`, `ServedInScopeHolds`, `WindowsMoveForwardAlways` | `ReportSnapshotsProofs` | OneRowPerKey, ServedInScope, WindowsMoveForward |
| `OnlyTheLastLinkHolds` | `AccountsProofs` | OnlyTheLastLink |
| `LateRulesAgree`, `LateByShiftIsLate` | `AttendanceRulesProofs` | the two forms of the late rule agree on every second of the day, and with the comment |
| `SubtractedMonthIsDate`, `SubtractedMonthIsExact` | `AttendanceRulesProofs` | any number of months before a date is a date, that many months back, on the same day or the last of the month |
| `OrdinalOrdersDates` | `AttendanceRulesProofs` | days are numbered in the order of their dates, across months, leap days and years |
| `PresetsMoveForward` | `AttendanceRulesProofs` | a later day's window of a preset does not begin earlier |
| `ReportsTypeCorrect`, `RemarksAreShown` | `ReportsProofs` | ReportsTypeOK, RemarkShown, for any employees, swipes, users and windows |
| `PathsAlwaysAgree` | `ReportsAgreeProofs` | PathsAgree: the SQL form and the Python form of each report that has both, where they agree |
| `FiguresAlwaysAgree` | `ReportsAgreeProofs` | FiguresAgree: the figures of different reports add up |
| `OutsideIsOutside` | `ReportsAgreeProofs` | OutsideMakesNoDifference, with its three exceptions, for any tree, scopes, roles and rows |

**Publisher.** `LossInv` adds to the types: the order in which `closed`, `done` and
`finished` are set and the steps workers can be at after each (`ClosingShape`);
that what waits in backoff has had a failed write
(`BackoffUnlucky`); that every accepted event is held, in the
topic, or, after `done`, one of a batch that failed (`Accounted`); and that once a worker
has found the channel empty while draining, the channel holds late sends only
(`OnlyLateAfterDrain`). Without the last, `ShutdownDelivers` is not inductive: an event
left behind in the channel violates it only later, when Close returns. `Custody` adds
to SingleCustody that what is held has been taken, so that an event cannot enter the
channel a second time. CountersAccount follows from it: each step takes one event, or one
batch, from what is held, and the counters move by its cardinality. For one worker,
`FifoInv` uses both, and that no event enters twice (`EnteredOnce`): topic, batch and channel
in a row are then at every step the events in the order the channel took them, and a
step of the worker only moves the border between two of the three.

**Gate.** AntiPassback is about the history; the state that prevents its violation is
the key in Redis. `GateInv` therefore relates the two: if the key does not hold a
direction, every grant of it in `log` is followed by a grant of the other direction or by a
loss (`MayGrantAgain`); a key that is
known was entered (`KnownEntered`), in the replica too, which makes
`EntryBeforeExit` survive a failover; the key is what the last decision left
(`LastLeft`). `BufferInv` is about the stream: an event in it has its dedupe key, in the
replica too, and without a failover a dedupe key is of an event that was appended.
That is why a script that is sent again because its reply was lost leaves the stream alone,
and why its answer is nevertheless true.

**Saving.** `StoreInv` adds to the three properties that an employee never seen has
the state of a new row, that a transaction's stale read is an earlier state of the row
(`ReadsEarlier`: rows appear for good and are seen for good), and that skipped events and
the table stay apart. `ReadsEarlier` is what makes an UPDATE of a stale column
harmless for `EmployeeColumnsSaved`, though not for the row as a whole (the run *save_torn*
shows the torn row).

**Consumers.** `KafkaInv` says what the Kafka task knows at each of its steps. The
task's position is the committed offset, or one more while it works; its
transaction runs only while it handles a message, and for that message; at the marker and at
the commit the message is saved or need not be. On its own the task has `SavedTaken` besides: what is
saved is a message up to the one in work. NoOvertaking then follows from OffsetSafety.
`RecoveryInv` says that the batch is pending and in the order of its ids (`InboxInv`), and
that the entry about to be acknowledged is done (`EntryInv`). MarkerSafety is part of it,
because the recovery task acknowledges what is marked without a look at the table.

**Pipeline.** `PipelineInv` is the conjunction of `StoreInv`, `KafkaInv` and `RecoveryInv`: a
step of one task leaves the part of the other alone but for the tables and the markers.
The database part is
`StoreInvStep`, proved once for any steps of any writers. For
the refinement, a commit maps to `Save`, the offset commit, the reads of new entries and
XACK to `Settle`, Kafka's and Redis's own steps to `Offer`, and the rest to
stutters.

**Snapshots.** `SnapInv` says what is known of a task at each step. The employees its report
is computed from are of the departments of its key's scope, and those the user may see
unless the key is shared, today and on every later day; the window of
the key is that of its preset on one day of the calendar (`WindowOf`), not necessarily today;
what it holds fits its key; the row it goes on with is in the table under its key. Of a row it says that
its content fits its key, and that the scope of a key that names a department lies in the
departments below that one. This last part is what allows a user who sees the whole
department to be served anybody's row of it (`SharedIsVisible`). The key must be known
not to change while rows are updated, which is why ids and keys of rows are kept together
(`TaskAndRows`). WindowsMoveForward then compares two days of the calendar: days are
numbered in their order, and months subtracted from two dates, clamped, keep the order
(`SubtractedMonthsInOrder`). Without the clamp the run's last of May, three months back,
runs over into March and the first of June does not.

**Accounts.** OnlyTheLastLink is not inductive: a commit puts a link on the row that a
handler drew long before. `LinkInv` follows a link from the request that drew it
(`FreshLinks`: nowhere else) to the list of the links sent to one account
(`OneReceiver`) and to the confirmations (`ConfirmedWasSent`), so that what is spent is
never a link of another row.

**Reports.** `ReportsInv` adds to ReportsTypeOK that there are finitely many rows, which every ORDER BY
needs, and a state for each employee. What RemarkShown claims of a list is then a consequence of
how the list is made, and the proof goes along it: a key that tells the rows apart sorts them
into a sequence that has each once (`DescendingSorts`); the
numbers of days follow the dates (`OrdinalOrdersDates`), so that the first entry and the
last exit of a day are single rows (`LatestAndEarliest`); a group of the common table expression is the day
of an employee with a swipe (`DaysOfRows`); an item of the list is of one of three kinds, and over whole days the
row it shows is the one an update of its id finds (`LateHasItsRow`,
`OvertimeHasItsRow`, `DeniedHasItsRow`); that row gives the item back, so no two items have one row
(`MatchedSets`).

The other three theorems on reports hold in every state whose rows are finitely many, and what
they need is known of each operator.

- *Outside.* Two tables with the same rows, remarks and states of some employees
  (`SameFor`) give the same rows in scope (`SameEvents`); so each report, the largest last, is
  the same over both (`SameDashboard`, `SameCenter`, `SameCompliance`, `SameShown`,
  `SameShownOf`, `SameListed`). `Only(people)` is such a table (`OnlyIsSame`). The
  employees it must keep are those in scope; where the code has no condition on an
  EMPLOYEE's own rows they are all of the visible departments (`SameAnalytics`,
  `SameAttendance`), and for the parts that ignore several departments, all the user
  sees. The searches that end with a page of
  employees need that the page has nobody else (`PageOfEmployees`), the items of overtime that a
  long day has its exit among the rows in scope (`LongDayHasExit`).
- *Paths.* A loop is a fold over the places of a sequence. Its value is given for every set of
  places, and two that are built alike, an element at a time, are the same (`FoldsAlike`,
  `FoldOfPlaces`): of the sets where they differ, one has the fewest elements, and it is empty
  or grows from a smaller one, which is absurd. What one turn of
  the loop does to the days of the rows before it is `DayGrows`, `DaysGrow` and
  `EntriesGrow`; hence the loop makes the days the query groups (`LoopMakesDays`) and, where
  the suffix picks the gates of the pattern, the first page of its late list
  (`LoopMakesLate`, `FirstRows`). The forms of the late rule agree by `LateRulesAgree`. In
  the analytics the loop stops at the time of the request and the query does not, which
  is why `PathsAgree` compares them while no row is later than the request; and the loop has
  an EMPLOYEE's own rows only, so the query is given those.
- *Figures.* A total is a sum, built an element at a time (`TotalIsSum`), and what is tallied
  by a key adds up to all there is (`TotalOfTally`, `HoursCountAll`). The monthly figures
  count days and the list of late arrivals counts entries, so the days are matched one
  to one with their first entries (`LateDaysHaveEntries`). The list of all kinds has the items of
  the four (`MergedLength`), cut at two hundred twice, by kind and as a whole, which
  is the same as once (`CutTwice`).

The assumptions, as weak as the code allows: the columns of events and employees have their
types (`EventColumns`, `SwipeRows` and the like); bounds such as the batch size are positive; a
process has finitely many events and workers; requests come
at a date of the calendar and a time of the day (`RequestsAreDated`; moments are counted
from 2020 on, and the rows are no older); there are finitely many departments and
employees (`TreeOfDepartments`); the days of snapshots are after the first year of the
calendar, before which Python has no date (`SnapshotConstants`); windows begin and end at moments
(`WindowsOfMoments`).

Model-checked only is every liveness property (`AcceptedIsWritten`, `CloseReturns`, `TopicSaved`,
  `EntriesRead`, `StartBackfills`, `SnapshotsCatchUp`): the prover does not treat fairness. Every invariant of a
passing run is a theorem. The induction theorems of the library cannot be cited, since they
have an operator as a parameter; where a fold must be computed, the proofs above argue from a
least counterexample instead, which needs only that `<` on the naturals is well-founded
(`NatLessThanWellFounded`, `WFMin`).

## 6. Disagreements between code and documents

Each is the result of a run that ends in a counterexample; `PROJECT.json` quotes
the lines under `findings`.

- *save_torn*: two stale writers leave the state of one event and the time of
  another (`repositories.py:221`).
- *last_state*: `employees` is said to hold the current last state
  (`reporting-api/README.md:71`); the row is that of the event saved last, whatever the
  times (`repositories.py:221`). Two swipes in the topic in the other order are enough,
  and the publisher's eight workers do not keep the order (`publisher.go:230`).
- *own_records*: an EMPLOYEE is said to view only their own records
  (`reporting-api/API.md:62`, `:79`, and `tests/test_reporting_access.py:35` for states and
  events). The analytics are of whole departments (`repositories.py:1644`), so is the
  attendance of an employee who is named (`:2131`), and the snapshot of a department whose
  whole an EMPLOYEE sees is computed as an EXECUTIVE (`:490`). Each of the three violates
  OwnRecordsOnly on its own; all other routes keep to an EMPLOYEE's own rows, which
  OutsideMakesNoDifference shows.
- *recovery_pending*: an entry whose save failed in the live loop is retried only
  after the task starts anew (`redis_recovery.py:97`), while the document speaks of
  retries in the background (`reporting-api/README.md:107`).

Remarks that are not findings:

- The state key expires after `STATE_TTL_SECONDS` (`store.go:19`, two days), after
  which an employee who is inside may enter again; the tests intend this, and
  `AntiPassback` therefore excepts a loss of state.
- A crash between the decision and the append loses the event of a granted entry
  (`handlers.go:124-172`): nothing promises otherwise.
- `PUBLISHER_WORKERS` is 8 by default, so the order of one employee's events is not
  kept; it is with one worker and no failed write (`OneWorkerKeepsOrder`).
- A message PostgreSQL rejects stops its partition for ever
  (`access_events.py:124`), and such an entry keeps the recovery drain going without
  a pause (`redis_recovery.py:113`).
- A batch of the recovery consumer counts a pending entry without fields as
  malformed and acknowledges it.

## 7. What is not modelled

- More than one partition, and rebalancing: the deployment runs one replica of the
  Reporting API, and events are keyed by employee. During a rolling update two
  processes with one consumer name may overlap; this is left out.
- Values: gates, latencies, names, time stamps other than the order of events,
  status counters, traces, metrics, logs.
- Retries of the database migrations and `waitForRedis` at the start.
- Durability of PostgreSQL and of Kafka (`RequireOne` may lose acknowledged
  messages when a broker dies): outside of this repository's code.
- Runtime caches: their dictionaries are shared by threads without a lock. An error of
  one request, or one entry more than the bound, is the most that follows; the reports
  and the snapshots are modelled without them, as right after they expire.
- Of the reports: latencies, names, rates, rounding, and the windows a route falls back
  on when it is given none, but for the dashboard's. Rows of one instant are ordered by
  id where the code leaves their order open.
- Of the snapshots: requests for one employee, for several departments and for custom
  windows, which are computed at once and never stored; the limit on the departments of
  a user; the deletion of rows (there is none).
- Of the accounts: the mail, hashes and signatures, which are taken to work.
- Routes that parse their arguments and call one operation.
- Demo data (`seed.py`, `fake_data.py`, `patch_fake_data.py`, `live_swipes.py`), the load
  generators, migrations, the frontend, deployment: random or run once, pure input and
  output, or configuration.

## 8. Notes on the code

Met while modelling. No document promises otherwise, or the disagreement is too small
for a run of its own.

Access API and consumers:

- A batch that is given up during the shutdown is in no counter (`publisher.go:341`,
  `:362`), while `access-api/README.md:157` calls the dropped counter the number of
  lost events. The events are still in the Redis stream.

Reports:

- With several departments, the metrics of the report center are theirs, but the
  preview, the work hours and the attendance are of every department the user sees
  (`_compute_report_center_live`); `reporting-api/API.md:243` speaks of the department and
  those below it, intersected with the visible ones, of one `departmentId`.
- The preview limit goes up to 1000, but the query under it stops at 200 rows.
- The compliance list of all kinds skips `offset` items of each kind and then merges, so
  its pages miss items; items of one instant may swap places between pages.
- An unpaired item shows a fixed note, not its remark. When the day's only entry was late,
  both items have one row, and the remark given to the unpaired one is shown by
  the late one. In a window that begins within a day the list may show another
  entry of the day than the one a remark goes to; `RemarkShown` is therefore about
  whole days.
- The Python form of the late list ignores the offset, and compares the end of a gate's
  id (`repositories.py:2718`) where SQL's LIKE has a configurable pattern with the
  wildcard `_`; `_gate_matches_main` (`:101`), which follows the pattern, is not used there. The Python form of the analytics drops an EMPLOYEE's
  colleagues, the SQL form does not. The loop ends at the time of the request, the query
  takes rows that carry a later time as well.
- The employees directly in a single root department are in no node of the analytics.
- The dashboard's overtime has twelve hours and every gate; the other reports
  have the configured hours and the main gates.
- `_latest_consecutive_day_count` and `report_center_snapshot_is_supported` are called by
  nothing.

Snapshots:

- The row found by `_read_any_department_snapshot` may have been computed for a user who sees
  a part of the department only, or for an EMPLOYEE: whoever sees the whole is then
  served that part. `ServedInScope` leaves this open.
- Rows have no age limit. The worker refreshes neither the target `ALL` nor excluded
  departments, so those snapshots stay as they are until the next day.
- A slow request overwrites a newer snapshot with older content and a later
  `generated_at`; nothing deletes rows.

Accounts:

- A confirmation that overlaps a request clears the newer link, or leaves `used_at` set so
  that the new link is dead. Two confirmations that read the row before either commits
  both set the password.
