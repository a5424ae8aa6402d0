---------------------------- MODULE RedisRecovery ----------------------------
(***************************************************************************)
(* The consumer of the recovery stream access:events:                      *)
(* reporting-api/app/consumers/redis_recovery.py.  It saves the events the *)
(* Kafka consumer has not marked as persisted.  The consumer group delivers *)
(* an entry once with ">"; it then stays pending until XACK, and pending   *)
(* entries are read again, from "0", only when the task starts.            *)
(*                                                                         *)
(* Abstracted: the grace period (the marker may be there or not), the      *)
(* status counters; an entry's id is its number in the stream.             *)
(***************************************************************************)
EXTENDS SaveAccessEvent, FiniteSets

CONSTANTS
    RecoveryWriter, \* the consumer as a writer of SaveAccessEvent
    NoFields,       \* the fields of a pending entry the stream has trimmed
    BatchSize,      \* redis_recovery_batch_size
    StreamMax       \* EVENT_STREAM_MAXLEN: what a trim leaves in the stream

ASSUME RecoveryConstants == /\ RecoveryWriter \in Writers
                            /\ NoFields \notin Events
                            /\ BatchSize \in Nat \ {0} /\ StreamMax \in Nat

VARIABLES
    stream,       \* every entry ever added, in order
    trimmed,      \* how many of them, from the oldest, are gone
    delivered,    \* last-delivered-id of the consumer group
    pel,          \* ids delivered and not acknowledged
    markers,      \* events with a persisted marker
    recovery,     \* what the task does: "down", "drain" or "live"
    inbox,        \* the entries of the last read not yet done
    entry         \* step of the first of them: "check", "handling" or "ack"

streamVars == <<stream, trimmed, delivered, pel, markers>>
taskVars == <<recovery, inbox, entry>>
recoveryVars == <<streamVars, taskVars>>

RecoveryInit ==
    /\ stream = <<>>
    /\ trimmed = 0
    /\ delivered = 0
    /\ pel = {}
    /\ markers = {}
    /\ recovery = "down"
    /\ inbox = <<>>
    /\ entry = "check"

\* The answer to XREADGROUP for these ids.
Entries(ids) ==
    [k \in 1..Len(ids) |->
        [id |-> ids[k], fields |-> IF ids[k] <= trimmed THEN NoFields ELSE stream[ids[k]]]]

\* The first BatchSize of these ids, in order (one sequence).
FirstIds(ids) ==
    LET count == IF Cardinality(ids) < BatchSize THEN Cardinality(ids) ELSE BatchSize
    IN  {s \in [1..count -> ids] :
            /\ \A i, j \in 1..count : i < j => s[i] < s[j]
            /\ \A n \in ids \ Range(s) : \A i \in 1..count : s[i] < n}

\* The entries the group has not delivered.
Fresh == {n \in 1..Len(stream) : n > delivered /\ n > trimmed}

----------------------------------------------------------------------------
(* Redis: the Access API appends, Redis trims, the Kafka consumer marks and *)
(* markers expire.                                                          *)

\* An event is in the stream once (RecoveryWindow of AccessGate).
StreamAppend(e) ==
    /\ e \notin Range(stream)
    /\ stream' = Append(stream, e)
    /\ trimmed' \in {n \in trimmed..Len(stream') : n = trimmed \/ Len(stream') - n >= StreamMax}
    /\ UNCHANGED <<delivered, pel, markers, taskVars>>

SetMarker(e) ==
    /\ markers' = markers \union {e}
    /\ UNCHANGED <<stream, trimmed, delivered, pel, taskVars>>

MarkerExpires(e) ==
    /\ e \in markers
    /\ markers' = markers \ {e}
    /\ UNCHANGED <<stream, trimmed, delivered, pel, taskVars>>

----------------------------------------------------------------------------
(* The task.                                                                *)

\* _run, _ensure_group.
RecoveryStart ==
    /\ recovery = "down"
    /\ recovery' = "drain"
    /\ UNCHANGED <<streamVars, inbox, entry, dbVars>>

\* One round of _drain_pending.
ReadPending ==
    /\ recovery = "drain" /\ inbox = <<>>
    /\ pel # {}
    /\ \E ids \in FirstIds(pel) : inbox' = Entries(ids)
    /\ UNCHANGED <<streamVars, recovery, entry, dbVars>>

Drained ==
    /\ recovery = "drain" /\ inbox = <<>>
    /\ pel = {}
    /\ recovery' = "live"
    /\ UNCHANGED <<streamVars, inbox, entry, dbVars>>

\* Mutant of ReadNew: XREADGROUP with NOACK.
ReadNewNoAck ==
    /\ recovery = "live" /\ inbox = <<>>
    /\ Fresh # {}
    /\ \E ids \in FirstIds(Fresh) :
           /\ inbox' = Entries(ids)
           /\ delivered' = ids[Len(ids)]
    /\ UNCHANGED <<stream, trimmed, pel, markers, recovery, entry, dbVars>>

ReadNew ==
    /\ recovery = "live" /\ inbox = <<>>
    /\ Fresh # {}
    /\ \E ids \in FirstIds(Fresh) :
           /\ inbox' = Entries(ids)
           /\ delivered' = ids[Len(ids)]
           /\ pel' = pel \union Range(ids)
    /\ UNCHANGED <<stream, trimmed, markers, recovery, entry, dbVars>>

EntryDone == inbox' = Tail(inbox) /\ entry' = "check"

SkipPersisted ==
    /\ inbox # <<>> /\ entry = "check"
    /\ Head(inbox).fields \in markers
    /\ entry' = "ack"
    /\ UNCHANGED <<streamVars, recovery, inbox, dbVars>>

\* No marker, or Redis did not tell.
HandleEntry ==
    /\ inbox # <<>> /\ entry = "check"
    /\ LET e == Head(inbox).fields
       IN  IF e \in Malformed \union {NoFields}
           THEN entry' = "ack" /\ UNCHANGED dbVars
           ELSE entry' = "handling" /\ SaveStart(RecoveryWriter, e)
    /\ UNCHANGED <<streamVars, recovery, inbox>>

EntryHandled ==
    /\ entry = "handling"
    /\ txn[RecoveryWriter].step \in Outcomes \ {"failed"}
    /\ SaveEnd(RecoveryWriter)
    /\ entry' = "ack"
    /\ UNCHANGED <<streamVars, recovery, inbox>>

\* Mutant of EntryNotPersisted: should_ack is not looked at.
EntryNotPersistedAcks ==
    /\ entry = "handling"
    /\ txn[RecoveryWriter].step = "failed"
    /\ SaveEnd(RecoveryWriter)
    /\ entry' = "ack"
    /\ UNCHANGED <<streamVars, recovery, inbox>>

\* The entry stays pending.
EntryNotPersisted ==
    /\ entry = "handling"
    /\ txn[RecoveryWriter].step = "failed"
    /\ SaveEnd(RecoveryWriter)
    /\ EntryDone
    /\ UNCHANGED <<streamVars, recovery>>

XAck == pel' = pel \ {Head(inbox).id}

\* Mutant of Ack: XACK is forgotten.
AckForgotten ==
    /\ entry = "ack"
    /\ EntryDone
    /\ UNCHANGED <<streamVars, recovery, dbVars>>

Ack ==
    /\ entry = "ack"
    /\ XAck
    /\ EntryDone
    /\ UNCHANGED <<stream, trimmed, delivered, markers, recovery, dbVars>>

TaskDown == recovery' = "down" /\ inbox' = <<>> /\ entry' = "check"

\* Reading or XACK raises, and XACK may have run: the task starts over.
RedisError ==
    /\ recovery # "down"
    /\ \/ inbox = <<>> /\ UNCHANGED pel
       \/ entry = "ack" /\ (UNCHANGED pel \/ XAck)
    /\ TaskDown
    /\ UNCHANGED <<stream, trimmed, delivered, markers, dbVars>>

\* The process dies.
RecoveryCrash == TaskDown /\ UNCHANGED streamVars

RecoveryStep == \/ RecoveryStart \/ ReadPending \/ Drained \/ ReadNew \/ SkipPersisted
                \/ HandleEntry \/ EntryHandled \/ EntryNotPersisted \/ Ack \/ RedisError

----------------------------------------------------------------------------
(* The task on its own: the Kafka consumer marks what is persisted.         *)

RecoveryNext ==
    \/ \E e \in Events : /\ \/ StreamAppend(e)
                            \/ MarkerExpires(e)
                            \/ e \in Saved \union Skipped /\ SetMarker(e)
                         /\ UNCHANGED dbVars
    \/ RecoveryStep
    \/ recovery # "down" /\ RecoveryCrash /\ AbortSaves({RecoveryWriter})
    \/ SaveStep(RecoveryWriter) /\ UNCHANGED recoveryVars

TaskInit == DbInit /\ RecoveryInit

RecoverySpec == TaskInit /\ [][RecoveryNext]_<<dbVars, recoveryVars>>

\* A task that runs makes its next step, and Redis does not fail for ever.
TaskFairness ==
    /\ WF_recoveryVars(RecoveryStart)
    /\ SF_recoveryVars(ReadPending)
    /\ SF_recoveryVars(Drained)
    /\ SF_recoveryVars(ReadNew)
    /\ SF_recoveryVars(SkipPersisted \/ HandleEntry)
    /\ SF_recoveryVars(EntryHandled)
    /\ WF_recoveryVars(EntryNotPersisted)
    /\ SF_recoveryVars(Ack)

RecoveryFairSpec == RecoverySpec /\ SaveFairness(RecoveryWriter) /\ TaskFairness

----------------------------------------------------------------------------
(* Properties.                                                              *)

\* What the task works on is pending, so no crash makes Redis forget it.
RecoveryTypeOK ==
    /\ DbTypeOK
    /\ stream \in Seq(Events)
    /\ trimmed \in 0..Len(stream)
    /\ delivered \in 0..Len(stream)
    /\ pel \subseteq 1..delivered
    /\ markers \subseteq Events
    /\ recovery \in {"down", "drain", "live"}
    /\ entry \in {"check", "handling", "ack"}
    /\ \A k \in DOMAIN inbox : /\ inbox[k].id \in pel
                               /\ inbox[k].fields \in {stream[inbox[k].id], NoFields}

\* access_events.py:178, redis_recovery.py:146: the recovery consumer may rely
\* on a marker, whatever else has failed: a marked event needs no saving.
MarkerSafety == markers \subseteq Saved \union Skipped

\* redis_recovery.py:153: an entry is acknowledged when it was skipped or
\* persisted.  An entry delivered and no longer pending is saved, is one that is
\* not to be saved, or is gone from the stream.
AckSafety ==
    \A id \in (1..delivered) \ pel :
        id <= trimmed \/ stream[id] \in Saved \union Unsavable

\* Every entry is read in the end, unless the stream trims it first: the drain
\* of the start ends.
EntriesRead ==
    \A id \in 1..Cardinality(Events) :
        id <= Len(stream) ~> id <= delivered \/ id <= trimmed

\* What is pending when the task starts is done in the end.
StartBackfills ==
    \A id \in 1..Cardinality(Events) :
        recovery = "down" /\ id \in pel ~> id \notin pel

\* redis_recovery.py:154, reporting-api/README.md:107: an entry whose save
\* failed stays pending for retry; the consumer retries in the background.
PendingRetried ==
    \A id \in 1..Cardinality(Events) : id \in pel ~> id \notin pel
=============================================================================
