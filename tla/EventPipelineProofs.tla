------------------------ MODULE EventPipelineProofs -------------------------
(***************************************************************************)
(* Proofs about SaveAccessEvent, about KafkaConsumer and RedisRecovery,    *)
(* each on its own and with the writer it is, and about EventPipeline, for *)
(* any events, topic, stream, batch size and trimming: what the tables     *)
(* hold for any writers, every interleaving of their transactions and      *)
(* every failure; what the Kafka offset and an XACK may forget, what a     *)
(* marker means, in which order the messages of the partition are saved.   *)
(* The invariants of the database and of its two consumers hold when they  *)
(* share one process, and the process implements EventStore.               *)
(***************************************************************************)
EXTENDS EventPipeline, SequenceTheorems, FiniteSetTheorems, TLAPS

----------------------------------------------------------------------------
(* Saving events, by any writers.                                            *)

\* An employee never seen has the state of a new row.
NeverSeen == \A p \in Employees : employees[p].seen = 0 => employees[p].state = "UNKNOWN"

\* What a transaction has read of its employee may be stale, but rows appear and
\* are seen for good.
ReadsEarlier ==
    \A w \in Writers :
        LET t == txn[w]
            now == employees[EmployeeOf[t.event]]
        IN  t.step = "commit" => /\ t.row.known => now.known
                                 /\ t.row.seen # 0 => now.seen # 0
                                 /\ t.row.seen = 0 => t.row.state = "UNKNOWN"

\* A call that has reached the database is for an event to save; one that has
\* skipped its event, for a skipped one.
SkippedApart ==
    /\ Saved \intersect Skipped = {}
    /\ \A w \in Writers : /\ txn[w].step \in Running => txn[w].event \notin Skipped
                          /\ txn[w].step = "skipped" => txn[w].event \in Skipped

StoreInv == /\ DbTypeOK
            /\ OneRowPerRequest
            /\ OutcomeTrue
            /\ EmployeeColumnsSaved
            /\ NeverSeen /\ ReadsEarlier /\ SkippedApart

\* A step of a writer, or the death of the process of some writers.
DbStep ==
    \/ \E w \in Writers, e \in Events : SaveStart(w, e)
    \/ \E w \in Writers : SaveStep(w) \/ SaveEnd(w)
    \/ \E ws \in SUBSET Writers : AbortSaves(ws)

----------------------------------------------------------------------------
(* Lemmas about the operators.                                              *)

LEMMA RangeAppend ==
    ASSUME NEW S, NEW s \in Seq(S), NEW e \in S
    PROVE  Range(Append(s, e)) = Range(s) \union {e}
<1>1. /\ DOMAIN s = 1..Len(s) /\ Len(s) \in Nat
      /\ DOMAIN Append(s, e) = 1..(Len(s) + 1)
      /\ \A i \in 1..Len(s) : Append(s, e)[i] = s[i]
      /\ Append(s, e)[Len(s) + 1] = e
  BY AppendProperties
<1>2. \A i \in 1..(Len(s) + 1) : i \in 1..Len(s) \/ i = Len(s) + 1
  BY <1>1
<1>3. \A i \in 1..Len(s) : i \in 1..(Len(s) + 1)
  BY <1>1
<1>4. Len(s) + 1 \in 1..(Len(s) + 1)
  BY <1>1
<1> QED
  BY <1>1, <1>2, <1>3, <1>4, Zenon DEF Range

LEMMA SavedEvents ==
    ASSUME rows \in Seq(Events)
    PROVE  Saved \subseteq Events
  BY ElementOfSeq DEF Saved, Range

\* What a commit makes of the employee row, from what it read and what is there.
LEMMA NewRowFacts ==
    ASSUME NEW e \in Events, NEW read \in EmployeeRows, NEW now \in EmployeeRows,
           read.seen # 0 => now.seen # 0,
           read.seen = 0 => read.state = "UNKNOWN",
           now.seen = 0 => now.state = "UNKNOWN"
    PROVE  LET new == NewEmployeeRow(e, read, now)
           IN  /\ new \in EmployeeRows
               /\ new.known /\ new.seen # 0
               /\ new.state = StateOf[e] \/ (now.seen # 0 /\ new.state = now.state)
               /\ new.seen = TimeOf[e] \/ (now.seen # 0 /\ new.seen = now.seen)
<1>1. StateOf[e] \in States /\ TimeOf[e] \in Nat /\ TimeOf[e] # 0
  BY EventColumns
<1> QED
  BY <1>1 DEF NewEmployeeRow, EmployeeRows

----------------------------------------------------------------------------
(* Steps that leave the tables alone.                                       *)

\* What such a step may do to a transaction.
QuietTxn(w) ==
    LET t == txn[w]
        n == txn'[w]
    IN  \/ n = t
        \/ n.step \in {"idle", "failed"}
        \/ t.step = "lookup" /\ n.step = "load" /\ n.event = t.event
        \/ t.step = "lookup" /\ n.step = "duplicate" /\ n.event = t.event /\ n.event \in Saved
        \/ /\ t.step = "load" /\ n.step = "commit" /\ n.event = t.event
           /\ n.row = employees[EmployeeOf[n.event]]
        \/ n.step = "skipped" /\ n.event \in Skipped
        \/ n.step = "lookup" /\ n.event \notin Skipped

Quiet ==
    /\ UNCHANGED <<rows, employees, unassigned>>
    /\ txn' \in [Writers -> [step : TxnSteps, event : Events, row : EmployeeRows,
                             dept : BOOLEAN]]
    /\ \A w \in Writers : QuietTxn(w)

\* A step that commits the transaction of w.
Commits(w) == \E s \in {"inserted", "failed"} : CommitRows(w) /\ Step(w, s)

LEMMA StepKinds ==
    ASSUME DbTypeOK, DbStep
    PROVE  Quiet \/ \E w \in Writers : Commits(w)
<1> USE DEF DbTypeOK
<1>1. ASSUME NEW w \in Writers, NEW s \in TxnSteps, Step(w, s),
             UNCHANGED <<rows, employees, unassigned>>,
             QuietTxn(w)
      PROVE  Quiet
  BY <1>1 DEF Step, Quiet, QuietTxn
<1>2. ASSUME NEW w \in Writers, NEW e \in Events, SaveStart(w, e)
      PROVE  Quiet
  <2>1. \A v \in Writers : v # w => txn'[v] = txn[v]
    BY <1>2 DEF SaveStart
  <2>2. txn'[w] = [txn[w] EXCEPT !.step = IF e \in Skipped THEN "skipped" ELSE "lookup",
                                 !.event = e]
    BY <1>2 DEF SaveStart
  <2>3. txn' \in [Writers -> [step : TxnSteps, event : Events, row : EmployeeRows,
                              dept : BOOLEAN]]
    <3>1. txn'[w] \in [step : TxnSteps, event : Events, row : EmployeeRows, dept : BOOLEAN]
      BY <2>2 DEF TxnSteps, Running, Outcomes
    <3> QED
      BY <1>2, <2>1, <3>1 DEF SaveStart
  <2> QED
    BY <1>2, <2>1, <2>2, <2>3 DEF Quiet, QuietTxn, SaveStart
<1>3. ASSUME NEW w \in Writers, Lookup(w)
      PROVE  Quiet
  <2>1. \/ Step(w, "duplicate") /\ txn[w].event \in Saved
        \/ Step(w, "load")
    BY <1>3 DEF Lookup, Saved
  <2>2. QuietTxn(w)
    BY <1>3, <2>1 DEF Lookup, QuietTxn, Step
  <2> QED
    BY <1>1, <1>3, <2>1, <2>2 DEF Lookup, TxnSteps, Running, Outcomes
<1>4. ASSUME NEW w \in Writers, Load(w)
      PROVE  Quiet
  <2>1. EmployeeOf[txn[w].event] \in Employees
    BY EventColumns
  <2>2. \A v \in Writers : v # w => txn'[v] = txn[v]
    BY <1>4 DEF Load
  <2>3. txn'[w] = [txn[w] EXCEPT !.step = "commit",
                                 !.row = employees[EmployeeOf[txn[w].event]],
                                 !.dept = unassigned]
    BY <1>4 DEF Load
  <2>4. txn'[w] \in [step : TxnSteps, event : Events, row : EmployeeRows, dept : BOOLEAN]
    <3>1. employees[EmployeeOf[txn[w].event]] \in EmployeeRows /\ unassigned \in BOOLEAN
      BY <2>1
    <3> QED
      BY <2>3, <3>1 DEF TxnSteps, Running
  <2> QED
    <3>1. txn' \in [Writers -> [step : TxnSteps, event : Events, row : EmployeeRows,
                                dept : BOOLEAN]]
      BY <1>4, <2>2, <2>4 DEF Load
    <3> QED
      BY <1>4, <2>2, <2>3, <3>1 DEF Quiet, QuietTxn, Load
<1>5. ASSUME NEW w \in Writers, CommitConflict(w) \/ DbError(w)
      PROVE  Quiet
  <2>1. QuietTxn(w)
    BY <1>5 DEF CommitConflict, DbError, QuietTxn, Step
  <2> QED
    BY <1>1, <1>5, <2>1 DEF CommitConflict, DbError, TxnSteps, Outcomes
<1>6. ASSUME NEW w \in Writers, SaveEnd(w)
      PROVE  Quiet
  <2>1. QuietTxn(w)
    BY <1>6 DEF SaveEnd, QuietTxn, Step
  <2> QED
    BY <1>1, <1>6, <2>1 DEF SaveEnd, TxnSteps
<1>7. ASSUME NEW ws \in SUBSET Writers, AbortSaves(ws)
      PROVE  Quiet
  <2>1. \A w \in Writers : txn'[w] = txn[w] \/ txn'[w] = [txn[w] EXCEPT !.step = "idle"]
    BY <1>7 DEF AbortSaves
  <2>2. txn' \in [Writers -> [step : TxnSteps, event : Events, row : EmployeeRows,
                              dept : BOOLEAN]]
    BY <1>7 DEF AbortSaves, TxnSteps
  <2> QED
    BY <1>7, <2>1, <2>2 DEF AbortSaves, Quiet, QuietTxn
<1>8. ASSUME NEW w \in Writers, Commit(w) \/ CommitReplyLost(w)
      PROVE  Commits(w)
  BY <1>8 DEF Commit, CommitReplyLost, Commits
<1> QED
  BY <1>2, <1>3, <1>4, <1>5, <1>6, <1>7, <1>8 DEF DbStep, SaveStep

LEMMA QuietStep ==
    ASSUME StoreInv, Quiet
    PROVE  StoreInv'
<1> USE DEF StoreInv
<1>1. /\ rows' = rows /\ employees' = employees /\ unassigned' = unassigned
      /\ Saved' = Saved
  BY DEF Quiet, Saved, Range
<1>2. DbTypeOK'
  BY <1>1 DEF DbTypeOK, Quiet
<1>3. OneRowPerRequest' /\ EmployeeColumnsSaved' /\ NeverSeen'
  BY <1>1 DEF OneRowPerRequest, EmployeeColumnsSaved, NeverSeen
<1>4. \A w \in Writers : /\ txn[w] \in [step : TxnSteps, event : Events,
                                        row : EmployeeRows, dept : BOOLEAN]
                         /\ QuietTxn(w)
  BY DEF Quiet, DbTypeOK
<1>5. OutcomeTrue'
  <2> SUFFICES ASSUME NEW w \in Writers
               PROVE  /\ txn'[w].step \in {"inserted", "duplicate"} => txn'[w].event \in Saved
                      /\ txn'[w].step = "skipped" => txn'[w].event \notin Saved
    BY <1>1 DEF OutcomeTrue
  <2> QED
    BY <1>4 DEF OutcomeTrue, QuietTxn, SkippedApart
<1>6. ReadsEarlier'
  <2> SUFFICES ASSUME NEW w \in Writers, txn'[w].step = "commit"
               PROVE  LET t == txn'[w]
                          now == employees[EmployeeOf[t.event]]
                      IN  /\ t.row.known => now.known
                          /\ t.row.seen # 0 => now.seen # 0
                          /\ t.row.seen = 0 => t.row.state = "UNKNOWN"
    BY <1>1 DEF ReadsEarlier
  <2>1. CASE txn'[w] = txn[w]
    BY <2>1 DEF ReadsEarlier
  <2>2. CASE txn'[w].row = employees[EmployeeOf[txn'[w].event]]
    <3>1. txn'[w].event \in Events
      BY <1>2 DEF DbTypeOK
    <3>2. EmployeeOf[txn'[w].event] \in Employees
      BY <3>1, EventColumns
    <3> QED
      BY <2>2, <3>2 DEF NeverSeen
  <2> QED
    BY <1>4, <2>1, <2>2 DEF QuietTxn
<1>7. SkippedApart'
  <2>1. ASSUME NEW w \in Writers
        PROVE  /\ txn'[w].step \in Running => txn'[w].event \notin Skipped
               /\ txn'[w].step = "skipped" => txn'[w].event \in Skipped
    BY <1>4 DEF SkippedApart, QuietTxn, Running
  <2> QED
    BY <1>1, <2>1 DEF SkippedApart
<1> QED
  BY <1>2, <1>3, <1>5, <1>6, <1>7

----------------------------------------------------------------------------
(* A commit.                                                                *)

LEMMA CommitStep ==
    ASSUME StoreInv, NEW w \in Writers, Commits(w)
    PROVE  StoreInv'
<1> DEFINE e == txn[w].event
           p == EmployeeOf[e]
           new == NewEmployeeRow(e, txn[w].row, employees[p])
<1> USE DEF StoreInv
<1>1. /\ e \in Events /\ p \in Employees /\ txn[w].row \in EmployeeRows
      /\ employees[p] \in EmployeeRows
  BY EventColumns DEF DbTypeOK
<1>2. /\ txn[w].step = "commit" /\ e \notin Saved
      /\ rows' = Append(rows, e)
      /\ employees' = [employees EXCEPT ![p] = new]
      /\ unassigned' \in BOOLEAN
      /\ \E s \in {"inserted", "failed"} : txn' = [txn EXCEPT ![w].step = s]
  BY DEF Commits, CommitRows, Conflict, Step, Saved, DbTypeOK
<1>3. /\ new \in EmployeeRows /\ new.known /\ new.seen # 0
      /\ new.state = StateOf[e] \/ (employees[p].seen # 0 /\ new.state = employees[p].state)
      /\ new.seen = TimeOf[e] \/ (employees[p].seen # 0 /\ new.seen = employees[p].seen)
  BY <1>1, <1>2, NewRowFacts DEF ReadsEarlier, NeverSeen
<1>4. Saved' = Saved \union {e}
  BY <1>1, <1>2, RangeAppend DEF Saved, DbTypeOK
<1>5. /\ employees'[p] = new
      /\ \A q \in Employees : q # p => employees'[q] = employees[q]
  BY <1>1, <1>2 DEF DbTypeOK
<1>6. DbTypeOK'
  <2>1. rows' \in Seq(Events)
    BY <1>1, <1>2, AppendProperties DEF DbTypeOK
  <2>2. employees' \in [Employees -> EmployeeRows]
    BY <1>2, <1>3 DEF DbTypeOK
  <2>3. txn' \in [Writers -> [step : TxnSteps, event : Events, row : EmployeeRows,
                              dept : BOOLEAN]]
    BY <1>2 DEF DbTypeOK, TxnSteps, Outcomes
  <2> QED
    BY <1>2, <2>1, <2>2, <2>3 DEF DbTypeOK
<1>7. OneRowPerRequest'
  <2>1. /\ Len(rows) \in Nat /\ DOMAIN rows = 1..Len(rows)
        /\ DOMAIN rows' = 1..(Len(rows) + 1)
        /\ \A i \in 1..Len(rows) : rows'[i] = rows[i]
        /\ rows'[Len(rows) + 1] = e
    BY <1>1, <1>2, AppendProperties DEF DbTypeOK
  <2>2. \A i \in 1..Len(rows) : rows[i] # e
    BY <1>2, <2>1 DEF Saved, Range
  <2> QED
    BY <2>1, <2>2 DEF OneRowPerRequest
<1>8. \A v \in Writers :
        /\ txn'[v].event = txn[v].event /\ txn'[v].row = txn[v].row
        /\ v # w => txn'[v].step = txn[v].step
        /\ v = w => txn'[v].step \in {"inserted", "failed"}
  BY <1>2 DEF DbTypeOK
<1>9. OutcomeTrue'
  BY <1>4, <1>8, <1>2 DEF OutcomeTrue, SkippedApart, Running
<1>10. EmployeeColumnsSaved'
  <2>1. \A f \in Saved' : employees'[EmployeeOf[f]].known
    <3>1. \A f \in Saved : EmployeeOf[f] \in Employees
      BY SavedEvents, EventColumns DEF DbTypeOK
    <3> QED
      BY <1>3, <1>4, <1>5, <3>1 DEF EmployeeColumnsSaved
  <2>2. ASSUME NEW q \in Employees, employees'[q].seen # 0
        PROVE  /\ \E f \in Saved' : EmployeeOf[f] = q /\ StateOf[f] = employees'[q].state
               /\ \E f \in Saved' : EmployeeOf[f] = q /\ TimeOf[f] = employees'[q].seen
    BY <1>3, <1>4, <1>5, <2>2 DEF EmployeeColumnsSaved
  <2> QED
    BY <2>1, <2>2 DEF EmployeeColumnsSaved
<1>11. NeverSeen'
  BY <1>3, <1>5 DEF NeverSeen
<1>12. ReadsEarlier'
  <2> SUFFICES ASSUME NEW v \in Writers, txn'[v].step = "commit"
               PROVE  LET t == txn'[v]
                          now == employees'[EmployeeOf[t.event]]
                      IN  /\ t.row.known => now.known
                          /\ t.row.seen # 0 => now.seen # 0
                          /\ t.row.seen = 0 => t.row.state = "UNKNOWN"
    BY DEF ReadsEarlier
  <2>1. v # w /\ txn[v].step = "commit" /\ EmployeeOf[txn[v].event] \in Employees
    BY <1>8, EventColumns DEF DbTypeOK
  <2> DEFINE t == txn[v]
             q == EmployeeOf[t.event]
  <2>2. txn'[v].event = t.event /\ txn'[v].row = t.row
    BY <1>8
  <2>3. /\ t.row.known => employees[q].known
        /\ t.row.seen # 0 => employees[q].seen # 0
        /\ t.row.seen = 0 => t.row.state = "UNKNOWN"
    BY <2>1 DEF ReadsEarlier
  <2>4. /\ employees[q].known => employees'[q].known
        /\ employees[q].seen # 0 => employees'[q].seen # 0
    <3>1. CASE q = p
      BY <1>3, <1>5, <3>1
    <3>2. CASE q # p
      BY <1>5, <2>1, <3>2
    <3> QED
      BY <3>1, <3>2
  <2> HIDE DEF t, q
  <2> QED
    BY <2>2, <2>3, <2>4 DEF t, q
<1>13. SkippedApart'
  BY <1>2, <1>4, <1>8 DEF SkippedApart, Running
<1> QED
  BY <1>6, <1>7, <1>9, <1>10, <1>11, <1>12, <1>13

----------------------------------------------------------------------------
(* The theorems.                                                            *)

LEMMA StoreInvInit ==
    ASSUME DbInit
    PROVE  StoreInv
<1>1. (CHOOSE e \in Events : TRUE) \in Events
  BY EventKinds
<1>2. DbTypeOK
  <2>1. NoRow \in EmployeeRows
    BY DEF NoRow, EmployeeRows, States
  <2>2. \A p \in Employees : employees[p] \in EmployeeRows
    <3> SUFFICES ASSUME NEW p \in Employees PROVE employees[p] \in EmployeeRows
      OBVIOUS
    <3>1. employees[p] = [NoRow EXCEPT !.known = p \in Seeded]
      BY DEF DbInit
    <3>2. (p \in Seeded) \in BOOLEAN
      OBVIOUS
    <3> QED
      BY <2>1, <3>1, <3>2 DEF EmployeeRows
  <2>3. employees \in [Employees -> EmployeeRows]
    BY <2>2 DEF DbInit
  <2>4. txn \in [Writers -> [step : TxnSteps, event : Events, row : EmployeeRows,
                             dept : BOOLEAN]]
    BY <1>1, <2>1 DEF DbInit, TxnSteps
  <2> QED
    <3>1. rows \in Seq(Events)
      BY EmptySeq DEF DbInit
    <3>2. unassigned \in BOOLEAN
      BY Zenon DEF DbInit
    <3> QED
      BY <2>3, <2>4, <3>1, <3>2 DEF DbTypeOK
<1>3. Saved = {} /\ DOMAIN rows = {}
  BY DEF DbInit, Saved, Range
<1>4. \A p \in Employees : employees[p].seen = 0 /\ employees[p].state = "UNKNOWN"
  BY DEF DbInit, NoRow
<1>5. \A w \in Writers : txn[w].step = "idle"
  BY DEF DbInit
<1> QED
  BY <1>2, <1>3, <1>4, <1>5 DEF StoreInv, OneRowPerRequest, OutcomeTrue,
     EmployeeColumnsSaved, NeverSeen, ReadsEarlier, SkippedApart, Running

\* The invariant of the database, for any composition of writers.
LEMMA StoreInvStep ==
    ASSUME StoreInv, DbStep \/ UNCHANGED dbVars
    PROVE  StoreInv'
<1>1. CASE DbStep
  BY <1>1, StepKinds, QuietStep, CommitStep DEF StoreInv
<1>2. CASE UNCHANGED dbVars
  <2>1. Quiet
    BY <1>2 DEF dbVars, Quiet, QuietTxn, StoreInv, DbTypeOK
  <2> QED
    BY <2>1, QuietStep
<1> QED
  BY <1>1, <1>2

LEMMA StoreInvariant == DbSpec => []StoreInv
<1>1. StoreInv /\ [DbNext]_dbVars => StoreInv'
  <2>1. DbNext => DbStep
    BY DEF DbNext, DbStep
  <2> QED
    BY <2>1, StoreInvStep
<1> QED
  BY <1>1, StoreInvInit, PTL DEF DbSpec

\* The state of the tables and of the transactions has its types.
THEOREM DbTypeCorrect == DbSpec => []DbTypeOK
<1>1. StoreInv => DbTypeOK
  BY DEF StoreInv
<1> QED
  BY <1>1, StoreInvariant, PTL

\* save_access_event never stores an event twice, for any number of writers.
THEOREM RowsAreUnique == DbSpec => []OneRowPerRequest
<1>1. StoreInv => OneRowPerRequest
  BY DEF StoreInv
<1> QED
  BY <1>1, StoreInvariant, PTL

\* What save_access_event returns is true of the table.
THEOREM OutcomesAreTrue == DbSpec => []OutcomeTrue
<1>1. StoreInv => OutcomeTrue
  BY DEF StoreInv
<1> QED
  BY <1>1, StoreInvariant, PTL

\* Each column of an employee row comes from a saved event of the employee.
THEOREM ColumnsAreSaved == DbSpec => []EmployeeColumnsSaved
<1>1. StoreInv => EmployeeColumnsSaved
  BY DEF StoreInv
<1> QED
  BY <1>1, StoreInvariant, PTL

----------------------------------------------------------------------------
(* The consumers.                                                            *)

\* What the Kafka task knows at each of its steps.
KafkaInv ==
    /\ topic \in Seq(Events)
    /\ committed \in 0..Len(topic)
    /\ position \in 0..Len(topic)
    /\ consumer \in ConsumerSteps
    /\ consumer = "fetch" => position = committed
    /\ consumer \notin {"down", "fetch"} => position = committed + 1
    /\ consumer = "handling" => txn[KafkaWriter].event = Message /\ Message \notin Malformed
    /\ txn[KafkaWriter].step # "idle" => consumer = "handling"
    /\ consumer = "mark" => Message \in Saved \union Skipped
    /\ consumer = "commit" => Message \in Saved \union Unsavable
    /\ OffsetSafety

\* The entries in memory: pending, in the order of their ids, without fields only
\* if the stream has trimmed them.
InboxInv ==
    /\ inbox \in Seq([id : Nat, fields : Events \union {NoFields}])
    /\ \A i \in 1..Len(inbox) :
          /\ inbox[i].id \in pel
          /\ inbox[i].fields = NoFields => inbox[i].id <= trimmed
          /\ inbox[i].fields # NoFields => inbox[i].fields = stream[inbox[i].id]
    /\ \A i, j \in 1..Len(inbox) : i < j => inbox[i].id < inbox[j].id

\* What the recovery task knows of the first of them.
EntryInv ==
    /\ entry \in {"check", "handling", "ack"}
    /\ entry # "check" => inbox # <<>>
    /\ entry = "handling" => /\ inbox[1].fields \in Events \ Malformed
                             /\ txn[RecoveryWriter].event = inbox[1].fields
    /\ txn[RecoveryWriter].step # "idle" => entry = "handling"
    /\ entry = "ack" => inbox[1].fields \in Saved \union Unsavable \union {NoFields}

StreamInv ==
    /\ stream \in Seq(Events)
    /\ trimmed \in 0..Len(stream)
    /\ delivered \in 0..Len(stream)
    /\ pel \subseteq 1..delivered
    /\ markers \subseteq Events
    /\ recovery \in {"down", "drain", "live"}
    /\ MarkerSafety
    /\ AckSafety

RecoveryInv == StreamInv /\ InboxInv /\ EntryInv

----------------------------------------------------------------------------
(* What a step of a save does to the transactions.                          *)

\* The transaction of w stays as far as the task behind it can tell: its event,
\* and that it is idle.
SameCall(w) == /\ txn'[w].event = txn[w].event
               /\ txn[w].step = "idle" => txn'[w].step = "idle"

LEMMA SaveStartTxn ==
    ASSUME DbTypeOK, NEW w \in Writers, NEW e \in Events, SaveStart(w, e)
    PROVE  /\ txn'[w].event = e /\ txn[w].step = "idle"
           /\ \A v \in Writers \ {w} : SameCall(v)
           /\ Saved' = Saved
  BY SMT DEF DbTypeOK, SaveStart, SameCall, Saved, Range

LEMMA SaveEndTxn ==
    ASSUME DbTypeOK, NEW w \in Writers, SaveEnd(w)
    PROVE  /\ txn'[w].step = "idle"
           /\ \A v \in Writers : SameCall(v)
           /\ Saved' = Saved
  BY SMT DEF DbTypeOK, SaveEnd, Step, SameCall, Saved, Range

LEMMA AbortTxn ==
    ASSUME DbTypeOK, NEW ws \in SUBSET Writers, AbortSaves(ws)
    PROVE  /\ \A w \in ws : txn'[w].step = "idle"
           /\ \A v \in Writers : SameCall(v)
           /\ Saved' = Saved
  BY SMT DEF DbTypeOK, AbortSaves, SameCall, Saved, Range

LEMMA SaveStepTxn ==
    ASSUME DbTypeOK, NEW w \in Writers, SaveStep(w)
    PROVE  /\ \A v \in Writers : SameCall(v)
           /\ \/ rows' = rows
              \/ rows' = Append(rows, txn[w].event) /\ CommitRows(w)
  BY SMT DEF DbTypeOK, SaveStep, Lookup, Load, Commit, CommitReplyLost, CommitConflict,
             DbError, CommitRows, Step, SameCall, Running, Outcomes, TxnSteps

\* No step loses a saved event.
LEMMA SavedGrows ==
    ASSUME DbTypeOK, NEW w \in Writers, SaveStep(w)
    PROVE  Saved \subseteq Saved'
<1>1. CASE rows' = rows
  BY <1>1 DEF Saved, Range
<1>2. CASE rows' = Append(rows, txn[w].event)
  <2>1. rows \in Seq(Events) /\ txn[w].event \in Events
    BY DEF DbTypeOK
  <2> QED
    BY <1>2, <2>1, RangeAppend DEF Saved
<1> QED
  BY <1>1, <1>2, SaveStepTxn

----------------------------------------------------------------------------
(* The database part: a step of a task is a step of its writer.              *)

LEMMA TakenIsEvent ==
    ASSUME KafkaInv, consumer \notin {"down", "fetch"}
    PROVE  /\ Message \in Events
           /\ Message = topic[position] /\ position \in 1..Len(topic)
<1>1. position \in 1..Len(topic)
  BY DEF KafkaInv
<1> QED
  BY <1>1, ElementOfSeq DEF KafkaInv, Message

LEMMA ConsumerStepDb ==
    ASSUME KafkaInv, ConsumerStep
    PROVE  DbStep \/ UNCHANGED dbVars
<1> USE KafkaConstants
<1>1. CASE ConsumerStart
  BY <1>1 DEF ConsumerStart
<1>2. CASE Fetch
  <2>1. topic[position + 1] \in Events
    BY <1>2, ElementOfSeq DEF Fetch, KafkaInv
  <2> QED
    BY <1>2, <2>1 DEF Fetch, Handle, DbStep
<1>3. CASE Handled
  BY <1>3 DEF Handled, DbStep
<1>4. CASE NotPersisted
  BY <1>4 DEF NotPersisted, DbStep
<1>5. CASE RetryMessage
  <2>1. Message \in Events
    BY <1>5, TakenIsEvent DEF RetryMessage
  <2> QED
    BY <1>5, <2>1 DEF RetryMessage, Handle, DbStep
<1>6. CASE CommitOffset
  BY <1>6 DEF CommitOffset
<1>7. CASE KafkaError
  BY <1>7 DEF KafkaError
<1> QED
  BY <1>1, <1>2, <1>3, <1>4, <1>5, <1>6, <1>7 DEF ConsumerStep

LEMMA HeadEntry ==
    ASSUME InboxInv, inbox # <<>>
    PROVE  /\ Head(inbox) = inbox[1] /\ 1 \in 1..Len(inbox)
           /\ inbox[1] \in [id : Nat, fields : Events \union {NoFields}]
           /\ inbox[1].id \in pel
           /\ inbox[1].fields = NoFields => inbox[1].id <= trimmed
           /\ inbox[1].fields # NoFields => inbox[1].fields = stream[inbox[1].id]
<1>1. Head(inbox) = inbox[1] /\ 1 \in 1..Len(inbox)
  BY SMT DEF InboxInv
<1>2. inbox[1] \in [id : Nat, fields : Events \union {NoFields}]
  BY <1>1, ElementOfSeq, Zenon DEF InboxInv
<1> QED
  BY <1>1, <1>2, Zenon DEF InboxInv

LEMMA RecoveryStepDb ==
    ASSUME InboxInv, RecoveryStep
    PROVE  DbStep \/ UNCHANGED dbVars
<1> USE RecoveryConstants
<1>1. CASE RecoveryStart
  BY <1>1 DEF RecoveryStart
<1>2. CASE ReadPending
  BY <1>2 DEF ReadPending
<1>3. CASE Drained
  BY <1>3 DEF Drained
<1>4. CASE ReadNew
  BY <1>4 DEF ReadNew
<1>5. CASE SkipPersisted
  BY <1>5 DEF SkipPersisted
<1>6. CASE HandleEntry
  <2>1. Head(inbox).fields \in Events \union {NoFields}
    BY <1>6, HeadEntry DEF HandleEntry
  <2> QED
    BY <1>6, <2>1 DEF HandleEntry, DbStep
<1>7. CASE EntryHandled
  BY <1>7 DEF EntryHandled, DbStep
<1>8. CASE EntryNotPersisted
  BY <1>8 DEF EntryNotPersisted, DbStep
<1>9. CASE Ack
  BY <1>9 DEF Ack
<1>10. CASE RedisError
  BY <1>10 DEF RedisError
<1> QED
  BY <1>1, <1>2, <1>3, <1>4, <1>5, <1>6, <1>7, <1>8, <1>9, <1>10 DEF RecoveryStep

----------------------------------------------------------------------------
(* The Kafka task.                                                          *)

\* Steps of the others.
LEMMA KafkaQuiet ==
    ASSUME KafkaInv, UNCHANGED kafkaVars, SameCall(KafkaWriter), Saved \subseteq Saved'
    PROVE  KafkaInv'
<1>1. /\ topic' = topic /\ committed' = committed /\ position' = position
      /\ consumer' = consumer /\ Message' = Message
  BY DEF kafkaVars, Message
<1> QED
  BY <1>1 DEF KafkaInv, OffsetSafety, SameCall

LEMMA ProduceKafka ==
    ASSUME KafkaInv, NEW e \in Events, Produce(e), UNCHANGED dbVars
    PROVE  KafkaInv'
<1>1. /\ topic' \in Seq(Events) /\ Len(topic') = Len(topic) + 1
      /\ \A i \in 1..Len(topic) : topic'[i] = topic[i]
      /\ Len(topic) \in Nat
  BY AppendProperties DEF Produce, KafkaInv
<1>2. /\ committed' = committed /\ position' = position /\ consumer' = consumer
      /\ Saved' = Saved /\ txn' = txn
  BY DEF Produce, dbVars, Saved, Range
<1>3. consumer \notin {"down", "fetch"} => Message' = Message
  BY <1>1, <1>2, TakenIsEvent DEF Message
<1>4. OffsetSafety'
  BY <1>1, <1>2 DEF KafkaInv, OffsetSafety
<1> QED
  BY <1>1, <1>2, <1>3, <1>4 DEF KafkaInv, ConsumerSteps

\* A message is taken, for the first time or again.
LEMMA HandleKafka ==
    ASSUME DbTypeOK, KafkaInv, consumer \in {"fetch", "backoff"},
           UNCHANGED <<topic, committed>>,
           position' = committed + 1, position' \in 1..Len(topic), Handle(topic[position'])
    PROVE  KafkaInv'
<1> DEFINE e == topic[position']
<1>1. e \in Events
  BY ElementOfSeq DEF KafkaInv
<1>2. Message' = e
  BY DEF Message
<1>3. txn[KafkaWriter].step = "idle"
  BY DEF KafkaInv
<1>4. CASE e \in Malformed
  <2>1. consumer' = "commit" /\ UNCHANGED dbVars
    BY <1>4 DEF Handle
  <2>2. Saved' = Saved /\ txn' = txn
    BY <2>1 DEF dbVars, Saved, Range
  <2>3. OffsetSafety'
    BY <2>2 DEF KafkaInv, OffsetSafety
  <2> QED
    BY <1>2, <1>3, <1>4, <2>1, <2>2, <2>3 DEF KafkaInv, ConsumerSteps, Unsavable
<1>5. CASE e \notin Malformed
  <2>1. consumer' = "handling" /\ SaveStart(KafkaWriter, e)
    BY <1>5 DEF Handle
  <2>2. Saved' = Saved /\ txn'[KafkaWriter].event = e
    BY <1>1, <2>1, SaveStartTxn, KafkaConstants
  <2>3. OffsetSafety'
    BY <2>2 DEF KafkaInv, OffsetSafety
  <2> QED
    BY <1>2, <1>5, <2>1, <2>2, <2>3 DEF KafkaInv, ConsumerSteps
<1> QED
  BY <1>4, <1>5

\* A save that ended without an exception has its event in the table, or skipped it.
LEMMA OutcomeSettles ==
    ASSUME StoreInv, NEW w \in Writers, txn[w].step \in Outcomes \ {"failed"}
    PROVE  txn[w].event \in Saved \union Skipped
  BY DEF StoreInv, OutcomeTrue, SkippedApart, Outcomes

LEMMA ConsumerStepKafka ==
    ASSUME StoreInv, KafkaInv, ConsumerStep
    PROVE  KafkaInv'
<1> USE KafkaConstants
<1>0. DbTypeOK /\ committed \in Nat /\ position \in Nat /\ Len(topic) \in Nat
  BY LenProperties DEF StoreInv, KafkaInv
<1>1. CASE ConsumerStart
  <2>1. Saved' = Saved /\ txn' = txn /\ topic' = topic /\ committed' = committed
    BY <1>1 DEF ConsumerStart, dbVars, Saved, Range
  <2>2. OffsetSafety'
    BY <2>1 DEF KafkaInv, OffsetSafety
  <2> QED
    BY <1>1, <2>1, <2>2 DEF ConsumerStart, KafkaInv, ConsumerSteps
<1>2. CASE Fetch
  <2>1. position' = committed + 1 /\ position' = position + 1
    BY <1>2, <1>0 DEF Fetch, KafkaInv
  <2>2. position' \in 1..Len(topic)
    BY <1>2, <1>0, <2>1 DEF Fetch
  <2> QED
    BY <1>0, <1>2, <2>1, <2>2, HandleKafka DEF Fetch
<1>3. CASE Handled
  <2>1. txn[KafkaWriter].event = Message /\ Message \in Saved \union Skipped
    BY <1>3, OutcomeSettles DEF Handled, KafkaInv
  <2>2. Saved' = Saved /\ txn'[KafkaWriter].step = "idle"
    BY <1>0, <1>3, SaveEndTxn DEF Handled
  <2>3. topic' = topic /\ committed' = committed /\ position' = position /\ Message' = Message
    BY <1>3 DEF Handled, Message
  <2>4. OffsetSafety'
    BY <2>2, <2>3 DEF KafkaInv, OffsetSafety
  <2> QED
    BY <1>3, <2>1, <2>2, <2>3, <2>4 DEF Handled, KafkaInv, ConsumerSteps
<1>4. CASE NotPersisted
  <2>2. Saved' = Saved /\ txn'[KafkaWriter].step = "idle"
    BY <1>0, <1>4, SaveEndTxn DEF NotPersisted
  <2>3. topic' = topic /\ committed' = committed /\ position' = position
    BY <1>4 DEF NotPersisted
  <2>4. OffsetSafety'
    BY <2>2, <2>3 DEF KafkaInv, OffsetSafety
  <2> QED
    BY <1>4, <2>2, <2>3, <2>4 DEF NotPersisted, KafkaInv, ConsumerSteps
<1>5. CASE RetryMessage
  <2>1. position = committed + 1 /\ position \in 1..Len(topic) /\ Message = topic[position]
    BY <1>5, TakenIsEvent DEF RetryMessage, KafkaInv
  <2>2. position' = position
    BY <1>5 DEF RetryMessage
  <2> QED
    BY <1>0, <1>5, <2>1, <2>2, HandleKafka DEF RetryMessage
<1>6. CASE CommitOffset
  <2>1. Saved' = Saved /\ txn' = txn /\ topic' = topic /\ position' = position
    BY <1>6 DEF CommitOffset, dbVars, Saved, Range
  <2>2. committed' = position /\ position = committed + 1
    BY <1>6 DEF CommitOffset, KafkaInv
  <2>3. topic[position] \in Saved \union Unsavable
    BY <1>6 DEF CommitOffset, KafkaInv, Message
  <2>4. \A i \in 1..position : i \in 1..committed \/ i = position
    BY <1>0, <2>2
  <2>5. OffsetSafety'
    BY <2>1, <2>2, <2>3, <2>4 DEF KafkaInv, OffsetSafety
  <2> QED
    BY <1>6, <2>1, <2>2, <2>5 DEF CommitOffset, KafkaInv, ConsumerSteps
<1>7. CASE KafkaError
  <2>1. Saved' = Saved /\ txn' = txn
    BY <1>7 DEF KafkaError, dbVars, Saved, Range
  <2>2. OffsetSafety'
    BY <1>7, <2>1 DEF KafkaError, KafkaInv, OffsetSafety
  <2> QED
    BY <1>7, <2>1, <2>2 DEF KafkaError, KafkaInv, ConsumerSteps
<1> QED
  BY <1>1, <1>2, <1>3, <1>4, <1>5, <1>6, <1>7 DEF ConsumerStep

LEMMA DbUnchanged ==
    ASSUME UNCHANGED dbVars
    PROVE  Saved' = Saved /\ \A w \in Writers : SameCall(w)
  BY DEF dbVars, Saved, Range, SameCall

LEMMA MarkPersistedKafka ==
    ASSUME KafkaInv, MarkPersisted
    PROVE  KafkaInv'
<1>1. /\ Saved' = Saved /\ txn' = txn
      /\ topic' = topic /\ committed' = committed /\ position' = position /\ Message' = Message
      /\ consumer = "mark" /\ consumer' = "commit"
  BY DEF MarkPersisted, dbVars, Saved, Range, Message
<1>2. OffsetSafety'
  BY <1>1 DEF KafkaInv, OffsetSafety
<1> QED
  BY <1>1, <1>2 DEF KafkaInv, ConsumerSteps, Unsavable

LEMMA KafkaStops ==
    ASSUME DbTypeOK, KafkaInv, NEW ws \in SUBSET Writers, KafkaWriter \in ws,
           KafkaCrash, AbortSaves(ws)
    PROVE  KafkaInv'
<1>1. Saved' = Saved /\ txn'[KafkaWriter].step = "idle"
  BY AbortTxn
<1>2. topic' = topic /\ committed' = committed /\ position' = position /\ consumer' = "down"
  BY DEF KafkaCrash
<1>3. OffsetSafety'
  BY <1>1, <1>2 DEF KafkaInv, OffsetSafety
<1> QED
  BY <1>1, <1>2, <1>3 DEF KafkaInv, ConsumerSteps

----------------------------------------------------------------------------
(* The recovery task: what a read returns.                                  *)

LEMMA FirstIdsFacts ==
    ASSUME NEW ids \in SUBSET Nat, IsFiniteSet(ids), ids # {}, NEW s \in FirstIds(ids)
    PROVE  /\ s \in Seq(ids) /\ Len(s) \in Nat \ {0}
           /\ Range(s) \subseteq ids
           /\ \A i, j \in 1..Len(s) : i < j => s[i] < s[j]
           /\ \A i \in 1..Len(s) : s[i] <= s[Len(s)]
           /\ \A n \in ids : n <= s[Len(s)] => n \in Range(s)
<1> DEFINE count == IF Cardinality(ids) < BatchSize THEN Cardinality(ids) ELSE BatchSize
<1>1. Cardinality(ids) \in Nat /\ Cardinality(ids) # 0
  BY FS_CardinalityType, FS_EmptySet
<1>2. count \in Nat \ {0}
  BY <1>1, RecoveryConstants
<1>3. /\ s \in [1..count -> ids]
      /\ \A i, j \in 1..count : i < j => s[i] < s[j]
      /\ \A n \in ids \ Range(s) : \A i \in 1..count : s[i] < n
  BY DEF FirstIds
<1> HIDE DEF count
<1>4. s \in Seq(ids) /\ Len(s) = count
  BY <1>2, <1>3
<1>5. Range(s) \subseteq ids
  BY <1>3 DEF Range
<1>6. \A i \in 1..count : s[i] \in Nat
  BY <1>3
<1>7. \A i \in 1..count : s[i] <= s[count]
  BY <1>2, <1>3, <1>6
<1>8. ASSUME NEW n \in ids, n <= s[count], n \notin Range(s)
      PROVE  FALSE
  BY <1>2, <1>3, <1>6, <1>8
<1> QED
  BY <1>2, <1>3, <1>4, <1>5, <1>7, <1>8

LEMMA EntriesFacts ==
    ASSUME StreamInv, NEW ids \in Seq(1..Len(stream))
    PROVE  /\ Entries(ids) \in Seq([id : Nat, fields : Events \union {NoFields}])
           /\ Len(Entries(ids)) = Len(ids)
           /\ \A k \in 1..Len(ids) :
                 /\ Entries(ids)[k].id = ids[k]
                 /\ ids[k] <= trimmed => Entries(ids)[k].fields = NoFields
                 /\ ids[k] > trimmed => Entries(ids)[k].fields = stream[ids[k]]
<1>1. Len(ids) \in Nat /\ Len(stream) \in Nat
  BY LenProperties DEF StreamInv
<1>2. \A k \in 1..Len(ids) : ids[k] \in 1..Len(stream) /\ ids[k] \in Nat
  BY <1>1, ElementOfSeq
<1>3. \A n \in 1..Len(stream) : stream[n] \in Events
  BY ElementOfSeq DEF StreamInv
<1>4. Entries(ids) \in [1..Len(ids) -> [id : Nat, fields : Events \union {NoFields}]]
  BY <1>2, <1>3 DEF Entries
<1>5. /\ Entries(ids) \in Seq([id : Nat, fields : Events \union {NoFields}])
      /\ Len(Entries(ids)) = Len(ids)
  <2>1. ASSUME NEW S, NEW f \in [1..Len(ids) -> S]
        PROVE  f \in Seq(S) /\ Len(f) = Len(ids)
    BY <1>1
  <2> QED
    BY <1>4, <2>1, Zenon
<1>6. trimmed \in Nat
  BY <1>1 DEF StreamInv
<1>7. \A k \in 1..Len(ids) :
         Entries(ids)[k] = [id |-> ids[k],
                            fields |-> IF ids[k] <= trimmed THEN NoFields ELSE stream[ids[k]]]
  BY DEF Entries
<1>8. \A k \in 1..Len(ids) :
         /\ Entries(ids)[k].id = ids[k]
         /\ ids[k] <= trimmed => Entries(ids)[k].fields = NoFields
         /\ ids[k] > trimmed => Entries(ids)[k].fields = stream[ids[k]]
  <2> TAKE k \in 1..Len(ids)
  <2> DEFINE gone == ids[k] <= trimmed
  <2>1. ids[k] > trimmed => ~gone
    BY <1>2, <1>6
  <2>2. Entries(ids)[k] = [id |-> ids[k], fields |-> IF gone THEN NoFields ELSE stream[ids[k]]]
    BY <1>7, Zenon
  <2> HIDE DEF gone
  <2>3. /\ Entries(ids)[k].id = ids[k]
        /\ gone => Entries(ids)[k].fields = NoFields
        /\ ~gone => Entries(ids)[k].fields = stream[ids[k]]
    BY <2>2
  <2> QED
    BY <2>1, <2>3, Zenon DEF gone
<1> QED
  BY <1>5, <1>8

LEMMA ReadInbox ==
    ASSUME StreamInv, UNCHANGED <<stream, trimmed>>,
           NEW ids \in Seq(1..Len(stream)), Range(ids) \subseteq pel',
           \A i, j \in 1..Len(ids) : i < j => ids[i] < ids[j],
           inbox' = Entries(ids)
    PROVE  InboxInv'
<1>1. \A k \in 1..Len(ids) : ids[k] \in pel' /\ ids[k] \in Nat
  <2>1. \A k \in 1..Len(ids) : ids[k] \in 1..Len(stream)
    BY ElementOfSeq
  <2>2. \A k \in 1..Len(ids) : ids[k] \in Range(ids)
    BY LenProperties DEF Range
  <2> QED
    BY <2>1, <2>2
<1>2. \A n \in 1..Len(stream) : stream[n] \in Events
  BY ElementOfSeq DEF StreamInv
<1>3. \A k \in 1..Len(ids) : stream[ids[k]] \in Events
  BY <1>2, ElementOfSeq
<1>4. trimmed \in Nat
  BY LenProperties DEF StreamInv
<1> DEFINE read == Entries(ids)
<1>5. /\ read \in Seq([id : Nat, fields : Events \union {NoFields}])
      /\ Len(read) = Len(ids)
      /\ \A k \in 1..Len(ids) : /\ read[k].id = ids[k]
                                /\ ids[k] <= trimmed => read[k].fields = NoFields
                                /\ ids[k] > trimmed => read[k].fields = stream[ids[k]]
  BY EntriesFacts
<1> HIDE DEF read
<1>6. \A k \in 1..Len(read) :
         /\ read[k].id \in pel'
         /\ read[k].fields = NoFields => read[k].id <= trimmed
         /\ read[k].fields # NoFields => read[k].fields = stream[read[k].id]
  <2> TAKE k \in 1..Len(read)
  <2>1. ids[k] <= trimmed \/ ids[k] > trimmed
    BY <1>1, <1>4, <1>5
  <2> QED
    BY <1>1, <1>3, <1>5, <2>1, RecoveryConstants
<1>7. \A i, j \in 1..Len(read) : i < j => read[i].id < read[j].id
  BY <1>5
<1>8. inbox' = read
  BY DEF read
<1> QED
  BY <1>5, <1>6, <1>7, <1>8 DEF InboxInv

----------------------------------------------------------------------------
(* The recovery task: its steps.                                            *)

\* Steps of the others.
LEMMA RecoveryQuiet ==
    ASSUME RecoveryInv, UNCHANGED recoveryVars, SameCall(RecoveryWriter), Saved \subseteq Saved'
    PROVE  RecoveryInv'
<1>1. /\ stream' = stream /\ trimmed' = trimmed /\ delivered' = delivered
      /\ pel' = pel /\ markers' = markers
      /\ recovery' = recovery /\ inbox' = inbox /\ entry' = entry
  BY DEF recoveryVars, streamVars, taskVars
<1>2. StreamInv'
  BY <1>1 DEF RecoveryInv, StreamInv, MarkerSafety, AckSafety
<1>3. InboxInv'
  BY <1>1 DEF RecoveryInv, InboxInv
<1>4. EntryInv'
  BY <1>1 DEF RecoveryInv, EntryInv, SameCall
<1> QED
  BY <1>2, <1>3, <1>4 DEF RecoveryInv

LEMMA MarkersChange ==
    ASSUME RecoveryInv, UNCHANGED dbVars,
           UNCHANGED <<stream, trimmed, delivered, pel, taskVars>>,
           markers' \subseteq Events, markers' \subseteq Saved \union Skipped
    PROVE  RecoveryInv'
<1>1. Saved' = Saved /\ txn' = txn /\ recovery' = recovery /\ inbox' = inbox /\ entry' = entry
  BY DEF dbVars, taskVars, Saved, Range
<1>2. StreamInv'
  BY <1>1 DEF RecoveryInv, StreamInv, MarkerSafety, AckSafety
<1>3. InboxInv'
  BY <1>1 DEF RecoveryInv, InboxInv
<1>4. EntryInv'
  BY <1>1 DEF RecoveryInv, EntryInv
<1> QED
  BY <1>2, <1>3, <1>4 DEF RecoveryInv

LEMMA StreamAppendRecovery ==
    ASSUME RecoveryInv, NEW e \in Events, StreamAppend(e), UNCHANGED dbVars
    PROVE  RecoveryInv'
<1>0. Len(stream) \in Nat
  BY LenProperties DEF RecoveryInv, StreamInv
<1>1. /\ stream' \in Seq(Events) /\ Len(stream') = Len(stream) + 1
      /\ \A i \in 1..Len(stream) : stream'[i] = stream[i]
  BY AppendProperties DEF StreamAppend, RecoveryInv, StreamInv
<1>2. /\ Saved' = Saved /\ txn' = txn /\ recovery' = recovery /\ inbox' = inbox /\ entry' = entry
      /\ delivered' = delivered /\ pel' = pel /\ markers' = markers
  BY DEF StreamAppend, dbVars, taskVars, Saved, Range
<1>3. trimmed' \in trimmed..Len(stream')
  BY DEF StreamAppend
<1>4. /\ trimmed \in Nat /\ trimmed' \in Nat /\ trimmed <= trimmed' /\ trimmed' <= Len(stream')
      /\ delivered \in Nat /\ delivered <= Len(stream)
  BY <1>0, <1>1, <1>3 DEF RecoveryInv, StreamInv
<1>5. \A id \in pel : id \in 1..Len(stream)
  BY <1>0, <1>4 DEF RecoveryInv, StreamInv
<1>6. AckSafety'
  <2> SUFFICES ASSUME NEW id \in (1..delivered) \ pel
               PROVE  id <= trimmed' \/ stream'[id] \in Saved \union Unsavable
    BY <1>2 DEF AckSafety
  <2>1. id \in Nat /\ id \in 1..Len(stream)
    BY <1>0, <1>4
  <2>2. id <= trimmed \/ stream[id] \in Saved \union Unsavable
    BY DEF RecoveryInv, StreamInv, AckSafety
  <2> QED
    BY <1>1, <1>4, <2>1, <2>2
<1>7. StreamInv'
  <2>1. trimmed' \in 0..Len(stream') /\ delivered' \in 0..Len(stream')
    BY <1>0, <1>1, <1>2, <1>4
  <2> QED
    BY <1>1, <1>2, <1>6, <2>1 DEF RecoveryInv, StreamInv, MarkerSafety
<1>8. InboxInv'
  <2>1. \A i \in 1..Len(inbox) :
           /\ inbox[i].id \in pel'
           /\ inbox[i].fields = NoFields => inbox[i].id <= trimmed'
           /\ inbox[i].fields # NoFields => inbox[i].fields = stream'[inbox[i].id]
    <3> TAKE i \in 1..Len(inbox)
    <3>1. /\ inbox[i].id \in pel
          /\ inbox[i].fields = NoFields => inbox[i].id <= trimmed
          /\ inbox[i].fields # NoFields => inbox[i].fields = stream[inbox[i].id]
      BY DEF RecoveryInv, InboxInv
    <3>2. inbox[i].id \in 1..Len(stream) /\ inbox[i].id \in Nat
      BY <1>5, <3>1, <1>0
    <3> QED
      BY <1>1, <1>2, <1>4, <3>1, <3>2
  <2> QED
    BY <1>2, <2>1 DEF RecoveryInv, InboxInv
<1>9. EntryInv'
  BY <1>2 DEF RecoveryInv, EntryInv
<1> QED
  BY <1>7, <1>8, <1>9 DEF RecoveryInv

LEMMA RecoveryStops ==
    ASSUME DbTypeOK, RecoveryInv, NEW ws \in SUBSET Writers, RecoveryWriter \in ws,
           RecoveryCrash, AbortSaves(ws)
    PROVE  RecoveryInv'
<1>1. Saved' = Saved /\ txn'[RecoveryWriter].step = "idle"
  BY AbortTxn
<1>2. /\ stream' = stream /\ trimmed' = trimmed /\ delivered' = delivered
      /\ pel' = pel /\ markers' = markers
      /\ recovery' = "down" /\ inbox' = <<>> /\ entry' = "check"
  BY DEF RecoveryCrash, TaskDown, streamVars
<1>3. StreamInv'
  BY <1>1, <1>2 DEF RecoveryInv, StreamInv, MarkerSafety, AckSafety
<1>4. InboxInv'
  BY <1>2 DEF InboxInv
<1>5. EntryInv'
  BY <1>1, <1>2 DEF EntryInv
<1> QED
  BY <1>3, <1>4, <1>5 DEF RecoveryInv

\* The first entry is done: the others stay, and stay pending.
LEMMA TailInbox ==
    ASSUME InboxInv, inbox # <<>>, inbox' = Tail(inbox), UNCHANGED <<stream, trimmed>>,
           \A n \in pel : n \in pel' \/ n = Head(inbox).id
    PROVE  InboxInv'
<1> DEFINE read == Tail(inbox)
           Read == [id : Nat, fields : Events \union {NoFields}]
<1>1. /\ read \in Seq(Read) /\ Len(inbox) \in Nat \ {0} /\ Len(read) = Len(inbox) - 1
      /\ \A i \in 1..Len(read) : read[i] = inbox[i + 1]
      /\ Head(inbox) = inbox[1]
  BY HeadTailProperties, LenProperties, EmptySeq DEF InboxInv
<1> HIDE DEF read
<1>2. \A i \in 1..Len(read) : i + 1 \in 1..Len(inbox) /\ 1 \in 1..Len(inbox) /\ 1 < i + 1
  BY <1>1
<1>3. \A i \in 1..Len(inbox) : inbox[i].id \in Nat
  <2> TAKE i \in 1..Len(inbox)
  <2>1. inbox[i] \in Read
    BY ElementOfSeq DEF InboxInv
  <2> QED
    BY <2>1
<1>4. \A i \in 1..Len(read) : read[i].id \in pel'
  <2> TAKE i \in 1..Len(read)
  <2>1. read[i].id = inbox[i + 1].id /\ inbox[i + 1].id \in pel
    BY <1>1, <1>2 DEF InboxInv
  <2>2. inbox[1].id < inbox[i + 1].id
    BY <1>2 DEF InboxInv
  <2>3. inbox[1].id \in Nat /\ inbox[i + 1].id \in Nat
    BY <1>2, <1>3
  <2> QED
    BY <1>1, <2>1, <2>2, <2>3
<1>5. \A i \in 1..Len(read) :
         /\ read[i].fields = NoFields => read[i].id <= trimmed
         /\ read[i].fields # NoFields => read[i].fields = stream[read[i].id]
  BY <1>1, <1>2, ZenonT(60) DEF InboxInv
<1>6. ASSUME NEW i \in 1..Len(read), NEW j \in 1..Len(read), i < j
      PROVE  read[i].id < read[j].id
  <2>1. i + 1 \in 1..Len(inbox) /\ j + 1 \in 1..Len(inbox) /\ i + 1 < j + 1
    BY <1>2, <1>6
  <2>2. inbox[i + 1].id < inbox[j + 1].id
    BY <2>1 DEF InboxInv
  <2> QED
    BY <1>1, <2>2
<1>7. inbox' = read
  BY DEF read
<1> QED
  BY <1>1, <1>4, <1>5, <1>6, <1>7 DEF InboxInv

\* XACK of an entry that is done.
LEMMA AckStream ==
    ASSUME RecoveryInv, entry = "ack", XAck, Saved' = Saved,
           UNCHANGED <<stream, trimmed, delivered, markers>>, recovery' \in {recovery, "down"}
    PROVE  StreamInv'
<1>1. /\ Head(inbox) = inbox[1] /\ inbox[1].id \in pel
      /\ inbox[1].id <= trimmed \/ stream[inbox[1].id] \in Saved \union Unsavable
  BY HeadEntry DEF RecoveryInv, EntryInv
<1>2. pel' = pel \ {inbox[1].id}
  BY <1>1 DEF XAck
<1>3. AckSafety'
  BY <1>1, <1>2 DEF RecoveryInv, StreamInv, AckSafety
<1> QED
  BY <1>2, <1>3 DEF RecoveryInv, StreamInv, MarkerSafety

LEMMA FreshFacts ==
    ASSUME StreamInv
    PROVE  /\ Fresh \in SUBSET Nat /\ Fresh \subseteq 1..Len(stream) /\ IsFiniteSet(Fresh)
           /\ pel \in SUBSET Nat /\ pel \subseteq 1..Len(stream) /\ IsFiniteSet(pel)
<1>1. Len(stream) \in Nat
  BY LenProperties DEF StreamInv
<1>2. IsFiniteSet(1..Len(stream))
  BY <1>1, FS_Interval
<1>3. Fresh \subseteq 1..Len(stream) /\ pel \subseteq 1..Len(stream)
  BY <1>1 DEF StreamInv, Fresh
<1>4. IsFiniteSet(Fresh) /\ IsFiniteSet(pel)
  BY <1>2, <1>3, FS_Subset
<1>5. 1..Len(stream) \subseteq Nat
  BY <1>1
<1> QED
  BY <1>3, <1>4, <1>5

LEMMA ReadNewRecovery ==
    ASSUME RecoveryInv, ReadNew
    PROVE  RecoveryInv'
<1>1. PICK ids \in FirstIds(Fresh) :
         /\ inbox' = Entries(ids)
         /\ delivered' = ids[Len(ids)]
         /\ pel' = pel \union Range(ids)
  BY DEF ReadNew
<1>2. /\ Fresh \in SUBSET Nat /\ IsFiniteSet(Fresh) /\ Fresh # {}
      /\ Fresh \subseteq 1..Len(stream) /\ pel \subseteq 1..Len(stream)
  BY FreshFacts DEF RecoveryInv, ReadNew
<1>3. /\ ids \in Seq(Fresh) /\ Len(ids) \in Nat \ {0}
      /\ Range(ids) \subseteq Fresh
      /\ \A i, j \in 1..Len(ids) : i < j => ids[i] < ids[j]
      /\ \A i \in 1..Len(ids) : ids[i] <= ids[Len(ids)]
      /\ \A n \in Fresh : n <= ids[Len(ids)] => n \in Range(ids)
  BY <1>2, FirstIdsFacts
<1>4. ids \in Seq(1..Len(stream))
  <2>1. \A i \in 1..Len(ids) : ids[i] \in 1..Len(stream)
    BY <1>2, <1>3, ElementOfSeq
  <2> QED
    BY <1>3, <2>1
<1>5. delivered' \in Fresh
  BY <1>1, <1>3, ElementOfSeq
<1>6. /\ Len(stream) \in Nat /\ delivered \in Nat /\ trimmed \in Nat
      /\ delivered' \in Nat /\ delivered < delivered' /\ delivered' <= Len(stream)
  BY <1>2, <1>5, LenProperties DEF RecoveryInv, StreamInv, Fresh
<1>7. /\ Saved' = Saved /\ txn' = txn /\ stream' = stream /\ trimmed' = trimmed
      /\ markers' = markers /\ recovery' = recovery /\ entry' = entry /\ inbox = <<>>
  BY DEF ReadNew, dbVars, Saved, Range
<1>8. pel' \subseteq 1..delivered'
  <2>1. \A n \in Range(ids) : n \in 1..delivered'
    <3>1. \A i \in 1..Len(ids) : ids[i] \in Nat \ {0} /\ ids[i] <= delivered'
      BY <1>1, <1>2, <1>3, <1>4, <1>6, ElementOfSeq
    <3>2. \A n \in Range(ids) : \E i \in 1..Len(ids) : n = ids[i]
      BY <1>3 DEF Range
    <3> QED
      BY <1>6, <3>1, <3>2
  <2>2. \A n \in pel : n \in 1..delivered'
    BY <1>6 DEF RecoveryInv, StreamInv
  <2> QED
    BY <1>1, <2>1, <2>2
<1>9. AckSafety'
  <2> SUFFICES ASSUME NEW id \in (1..delivered') \ pel'
               PROVE  id <= trimmed \/ stream[id] \in Saved \union Unsavable
    BY <1>7 DEF AckSafety
  <2>1. CASE id <= delivered
    BY <1>1, <1>6, <2>1 DEF RecoveryInv, StreamInv, AckSafety
  <2>2. CASE id > delivered /\ id > trimmed
    <3>1. id \in Fresh /\ id <= ids[Len(ids)]
      BY <1>1, <1>6, <2>2 DEF Fresh
    <3> QED
      BY <1>1, <1>3, <3>1
  <2> QED
    BY <1>6, <2>1, <2>2
<1>10. StreamInv'
  BY <1>6, <1>7, <1>8, <1>9 DEF RecoveryInv, StreamInv, MarkerSafety
<1>11. InboxInv'
  BY <1>1, <1>3, <1>4, <1>7, ReadInbox DEF RecoveryInv
<1>12. entry = "check" /\ txn[RecoveryWriter].step = "idle"
  BY <1>7 DEF RecoveryInv, EntryInv
<1>13. EntryInv'
  BY <1>7, <1>12 DEF EntryInv
<1> QED
  BY <1>10, <1>11, <1>13 DEF RecoveryInv

LEMMA ReadPendingRecovery ==
    ASSUME RecoveryInv, ReadPending
    PROVE  RecoveryInv'
<1>1. PICK ids \in FirstIds(pel) : inbox' = Entries(ids)
  BY DEF ReadPending
<1>2. pel \in SUBSET Nat /\ IsFiniteSet(pel) /\ pel # {} /\ pel \subseteq 1..Len(stream)
  BY FreshFacts DEF RecoveryInv, ReadPending
<1>3. /\ ids \in Seq(pel) /\ Len(ids) \in Nat \ {0}
      /\ Range(ids) \subseteq pel
      /\ \A i, j \in 1..Len(ids) : i < j => ids[i] < ids[j]
  BY <1>2, FirstIdsFacts
<1>4. ids \in Seq(1..Len(stream))
  <2>1. \A i \in 1..Len(ids) : ids[i] \in 1..Len(stream)
    BY <1>2, <1>3, ElementOfSeq
  <2> QED
    BY <1>3, <2>1
<1>5. /\ Saved' = Saved /\ txn' = txn /\ stream' = stream /\ trimmed' = trimmed
      /\ delivered' = delivered /\ pel' = pel
      /\ markers' = markers /\ recovery' = recovery /\ entry' = entry /\ inbox = <<>>
  BY DEF ReadPending, streamVars, dbVars, Saved, Range
<1>6. StreamInv'
  BY <1>5 DEF RecoveryInv, StreamInv, MarkerSafety, AckSafety
<1>7. InboxInv'
  BY <1>1, <1>3, <1>4, <1>5, ReadInbox DEF RecoveryInv
<1>8. entry = "check" /\ txn[RecoveryWriter].step = "idle"
  BY <1>5 DEF RecoveryInv, EntryInv
<1>9. EntryInv'
  BY <1>5, <1>8 DEF EntryInv
<1> QED
  BY <1>6, <1>7, <1>9 DEF RecoveryInv

LEMMA EntryStepsRecovery ==
    ASSUME StoreInv, RecoveryInv, SkipPersisted \/ HandleEntry \/ EntryHandled
    PROVE  RecoveryInv'
<1> USE RecoveryConstants
<1>1. /\ stream' = stream /\ trimmed' = trimmed /\ delivered' = delivered /\ pel' = pel
      /\ markers' = markers /\ recovery' = recovery /\ inbox' = inbox
  BY DEF SkipPersisted, HandleEntry, EntryHandled, streamVars
<1>2. inbox # <<>>
  BY DEF SkipPersisted, HandleEntry, EntryHandled, RecoveryInv, EntryInv
<1>3. /\ Head(inbox) = inbox[1]
      /\ inbox[1].fields \in Events \union {NoFields}
  BY <1>2, HeadEntry DEF RecoveryInv
<1>4. DbTypeOK
  BY DEF StoreInv
<1>5. Saved' = Saved /\ EntryInv'
  <2>1. CASE SkipPersisted
    <3>1. Saved' = Saved /\ txn' = txn /\ entry' = "ack" /\ entry = "check"
      BY <2>1 DEF SkipPersisted, dbVars, Saved, Range
    <3>2. inbox[1].fields \in Saved \union Unsavable
      BY <1>3, <2>1 DEF SkipPersisted, RecoveryInv, StreamInv, MarkerSafety, Unsavable
    <3> QED
      BY <1>1, <1>2, <3>1, <3>2 DEF RecoveryInv, EntryInv
  <2>2. CASE HandleEntry /\ inbox[1].fields \in Malformed \union {NoFields}
    <3>1. UNCHANGED dbVars /\ entry' = "ack" /\ entry = "check"
      BY <1>3, <2>2 DEF HandleEntry
    <3>2. Saved' = Saved /\ txn' = txn
      BY <3>1 DEF dbVars, Saved, Range
    <3> QED
      BY <1>1, <1>2, <2>2, <3>1, <3>2 DEF RecoveryInv, EntryInv, Unsavable
  <2>3. CASE HandleEntry /\ inbox[1].fields \notin Malformed \union {NoFields}
    <3>1. SaveStart(RecoveryWriter, inbox[1].fields) /\ entry' = "handling"
      BY <1>3, <2>3 DEF HandleEntry
    <3>2. Saved' = Saved /\ txn'[RecoveryWriter].event = inbox[1].fields
      BY <1>3, <1>4, <2>3, <3>1, SaveStartTxn
    <3> QED
      BY <1>1, <1>2, <1>3, <2>3, <3>1, <3>2 DEF EntryInv
  <2>4. CASE EntryHandled
    <3>1. entry = "handling" /\ entry' = "ack" /\ SaveEnd(RecoveryWriter)
      BY <2>4 DEF EntryHandled
    <3>2. Saved' = Saved /\ txn'[RecoveryWriter].step = "idle"
      BY <1>4, <3>1, SaveEndTxn
    <3>3. inbox[1].fields \in Saved \union Skipped
      BY <2>4, <3>1, OutcomeSettles DEF EntryHandled, RecoveryInv, EntryInv
    <3> QED
      BY <1>1, <1>2, <3>1, <3>2, <3>3 DEF EntryInv, Unsavable
  <2> QED
    BY <2>1, <2>2, <2>3, <2>4
<1>6. StreamInv'
  BY <1>1, <1>5 DEF RecoveryInv, StreamInv, MarkerSafety, AckSafety
<1>7. InboxInv'
  BY <1>1 DEF RecoveryInv, InboxInv
<1> QED
  BY <1>5, <1>6, <1>7 DEF RecoveryInv

LEMMA EntryNotPersistedRecovery ==
    ASSUME DbTypeOK, RecoveryInv, EntryNotPersisted
    PROVE  RecoveryInv'
<1>1. /\ entry = "handling" /\ inbox # <<>> /\ inbox' = Tail(inbox) /\ entry' = "check"
      /\ SaveEnd(RecoveryWriter)
  BY DEF EntryNotPersisted, EntryDone, RecoveryInv, EntryInv
<1>2. Saved' = Saved /\ txn'[RecoveryWriter].step = "idle"
  BY <1>1, SaveEndTxn, RecoveryConstants
<1>3. /\ stream' = stream /\ trimmed' = trimmed /\ delivered' = delivered /\ pel' = pel
      /\ markers' = markers /\ recovery' = recovery
  BY DEF EntryNotPersisted, streamVars
<1>4. StreamInv'
  BY <1>2, <1>3 DEF RecoveryInv, StreamInv, MarkerSafety, AckSafety
<1>5. InboxInv'
  BY <1>1, <1>3, TailInbox DEF RecoveryInv
<1>6. EntryInv'
  BY <1>1, <1>2 DEF EntryInv
<1> QED
  BY <1>4, <1>5, <1>6 DEF RecoveryInv

LEMMA AckRecovery ==
    ASSUME RecoveryInv, Ack
    PROVE  RecoveryInv'
<1>1. /\ entry = "ack" /\ inbox # <<>> /\ inbox' = Tail(inbox) /\ entry' = "check"
      /\ stream' = stream /\ trimmed' = trimmed /\ delivered' = delivered
      /\ markers' = markers /\ recovery' = recovery /\ pel' = pel \ {Head(inbox).id}
  BY DEF Ack, XAck, EntryDone, RecoveryInv, EntryInv
<1>2. Saved' = Saved /\ txn' = txn /\ txn[RecoveryWriter].step = "idle"
  BY <1>1 DEF Ack, dbVars, Saved, Range, RecoveryInv, EntryInv
<1>3. StreamInv'
  BY <1>1, <1>2, AckStream DEF XAck
<1>4. InboxInv'
  BY <1>1, TailInbox DEF RecoveryInv
<1>5. EntryInv'
  BY <1>1, <1>2 DEF EntryInv
<1> QED
  BY <1>3, <1>4, <1>5 DEF RecoveryInv

LEMMA RedisErrorRecovery ==
    ASSUME RecoveryInv, RedisError
    PROVE  RecoveryInv'
<1>1. /\ stream' = stream /\ trimmed' = trimmed /\ delivered' = delivered /\ markers' = markers
      /\ recovery' = "down" /\ inbox' = <<>> /\ entry' = "check"
      /\ pel' = pel \/ (entry = "ack" /\ XAck)
  BY DEF RedisError, TaskDown
<1>2. Saved' = Saved /\ txn' = txn /\ txn[RecoveryWriter].step = "idle"
  BY DEF RedisError, dbVars, Saved, Range, RecoveryInv, EntryInv
<1>3. StreamInv'
  <2>1. CASE pel' = pel
    BY <1>1, <1>2, <2>1 DEF RecoveryInv, StreamInv, MarkerSafety, AckSafety
  <2>2. CASE entry = "ack" /\ XAck
    BY <1>1, <1>2, <2>2, AckStream
  <2> QED
    BY <1>1, <2>1, <2>2
<1>4. InboxInv'
  BY <1>1 DEF InboxInv
<1>5. EntryInv'
  BY <1>1, <1>2 DEF EntryInv
<1> QED
  BY <1>3, <1>4, <1>5 DEF RecoveryInv

LEMMA RecoveryStepRecovery ==
    ASSUME StoreInv, RecoveryInv, RecoveryStep
    PROVE  RecoveryInv'
<1>0. DbTypeOK
  BY DEF StoreInv
<1>1. CASE RecoveryStart \/ Drained
  <2>1. /\ Saved' = Saved /\ txn' = txn /\ inbox' = inbox /\ entry' = entry
        /\ stream' = stream /\ trimmed' = trimmed /\ delivered' = delivered /\ pel' = pel
        /\ markers' = markers /\ recovery' \in {"drain", "live"}
    BY <1>1 DEF RecoveryStart, Drained, streamVars, dbVars, Saved, Range
  <2>2. StreamInv'
    BY <2>1 DEF RecoveryInv, StreamInv, MarkerSafety, AckSafety
  <2>3. InboxInv'
    BY <2>1 DEF RecoveryInv, InboxInv
  <2>4. EntryInv'
    BY <2>1 DEF RecoveryInv, EntryInv
  <2> QED
    BY <2>2, <2>3, <2>4 DEF RecoveryInv
<1> QED
  BY <1>0, <1>1, ReadPendingRecovery, ReadNewRecovery, EntryStepsRecovery,
     EntryNotPersistedRecovery, AckRecovery, RedisErrorRecovery DEF RecoveryStep

----------------------------------------------------------------------------
(* The Kafka consumer on its own.                                           *)

\* A saved event is a message before the committed offset, or the one in work.
SavedTaken ==
    \A e \in Saved : \E k \in DOMAIN topic : k <= committed + 1 /\ topic[k] = e

KafkaAlone == StoreInv /\ KafkaInv /\ SavedTaken

\* Alone, the consumer is a writer of SaveAccessEvent.
LEMMA KafkaNextDb ==
    ASSUME KafkaAlone, KafkaNext
    PROVE  DbNext \/ UNCHANGED dbVars
<1> USE KafkaConstants
<1>1. ASSUME NEW e \in Events, Handle(e)
      PROVE  DbNext \/ UNCHANGED dbVars
  BY <1>1 DEF Handle, DbNext
<1>2. CASE Fetch
  <2>1. topic[position + 1] \in Events
    BY <1>2, ElementOfSeq DEF Fetch, KafkaAlone, KafkaInv
  <2> QED
    BY <1>1, <1>2, <2>1 DEF Fetch
<1>3. CASE RetryMessage
  BY <1>1, <1>3, TakenIsEvent DEF RetryMessage, KafkaAlone
<1>4. CASE Handled \/ NotPersisted
  BY <1>4 DEF Handled, NotPersisted, DbNext
<1>5. CASE SaveStep(KafkaWriter)
  BY <1>5 DEF DbNext
<1>6. CASE AbortSaves({KafkaWriter})
  <2>1. txn[KafkaWriter].step \in TxnSteps /\ DOMAIN txn = Writers
    BY DEF KafkaAlone, StoreInv, DbTypeOK
  <2>2. CASE txn[KafkaWriter].step = "idle"
    <3>1. txn' = txn
      BY <1>6, <2>2 DEF AbortSaves, KafkaAlone, StoreInv, DbTypeOK
    <3> QED
      BY <1>6, <3>1 DEF AbortSaves, dbVars
  <2>3. CASE txn[KafkaWriter].step \in Running
    BY <1>6, <2>3 DEF DbNext
  <2>4. CASE txn[KafkaWriter].step \in Outcomes
    <3>1. txn' = [txn EXCEPT ![KafkaWriter].step = "idle"]
      BY <1>6 DEF AbortSaves, KafkaAlone, StoreInv, DbTypeOK
    <3>2. SaveEnd(KafkaWriter)
      BY <1>6, <2>4, <3>1 DEF AbortSaves, SaveEnd, Step
    <3> QED
      BY <3>2 DEF DbNext
  <2> QED
    BY <2>1, <2>2, <2>3, <2>4 DEF TxnSteps
<1> QED
  BY <1>2, <1>3, <1>4, <1>5, <1>6 DEF KafkaNext, ConsumerStep, ConsumerStart, CommitOffset,
     KafkaError, MarkPersisted

LEMMA KafkaNextKafka ==
    ASSUME KafkaAlone, KafkaNext
    PROVE  KafkaInv'
<1> USE KafkaConstants DEF KafkaAlone
<1>0. DbTypeOK
  BY DEF StoreInv
<1>1. CASE KafkaCrash /\ AbortSaves({KafkaWriter})
  BY <1>0, <1>1, KafkaStops
<1>2. CASE SaveStep(KafkaWriter) /\ UNCHANGED kafkaVars
  BY <1>0, <1>2, SaveStepTxn, SavedGrows, KafkaQuiet
<1> QED
  BY <1>1, <1>2, ProduceKafka, ConsumerStepKafka, MarkPersistedKafka DEF KafkaNext

LEMMA KafkaNextTaken ==
    ASSUME KafkaAlone, KafkaNext
    PROVE  SavedTaken'
<1> USE KafkaConstants DEF KafkaAlone
<1>0. /\ DbTypeOK /\ topic \in Seq(Events) /\ DOMAIN topic = 1..Len(topic)
      /\ Len(topic) \in Nat /\ committed \in Nat /\ position \in Nat
  BY LenProperties DEF StoreInv, KafkaInv
<1>1. ASSUME Saved' = Saved, DOMAIN topic \subseteq DOMAIN topic',
             \A k \in DOMAIN topic : topic'[k] = topic[k],
             committed' \in {committed, position}, consumer = "commit" \/ committed' = committed
      PROVE  SavedTaken'
  <2>1. committed' \in Nat /\ committed <= committed'
    BY <1>0, <1>1 DEF KafkaInv
  <2> SUFFICES ASSUME NEW e \in Saved
               PROVE  \E k \in DOMAIN topic' : k <= committed' + 1 /\ topic'[k] = e
    BY <1>1 DEF SavedTaken
  <2>2. PICK k \in DOMAIN topic : k <= committed + 1 /\ topic[k] = e
    BY DEF SavedTaken
  <2>3. k \in DOMAIN topic' /\ k <= committed' + 1 /\ topic'[k] = e
    BY <1>0, <1>1, <2>1, <2>2
  <2> QED
    BY <2>3
<1>2. ASSUME NEW e \in Events, Produce(e), UNCHANGED dbVars
      PROVE  SavedTaken'
  <2>1. Saved' = Saved /\ committed' = committed /\ topic' = Append(topic, e)
    BY <1>2, DbUnchanged DEF Produce
  <2>2. DOMAIN topic \subseteq DOMAIN topic' /\ \A k \in DOMAIN topic : topic'[k] = topic[k]
    BY <1>0, <2>1, AppendProperties
  <2> QED
    BY <1>1, <2>1, <2>2
<1>3. CASE ConsumerStep
  <2>1. Saved' = Saved
    BY <1>3 DEF ConsumerStep, ConsumerStart, Fetch, Handled, NotPersisted, RetryMessage,
                CommitOffset, KafkaError, Handle, SaveStart, SaveEnd, dbVars, Saved, Range
  <2>2. /\ topic' = topic /\ committed' \in {committed, position}
        /\ consumer = "commit" \/ committed' = committed
    BY <1>3 DEF ConsumerStep, ConsumerStart, Fetch, Handled, NotPersisted, RetryMessage,
                CommitOffset, KafkaError
  <2> QED
    BY <1>1, <2>1, <2>2
<1>4. CASE MarkPersisted
  <2>1. Saved' = Saved /\ topic' = topic /\ committed' = committed
    BY <1>4, DbUnchanged DEF MarkPersisted
  <2> QED
    BY <1>1, <2>1
<1>5. CASE KafkaCrash /\ AbortSaves({KafkaWriter})
  <2>1. Saved' = Saved /\ topic' = topic /\ committed' = committed
    BY <1>5 DEF KafkaCrash, AbortSaves, Saved, Range
  <2> QED
    BY <1>1, <2>1
<1>6. CASE SaveStep(KafkaWriter) /\ UNCHANGED kafkaVars
  <2>1. topic' = topic /\ committed' = committed
    BY <1>6 DEF kafkaVars
  <2>2. CASE rows' = rows
    <3>1. Saved' = Saved
      BY <2>2 DEF Saved, Range
    <3> QED
      BY <1>1, <2>1, <3>1
  <2>3. CASE rows' = Append(rows, txn[KafkaWriter].event) /\ CommitRows(KafkaWriter)
    <3>1. rows \in Seq(Events) /\ txn[KafkaWriter].event \in Events
      BY <1>0 DEF DbTypeOK
    <3>2. Saved' = Saved \union {txn[KafkaWriter].event}
      BY <2>3, <3>1, RangeAppend DEF Saved
    <3>3. consumer = "handling"
      BY <2>3 DEF CommitRows, KafkaInv
    <3>4. /\ txn[KafkaWriter].event = topic[position] /\ position \in DOMAIN topic
          /\ position <= committed + 1
      BY <1>0, <3>3, TakenIsEvent DEF KafkaInv
    <3> QED
      BY <2>1, <3>2, <3>4 DEF SavedTaken
  <2> QED
    BY <1>0, <1>6, <2>2, <2>3, SaveStepTxn
<1> QED
  BY <1>2, <1>3, <1>4, <1>5, <1>6 DEF KafkaNext

LEMMA KafkaAloneInvariant == KafkaSpec => []KafkaAlone
<1>1. ConsumerInit => KafkaAlone
  <2> SUFFICES ASSUME ConsumerInit PROVE KafkaAlone
    OBVIOUS
  <2>1. StoreInv
    BY StoreInvInit DEF ConsumerInit
  <2>2. Saved = {} /\ \A w \in Writers : txn[w].step = "idle"
    BY DEF ConsumerInit, DbInit, Saved, Range
  <2>3. KafkaInv
    BY <2>2, KafkaConstants DEF ConsumerInit, KafkaInit, KafkaInv, ConsumerSteps, OffsetSafety
  <2> QED
    BY <2>1, <2>2, <2>3 DEF KafkaAlone, SavedTaken
<1>2. KafkaAlone /\ [KafkaNext]_<<dbVars, kafkaVars>> => KafkaAlone'
  <2> SUFFICES ASSUME KafkaAlone, [KafkaNext]_<<dbVars, kafkaVars>> PROVE KafkaAlone'
    OBVIOUS
  <2>1. CASE KafkaNext
    <3>1. DbStep \/ UNCHANGED dbVars
      BY <2>1, KafkaNextDb DEF DbNext, DbStep
    <3>2. StoreInv'
      BY <3>1, StoreInvStep DEF KafkaAlone
    <3> QED
      BY <2>1, <3>2, KafkaNextKafka, KafkaNextTaken DEF KafkaAlone
  <2>2. CASE UNCHANGED <<dbVars, kafkaVars>>
    <3>1. StoreInv'
      BY <2>2, StoreInvStep DEF KafkaAlone
    <3>2. Saved' = Saved /\ SameCall(KafkaWriter)
      BY <2>2, DbUnchanged, KafkaConstants
    <3>3. KafkaInv'
      BY <2>2, <3>2, KafkaQuiet DEF KafkaAlone
    <3>4. SavedTaken'
      BY <2>2, <3>2 DEF kafkaVars, KafkaAlone, SavedTaken
    <3> QED
      BY <3>1, <3>3, <3>4 DEF KafkaAlone
  <2> QED
    BY <2>1, <2>2
<1> QED
  BY <1>1, <1>2, PTL DEF KafkaSpec

\* The topic, the offsets and the tables keep their types: the task never reads
\* or commits past the end of the partition.
THEOREM KafkaTypeCorrect == KafkaSpec => []KafkaTypeOK
<1>1. KafkaAlone => KafkaTypeOK
  BY DEF KafkaAlone, StoreInv, KafkaInv, KafkaTypeOK
<1> QED
  BY <1>1, KafkaAloneInvariant, PTL

\* A message is never saved while an earlier one is not (access_events.py:124-147):
\* what is saved lies before the committed offset or is the message in work.
THEOREM MessagesSavedInOrder == KafkaSpec => []NoOvertaking
<1>1. KafkaAlone => NoOvertaking
  <2> SUFFICES ASSUME KafkaAlone, NEW i \in DOMAIN topic, NEW j \in DOMAIN topic,
                      i < j, topic[j] \in Saved
               PROVE  \/ topic[i] \in Saved \union Unsavable
                      \/ \E k \in 1..i : topic[k] = topic[j]
    BY DEF NoOvertaking
  <2>1. DOMAIN topic = 1..Len(topic) /\ Len(topic) \in Nat /\ committed \in Nat
    BY LenProperties DEF KafkaAlone, KafkaInv
  <2>2. PICK k \in DOMAIN topic : k <= committed + 1 /\ topic[k] = topic[j]
    BY DEF KafkaAlone, SavedTaken
  <2>3. CASE k <= i
    BY <2>1, <2>2, <2>3
  <2>4. CASE i < k
    <3>1. i \in 1..committed
      BY <2>1, <2>2, <2>4
    <3> QED
      BY <3>1 DEF KafkaAlone, KafkaInv, OffsetSafety
  <2> QED
    BY <2>1, <2>3, <2>4
<1> QED
  BY <1>1, KafkaAloneInvariant, PTL

\* The consumer only ever does to the database what a writer of SaveAccessEvent
\* does: what is proved of DbSpec holds of it, OneRowPerRequest and OutcomeTrue with it.
THEOREM ConsumerIsWriter == KafkaSpec => DbSpec
<1>1. ConsumerInit => DbInit
  BY DEF ConsumerInit
<1>2. KafkaAlone /\ [KafkaNext]_<<dbVars, kafkaVars>> => [DbNext]_dbVars
  BY KafkaNextDb
<1> QED
  BY <1>1, <1>2, KafkaAloneInvariant, PTL DEF KafkaSpec, DbSpec

----------------------------------------------------------------------------
(* The Redis recovery consumer on its own.                                  *)

RecoveryAlone == StoreInv /\ RecoveryInv

LEMMA RecoveryAloneStep ==
    ASSUME RecoveryAlone, [RecoveryNext]_<<dbVars, recoveryVars>>
    PROVE  RecoveryAlone'
<1> USE RecoveryConstants DEF RecoveryAlone
<1>0. DbTypeOK
  BY DEF StoreInv
<1>1. CASE UNCHANGED <<dbVars, recoveryVars>>
  BY <1>1, DbUnchanged, RecoveryQuiet, StoreInvStep
<1>2. ASSUME NEW e \in Events, StreamAppend(e), UNCHANGED dbVars
      PROVE  RecoveryAlone'
  BY <1>2, StreamAppendRecovery, StoreInvStep
<1>3. ASSUME NEW e \in Events, MarkerExpires(e), UNCHANGED dbVars
      PROVE  RecoveryAlone'
  BY <1>3, MarkersChange, StoreInvStep DEF MarkerExpires, RecoveryInv, StreamInv, MarkerSafety
<1>4. ASSUME NEW e \in Events, e \in Saved \union Skipped, SetMarker(e), UNCHANGED dbVars
      PROVE  RecoveryAlone'
  BY <1>4, MarkersChange, StoreInvStep DEF SetMarker, RecoveryInv, StreamInv, MarkerSafety
<1>5. CASE RecoveryStep
  <2>1. DbStep \/ UNCHANGED dbVars
    BY <1>5, RecoveryStepDb DEF RecoveryInv
  <2> QED
    BY <1>5, <2>1, RecoveryStepRecovery, StoreInvStep
<1>6. CASE RecoveryCrash /\ AbortSaves({RecoveryWriter})
  <2>1. DbStep
    BY <1>6 DEF DbStep
  <2> QED
    BY <1>0, <1>6, <2>1, RecoveryStops, StoreInvStep
<1>7. CASE SaveStep(RecoveryWriter) /\ UNCHANGED recoveryVars
  <2>1. DbStep
    BY <1>7 DEF DbStep
  <2> QED
    BY <1>0, <1>7, <2>1, SaveStepTxn, SavedGrows, RecoveryQuiet, StoreInvStep
<1> QED
  BY <1>1, <1>2, <1>3, <1>4, <1>5, <1>6, <1>7 DEF RecoveryNext

LEMMA RecoveryAloneInvariant == RecoverySpec => []RecoveryAlone
<1>1. TaskInit => RecoveryAlone
  <2> SUFFICES ASSUME TaskInit PROVE RecoveryAlone
    OBVIOUS
  <2>1. StoreInv
    BY StoreInvInit DEF TaskInit
  <2>2. \A w \in Writers : txn[w].step = "idle"
    BY DEF TaskInit, DbInit
  <2>3. StreamInv
    BY DEF TaskInit, RecoveryInit, StreamInv, MarkerSafety, AckSafety
  <2>4. InboxInv
    BY DEF TaskInit, RecoveryInit, InboxInv
  <2>5. EntryInv
    BY <2>2, RecoveryConstants DEF TaskInit, RecoveryInit, EntryInv
  <2> QED
    BY <2>1, <2>3, <2>4, <2>5 DEF RecoveryAlone, RecoveryInv
<1> QED
  BY <1>1, RecoveryAloneStep, PTL DEF RecoverySpec

LEMMA RecoveryTypes ==
    ASSUME RecoveryAlone
    PROVE  RecoveryTypeOK
<1>1. DOMAIN inbox = 1..Len(inbox)
  BY LenProperties DEF RecoveryAlone, RecoveryInv, InboxInv
<1>2. \A k \in DOMAIN inbox : /\ inbox[k].id \in pel
                              /\ inbox[k].fields \in {stream[inbox[k].id], NoFields}
  BY <1>1 DEF RecoveryAlone, RecoveryInv, InboxInv
<1> QED
  BY <1>2 DEF RecoveryAlone, StoreInv, RecoveryInv, StreamInv, EntryInv, RecoveryTypeOK

\* What the task has in memory is pending in Redis, so that no crash makes Redis
\* forget it (redis_recovery.py:86-128), however the entries were read.
THEOREM RecoveryTypeCorrect == RecoverySpec => []RecoveryTypeOK
<1> QED
  BY RecoveryTypes, RecoveryAloneInvariant, PTL

\* The recovery consumer alone acknowledges only what is saved, is not to be saved
\* or is gone from the stream, whatever set the markers it trusts
\* (redis_recovery.py:130-155).
THEOREM RecoveryAcksSafely == RecoverySpec => []AckSafety
<1>1. RecoveryAlone => AckSafety
  BY DEF RecoveryAlone, RecoveryInv, StreamInv
<1> QED
  BY <1>1, RecoveryAloneInvariant, PTL

----------------------------------------------------------------------------
(* The two tasks in one process.                                            *)

PipelineInv == StoreInv /\ KafkaInv /\ RecoveryInv

\* A step of the process is a step of its writers.
LEMMA StoreInvKept ==
    ASSUME PipelineInv, PipelineNext \/ UNCHANGED pipelineVars
    PROVE  StoreInv'
<1>1. DbStep \/ UNCHANGED dbVars
  <2>1. CASE UNCHANGED pipelineVars
    BY <2>1 DEF pipelineVars
  <2>2. CASE ConsumerStep
    BY <2>2, ConsumerStepDb DEF PipelineInv
  <2>3. CASE RecoveryStep
    BY <2>3, RecoveryStepDb DEF PipelineInv, RecoveryInv
  <2>4. CASE MarkSaved
    BY <2>4 DEF MarkSaved, MarkPersisted
  <2>5. CASE SaveStep(KafkaWriter) \/ SaveStep(RecoveryWriter)
    BY <2>5, KafkaConstants, RecoveryConstants DEF DbStep
  <2>6. CASE Restart
    <3>1. {KafkaWriter, RecoveryWriter} \in SUBSET Writers
      BY KafkaConstants, RecoveryConstants
    <3> QED
      BY <2>6, <3>1 DEF Restart, DbStep
  <2> QED
    BY <2>1, <2>2, <2>3, <2>4, <2>5, <2>6 DEF PipelineNext
<1> QED
  BY <1>1, StoreInvStep DEF PipelineInv

\* A step of one task leaves the call of the other alone.
LEMMA RecoveryStepCalls ==
    ASSUME TwoWriters, DbTypeOK, InboxInv, RecoveryStep
    PROVE  Saved' = Saved /\ SameCall(KafkaWriter)
<1> USE KafkaConstants, RecoveryConstants DEF TwoWriters
<1>1. CASE UNCHANGED dbVars
  BY <1>1, DbUnchanged
<1>2. CASE SaveEnd(RecoveryWriter)
  BY <1>2, SaveEndTxn
<1>3. CASE HandleEntry
  <2>1. Head(inbox).fields \in Events \union {NoFields}
    BY <1>3, HeadEntry DEF HandleEntry
  <2>2. UNCHANGED dbVars \/ SaveStart(RecoveryWriter, Head(inbox).fields)
    BY <1>3 DEF HandleEntry
  <2>3. UNCHANGED dbVars \/ Head(inbox).fields \in Events
    BY <1>3, <2>1 DEF HandleEntry
  <2> QED
    BY <1>1, <2>2, <2>3, SaveStartTxn
<1>4. UNCHANGED dbVars \/ SaveEnd(RecoveryWriter) \/ HandleEntry
  BY DEF RecoveryStep, RecoveryStart, ReadPending, Drained, ReadNew, SkipPersisted,
         EntryHandled, EntryNotPersisted, Ack, RedisError
<1> QED
  BY <1>1, <1>2, <1>3, <1>4

LEMMA ConsumerStepCalls ==
    ASSUME TwoWriters, DbTypeOK, KafkaInv, ConsumerStep
    PROVE  Saved' = Saved /\ SameCall(RecoveryWriter)
<1> USE KafkaConstants, RecoveryConstants DEF TwoWriters
<1>1. CASE UNCHANGED dbVars
  BY <1>1, DbUnchanged
<1>2. CASE SaveEnd(KafkaWriter)
  BY <1>2, SaveEndTxn
<1>3. ASSUME NEW e \in Events, Handle(e)
      PROVE  Saved' = Saved /\ SameCall(RecoveryWriter)
  BY <1>1, <1>3, SaveStartTxn DEF Handle
<1>4. CASE Fetch
  <2>1. topic[position + 1] \in Events
    BY <1>4, ElementOfSeq DEF Fetch, KafkaInv
  <2> QED
    BY <1>3, <1>4, <2>1 DEF Fetch
<1>5. CASE RetryMessage
  BY <1>3, <1>5, TakenIsEvent DEF RetryMessage
<1>6. UNCHANGED dbVars \/ SaveEnd(KafkaWriter) \/ Fetch \/ RetryMessage
  BY DEF ConsumerStep, ConsumerStart, Handled, NotPersisted, CommitOffset, KafkaError
<1> QED
  BY <1>1, <1>2, <1>4, <1>5, <1>6

LEMMA RestartKafka ==
    ASSUME DbTypeOK, KafkaInv, Restart
    PROVE  KafkaInv'
<1>1. {KafkaWriter, RecoveryWriter} \in SUBSET Writers
  BY KafkaConstants, RecoveryConstants
<1> QED
  BY <1>1, KafkaStops DEF Restart

LEMMA KafkaInvKept ==
    ASSUME TwoWriters, PipelineInv, PipelineNext \/ UNCHANGED pipelineVars
    PROVE  KafkaInv'
<1> USE KafkaConstants, RecoveryConstants
<1>0. DbTypeOK /\ StoreInv /\ KafkaInv /\ InboxInv
  BY DEF PipelineInv, StoreInv, RecoveryInv
<1>1. CASE UNCHANGED <<dbVars, kafkaVars>>
  BY <1>0, <1>1, DbUnchanged, KafkaQuiet
<1>2. ASSUME NEW e \in Events, Produce(e), UNCHANGED dbVars
      PROVE  KafkaInv'
  BY <1>0, <1>2, ProduceKafka
<1>3. CASE ConsumerStep
  BY <1>0, <1>3, ConsumerStepKafka
<1>4. CASE MarkSaved
  BY <1>0, <1>4, MarkPersistedKafka DEF MarkSaved
<1>5. CASE RecoveryStep /\ UNCHANGED kafkaVars
  BY <1>0, <1>5, RecoveryStepCalls, KafkaQuiet
<1>6. ASSUME NEW w \in Writers, SaveStep(w), UNCHANGED kafkaVars
      PROVE  KafkaInv'
  BY <1>0, <1>6, SaveStepTxn, SavedGrows, KafkaQuiet
<1>7. CASE Restart
  BY <1>0, <1>7, RestartKafka
<1>8. CASE UNCHANGED pipelineVars
  BY <1>1, <1>8 DEF pipelineVars
<1> QED
  BY <1>1, <1>2, <1>3, <1>4, <1>5, <1>6, <1>7, <1>8 DEF PipelineNext

LEMMA MarkSavedRecovery ==
    ASSUME KafkaInv, RecoveryInv, MarkSaved
    PROVE  RecoveryInv'
<1>1. UNCHANGED dbVars /\ consumer = "mark"
  BY DEF MarkSaved, MarkPersisted
<1>2. CASE UNCHANGED recoveryVars
  BY <1>1, <1>2, DbUnchanged, RecoveryQuiet, RecoveryConstants
<1>3. CASE SetMarker(Message)
  <2>1. Message \in Events /\ Message \in Saved \union Skipped
    BY <1>1, TakenIsEvent DEF KafkaInv
  <2> QED
    BY <1>1, <1>3, <2>1, MarkersChange DEF SetMarker, RecoveryInv, StreamInv, MarkerSafety
<1> QED
  BY <1>2, <1>3 DEF MarkSaved

LEMMA RestartRecovery ==
    ASSUME DbTypeOK, RecoveryInv, Restart
    PROVE  RecoveryInv'
<1>1. {KafkaWriter, RecoveryWriter} \in SUBSET Writers
  BY KafkaConstants, RecoveryConstants
<1> QED
  BY <1>1, RecoveryStops DEF Restart

LEMMA RecoveryInvKept ==
    ASSUME TwoWriters, PipelineInv, PipelineNext \/ UNCHANGED pipelineVars
    PROVE  RecoveryInv'
<1> USE KafkaConstants, RecoveryConstants
<1>0. DbTypeOK /\ StoreInv /\ KafkaInv /\ RecoveryInv
  BY DEF PipelineInv, StoreInv
<1>1. CASE UNCHANGED <<dbVars, recoveryVars>>
  BY <1>0, <1>1, DbUnchanged, RecoveryQuiet
<1>2. ASSUME NEW e \in Events, StreamAppend(e), UNCHANGED dbVars
      PROVE  RecoveryInv'
  BY <1>0, <1>2, StreamAppendRecovery
<1>3. ASSUME NEW e \in Events, MarkerExpires(e), UNCHANGED dbVars
      PROVE  RecoveryInv'
  BY <1>0, <1>3, MarkersChange DEF MarkerExpires, RecoveryInv, StreamInv, MarkerSafety
<1>4. CASE ConsumerStep /\ UNCHANGED recoveryVars
  BY <1>0, <1>4, ConsumerStepCalls, RecoveryQuiet
<1>5. CASE MarkSaved
  BY <1>0, <1>5, MarkSavedRecovery
<1>6. CASE RecoveryStep
  BY <1>0, <1>6, RecoveryStepRecovery
<1>7. ASSUME NEW w \in Writers, SaveStep(w), UNCHANGED recoveryVars
      PROVE  RecoveryInv'
  BY <1>0, <1>7, SaveStepTxn, SavedGrows, RecoveryQuiet
<1>8. CASE Restart
  BY <1>0, <1>8, RestartRecovery
<1>9. CASE UNCHANGED pipelineVars
  BY <1>1, <1>9 DEF pipelineVars
<1> QED
  BY <1>1, <1>2, <1>3, <1>4, <1>5, <1>6, <1>7, <1>8, <1>9 DEF PipelineNext

----------------------------------------------------------------------------
(* The invariant and what follows from it.                                  *)

LEMMA PipelineInvInit ==
    ASSUME PipelineInit
    PROVE  PipelineInv
<1>1. StoreInv
  BY StoreInvInit DEF PipelineInit
<1>2. Saved = {} /\ \A w \in Writers : txn[w].step = "idle"
  BY DEF PipelineInit, DbInit, Saved, Range
<1>3. KafkaInv
  BY <1>2, KafkaConstants DEF PipelineInit, KafkaInit, KafkaInv, ConsumerSteps, OffsetSafety
<1>4. StreamInv
  BY DEF PipelineInit, RecoveryInit, StreamInv, MarkerSafety, AckSafety
<1>5. InboxInv
  BY DEF PipelineInit, RecoveryInit, InboxInv
<1>6. EntryInv
  BY <1>2, RecoveryConstants DEF PipelineInit, RecoveryInit, EntryInv
<1> QED
  BY <1>1, <1>3, <1>4, <1>5, <1>6 DEF PipelineInv, RecoveryInv

LEMMA PipelineInvariant ==
    ASSUME TwoWriters
    PROVE  PipelineSpec => []PipelineInv
<1>1. PipelineInit => PipelineInv
  BY PipelineInvInit
<1>2. PipelineInv /\ [PipelineNext]_pipelineVars => PipelineInv'
  BY StoreInvKept, KafkaInvKept, RecoveryInvKept DEF PipelineInv
<1> QED
  BY <1>1, <1>2, PTL DEF PipelineSpec

\* The tables, both channels and both tasks have their types; what the recovery
\* task works on is pending.
THEOREM TypesAreKept ==
    ASSUME TwoWriters
    PROVE  PipelineSpec => [](KafkaTypeOK /\ RecoveryTypeOK)
<1>1. PipelineInv => KafkaTypeOK
  BY DEF PipelineInv, StoreInv, KafkaInv, KafkaTypeOK
<1>2. PipelineInv => RecoveryTypeOK
  <2> SUFFICES ASSUME PipelineInv PROVE RecoveryTypeOK
    OBVIOUS
  <2>1. DOMAIN inbox = 1..Len(inbox)
    BY LenProperties DEF PipelineInv, RecoveryInv, InboxInv
  <2>2. \A k \in DOMAIN inbox : /\ inbox[k].id \in pel
                                /\ inbox[k].fields \in {stream[inbox[k].id], NoFields}
    BY <2>1 DEF PipelineInv, RecoveryInv, InboxInv
  <2> QED
    BY <2>2 DEF PipelineInv, StoreInv, RecoveryInv, StreamInv, EntryInv, RecoveryTypeOK
<1> QED
  BY <1>1, <1>2, PipelineInvariant, PTL

\* Whatever fails or restarts, in Kafka, Redis or PostgreSQL: no message before
\* the committed offset is lost (access_events.py:114-118).
THEOREM OffsetIsSafe ==
    ASSUME TwoWriters
    PROVE  PipelineSpec => []OffsetSafety
<1>1. PipelineInv => OffsetSafety
  BY DEF PipelineInv, KafkaInv
<1> QED
  BY <1>1, PipelineInvariant, PTL

\* An entry the recovery consumer has acknowledged is saved, is not to be saved,
\* or has been trimmed (redis_recovery.py:130-141).
THEOREM AckIsSafe ==
    ASSUME TwoWriters
    PROVE  PipelineSpec => []AckSafety
<1>1. PipelineInv => AckSafety
  BY DEF PipelineInv, RecoveryInv, StreamInv
<1> QED
  BY <1>1, PipelineInvariant, PTL

\* The recovery consumer may skip a marked event (redis_recovery.py:157-192).
THEOREM MarkersAreSafe ==
    ASSUME TwoWriters
    PROVE  PipelineSpec => []MarkerSafety
<1>1. PipelineInv => MarkerSafety
  BY DEF PipelineInv, RecoveryInv, StreamInv
<1> QED
  BY <1>1, PipelineInvariant, PTL

\* Two consumers, redeliveries and restarts store no event twice.
THEOREM EventsStoredOnce ==
    ASSUME TwoWriters
    PROVE  PipelineSpec => []OneRowPerRequest
<1>1. PipelineInv => OneRowPerRequest
  BY DEF PipelineInv, StoreInv
<1> QED
  BY <1>1, PipelineInvariant, PTL

\* Two consumers and restarts leave in each column of an employee row what a
\* saved event of the employee says.
THEOREM ColumnsComeFromEvents ==
    ASSUME TwoWriters
    PROVE  PipelineSpec => []EmployeeColumnsSaved
<1>1. PipelineInv => EmployeeColumnsSaved
  BY DEF PipelineInv, StoreInv
<1> QED
  BY <1>1, PipelineInvariant, PTL

----------------------------------------------------------------------------
(* The process implements EventStore.                                       *)

LEMMA StoreInitially ==
    ASSUME PipelineInit
    PROVE  Store!Init
<1>1. Range(<<>>) = {}
  BY DEF Range
<1>2. /\ topic = <<>> /\ committed = 0 /\ stream = <<>> /\ trimmed = 0 /\ delivered = 0
      /\ rows = <<>>
  BY DEF PipelineInit, KafkaInit, RecoveryInit, DbInit
<1>3. Offered = [c \in Channels |-> {}]
  BY <1>1, <1>2 DEF Offered
<1>4. Expired = [c \in Channels |-> {}]
  BY <1>2 DEF Expired
<1>5. Settled = [c \in Channels |-> {}]
  BY <1>2 DEF Settled
<1> QED
  BY <1>2, <1>3, <1>4, <1>5 DEF Store!Init

LEMMA StoreStutters ==
    ASSUME UNCHANGED <<rows, topic, committed, stream, trimmed, delivered, pel>>
    PROVE  UNCHANGED Store!vars
  BY DEF Store!vars, Offered, Expired, Settled

LEMMA ProduceOffers ==
    ASSUME PipelineInv, NEW e \in Events, Produce(e), UNCHANGED <<dbVars, recoveryVars>>
    PROVE  Store!Next
<1>1. /\ rows' = rows /\ stream' = stream /\ trimmed' = trimmed /\ delivered' = delivered
      /\ pel' = pel /\ committed' = committed /\ topic' = Append(topic, e)
  BY DEF Produce, dbVars, recoveryVars, streamVars
<1>2. Range(topic') = Range(topic) \union {e}
  BY <1>1, RangeAppend DEF PipelineInv, KafkaInv
<1>3. Offered' = [Offered EXCEPT !["kafka"] = @ \union {e}]
  BY <1>1, <1>2 DEF Offered, Channels
<1>4. Expired' = [Expired EXCEPT !["kafka"] = @ \union {}]
  BY <1>1 DEF Expired, Channels
<1>5. \A i \in 1..committed : topic'[i] = topic[i]
  BY <1>1, AppendProperties DEF PipelineInv, KafkaInv
<1>6. {topic'[i] : i \in 1..committed} = {topic[i] : i \in 1..committed}
  BY <1>5
<1>7. Settled' = Settled
  BY <1>1, <1>6 DEF Settled
<1>8. Store!Offer("kafka", e, {})
  BY <1>1, <1>3, <1>4, <1>7 DEF Store!Offer
<1> QED
  BY <1>8 DEF Store!Next, Channels

LEMMA AppendOffers ==
    ASSUME PipelineInv, NEW e \in Events, StreamAppend(e), UNCHANGED <<dbVars, kafkaVars>>,
           PipelineInv'
    PROVE  Store!Next
<1>0. /\ Len(stream) \in Nat /\ stream \in Seq(Events)
      /\ trimmed \in Nat /\ trimmed <= Len(stream)
      /\ delivered \in Nat /\ delivered <= Len(stream)
  BY LenProperties DEF PipelineInv, RecoveryInv, StreamInv
<1>1. /\ rows' = rows /\ topic' = topic /\ committed' = committed /\ delivered' = delivered
      /\ pel' = pel /\ stream' = Append(stream, e) /\ trimmed' \in trimmed..Len(stream')
  BY DEF StreamAppend, dbVars, kafkaVars
<1>2. Range(stream') = Range(stream) \union {e}
  BY <1>0, <1>1, RangeAppend
<1>3. Offered' = [Offered EXCEPT !["redis"] = @ \union {e}]
  BY <1>1, <1>2 DEF Offered, Channels
<1>4. \A i \in 1..Len(stream) : stream'[i] = stream[i]
  BY <1>0, <1>1, AppendProperties
<1>5. Len(stream') = Len(stream) + 1 /\ trimmed' \in Nat /\ trimmed <= trimmed'
      /\ trimmed' <= Len(stream')
  BY <1>0, <1>1, AppendProperties
<1> DEFINE old == {stream'[id] : id \in 1..trimmed'}
<1>6. old \subseteq Range(stream')
  BY <1>5 DEF Range
<1>7. {stream[id] : id \in 1..trimmed} \subseteq old
  <2> SUFFICES ASSUME NEW id \in 1..trimmed
               PROVE  stream[id] \in old
    OBVIOUS
  <2>1. id \in 1..trimmed' /\ id \in 1..Len(stream)
    BY <1>0, <1>5
  <2> QED
    BY <1>4, <2>1
<1>8. Expired' = [Expired EXCEPT !["redis"] = @ \union old]
  BY <1>1, <1>7 DEF Expired, Channels
<1>9. \A id \in (1..delivered) \ pel : stream'[id] = stream[id]
  BY <1>0, <1>4
<1>10. {stream'[id] : id \in (1..delivered) \ pel} = {stream[id] : id \in (1..delivered) \ pel}
  BY <1>9
<1>11. Settled' = Settled
  BY <1>1, <1>10 DEF Settled
<1>12. old \in SUBSET (Offered["redis"] \union {e}) /\ old \subseteq Offered'["redis"]
  BY <1>2, <1>6 DEF Offered, Channels
<1>13. Store!Offer("redis", e, old)
  BY <1>1, <1>3, <1>8, <1>11, <1>12 DEF Store!Offer
<1> QED
  BY <1>12, <1>13 DEF Store!Next, Channels

\* A commit saves an event that was offered and is to be saved.
LEMMA CommitSaves ==
    ASSUME PipelineInv, NEW w \in {KafkaWriter, RecoveryWriter}, SaveStep(w),
           UNCHANGED <<kafkaVars, recoveryVars>>
    PROVE  Store!Next \/ UNCHANGED Store!vars
<1> USE KafkaConstants, RecoveryConstants
<1>1. UNCHANGED <<topic, committed, stream, trimmed, delivered, pel>>
  BY DEF kafkaVars, recoveryVars, streamVars
<1>2. CASE rows' = rows
  BY <1>1, <1>2, StoreStutters
<1>3. CASE rows' = Append(rows, txn[w].event) /\ CommitRows(w)
  <2> DEFINE e == txn[w].event
  <2>1. txn[w].step = "commit" /\ e \notin Range(rows) /\ e \in Events
    BY <1>3 DEF CommitRows, Conflict, PipelineInv, StoreInv, DbTypeOK
  <2>2. e \notin Skipped
    BY <2>1 DEF PipelineInv, StoreInv, SkippedApart, Running
  <2>3. CASE w = KafkaWriter
    <3>1. consumer = "handling"
      BY <2>1, <2>3 DEF PipelineInv, KafkaInv
    <3>2. e = Message /\ e \notin Malformed
      BY <2>3, <3>1 DEF PipelineInv, KafkaInv
    <3>3. e \in Range(topic)
      BY <3>1, <3>2, TakenIsEvent DEF PipelineInv, KafkaInv, Range
    <3>4. Store!Save(e)
      BY <1>1, <1>3, <2>1, <2>2, <3>2, <3>3
      DEF Store!Save, Store!Range, Range, Offered, Expired, Settled, Channels, Unsavable
    <3> QED
      BY <2>1, <3>4 DEF Store!Next
  <2>4. CASE w = RecoveryWriter
    <3>1. entry = "handling" /\ inbox # <<>>
      BY <2>1, <2>4 DEF PipelineInv, RecoveryInv, EntryInv
    <3>2. e = inbox[1].fields /\ e \notin Malformed /\ e # NoFields
      BY <2>1, <2>4, <3>1 DEF PipelineInv, RecoveryInv, EntryInv
    <3>3. e = stream[inbox[1].id] /\ inbox[1].id \in pel
      BY <3>1, <3>2, HeadEntry DEF PipelineInv, RecoveryInv
    <3>4. inbox[1].id \in 1..Len(stream)
      BY <3>3, FreshFacts DEF PipelineInv, RecoveryInv
    <3>5. e \in Range(stream)
      BY <3>3, <3>4 DEF PipelineInv, RecoveryInv, StreamInv, Range
    <3>6. Store!Save(e)
      BY <1>1, <1>3, <2>1, <2>2, <3>2, <3>5
      DEF Store!Save, Store!Range, Range, Offered, Expired, Settled, Channels, Unsavable
    <3> QED
      BY <2>1, <3>6 DEF Store!Next
  <2> QED
    BY <2>3, <2>4
<1> QED
  BY <1>2, <1>3, SaveStepTxn DEF PipelineInv, StoreInv

LEMMA OffsetSettles ==
    ASSUME KafkaInv', UNCHANGED <<rows, topic, stream, trimmed, delivered, pel>>,
           1..committed \subseteq 1..committed'
    PROVE  Store!Next
<1> DEFINE es == {topic[i] : i \in 1..committed'}
<1>1. topic' = topic /\ rows' = rows /\ Saved' = Saved
  BY DEF Saved, Range
<1>2. 1..committed' \subseteq DOMAIN topic
  BY <1>1 DEF KafkaInv
<1>3. es \in SUBSET Offered["kafka"]
  BY <1>2 DEF Offered, Channels, Range
<1>4. es \subseteq Range(rows) \union Unsavable \union Expired["kafka"]
  BY <1>1 DEF KafkaInv, OffsetSafety, Saved
<1>5. Settled' = [Settled EXCEPT !["kafka"] = @ \union es]
  BY <1>1 DEF Settled, Channels
<1>6. Offered' = Offered /\ Expired' = Expired
  BY <1>1 DEF Offered, Expired
<1>7. Store!Settle("kafka", es)
  BY <1>1, <1>3, <1>4, <1>5, <1>6 DEF Store!Settle, Store!Range, Range
<1> QED
  BY <1>3, <1>7 DEF Store!Next, Channels

LEMMA AckSettles ==
    ASSUME StreamInv', UNCHANGED <<rows, topic, committed, stream, trimmed>>,
           (1..delivered) \ pel \subseteq (1..delivered') \ pel'
    PROVE  Store!Next
<1> DEFINE es == {stream[id] : id \in (1..delivered') \ pel'}
<1>1. stream' = stream /\ trimmed' = trimmed /\ rows' = rows /\ Saved' = Saved
  BY DEF Saved, Range
<1>2. (1..delivered') \ pel' \subseteq DOMAIN stream
  BY <1>1 DEF StreamInv
<1>3. es \in SUBSET Offered["redis"]
  BY <1>2 DEF Offered, Channels, Range
<1>4. es \subseteq Range(rows) \union Unsavable \union Expired["redis"]
  <2> SUFFICES ASSUME NEW id \in (1..delivered') \ pel'
               PROVE  stream[id] \in Range(rows) \union Unsavable \union Expired["redis"]
    OBVIOUS
  <2>1. id <= trimmed \/ stream[id] \in Saved \union Unsavable
    BY <1>1 DEF StreamInv, AckSafety
  <2>2. id \in Nat \ {0} /\ trimmed \in Nat
    BY <1>1, LenProperties DEF StreamInv
  <2> QED
    BY <2>1, <2>2 DEF Saved, Expired, Channels
<1>5. Settled' = [Settled EXCEPT !["redis"] = @ \union es]
  BY <1>1 DEF Settled, Channels
<1>6. Offered' = Offered /\ Expired' = Expired
  BY <1>1 DEF Offered, Expired
<1>7. Store!Settle("redis", es)
  BY <1>1, <1>3, <1>4, <1>5, <1>6 DEF Store!Settle, Store!Range, Range
<1> QED
  BY <1>3, <1>7 DEF Store!Next, Channels

LEMMA ConsumerStepStore ==
    ASSUME PipelineInv, PipelineInv', ConsumerStep, UNCHANGED recoveryVars
    PROVE  Store!Next \/ UNCHANGED Store!vars
<1>1. UNCHANGED <<topic, stream, trimmed, delivered, pel>>
  BY DEF ConsumerStep, ConsumerStart, Fetch, Handled, NotPersisted, RetryMessage,
         CommitOffset, KafkaError, recoveryVars, streamVars
<1>2. rows' = rows
  BY DEF ConsumerStep, ConsumerStart, Fetch, Handled, NotPersisted, RetryMessage,
         CommitOffset, KafkaError, Handle, SaveStart, SaveEnd, dbVars
<1>3. CASE CommitOffset
  <2>1. committed' = position /\ position = committed + 1 /\ committed \in Nat
    BY <1>3, LenProperties DEF CommitOffset, PipelineInv, KafkaInv
  <2>2. 1..committed \subseteq 1..committed'
    BY <2>1
  <2> QED
    BY <1>1, <1>2, <2>2, OffsetSettles DEF PipelineInv
<1>4. CASE ~CommitOffset
  <2>1. committed' = committed
    BY <1>4 DEF ConsumerStep, ConsumerStart, Fetch, Handled, NotPersisted, RetryMessage,
                KafkaError
  <2> QED
    BY <1>1, <1>2, <2>1, StoreStutters
<1> QED
  BY <1>3, <1>4

LEMMA RecoveryStepStore ==
    ASSUME PipelineInv, PipelineInv', RecoveryStep, UNCHANGED kafkaVars
    PROVE  Store!Next \/ UNCHANGED Store!vars
<1>1. UNCHANGED <<topic, committed, stream, trimmed>>
  BY DEF RecoveryStep, RecoveryStart, ReadPending, Drained, ReadNew, SkipPersisted, HandleEntry,
         EntryHandled, EntryNotPersisted, Ack, RedisError, kafkaVars, streamVars
<1>2. rows' = rows
  BY DEF RecoveryStep, RecoveryStart, ReadPending, Drained, ReadNew, SkipPersisted, HandleEntry,
         EntryHandled, EntryNotPersisted, Ack, RedisError, SaveStart, SaveEnd, dbVars
<1>3. CASE ReadNew
  <2>1. PICK ids \in FirstIds(Fresh) : delivered' = ids[Len(ids)] /\ pel' = pel \union Range(ids)
    BY <1>3 DEF ReadNew
  <2>2. /\ Fresh \in SUBSET Nat /\ IsFiniteSet(Fresh) /\ Fresh # {}
    BY <1>3, FreshFacts DEF PipelineInv, RecoveryInv, ReadNew
  <2>3. Range(ids) \subseteq Fresh /\ ids \in Seq(Fresh) /\ Len(ids) \in Nat \ {0}
    BY <2>2, FirstIdsFacts
  <2>4. delivered' \in Fresh
    BY <2>1, <2>3, ElementOfSeq
  <2>5. delivered \in Nat /\ delivered' \in Nat /\ delivered < delivered'
    BY <2>4, LenProperties DEF PipelineInv, RecoveryInv, StreamInv, Fresh
  <2>6. \A n \in Fresh : n > delivered
    BY DEF Fresh
  <2>7. (1..delivered) \ pel \subseteq (1..delivered') \ pel'
    BY <2>1, <2>3, <2>5, <2>6
  <2> QED
    BY <1>1, <1>2, <2>7, AckSettles DEF PipelineInv, RecoveryInv
<1>4. CASE ~ReadNew
  <2>1. delivered' = delivered /\ pel' \subseteq pel
    BY <1>4 DEF RecoveryStep, RecoveryStart, ReadPending, Drained, SkipPersisted, HandleEntry,
                EntryHandled, EntryNotPersisted, Ack, RedisError, XAck, streamVars
  <2>2. (1..delivered) \ pel \subseteq (1..delivered') \ pel'
    BY <2>1
  <2> QED
    BY <1>1, <1>2, <2>2, AckSettles DEF PipelineInv, RecoveryInv
<1> QED
  BY <1>3, <1>4

LEMMA NextStore ==
    ASSUME PipelineInv, PipelineInv', PipelineNext \/ UNCHANGED pipelineVars
    PROVE  Store!Next \/ UNCHANGED Store!vars
<1>1. CASE UNCHANGED <<rows, topic, committed, stream, trimmed, delivered, pel>>
  BY <1>1, StoreStutters
<1>2. ASSUME NEW e \in Events, Produce(e), UNCHANGED <<dbVars, recoveryVars>>
      PROVE  Store!Next
  BY <1>2, ProduceOffers
<1>3. ASSUME NEW e \in Events, StreamAppend(e), UNCHANGED <<dbVars, kafkaVars>>
      PROVE  Store!Next
  BY <1>3, AppendOffers
<1>4. ASSUME NEW e \in Events, MarkerExpires(e), UNCHANGED <<dbVars, kafkaVars>>
      PROVE  UNCHANGED <<rows, topic, committed, stream, trimmed, delivered, pel>>
  BY <1>4 DEF MarkerExpires, dbVars, kafkaVars
<1>5. CASE MarkSaved
  BY <1>1, <1>5 DEF MarkSaved, MarkPersisted, SetMarker, recoveryVars, streamVars, dbVars
<1>6. CASE SaveStep(KafkaWriter) /\ UNCHANGED <<kafkaVars, recoveryVars>>
  BY <1>6, CommitSaves
<1>7. CASE SaveStep(RecoveryWriter) /\ UNCHANGED <<kafkaVars, recoveryVars>>
  BY <1>7, CommitSaves
<1>8. CASE Restart
  BY <1>1, <1>8 DEF Restart, KafkaCrash, RecoveryCrash, AbortSaves, streamVars
<1>9. CASE UNCHANGED pipelineVars
  BY <1>1, <1>9 DEF pipelineVars, dbVars, kafkaVars, recoveryVars, streamVars
<1> QED
  BY <1>1, <1>2, <1>3, <1>4, <1>5, <1>6, <1>7, <1>8, <1>9, ConsumerStepStore, RecoveryStepStore
  DEF PipelineNext

\* Every behaviour of the process is one EventStore allows: whatever arrives on
\* Kafka and in the stream, and whatever fails, events are saved once, and a
\* channel is told to forget only what is saved, not to be saved, or expired
\* (access_events.py, redis_recovery.py, repositories.py:183-240).
THEOREM PromiseKept ==
    ASSUME TwoWriters
    PROVE  PipelineSpec => KeepsPromise
<1>1. PipelineInit => Store!Init
  BY StoreInitially
<1>2. PipelineInv /\ PipelineInv' /\ [PipelineNext]_pipelineVars => [Store!Next]_Store!vars
  BY NextStore
<1> QED
  BY <1>1, <1>2, PipelineInvariant, PTL DEF PipelineSpec, KeepsPromise, Store!Spec
=============================================================================
