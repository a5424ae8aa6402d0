---------------------------- MODULE KafkaConsumer ----------------------------
(***************************************************************************)
(* The Kafka consumer of the Reporting API:                                *)
(* reporting-api/app/consumers/access_events.py.  One task reads one       *)
(* partition of the topic access-events, saves each message, retries a     *)
(* failed save in place for ever, and then commits the offset.  The        *)
(* messages before `committed` are never read again.                       *)
(*                                                                         *)
(* Abstracted: the partitions other than one (an employee's events share   *)
(* one), the length of the backoffs, the counters of the status.           *)
(***************************************************************************)
EXTENDS SaveAccessEvent

CONSTANTS
    KafkaWriter,  \* the consumer as a writer of SaveAccessEvent
    TopicMax      \* bound: messages in the topic

ASSUME KafkaConstants == KafkaWriter \in Writers /\ TopicMax \in Nat

VARIABLES
    topic,        \* the partition, from offset 0; retries of the publisher repeat events
    position,     \* messages the running consumer has taken
    committed,    \* committed offset of the group
    consumer      \* what the task does

kafkaVars == <<topic, position, committed, consumer>>

ConsumerSteps == {"down", "fetch", "handling", "backoff", "mark", "commit"}

\* KAFKA_AUTO_OFFSET_RESET is earliest: a new group starts at offset 0.
KafkaInit ==
    /\ topic = <<>>
    /\ position = 0
    /\ committed = 0
    /\ consumer = "down"

Message == topic[position]

----------------------------------------------------------------------------
(* The Access API publishes: in any order, for its replicas and the workers *)
(* of their publishers do not wait for each other, and again after an error. *)

Produce(e) ==
    /\ Len(topic) < TopicMax
    /\ topic' = Append(topic, e)
    /\ UNCHANGED <<position, committed, consumer>>

----------------------------------------------------------------------------
(* The task.                                                                *)

\* Mutant of ConsumerStart: the group starts at the end of the topic.
ConsumerStartLatest ==
    /\ consumer = "down"
    /\ consumer' = "fetch"
    /\ position' = Len(topic)
    /\ UNCHANGED <<topic, committed, dbVars>>

\* _run and the start of _consume_forever.
ConsumerStart ==
    /\ consumer = "down"
    /\ consumer' = "fetch"
    /\ position' = committed
    /\ UNCHANGED <<topic, committed, dbVars>>

\* _handle_message up to the save; a message that does not parse counts as handled.
Handle(e) ==
    IF e \in Malformed
    THEN consumer' = "commit" /\ UNCHANGED dbVars
    ELSE consumer' = "handling" /\ SaveStart(KafkaWriter, e)

Fetch ==
    /\ consumer = "fetch"
    /\ position < Len(topic)
    /\ position' = position + 1
    /\ Handle(topic[position + 1])
    /\ UNCHANGED <<topic, committed>>

Handled ==
    /\ consumer = "handling"
    /\ txn[KafkaWriter].step \in Outcomes \ {"failed"}
    /\ SaveEnd(KafkaWriter)
    /\ consumer' = "mark"
    /\ UNCHANGED <<topic, position, committed>>

\* Mutant of NotPersisted: a message that cannot be saved is left for later.
NotPersistedSkips ==
    /\ consumer = "handling"
    /\ txn[KafkaWriter].step = "failed"
    /\ SaveEnd(KafkaWriter)
    /\ consumer' = "fetch"
    /\ UNCHANGED <<topic, position, committed>>

NotPersisted ==
    /\ consumer = "handling"
    /\ txn[KafkaWriter].step = "failed"
    /\ SaveEnd(KafkaWriter)
    /\ consumer' = "backoff"
    /\ UNCHANGED <<topic, position, committed>>

\* The next round of _handle_with_retry.
RetryMessage ==
    /\ consumer = "backoff"
    /\ Handle(Message)
    /\ UNCHANGED <<topic, position, committed>>

\* _mark_persisted never fails; EventPipeline adds what it writes to Redis.
MarkPersisted ==
    /\ consumer = "mark"
    /\ consumer' = "commit"
    /\ UNCHANGED <<topic, position, committed, dbVars>>

\* Mutant of CommitOffset: the offset after the one to read next.
CommitOffsetNext ==
    /\ consumer = "commit"
    /\ committed' = position + 1
    /\ consumer' = "fetch"
    /\ UNCHANGED <<topic, position, dbVars>>

\* consumer.commit() commits the position.
CommitOffset ==
    /\ consumer = "commit"
    /\ committed' = position
    /\ consumer' = "fetch"
    /\ UNCHANGED <<topic, position, dbVars>>

\* Fetching or committing raises: the task starts over after a backoff.
KafkaError ==
    /\ consumer \in {"fetch", "commit"}
    /\ consumer' = "down"
    /\ UNCHANGED <<topic, position, committed, dbVars>>

\* The process dies.
KafkaCrash == consumer' = "down" /\ UNCHANGED <<topic, position, committed>>

ConsumerStep == \/ ConsumerStart \/ Fetch \/ Handled \/ NotPersisted \/ RetryMessage
                \/ CommitOffset \/ KafkaError

----------------------------------------------------------------------------
(* The consumer on its own.                                                 *)

KafkaNext ==
    \/ \E e \in Events : Produce(e) /\ UNCHANGED dbVars
    \/ ConsumerStep
    \/ MarkPersisted
    \/ consumer # "down" /\ KafkaCrash /\ AbortSaves({KafkaWriter})
    \/ SaveStep(KafkaWriter) /\ UNCHANGED kafkaVars

ConsumerInit == DbInit /\ KafkaInit

KafkaSpec == ConsumerInit /\ [][KafkaNext]_<<dbVars, kafkaVars>>

\* A task that runs makes its next step, and Kafka does not fail for ever.
ConsumerFairness ==
    /\ WF_kafkaVars(ConsumerStart)
    /\ SF_kafkaVars(Fetch)
    /\ SF_kafkaVars(Handled)
    /\ WF_kafkaVars(NotPersisted)
    /\ WF_kafkaVars(RetryMessage)
    /\ SF_kafkaVars(CommitOffset)

KafkaFairness ==
    /\ SaveFairness(KafkaWriter)
    /\ ConsumerFairness
    /\ SF_kafkaVars(MarkPersisted)

KafkaFairSpec == KafkaSpec /\ KafkaFairness

----------------------------------------------------------------------------
(* Properties.                                                              *)

KafkaTypeOK ==
    /\ DbTypeOK
    /\ topic \in Seq(Events)
    /\ committed \in 0..Len(topic)
    /\ position \in 0..Len(topic)
    /\ consumer \in ConsumerSteps

\* reporting-api/README.md:105: the offset is committed after the database.  No
\* message before the committed offset is lost, whatever fails or restarts.
OffsetSafety ==
    \A i \in 1..committed : topic[i] \in Saved \union Unsavable

\* A message is never saved while an earlier one is not: a failed save is
\* retried in place.
NoOvertaking ==
    \A i, j \in DOMAIN topic :
        i < j /\ topic[j] \in Saved
            => \/ topic[i] \in Saved \union Unsavable
               \/ \E k \in 1..i : topic[k] = topic[j]

\* Every message is saved in the end, unless the partition holds one that
\* PostgreSQL never accepts: its save is retried for ever (access_events.py:124).
TopicSaved ==
    \A e \in Events \ (Unsavable \union Rejected) :
        e \in Range(topic) ~> e \in Saved \/ Rejected \intersect Range(topic) # {}
=============================================================================
