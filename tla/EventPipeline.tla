---------------------------- MODULE EventPipeline ----------------------------
(***************************************************************************)
(* The Reporting API as it stores access events: its Kafka consumer and its *)
(* Redis recovery consumer, two tasks of one process that save into the    *)
(* same database.  They know of each other by the persisted markers only,  *)
(* which the Kafka consumer sets in Redis, and which may be missing.       *)
(***************************************************************************)
EXTENDS KafkaConsumer, RedisRecovery

\* Each task has a database session of its own for every event.  No ASSUME, which would
\* bind what is said of one writer alone, but a hypothesis of every theorem about both.
TwoWriters == KafkaWriter # RecoveryWriter

pipelineVars == <<dbVars, kafkaVars, recoveryVars>>

PipelineInit == DbInit /\ KafkaInit /\ RecoveryInit

\* Mutant of MarkSaved: the marker is set when a message is taken.
MarkSavedEarly ==
    \/ MarkPersisted /\ UNCHANGED recoveryVars
    \/ /\ consumer = "handling"
       /\ SetMarker(Message)
       /\ UNCHANGED <<kafkaVars, dbVars>>

\* _mark_persisted is best-effort.
MarkSaved ==
    MarkPersisted /\ (SetMarker(Message) \/ UNCHANGED recoveryVars)

\* The process dies, and with it both tasks and their transactions.
Restart ==
    /\ consumer # "down" \/ recovery # "down"
    /\ KafkaCrash
    /\ RecoveryCrash
    /\ AbortSaves({KafkaWriter, RecoveryWriter})

PipelineNext ==
    \/ \E e \in Events : Produce(e) /\ UNCHANGED <<dbVars, recoveryVars>>
    \/ \E e \in Events : StreamAppend(e) /\ UNCHANGED <<dbVars, kafkaVars>>
    \/ \E e \in Events : MarkerExpires(e) /\ UNCHANGED <<dbVars, kafkaVars>>
    \/ ConsumerStep /\ UNCHANGED recoveryVars
    \/ MarkSaved
    \/ RecoveryStep /\ UNCHANGED kafkaVars
    \/ SaveStep(KafkaWriter) /\ UNCHANGED <<kafkaVars, recoveryVars>>
    \/ SaveStep(RecoveryWriter) /\ UNCHANGED <<kafkaVars, recoveryVars>>
    \/ Restart

PipelineSpec == PipelineInit /\ [][PipelineNext]_pipelineVars

----------------------------------------------------------------------------
(* Properties.                                                              *)

\* What the channels hold, have let go, and may forget.
Channels == {"kafka", "redis"}
Offered == [c \in Channels |-> IF c = "kafka" THEN Range(topic) ELSE Range(stream)]
Expired == [c \in Channels |-> IF c = "kafka" THEN {} ELSE {stream[id] : id \in 1..trimmed}]
Settled == [c \in Channels |-> IF c = "kafka" THEN {topic[i] : i \in 1..committed}
                               ELSE {stream[id] : id \in (1..delivered) \ pel}]

Store == INSTANCE EventStore WITH offered <- Offered, expired <- Expired,
                                  settled <- Settled, saved <- rows

\* The process keeps the promise of EventStore: an event is saved once however
\* it arrives, and neither the Kafka offset nor an XACK forgets one that is not.
KeepsPromise == Store!Spec
=============================================================================
