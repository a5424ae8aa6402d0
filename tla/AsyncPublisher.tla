--------------------------- MODULE AsyncPublisher ---------------------------
(***************************************************************************)
(* The asynchronous publisher of the Access API (access-api/publisher.go,  *)
(* AsyncEventPublisher).  HTTP handlers hand events to Publish, which puts *)
(* them into a bounded Go channel; worker goroutines take them out in      *)
(* batches and write the batches to Kafka, retrying a failed batch for     *)
(* ever; Close, the deferred call of main, ends the workers.               *)
(*                                                                         *)
(* Abstracted: the payload of an event (an event is its identity), the     *)
(* values of the timers (flush, backoff and write timeout may expire at    *)
(* any moment), and every copy of an event in Kafka after the first (the   *)
(* readers of the topic drop them by requestId).                           *)
(***************************************************************************)
EXTENDS Naturals, Sequences, FiniteSets, Functions

CONSTANTS
    Events,      \* the access events handlers offer to Publish, once each
    Workers,     \* the worker goroutines
    QueueSize,   \* capacity of the channel
    BatchSize    \* largest batch a worker writes

\* NewAsyncEventPublisher replaces numbers that are not positive by defaults.
ASSUME SizesPositive == QueueSize \in Nat \ {0} /\ BatchSize \in Nat \ {0}
ASSUME FiniteParts == IsFiniteSet(Events) /\ IsFiniteSet(Workers)
ASSUME SomeWorker == Workers # {}

VARIABLES
    caller,      \* per event: how far its call of Publish is
    queue,       \* the channel p.queue
    closed,      \* p.closed
    done,        \* TRUE once the channel p.done is closed
    finished,    \* TRUE once Close has closed the inner publisher
    worker,      \* per worker: where its goroutine is
    batch,       \* per worker: the events it holds
    kafka,       \* the first copies in the topic, in the order they came
    stats,       \* p.stats.Queued, p.stats.Dropped and inner Published
    entered,     \* history: events in the order they entered the channel
    unlucky,     \* history: events that were in a batch whose write failed
    late         \* history: calls of Publish past their check when Close began

vars == <<caller, queue, closed, done, finished, worker, batch, kafka, stats,
          entered, unlucky, late>>
callVars == <<caller, closed, done, finished, entered, late>>

CallSteps == {"before", "checked", "sent", "accepted", "refused"}
Writing == {"publish", "drainFull", "drainLast"}
WorkerSteps == {"select", "collect", "backoff", "drain", "exited"} \union Writing

Init ==
    /\ caller = [e \in Events |-> "before"]
    /\ queue = <<>>
    /\ closed = FALSE
    /\ done = FALSE
    /\ finished = FALSE
    /\ worker = [w \in Workers |-> "select"]
    /\ batch = [w \in Workers |-> <<>>]
    /\ kafka = <<>>
    /\ stats = [Queued |-> 0, Dropped |-> 0, Published |-> 0]
    /\ entered = <<>>
    /\ unlucky = {}
    /\ late = {}

----------------------------------------------------------------------------
(* Publish, by an HTTP handler: the check of closed, the non-blocking send  *)
(* and the counting of it are three steps.                                  *)

PublishCheck(e) ==
    /\ caller[e] = "before"
    /\ IF closed
       THEN /\ stats' = [stats EXCEPT !.Dropped = @ + 1]
            /\ caller' = [caller EXCEPT ![e] = "refused"]
       ELSE /\ caller' = [caller EXCEPT ![e] = "checked"]
            /\ UNCHANGED stats
    /\ UNCHANGED <<queue, closed, done, finished, worker, batch, kafka,
                   entered, unlucky, late>>

\* Mutant of PublishSend: the channel is made with room for one event more.
PublishSendOneMore(e) ==
    /\ caller[e] = "checked"
    /\ Len(queue) <= QueueSize
    /\ queue' = Append(queue, e)
    /\ entered' = Append(entered, e)
    /\ caller' = [caller EXCEPT ![e] = "sent"]
    /\ UNCHANGED <<closed, done, finished, worker, batch, kafka, stats,
                   unlucky, late>>

PublishSend(e) ==
    /\ caller[e] = "checked"
    /\ Len(queue) < QueueSize
    /\ queue' = Append(queue, e)
    /\ entered' = Append(entered, e)
    /\ caller' = [caller EXCEPT ![e] = "sent"]
    /\ UNCHANGED <<closed, done, finished, worker, batch, kafka, stats,
                   unlucky, late>>

PublishFull(e) ==
    /\ caller[e] = "checked"
    /\ Len(queue) = QueueSize
    /\ stats' = [stats EXCEPT !.Dropped = @ + 1]
    /\ caller' = [caller EXCEPT ![e] = "refused"]
    /\ UNCHANGED <<queue, closed, done, finished, worker, batch, kafka,
                   entered, unlucky, late>>

PublishCount(e) ==
    /\ caller[e] = "sent"
    /\ stats' = [stats EXCEPT !.Queued = @ + 1]
    /\ caller' = [caller EXCEPT ![e] = "accepted"]
    /\ UNCHANGED <<queue, closed, done, finished, worker, batch, kafka,
                   entered, unlucky, late>>

----------------------------------------------------------------------------
(* The loop of a worker: select, collectBatch, publishBatchWithRecovery.    *)
(* A select with several ready cases takes any of them.                     *)

Goto(w, step) == worker' = [worker EXCEPT ![w] = step]

TakeHead(w) ==
    /\ queue # <<>>
    /\ batch' = [batch EXCEPT ![w] = Append(@, Head(queue))]
    /\ queue' = Tail(queue)

SelectEvent(w) ==
    /\ worker[w] = "select"
    /\ TakeHead(w)
    /\ Goto(w, "collect")
    /\ UNCHANGED <<callVars, kafka, stats, unlucky>>

SelectDone(w) ==
    /\ worker[w] = "select"
    /\ done
    /\ Goto(w, "drain")
    /\ UNCHANGED <<callVars, queue, batch, kafka, stats, unlucky>>

CollectEvent(w) ==
    /\ worker[w] = "collect"
    /\ Len(batch[w]) < BatchSize
    /\ TakeHead(w)
    /\ UNCHANGED <<callVars, worker, kafka, stats, unlucky>>

\* The batch is full, the flush timer fires, or done is closed.
CollectEnd(w) ==
    /\ worker[w] = "collect"
    /\ Goto(w, "publish")
    /\ UNCHANGED <<callVars, queue, batch, kafka, stats, unlucky>>

\* The wait between two attempts ends by the timer or, once done is closed,
\* by returning from publishBatchWithRecovery without the batch.
Retry(w) ==
    /\ worker[w] = "backoff"
    /\ Goto(w, "publish")
    /\ UNCHANGED <<callVars, queue, batch, kafka, stats, unlucky>>

\* Mutant of Abandon: the wait between two attempts does not look at done.
AbandonNever(w) ==
    /\ FALSE
    /\ UNCHANGED vars

Abandon(w) ==
    /\ worker[w] = "backoff"
    /\ done
    /\ batch' = [batch EXCEPT ![w] = <<>>]
    /\ Goto(w, "select")
    /\ UNCHANGED <<callVars, queue, kafka, stats, unlucky>>

----------------------------------------------------------------------------
(* drain, after done: take what is left and write each batch once.          *)

DrainEvent(w) ==
    /\ worker[w] = "drain"
    /\ TakeHead(w)
    /\ Goto(w, IF Len(batch[w]) + 1 >= BatchSize THEN "drainFull" ELSE "drain")
    /\ UNCHANGED <<callVars, kafka, stats, unlucky>>

\* Mutant of DrainEmpty: the last, incomplete batch is not flushed.
DrainEmptyNoFlush(w) ==
    /\ worker[w] = "drain"
    /\ queue = <<>>
    /\ Goto(w, "exited")
    /\ UNCHANGED <<callVars, queue, batch, kafka, stats, unlucky>>

DrainEmpty(w) ==
    /\ worker[w] = "drain"
    /\ queue = <<>>
    /\ Goto(w, IF batch[w] = <<>> THEN "exited" ELSE "drainLast")
    /\ UNCHANGED <<callVars, queue, batch, kafka, stats, unlucky>>

----------------------------------------------------------------------------
(* publishBatchOnce: one call of the inner publisher.  It either writes the *)
(* whole batch, or returns an error after writing any part of it (the       *)
(* partitions are written independently, and a timeout may hide a success). *)

Subsequences(s) ==
    UNION {{[i \in 1..n |-> s[f[i]]] :
               f \in {g \in [1..n -> 1..Len(s)] :
                         \A i, j \in 1..n : i < j => g[i] < g[j]}} :
           n \in 0..Len(s)}

\* The new first copies an attempt to write the events b may leave behind.
FirstCopies(b) ==
    {p \in Subsequences(b) : Range(p) \intersect Range(kafka) = {}}

AfterWrite(w) ==
    CASE worker[w] = "publish"   -> "select"
      [] worker[w] = "drainFull" -> "drain"
      [] worker[w] = "drainLast" -> "exited"

WriteOk(w) ==
    /\ worker[w] \in Writing
    /\ \E p \in FirstCopies(batch[w]) :
          /\ Range(batch[w]) \subseteq Range(p) \union Range(kafka)
          /\ kafka' = kafka \o p
    /\ stats' = [stats EXCEPT !.Published = @ + Len(batch[w])]
    /\ batch' = [batch EXCEPT ![w] = <<>>]
    /\ Goto(w, AfterWrite(w))
    /\ UNCHANGED <<callVars, queue, unlucky>>

\* Mutants of WriteError: the batch is given up; it is put back into the
\* channel as well as retried; it is counted as published.
WriteErrorGivesUp(w) ==
    /\ worker[w] \in Writing
    /\ \E p \in FirstCopies(batch[w]) : kafka' = kafka \o p
    /\ unlucky' = unlucky \union Range(batch[w])
    /\ batch' = [batch EXCEPT ![w] = <<>>]
    /\ Goto(w, AfterWrite(w))
    /\ UNCHANGED <<callVars, queue, stats>>

WriteErrorRequeues(w) ==
    /\ worker[w] = "publish"
    /\ Len(queue) + Len(batch[w]) <= QueueSize
    /\ queue' = queue \o batch[w]
    /\ unlucky' = unlucky \union Range(batch[w])
    /\ Goto(w, "backoff")
    /\ UNCHANGED <<callVars, batch, kafka, stats>>

WriteErrorCounts(w) ==
    /\ worker[w] = "publish"
    /\ unlucky' = unlucky \union Range(batch[w])
    /\ stats' = [stats EXCEPT !.Published = @ + Len(batch[w])]
    /\ Goto(w, "backoff")
    /\ UNCHANGED <<callVars, queue, batch, kafka>>

\* A worker that is not draining keeps the batch and waits to retry it.
WriteError(w) ==
    /\ worker[w] \in Writing
    /\ \E p \in FirstCopies(batch[w]) : kafka' = kafka \o p
    /\ unlucky' = unlucky \union Range(batch[w])
    /\ IF worker[w] = "publish"
       THEN /\ Goto(w, "backoff")
            /\ UNCHANGED batch
       ELSE /\ Goto(w, AfterWrite(w))
            /\ batch' = [batch EXCEPT ![w] = <<>>]
    /\ UNCHANGED <<callVars, queue, stats>>

----------------------------------------------------------------------------
(* Close: the compare-and-swap of closed, close(done), wg.Wait.  A handler  *)
(* that outlives the 20 seconds of server.Shutdown still runs meanwhile.    *)

CloseBegin ==
    /\ ~closed
    /\ closed' = TRUE
    /\ late' = {e \in Events : caller[e] = "checked"}
    /\ UNCHANGED <<caller, queue, done, finished, worker, batch, kafka, stats,
                   entered, unlucky>>

CloseDone ==
    /\ closed /\ ~done
    /\ done' = TRUE
    /\ UNCHANGED <<caller, queue, closed, finished, worker, batch, kafka, stats,
                   entered, unlucky, late>>

CloseInner ==
    /\ done /\ ~finished
    /\ \A w \in Workers : worker[w] = "exited"
    /\ finished' = TRUE
    /\ UNCHANGED <<caller, queue, closed, done, worker, batch, kafka, stats,
                   entered, unlucky, late>>

----------------------------------------------------------------------------
Publish(e) == PublishCheck(e) \/ PublishSend(e) \/ PublishFull(e) \/ PublishCount(e)

\* publishBatchOnce returns, with or without an error.
Write(w) == WriteOk(w) \/ WriteError(w)

Work(w) == \/ SelectEvent(w) \/ SelectDone(w)
           \/ CollectEvent(w) \/ CollectEnd(w)
           \/ Retry(w) \/ Abandon(w)
           \/ DrainEvent(w) \/ DrainEmpty(w)
           \/ Write(w)

Close == CloseBegin \/ CloseDone \/ CloseInner

Next == \/ \E e \in Events : Publish(e)
        \/ \E w \in Workers : Work(w)
        \/ Close

Spec == Init /\ [][Next]_vars

(***************************************************************************)
(* Fairness.  Goroutines run, timers fire and every write returns within   *)
(* its 5 seconds, so each worker always goes on, and a call of Close that  *)
(* has begun does too.  Abandon gets strong fairness: a select entered     *)
(* after done was closed finds done ready and its timer not yet fired.     *)
(***************************************************************************)
Fairness ==
    /\ \A e \in Events : WF_vars(PublishSend(e) \/ PublishFull(e) \/ PublishCount(e))
    /\ \A w \in Workers : WF_vars(Work(w)) /\ WF_vars(CollectEnd(w)) /\ SF_vars(Abandon(w))
    /\ WF_vars(CloseDone \/ CloseInner)

FairSpec == Spec /\ Fairness

\* Kafka does not fail for ever: a worker that keeps trying succeeds.
KafkaRecovers == \A w \in Workers : SF_vars(WriteOk(w))

----------------------------------------------------------------------------
(* Properties.                                                              *)

TypeOK ==
    /\ caller \in [Events -> CallSteps]
    /\ queue \in Seq(Events) /\ Len(queue) <= QueueSize
    /\ closed \in BOOLEAN /\ done \in BOOLEAN /\ finished \in BOOLEAN
    /\ worker \in [Workers -> WorkerSteps]
    /\ batch \in [Workers -> Seq(Events)]
    /\ \A w \in Workers : Len(batch[w]) <= BatchSize
    /\ kafka \in Seq(Events)
    /\ stats \in [Queued : Nat, Dropped : Nat, Published : Nat]
    /\ entered \in Seq(Events)
    /\ unlucky \subseteq Events /\ late \subseteq Events

\* Publish has put e into the channel (its caller answers kafkaQueued=true).
Taken(e) == caller[e] \in {"sent", "accepted"}

\* e waits in the channel or in the batch of a worker.
Held(e) == e \in Range(queue) \/ \E w \in Workers : e \in Range(batch[w])

\* Until the publisher is closed no accepted event is lost, whatever Kafka
\* does: it waits in the channel, a worker keeps it across failed writes, or
\* it is in the topic.
NoLossBeforeClose ==
    ~done => \A e \in Events : Taken(e) => Held(e) \/ e \in Range(kafka)

\* No two workers, nor a worker and the channel, hold the same event, and
\* nobody holds it twice; so one copy is written unless a write fails.
SingleCustody ==
    /\ \A i, j \in DOMAIN queue : i # j => queue[i] # queue[j]
    /\ \A w \in Workers :
          /\ Range(batch[w]) \intersect Range(queue) = {}
          /\ \A i, j \in DOMAIN batch[w] : i # j => batch[w][i] # batch[w][j]
          /\ \A v \in Workers \ {w} : Range(batch[w]) \intersect Range(batch[v]) = {}

\* The counters of /metrics account for every event while the publisher is
\* open: Published is what left the channel and the batches, an event written
\* in part by a failed attempt is counted once, by the attempt that succeeds;
\* Queued lags behind by the sends not yet counted.
CountersAccount ==
    /\ ~done =>
          stats.Published + Cardinality({e \in Events : Held(e)}) = Len(entered)
    /\ stats.Queued + Cardinality({e \in Events : caller[e] = "sent"}) = Len(entered)
    /\ stats.Dropped = Cardinality({e \in Events : caller[e] = "refused"})

\* With one worker and no failed write the topic receives the events in the
\* order Publish took them, across shutdown too.  (More workers reorder the
\* events of one employee.)
SingleWorkerFifo ==
    \A w \in Workers :
        Workers = {w} /\ unlucky = {} => entered = kafka \o batch[w] \o queue

\* Shutdown without a failed write delivers: when Close has returned, the
\* only accepted events missing from the topic had a failed write or came
\* from a call that passed its check of closed before Close set it.
ShutdownDelivers ==
    finished => \A e \in Events :
        Taken(e) => e \in Range(kafka) \union unlucky \union late

\* Every accepted event reaches Kafka if Kafka recovers and the process is
\* not shut down.
AcceptedIsWritten ==
    KafkaRecovers => \A e \in Events : Taken(e) ~> (e \in Range(kafka) \/ closed)

\* Close returns, even if Kafka never answers a write with success.
CloseReturns == closed ~> finished
=============================================================================
