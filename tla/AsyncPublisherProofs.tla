------------------------ MODULE AsyncPublisherProofs ------------------------
(***************************************************************************)
(* Proofs about AsyncPublisher, for every set of events and workers and    *)
(* every channel capacity and batch size.                                  *)
(***************************************************************************)
EXTENDS AsyncPublisher, SequenceTheorems, FiniteSetTheorems, TLAPS

\* Where a worker is says how much it holds; the type invariant alone is not
\* inductive, because SelectEvent and DrainEvent add to what a worker holds.
BatchShape ==
    \A w \in Workers :
        /\ worker[w] \in {"select", "exited"} => batch[w] = <<>>
        /\ worker[w] = "drain" => Len(batch[w]) < BatchSize

TypeInv == TypeOK /\ BatchShape

----------------------------------------------------------------------------
(* Lemmas about the sequences of the model.                                 *)

\* Taking the head of a sequence splits its range.
LEMMA HeadTailRange ==
    ASSUME NEW S, NEW s \in Seq(S), s # <<>>
    PROVE  /\ Head(s) \in S /\ Tail(s) \in Seq(S)
           /\ Len(Tail(s)) = Len(s) - 1
           /\ Range(s) = {Head(s)} \union Range(Tail(s))
<1>1. /\ Head(s) \in S /\ Tail(s) \in Seq(S) /\ Len(Tail(s)) = Len(s) - 1
      /\ \A i \in 1..Len(Tail(s)) : Tail(s)[i] = s[i + 1]
  BY HeadTailProperties
<1>2. Range(s) = {s[i] : i \in 1..Len(s)} /\ Head(s) = s[1] /\ Len(s) \in Nat \ {0}
  BY RangeEquality, EmptySeq
<1>3. Range(Tail(s)) = {Tail(s)[i] : i \in 1..Len(Tail(s))}
  BY <1>1, RangeEquality
<1>4. \A i \in 1..Len(s) : i = 1 \/ i - 1 \in 1..Len(Tail(s))
  BY <1>1, <1>2
<1>5. \A i \in 1..Len(Tail(s)) : i + 1 \in 1..Len(s)
  BY <1>1, <1>2
<1>6. ASSUME NEW x \in Range(s)
      PROVE  x \in {Head(s)} \union Range(Tail(s))
  <2>1. PICK i \in 1..Len(s) : x = s[i]
    BY <1>2
  <2>2. CASE i = 1
    BY <2>1, <2>2, <1>2
  <2>3. CASE i - 1 \in 1..Len(Tail(s))
    <3>1. Tail(s)[i - 1] = s[i]
      BY <1>1, <2>3
    <3> QED
      BY <1>3, <2>1, <2>3, <3>1
  <2> QED
    BY <1>4, <2>2, <2>3
<1>7. ASSUME NEW x \in Range(Tail(s))
      PROVE  x \in Range(s)
  <2>1. PICK i \in 1..Len(Tail(s)) : x = Tail(s)[i]
    BY <1>3
  <2> QED
    BY <2>1, <1>1, <1>2, <1>5
<1>8. Head(s) \in Range(s)
  BY <1>2
<1> QED
  BY <1>1, <1>6, <1>7, <1>8

\* Appending an element adds it to the range.
LEMMA AppendRange ==
    ASSUME NEW S, NEW s \in Seq(S), NEW x \in S
    PROVE  /\ Append(s, x) \in Seq(S)
           /\ Len(Append(s, x)) = Len(s) + 1
           /\ Range(Append(s, x)) = Range(s) \union {x}
<1>1. /\ Append(s, x) \in Seq(S) /\ Len(Append(s, x)) = Len(s) + 1
      /\ \A i \in 1..Len(s) : Append(s, x)[i] = s[i]
      /\ Append(s, x)[Len(s) + 1] = x
  BY AppendProperties
<1>2. /\ Range(s) = {s[i] : i \in 1..Len(s)}
      /\ Range(Append(s, x)) = {Append(s, x)[i] : i \in 1..Len(s) + 1}
  BY <1>1, RangeEquality
<1>3. 1..Len(s) + 1 = 1..Len(s) \union {Len(s) + 1}
  OBVIOUS
<1>4. Range(Append(s, x)) = Range(s) \union {x}
  BY <1>1, <1>2, <1>3
<1> QED
  BY <1>1, <1>4

\* A subsequence is a sequence over the same elements.
LEMMA SubsequenceType ==
    ASSUME NEW S, NEW s \in Seq(S), NEW p \in Subsequences(s)
    PROVE  p \in Seq(S) /\ Range(p) \subseteq Range(s)
<1>1. PICK n \in 0..Len(s) :
        \E f \in [1..n -> 1..Len(s)] : p = [i \in 1..n |-> s[f[i]]]
  BY DEF Subsequences
<1>2. p \in Seq(S)
  BY <1>1
<1>3. Range(p) \subseteq Range(s)
  BY <1>1 DEF Range
<1> QED
  BY <1>2, <1>3

\* What taking an event out of the channel does, for a worker w.
LEMMA TakeHeadFacts ==
    ASSUME TypeOK, NEW w \in Workers, TakeHead(w)
    PROVE  /\ Head(queue) \in Events
           /\ queue' \in Seq(Events) /\ Len(queue') <= QueueSize
           /\ Range(queue) = {Head(queue)} \union Range(queue')
           /\ batch' \in [Workers -> Seq(Events)]
           /\ Len(batch'[w]) = Len(batch[w]) + 1
           /\ Range(batch'[w]) = Range(batch[w]) \union {Head(queue)}
           /\ \A v \in Workers \ {w} : batch'[v] = batch[v]
<1>1. queue \in Seq(Events) /\ queue # <<>> /\ queue' = Tail(queue) /\ Len(queue) <= QueueSize
  BY DEF TypeOK, TakeHead
<1>2. /\ Head(queue) \in Events /\ queue' \in Seq(Events)
      /\ Len(queue') = Len(queue) - 1
      /\ Range(queue) = {Head(queue)} \union Range(queue')
  BY <1>1, HeadTailRange
<1>3. Len(queue') <= QueueSize
  BY <1>1, <1>2, SizesPositive
<1>4. batch \in [Workers -> Seq(Events)] /\ batch' = [batch EXCEPT ![w] = Append(@, Head(queue))]
  BY DEF TypeOK, TakeHead
<1>5. /\ Append(batch[w], Head(queue)) \in Seq(Events)
      /\ Len(Append(batch[w], Head(queue))) = Len(batch[w]) + 1
      /\ Range(Append(batch[w], Head(queue))) = Range(batch[w]) \union {Head(queue)}
  BY <1>2, <1>4, AppendRange
<1> QED
  BY <1>2, <1>3, <1>4, <1>5

\* What an attempt to write the batch of w leaves in the topic.
LEMMA FirstCopiesType ==
    ASSUME TypeOK, NEW w \in Workers, NEW p \in FirstCopies(batch[w])
    PROVE  /\ kafka \o p \in Seq(Events)
           /\ Range(kafka \o p) = Range(kafka) \union Range(p)
<1>1. batch[w] \in Seq(Events) /\ kafka \in Seq(Events)
  BY DEF TypeOK
<1>2. p \in Seq(Events)
  BY <1>1, SubsequenceType DEF FirstCopies
<1> QED
  BY <1>1, <1>2, RangeConcatenation, ConcatProperties

----------------------------------------------------------------------------
(* Type correctness.                                                        *)

LEMMA InitTypeInv == Init => TypeInv
<1> SUFFICES ASSUME Init PROVE TypeInv
  OBVIOUS
<1>1. <<>> \in Seq(Events) /\ Len(<<>>) = 0
  OBVIOUS
<1>2. /\ batch \in [Workers -> Seq(Events)]
      /\ \A w \in Workers : batch[w] = <<>> /\ Len(batch[w]) = 0
  BY <1>1 DEF Init
<1>3. BatchShape
  BY <1>2, SizesPositive DEF BatchShape
<1>4. /\ caller \in [Events -> CallSteps] /\ worker \in [Workers -> WorkerSteps]
      /\ queue \in Seq(Events) /\ Len(queue) <= QueueSize
      /\ \A w \in Workers : Len(batch[w]) <= BatchSize
      /\ stats \in [Queued : Nat, Dropped : Nat, Published : Nat]
  BY <1>1, <1>2, SizesPositive DEF Init, CallSteps, WorkerSteps
<1>5. TypeOK
  BY <1>1, <1>2, <1>4 DEF Init, TypeOK
<1> QED
  BY <1>3, <1>5 DEF TypeInv

\* The steps of one worker, taken together by what they do to its batch.
LEMMA WorkTypeInv ==
    ASSUME TypeInv, NEW w \in Workers, Work(w)
    PROVE  TypeInv'
<1> USE DEF TypeInv
<1>0. /\ worker \in [Workers -> WorkerSteps] /\ batch \in [Workers -> Seq(Events)]
      /\ queue \in Seq(Events) /\ kafka \in Seq(Events)
      /\ \A v \in Workers : Len(batch[v]) \in Nat /\ Len(batch[v]) <= BatchSize
      /\ BatchSize \in Nat \ {0} /\ QueueSize \in Nat \ {0}
  BY SizesPositive DEF TypeOK
<1>1. CASE SelectEvent(w)
  <2>1. TakeHead(w) /\ worker[w] = "select" /\ batch[w] = <<>>
    BY <1>1 DEF SelectEvent, BatchShape
  <2>2. Len(batch'[w]) = 1 /\ BatchSize >= 1
    <3>1. Len(batch[w]) = 0
      BY <2>1
    <3>2. Len(batch'[w]) = Len(batch[w]) + 1
      BY <2>1, TakeHeadFacts
    <3> QED
      BY <1>0, <3>1, <3>2
  <2>3. TypeOK'
    BY <1>0, <1>1, <2>1, <2>2, TakeHeadFacts
       DEF SelectEvent, TypeOK, Goto, WorkerSteps, callVars
  <2>4. BatchShape'
    BY <1>0, <1>1, <2>1, TakeHeadFacts DEF SelectEvent, BatchShape, Goto
  <2> QED
    BY <2>3, <2>4
<1>2. CASE CollectEvent(w)
  <2>1. TakeHead(w) /\ worker[w] = "collect" /\ Len(batch[w]) < BatchSize
    BY <1>2 DEF CollectEvent
  <2>2. Len(batch'[w]) <= BatchSize
    BY <1>0, <2>1, TakeHeadFacts
  <2>3. TypeOK'
    BY <1>0, <1>2, <2>1, <2>2, TakeHeadFacts DEF CollectEvent, TypeOK, callVars
  <2>4. BatchShape'
    BY <1>0, <1>2, <2>1, TakeHeadFacts DEF CollectEvent, BatchShape
  <2> QED
    BY <2>3, <2>4
<1>3. CASE DrainEvent(w)
  <2>1. TakeHead(w) /\ worker[w] = "drain" /\ Len(batch[w]) < BatchSize
    BY <1>3 DEF DrainEvent, BatchShape
  <2>2. Len(batch'[w]) = Len(batch[w]) + 1 /\ Len(batch'[w]) <= BatchSize
    BY <1>0, <2>1, TakeHeadFacts
  <2>3. TypeOK'
    BY <1>0, <1>3, <2>1, <2>2, TakeHeadFacts
       DEF DrainEvent, TypeOK, Goto, WorkerSteps, Writing, callVars
  <2>4. BatchShape'
    BY <1>0, <1>3, <2>1, <2>2, TakeHeadFacts DEF DrainEvent, BatchShape, Goto
  <2> QED
    BY <2>3, <2>4
<1>4. CASE SelectDone(w) \/ CollectEnd(w) \/ Retry(w) \/ DrainEmpty(w)
  <2>1. /\ UNCHANGED <<callVars, queue, batch, kafka, stats, unlucky>>
        /\ \E step \in WorkerSteps :
              /\ worker' = [worker EXCEPT ![w] = step]
              /\ step \in {"select", "exited", "drain"} => batch[w] = <<>>
    BY <1>4 DEF SelectDone, CollectEnd, Retry, DrainEmpty, Goto, WorkerSteps, Writing, BatchShape
  <2>2. TypeOK'
    BY <1>0, <2>1 DEF TypeOK, callVars
  <2>3. BatchShape'
    BY <1>0, <2>1 DEF BatchShape
  <2> QED
    BY <2>2, <2>3
<1>5. CASE Abandon(w)
  <2>1. <<>> \in Seq(Events) /\ Len(<<>>) = 0
    OBVIOUS
  <2>2. TypeOK'
    BY <1>0, <1>5, <2>1 DEF Abandon, TypeOK, Goto, WorkerSteps, callVars
  <2>3. BatchShape'
    BY <1>0, <1>5, <2>1 DEF Abandon, BatchShape, Goto
  <2> QED
    BY <2>2, <2>3
<1>6. CASE WriteOk(w)
  <2>1. kafka' \in Seq(Events)
    BY <1>6, FirstCopiesType DEF WriteOk
  <2>2. stats' \in [Queued : Nat, Dropped : Nat, Published : Nat]
    <3>1. stats \in [Queued : Nat, Dropped : Nat, Published : Nat] /\ Len(batch[w]) \in Nat
      BY <1>0 DEF TypeOK
    <3>2. stats' = [stats EXCEPT !.Published = @ + Len(batch[w])]
      BY <1>6 DEF WriteOk
    <3> QED
      BY <3>1, <3>2
  <2>3. /\ <<>> \in Seq(Events) /\ Len(<<>>) = 0
        /\ AfterWrite(w) \in {"select", "drain", "exited"}
    BY <1>6 DEF WriteOk, AfterWrite, Writing
  <2>4. TypeOK'
    BY <1>0, <1>6, <2>1, <2>2, <2>3 DEF WriteOk, TypeOK, Goto, WorkerSteps, callVars
  <2>5. BatchShape'
    BY <1>0, <1>6, <2>3 DEF WriteOk, BatchShape, Goto
  <2> QED
    BY <2>4, <2>5
<1>7. CASE WriteError(w)
  <2>1. kafka' \in Seq(Events)
    BY <1>7, FirstCopiesType DEF WriteError
  <2>2. unlucky' \subseteq Events
    BY <1>0, <1>7, RangeOfSeq DEF WriteError, TypeOK
  <2>3. /\ <<>> \in Seq(Events) /\ Len(<<>>) = 0
        /\ AfterWrite(w) \in {"select", "drain", "exited"}
    BY <1>7 DEF WriteError, AfterWrite, Writing
  <2>4. TypeOK'
    <3>1. /\ batch' \in [Workers -> Seq(Events)]
          /\ \A v \in Workers : Len(batch'[v]) <= BatchSize
      <4>1. CASE batch' = batch
        BY <1>0, <4>1
      <4>2. CASE batch' = [batch EXCEPT ![w] = <<>>]
        BY <1>0, <2>3, <4>2
      <4> QED
        BY <1>7, <4>1, <4>2 DEF WriteError
    <3>2. worker' \in [Workers -> WorkerSteps]
      BY <1>0, <1>7, <2>3 DEF WriteError, Goto, WorkerSteps
    <3> QED
      BY <1>0, <1>7, <2>1, <2>2, <3>1, <3>2 DEF WriteError, TypeOK, callVars
  <2>5. BatchShape'
    BY <1>0, <1>7, <2>3 DEF WriteError, BatchShape, Goto
  <2> QED
    BY <2>4, <2>5
<1> QED
  BY <1>1, <1>2, <1>3, <1>4, <1>5, <1>6, <1>7 DEF Work, Write

LEMMA NextTypeInv ==
    ASSUME TypeInv, [Next]_vars
    PROVE  TypeInv'
<1>1. ASSUME NEW e \in Events, Publish(e)
      PROVE  TypeInv'
  <2>1. /\ queue \in Seq(Events) /\ entered \in Seq(Events) /\ QueueSize \in Nat
        /\ caller \in [Events -> CallSteps]
    BY SizesPositive DEF TypeInv, TypeOK
  <2>2. queue' \in Seq(Events) /\ Len(queue') <= QueueSize /\ entered' \in Seq(Events)
    <3>1. CASE PublishSend(e)
      BY <2>1, <3>1, AppendProperties DEF PublishSend
    <3>2. CASE ~PublishSend(e)
      BY <1>1, <3>2 DEF Publish, PublishCheck, PublishFull, PublishCount, TypeInv, TypeOK
    <3> QED
      BY <3>1, <3>2
  <2>3. caller' \in [Events -> CallSteps]
    BY <1>1, <2>1
       DEF Publish, PublishCheck, PublishSend, PublishFull, PublishCount, CallSteps
  <2>4. stats' \in [Queued : Nat, Dropped : Nat, Published : Nat]
    BY <1>1, SMTT(60)
       DEF Publish, PublishCheck, PublishSend, PublishFull, PublishCount, TypeInv, TypeOK
  <2>5. UNCHANGED <<closed, done, finished, worker, batch, kafka, unlucky, late>>
    BY <1>1 DEF Publish, PublishCheck, PublishSend, PublishFull, PublishCount
  <2> QED
    BY <2>2, <2>3, <2>4, <2>5 DEF TypeInv, TypeOK, BatchShape
<1>2. ASSUME NEW w \in Workers, Work(w)
      PROVE  TypeInv'
  BY <1>2, WorkTypeInv
<1>3. CASE Close
  BY <1>3 DEF Close, CloseBegin, CloseDone, CloseInner, TypeInv, TypeOK, BatchShape
<1>4. CASE UNCHANGED vars
  BY <1>4 DEF vars, TypeInv, TypeOK, BatchShape
<1> QED
  BY <1>1, <1>2, <1>3, <1>4 DEF Next

\* Every variable keeps its type: in particular the channel never holds more
\* than QueueSize events and a worker never more than BatchSize.
THEOREM TypeCorrect == Spec => []TypeOK
<1>1. Spec => []TypeInv
  BY InitTypeInv, NextTypeInv, PTL DEF Spec
<1>2. TypeInv => TypeOK
  BY DEF TypeInv
<1> QED
  BY <1>1, <1>2, PTL

----------------------------------------------------------------------------
(* No accepted event is lost.                                               *)

\* Only a closed publisher drains, and Close returns when nobody works.
ClosingShape ==
    /\ done => closed
    /\ finished => \A w \in Workers : worker[w] = "exited"
    /\ \A w \in Workers :
          worker[w] \in {"drain", "drainFull", "drainLast", "exited"} => done

\* A worker that backs off holds a batch whose write failed.
BackoffUnlucky ==
    \A w \in Workers : worker[w] = "backoff" => Range(batch[w]) \subseteq unlucky

\* Where every accepted event is, at any time.
Accounted ==
    \A e \in Events : Taken(e) => \/ Held(e)
                                  \/ e \in Range(kafka)
                                  \/ done /\ e \in unlucky

\* After a worker has seen the channel empty in drain, only calls that were
\* already past their check when Close began can put events into it.
OnlyLateAfterDrain ==
    /\ closed => \A e \in Events : caller[e] = "checked" => e \in late
    /\ (\E w \in Workers : worker[w] \in {"drainLast", "exited"})
          => Range(queue) \subseteq late

LossInv == /\ TypeInv
           /\ ClosingShape
           /\ BackoffUnlucky
           /\ Accounted
           /\ OnlyLateAfterDrain

LEMMA InitLossInv == Init => LossInv
<1> SUFFICES ASSUME Init PROVE LossInv
  OBVIOUS
<1>1. Range(<<>>) = {}
  BY DEF Range
<1>2. ClosingShape /\ BackoffUnlucky /\ OnlyLateAfterDrain
  BY <1>1 DEF Init, ClosingShape, BackoffUnlucky, OnlyLateAfterDrain
<1>3. Accounted
  BY DEF Init, Accounted, Taken
<1> QED
  BY <1>2, <1>3, InitTypeInv DEF LossInv

\* A step that takes an event from the channel into a batch.
LEMMA TakeLossInv ==
    ASSUME LossInv, TypeInv', NEW w \in Workers,
           SelectEvent(w) \/ CollectEvent(w) \/ DrainEvent(w)
    PROVE  LossInv'
<1>1. /\ TakeHead(w)
      /\ UNCHANGED <<callVars, kafka, unlucky>>
      /\ \/ worker' = worker /\ worker[w] = "collect"
         \/ worker' = [worker EXCEPT ![w] = "collect"] /\ worker[w] = "select"
         \/ \E step \in {"drain", "drainFull"} :
               worker' = [worker EXCEPT ![w] = step] /\ worker[w] = "drain"
  BY DEF SelectEvent, CollectEvent, DrainEvent, Goto
<1>2. TypeOK /\ worker \in [Workers -> WorkerSteps]
  BY DEF LossInv, TypeInv, TypeOK
<1>3. /\ Range(queue) = {Head(queue)} \union Range(queue')
      /\ Range(batch'[w]) = Range(batch[w]) \union {Head(queue)}
      /\ \A v \in Workers \ {w} : batch'[v] = batch[v]
  BY <1>1, <1>2, TakeHeadFacts
<1>4. ClosingShape'
  BY <1>1, <1>2 DEF LossInv, ClosingShape, callVars
<1>5. BackoffUnlucky'
  BY <1>1, <1>2, <1>3 DEF LossInv, BackoffUnlucky, callVars
<1>6. \A e \in Events : Held(e) => Held(e)'
  BY <1>3 DEF Held
<1>7. Accounted'
  BY <1>1, <1>6 DEF LossInv, Accounted, Taken, callVars
<1>8. OnlyLateAfterDrain'
  BY <1>1, <1>2, <1>3 DEF LossInv, OnlyLateAfterDrain, callVars
<1> QED
  BY <1>4, <1>5, <1>7, <1>8 DEF LossInv

\* A step that moves a worker and leaves every event where it is.
LEMMA MoveLossInv ==
    ASSUME LossInv, TypeInv', NEW w \in Workers,
           SelectDone(w) \/ CollectEnd(w) \/ Retry(w) \/ DrainEmpty(w)
    PROVE  LossInv'
<1>1. UNCHANGED <<callVars, queue, batch, kafka, unlucky>>
  BY DEF SelectDone, CollectEnd, Retry, DrainEmpty
<1>2. /\ worker \in [Workers -> WorkerSteps]
      /\ \E step \in WorkerSteps \ {"backoff"} :
            /\ worker' = [worker EXCEPT ![w] = step]
            /\ step \in {"drain", "drainFull", "drainLast", "exited"} => done
            /\ step \in {"drainLast", "exited"} => queue = <<>>
  BY DEF SelectDone, CollectEnd, Retry, DrainEmpty, Goto, WorkerSteps, Writing,
         LossInv, TypeInv, TypeOK, ClosingShape
<1>3. Range(<<>>) = {}
  BY DEF Range
<1>4. ~ finished
  BY DEF LossInv, ClosingShape, SelectDone, CollectEnd, Retry, DrainEmpty
<1>5. ClosingShape'
  BY <1>1, <1>2, <1>4 DEF LossInv, ClosingShape, callVars
<1>6. BackoffUnlucky'
  BY <1>1, <1>2 DEF LossInv, BackoffUnlucky, callVars
<1>7. Accounted'
  BY <1>1 DEF LossInv, Accounted, Taken, Held, callVars
<1>8. OnlyLateAfterDrain'
  BY <1>1, <1>2, <1>3 DEF LossInv, OnlyLateAfterDrain, callVars
<1> QED
  BY <1>5, <1>6, <1>7, <1>8 DEF LossInv

\* A step that ends what a worker does with its batch: the events are in the
\* topic, or stay in the batch, or are given up after done with a failed write.
LEMMA BatchLossInv ==
    ASSUME LossInv, TypeInv', NEW w \in Workers,
           Abandon(w) \/ WriteOk(w) \/ WriteError(w)
    PROVE  LossInv'
<1> DEFINE Settled(e) == \/ e \in Range(batch'[w]) \/ e \in Range(kafka')
                         \/ done /\ e \in unlucky'
<1>1. /\ worker \in [Workers -> WorkerSteps] /\ batch \in [Workers -> Seq(Events)]
      /\ TypeOK
  BY DEF LossInv, TypeInv, TypeOK
<1>2. /\ UNCHANGED <<callVars, queue>>
      /\ \A v \in Workers \ {w} : batch'[v] = batch[v]
      /\ unlucky \subseteq unlucky'
  BY <1>1 DEF Abandon, WriteOk, WriteError
<1>3. /\ Range(kafka) \subseteq Range(kafka')
      /\ \A e \in Range(batch[w]) : Settled(e)
  <2>1. CASE Abandon(w)
    BY <2>1 DEF Abandon, LossInv, BackoffUnlucky
  <2>2. CASE WriteOk(w)
    <3>1. PICK p \in FirstCopies(batch[w]) :
             /\ Range(batch[w]) \subseteq Range(p) \union Range(kafka)
             /\ kafka' = kafka \o p
      BY <2>2 DEF WriteOk
    <3>2. Range(kafka') = Range(kafka) \union Range(p)
      BY <1>1, <3>1, FirstCopiesType
    <3> QED
      BY <3>1, <3>2
  <2>3. CASE WriteError(w)
    <3>1. PICK p \in FirstCopies(batch[w]) : kafka' = kafka \o p
      BY <2>3 DEF WriteError
    <3>2. Range(kafka') = Range(kafka) \union Range(p)
      BY <1>1, <3>1, FirstCopiesType
    <3>3. Range(batch[w]) \subseteq unlucky'
      BY <2>3 DEF WriteError
    <3>4. CASE worker[w] = "publish"
      BY <2>3, <3>2, <3>4 DEF WriteError
    <3>5. CASE worker[w] # "publish"
      BY <2>3, <3>2, <3>3, <3>5 DEF WriteError, Writing, LossInv, ClosingShape
    <3> QED
      BY <3>4, <3>5
  <2> QED
    BY <2>1, <2>2, <2>3
<1>4. /\ \E step \in WorkerSteps :
            /\ worker' = [worker EXCEPT ![w] = step]
            /\ step \in {"drain", "drainFull", "drainLast", "exited"} => done
            /\ step # "drainLast"
            /\ step = "exited" => worker[w] = "drainLast"
            /\ step = "backoff" => Range(batch'[w]) \subseteq unlucky'
      /\ worker[w] \notin {"exited"}
  <2>1. CASE Abandon(w)
    <3>1. worker' = [worker EXCEPT ![w] = "select"] /\ worker[w] = "backoff"
      BY <2>1 DEF Abandon, Goto
    <3>2. "select" \in WorkerSteps
      BY DEF WorkerSteps
    <3> QED
      BY <3>1, <3>2
  <2>2. worker[w] \in Writing =>
          /\ AfterWrite(w) \in {"select", "drain", "exited"} /\ AfterWrite(w) \in WorkerSteps
          /\ AfterWrite(w) \in {"drain", "exited"} => done
          /\ AfterWrite(w) = "exited" => worker[w] = "drainLast"
    BY DEF AfterWrite, WorkerSteps, Writing, LossInv, ClosingShape
  <2>3. CASE WriteOk(w)
    BY <2>2, <2>3 DEF WriteOk, Goto, Writing
  <2>4. CASE WriteError(w) /\ worker[w] = "publish"
    BY <2>4 DEF WriteError, Goto, WorkerSteps
  <2>5. CASE WriteError(w) /\ worker[w] # "publish"
    BY <2>2, <2>5 DEF WriteError, Goto, Writing
  <2> QED
    BY <2>1, <2>3, <2>4, <2>5
<1>5. ClosingShape'
  BY <1>1, <1>2, <1>4 DEF LossInv, ClosingShape, callVars
<1>6. BackoffUnlucky'
  BY <1>1, <1>2, <1>4 DEF LossInv, BackoffUnlucky, callVars
<1>7. Accounted'
  BY <1>2, <1>3 DEF LossInv, Accounted, Taken, Held, callVars
<1>8. OnlyLateAfterDrain'
  BY <1>1, <1>2, <1>4 DEF LossInv, OnlyLateAfterDrain, callVars
<1> QED
  BY <1>5, <1>6, <1>7, <1>8 DEF LossInv

\* The steps of a call of Publish.
LEMMA PublishLossInv ==
    ASSUME LossInv, TypeInv', NEW e \in Events, Publish(e)
    PROVE  LossInv'
<1>1. /\ caller \in [Events -> CallSteps] /\ queue \in Seq(Events)
      /\ UNCHANGED <<closed, done, finished, worker, batch, kafka, unlucky, late>>
  BY DEF Publish, PublishCheck, PublishSend, PublishFull, PublishCount,
         LossInv, TypeInv, TypeOK
<1>2. /\ Range(queue) \subseteq Range(queue')
      /\ Range(queue') \subseteq Range(queue) \union {e}
      /\ Range(queue') # Range(queue) => caller[e] = "checked"
      /\ \A x \in Events : Taken(x)' => Taken(x) \/ x \in Range(queue')
  <2>1. CASE PublishSend(e)
    <3>1. Range(queue') = Range(queue) \union {e}
      BY <1>1, <2>1, AppendRange DEF PublishSend
    <3> QED
      BY <1>1, <2>1, <3>1 DEF PublishSend, Taken
  <2>2. CASE ~PublishSend(e)
    BY <1>1, <2>2 DEF Publish, PublishCheck, PublishFull, PublishCount, Taken
  <2> QED
    BY <2>1, <2>2
<1>3. \A x \in Events : caller'[x] = "checked" => caller[x] = "checked" \/ ~closed
  BY <1>1 DEF Publish, PublishCheck, PublishSend, PublishFull, PublishCount
<1>4. ClosingShape' /\ BackoffUnlucky'
  BY <1>1 DEF LossInv, ClosingShape, BackoffUnlucky
<1>5. Accounted'
  BY <1>1, <1>2 DEF LossInv, Accounted, Held
<1>6. OnlyLateAfterDrain'
  BY <1>1, <1>2, <1>3 DEF LossInv, OnlyLateAfterDrain, ClosingShape
<1> QED
  BY <1>4, <1>5, <1>6 DEF LossInv

LEMMA NextLossInv ==
    ASSUME LossInv, [Next]_vars
    PROVE  LossInv'
<1>1. TypeInv'
  BY NextTypeInv DEF LossInv
<1>2. ASSUME NEW e \in Events, Publish(e)
      PROVE  LossInv'
  BY <1>1, <1>2, PublishLossInv
<1>3. ASSUME NEW w \in Workers, Work(w)
      PROVE  LossInv'
  BY <1>1, <1>3, TakeLossInv, MoveLossInv, BatchLossInv DEF Work, Write
<1>4. CASE Close
  <2>1. UNCHANGED <<caller, queue, worker, batch, kafka, unlucky>> /\ (done => done')
    BY <1>4 DEF Close, CloseBegin, CloseDone, CloseInner
  <2>2. ClosingShape' /\ BackoffUnlucky' /\ OnlyLateAfterDrain'
    BY <1>4, <2>1 DEF Close, CloseBegin, CloseDone, CloseInner,
                      LossInv, ClosingShape, BackoffUnlucky, OnlyLateAfterDrain
  <2>3. Accounted'
    BY <2>1 DEF LossInv, Accounted, Taken, Held
  <2> QED
    BY <1>1, <2>2, <2>3 DEF LossInv
<1>5. CASE UNCHANGED vars
  BY <1>1, <1>5 DEF vars, LossInv, ClosingShape, BackoffUnlucky, Accounted,
                    Taken, Held, OnlyLateAfterDrain
<1> QED
  BY <1>2, <1>3, <1>4, <1>5 DEF Next

LEMMA LossInvariant == Spec => []LossInv
  BY InitLossInv, NextLossInv, PTL DEF Spec

\* Until the publisher is closed no accepted event is lost, whatever Kafka does.
THEOREM NoLoss == Spec => []NoLossBeforeClose
<1>1. LossInv => NoLossBeforeClose
  BY DEF LossInv, Accounted, NoLossBeforeClose
<1> QED
  BY <1>1, LossInvariant, PTL

\* What a shutdown may leave undelivered: events of failed writes and events of
\* calls that were past their check of closed when Close began.
THEOREM ShutdownLosses == Spec => []ShutdownDelivers
<1>1. LossInv => ShutdownDelivers
  <2> SUFFICES ASSUME LossInv, finished, NEW e \in Events, Taken(e)
               PROVE  e \in Range(kafka) \union unlucky \union late
    BY DEF ShutdownDelivers
  <2>1. \A w \in Workers : worker[w] = "exited" /\ batch[w] = <<>>
    BY DEF LossInv, ClosingShape, TypeInv, BatchShape
  <2>2. Range(<<>>) = {}
    BY DEF Range
  <2>3. CASE Held(e)
    BY <2>1, <2>2, <2>3, SomeWorker DEF Held, LossInv, OnlyLateAfterDrain
  <2> QED
    BY <2>3 DEF LossInv, Accounted
<1> QED
  BY <1>1, LossInvariant, PTL

----------------------------------------------------------------------------
(* Who holds an event.                                                      *)

\* No element comes twice in s.
Distinct(s) == \A i, j \in DOMAIN s : i # j => s[i] # s[j]

\* The head of a sequence without repetitions is not in its tail.
LEMMA TailDistinct ==
    ASSUME NEW S, NEW s \in Seq(S), s # <<>>, Distinct(s)
    PROVE  Distinct(Tail(s)) /\ Head(s) \notin Range(Tail(s))
<1>1. /\ Tail(s) \in Seq(S) /\ Len(Tail(s)) = Len(s) - 1
      /\ \A i \in 1..Len(Tail(s)) : Tail(s)[i] = s[i + 1]
  BY HeadTailProperties
<1>2. Head(s) = s[1] /\ Len(s) \in Nat \ {0} /\ DOMAIN s = 1..Len(s)
  BY EmptySeq, LenProperties
<1>3. DOMAIN Tail(s) = 1..Len(Tail(s))
  BY <1>1, LenProperties
<1>4. \A i \in DOMAIN Tail(s) : i \in Nat /\ i + 1 \in DOMAIN s /\ i + 1 # 1
  BY <1>1, <1>2, <1>3
<1>5. Distinct(Tail(s))
  BY <1>1, <1>3, <1>4 DEF Distinct
<1>6. Head(s) \notin Range(Tail(s))
  BY <1>1, <1>2, <1>3, <1>4 DEF Distinct, Range
<1> QED
  BY <1>5, <1>6

\* A new element keeps a sequence without repetitions.
LEMMA AppendDistinct ==
    ASSUME NEW S, NEW s \in Seq(S), NEW x \in S, Distinct(s), x \notin Range(s)
    PROVE  Distinct(Append(s, x))
<1>1. /\ Append(s, x) \in Seq(S) /\ Len(Append(s, x)) = Len(s) + 1
      /\ \A i \in 1..Len(s) : Append(s, x)[i] = s[i]
      /\ Append(s, x)[Len(s) + 1] = x
  BY AppendProperties
<1>2. /\ DOMAIN s = 1..Len(s) /\ Len(s) \in Nat
      /\ DOMAIN Append(s, x) = 1..Len(s) + 1
  BY <1>1, LenProperties
<1>3. \A i \in DOMAIN s : s[i] # x
  BY DEF Range
<1> QED
  BY <1>1, <1>2, <1>3 DEF Distinct

\* A sequence without repetitions has as many elements as places.
LEMMA DistinctCardinality ==
    ASSUME NEW S, NEW s \in Seq(S), Distinct(s)
    PROVE  IsFiniteSet(Range(s)) /\ Cardinality(Range(s)) = Len(s)
<1>1. s \in [1..Len(s) -> S] /\ Len(s) \in Nat /\ DOMAIN s = 1..Len(s)
  BY LenProperties
<1>2. s \in [1..Len(s) -> Range(s)]
  BY <1>1 DEF Range
<1>3. s \in Bijection(1..Len(s), Range(s))
  BY <1>1, <1>2 DEF Bijection, Injection, Surjection, IsInjective, Distinct, Range
<1>4. IsFiniteSet(1..Len(s)) /\ Cardinality(1..Len(s)) = Len(s)
  <2>1. 1 \in Int /\ Len(s) \in Int
    BY <1>1
  <2>2. /\ IsFiniteSet(1..Len(s))
        /\ Cardinality(1..Len(s)) = IF 1 > Len(s) THEN 0 ELSE Len(s) - 1 + 1
    BY <2>1, FS_Interval, Zenon
  <2> QED
    BY <1>1, <2>2
<1> QED
  BY <1>3, <1>4, FS_Bijection DEF ExistsBijection

\* The channel and the batches hold different events, each once, and only events
\* whose call of Publish has sent them.
Custody == /\ TypeInv
           /\ SingleCustody
           /\ \A e \in Events : Held(e) => Taken(e)

LEMMA InitCustody == Init => Custody
<1> SUFFICES ASSUME Init PROVE Custody
  OBVIOUS
<1>1. Range(<<>>) = {} /\ DOMAIN <<>> = {}
  BY DEF Range
<1>2. SingleCustody
  BY <1>1 DEF Init, SingleCustody
<1>3. \A e \in Events : ~Held(e)
  BY <1>1 DEF Init, Held
<1> QED
  BY <1>2, <1>3, InitTypeInv DEF Custody

\* The event taken is nobody else's, and stays held.
LEMMA TakeCustody ==
    ASSUME Custody, NEW w \in Workers, TakeHead(w), caller' = caller, TypeInv'
    PROVE  Custody' /\ \A e \in Events : Held(e)' <=> Held(e)
<1>1. TypeOK /\ queue \in Seq(Events) /\ batch \in [Workers -> Seq(Events)]
  BY DEF Custody, TypeInv, TypeOK
<1>2. /\ Head(queue) \in Events
      /\ Range(queue) = {Head(queue)} \union Range(queue')
      /\ Range(batch'[w]) = Range(batch[w]) \union {Head(queue)}
      /\ \A v \in Workers \ {w} : batch'[v] = batch[v]
  BY <1>1, TakeHeadFacts
<1>3. queue # <<>> /\ queue' = Tail(queue) /\ batch'[w] = Append(batch[w], Head(queue))
  BY <1>1 DEF TakeHead
<1>4. Distinct(queue) /\ \A v \in Workers : Distinct(batch[v])
  BY DEF Custody, SingleCustody, Distinct
<1>5. Distinct(queue') /\ Head(queue) \notin Range(queue')
  BY <1>1, <1>3, <1>4, TailDistinct
<1>6. \A v \in Workers : Head(queue) \notin Range(batch[v])
  BY <1>2 DEF Custody, SingleCustody
<1>7. Distinct(batch'[w])
  BY <1>1, <1>2, <1>3, <1>4, <1>6, AppendDistinct
<1>8. \A v \in Workers : Distinct(batch'[v])
  BY <1>2, <1>4, <1>7
<1>9. \A v \in Workers : Range(batch'[v]) \intersect Range(queue') = {}
  <2> TAKE v \in Workers
  <2>1. Range(batch[v]) \intersect Range(queue) = {}
    BY DEF Custody, SingleCustody
  <2> QED
    BY <1>2, <1>5, <2>1
<1>10. \A u \in Workers : \A v \in Workers \ {u} :
           Range(batch'[u]) \intersect Range(batch'[v]) = {}
  <2> TAKE u \in Workers
  <2> TAKE v \in Workers \ {u}
  <2>1. Range(batch[u]) \intersect Range(batch[v]) = {}
    BY DEF Custody, SingleCustody
  <2> QED
    BY <1>2, <1>6, <2>1
<1>11. SingleCustody'
  BY <1>5, <1>8, <1>9, <1>10 DEF SingleCustody, Distinct
<1>12. \A e \in Events : Held(e)' <=> Held(e)
  BY <1>2 DEF Held
<1> QED
  BY <1>11, <1>12 DEF Custody, Taken

\* A step that empties the batch of one worker, or none, and leaves the channel.
LEMMA ReleaseCustody ==
    ASSUME Custody, NEW w \in Workers, UNCHANGED <<queue, caller>>, TypeInv',
           batch' = batch \/ batch' = [batch EXCEPT ![w] = <<>>]
    PROVE  Custody'
<1>1. batch \in [Workers -> Seq(Events)]
  BY DEF Custody, TypeInv, TypeOK
<1>2. Range(<<>>) = {} /\ DOMAIN <<>> = {}
  BY DEF Range
<1>3. \A v \in Workers : batch'[v] = batch[v] \/ batch'[v] = <<>>
  BY <1>1
<1>4. SingleCustody'
  BY <1>2, <1>3 DEF Custody, SingleCustody
<1>5. \A e \in Events : Held(e)' => Held(e)
  BY <1>2, <1>3 DEF Held
<1> QED
  BY <1>4, <1>5 DEF Custody, Taken

\* What is sent was in nobody's hands before.
LEMMA SendCustody ==
    ASSUME Custody, NEW e \in Events, PublishSend(e), TypeInv'
    PROVE  Custody' /\ ~Held(e) /\ \A x \in Events : Held(x)' <=> Held(x) \/ x = e
<1>1. /\ queue \in Seq(Events) /\ caller \in [Events -> CallSteps]
      /\ queue' = Append(queue, e) /\ caller' = [caller EXCEPT ![e] = "sent"]
      /\ batch' = batch /\ caller[e] = "checked"
  BY DEF Custody, TypeInv, TypeOK, PublishSend
<1>2. ~Held(e)
  BY <1>1 DEF Custody, Taken
<1>3. Range(queue') = Range(queue) \union {e}
  BY <1>1, AppendRange
<1>4. Distinct(queue')
  <2>1. Distinct(queue) /\ e \notin Range(queue)
    BY <1>2 DEF Custody, SingleCustody, Distinct, Held
  <2> QED
    BY <1>1, <2>1, AppendDistinct
<1>5. SingleCustody'
  <2>1. \A v \in Workers : e \notin Range(batch[v])
    BY <1>2 DEF Held
  <2>2. ASSUME NEW v \in Workers
        PROVE  Range(batch[v]) \intersect Range(queue') = {}
    <3>1. Range(batch[v]) \intersect Range(queue) = {}
      BY DEF Custody, SingleCustody
    <3> QED
      BY <1>3, <2>1, <3>1
  <2> QED
    BY <1>1, <1>4, <2>2, ZenonT(60) DEF Custody, SingleCustody, Distinct
<1>6. \A x \in Events : Held(x)' <=> Held(x) \/ x = e
  BY <1>1, <1>3 DEF Held
<1>7. \A x \in Events : Taken(x)' <=> Taken(x) \/ x = e
  BY <1>1 DEF Taken
<1> QED
  BY <1>2, <1>5, <1>6, <1>7 DEF Custody

LEMMA NextCustody ==
    ASSUME Custody, [Next]_vars
    PROVE  Custody'
<1>1. TypeInv'
  BY NextTypeInv DEF Custody
<1>2. ASSUME NEW e \in Events, Publish(e)
      PROVE  Custody'
  <2>1. CASE PublishSend(e)
    BY <1>1, <2>1, SendCustody
  <2>2. CASE ~PublishSend(e)
    <3>1. UNCHANGED <<queue, batch>> /\ \A x \in Events : Taken(x) => Taken(x)'
      BY <1>2, <2>2 DEF Publish, PublishCheck, PublishFull, PublishCount, Taken,
                        Custody, TypeInv, TypeOK
    <3> QED
      BY <1>1, <3>1 DEF Custody, SingleCustody, Held
  <2> QED
    BY <2>1, <2>2
<1>3. ASSUME NEW w \in Workers, Work(w)
      PROVE  Custody'
  <2>1. CASE SelectEvent(w) \/ CollectEvent(w) \/ DrainEvent(w)
    BY <1>1, <2>1, TakeCustody DEF SelectEvent, CollectEvent, DrainEvent, callVars
  <2>2. CASE ~(SelectEvent(w) \/ CollectEvent(w) \/ DrainEvent(w))
    <3>1. /\ UNCHANGED <<queue, caller>>
          /\ batch' = batch \/ batch' = [batch EXCEPT ![w] = <<>>]
      BY <1>3, <2>2 DEF Work, Write, SelectDone, CollectEnd, Retry, Abandon, DrainEmpty,
                        WriteOk, WriteError, callVars
    <3> QED
      BY <1>1, <3>1, ReleaseCustody
  <2> QED
    BY <2>1, <2>2
<1>4. CASE Close \/ UNCHANGED vars
  <2>1. UNCHANGED <<queue, caller, batch>>
    BY <1>4 DEF Close, CloseBegin, CloseDone, CloseInner, vars
  <2> QED
    BY <1>1, <2>1 DEF Custody, SingleCustody, Held, Taken
<1> QED
  BY <1>2, <1>3, <1>4 DEF Next

LEMMA CustodyInvariant == Spec => []Custody
  BY InitCustody, NextCustody, PTL DEF Spec

\* Whatever the workers do with the channel, and however often they retry a
\* batch, an event is in one place and there once (publisher.go, the loop of a
\* worker and publishBatchWithRecovery).
THEOREM CustodyIsSingle == Spec => []SingleCustody
<1>1. Custody => SingleCustody
  BY DEF Custody
<1> QED
  BY <1>1, CustodyInvariant, PTL

----------------------------------------------------------------------------
(* The counters.                                                            *)

HeldEvents == {e \in Events : Held(e)}
Sent == {e \in Events : caller[e] = "sent"}
Refused == {e \in Events : caller[e] = "refused"}

Counts ==
    /\ ~done => stats.Published + Cardinality(HeldEvents) = Len(entered)
    /\ stats.Queued + Cardinality(Sent) = Len(entered)
    /\ stats.Dropped = Cardinality(Refused)

\* An event more or less in a set of events.
LEMMA OneEvent ==
    ASSUME NEW S \in SUBSET Events, NEW e \in Events
    PROVE  /\ Cardinality(S) \in Nat
           /\ e \notin S => Cardinality(S \union {e}) = Cardinality(S) + 1
           /\ e \in S => Cardinality(S \ {e}) = Cardinality(S) - 1
<1>1. IsFiniteSet(S)
  BY FiniteParts, FS_Subset
<1> QED
  BY <1>1, FS_AddElement, FS_RemoveElement, FS_CardinalityType

LEMMA CountTypes ==
    ASSUME TypeOK
    PROVE  /\ stats \in [Queued : Nat, Dropped : Nat, Published : Nat]
           /\ Len(entered) \in Nat /\ entered \in Seq(Events)
           /\ caller \in [Events -> CallSteps]
           /\ HeldEvents \in SUBSET Events /\ IsFiniteSet(HeldEvents)
           /\ Sent \in SUBSET Events /\ Refused \in SUBSET Events
           /\ Cardinality(HeldEvents) \in Nat
           /\ Cardinality(Sent) \in Nat /\ Cardinality(Refused) \in Nat
<1>1. HeldEvents \in SUBSET Events /\ Sent \in SUBSET Events /\ Refused \in SUBSET Events
  BY DEF HeldEvents, Sent, Refused
<1>2. /\ entered \in Seq(Events) /\ stats \in [Queued : Nat, Dropped : Nat, Published : Nat]
      /\ caller \in [Events -> CallSteps]
  BY DEF TypeOK
<1>3. Len(entered) \in Nat
  BY <1>2, LenProperties
<1>4. IsFiniteSet(HeldEvents) /\ IsFiniteSet(Sent) /\ IsFiniteSet(Refused)
  BY <1>1, FiniteParts, FS_Subset
<1> QED
  BY <1>1, <1>2, <1>3, <1>4, FS_CardinalityType

LEMMA PublishCounts ==
    ASSUME Counts, Custody, Custody', NEW e \in Events, Publish(e)
    PROVE  Counts'
<1>1. TypeOK
  BY DEF Custody, TypeInv
<1>0. caller \in [Events -> CallSteps]
  BY <1>1 DEF TypeOK
<1>2. CASE PublishSend(e)
  <2>1. /\ entered' = Append(entered, e) /\ UNCHANGED <<done, stats>>
        /\ caller[e] = "checked" /\ caller' = [caller EXCEPT ![e] = "sent"]
    BY <1>2 DEF PublishSend
  <2>2. Len(entered') = Len(entered) + 1
    BY <1>1, <2>1, CountTypes, AppendProperties
  <2>3. HeldEvents' = HeldEvents \union {e} /\ e \notin HeldEvents
    BY <1>2, SendCustody DEF Custody, HeldEvents
  <2>4. Cardinality(HeldEvents') = Cardinality(HeldEvents) + 1
    BY <1>1, <2>3, CountTypes, OneEvent
  <2>5. Sent' = Sent \union {e} /\ e \notin Sent /\ Refused' = Refused
    BY <1>0, <2>1 DEF Sent, Refused
  <2>6. Cardinality(Sent') = Cardinality(Sent) + 1
    BY <1>1, <2>5, CountTypes, OneEvent
  <2> QED
    BY <1>1, <2>1, <2>2, <2>4, <2>5, <2>6, CountTypes DEF Counts
<1>3. CASE PublishCount(e)
  <2>1. /\ stats' = [stats EXCEPT !.Queued = @ + 1] /\ UNCHANGED <<entered, done, queue, batch>>
        /\ caller[e] = "sent" /\ caller' = [caller EXCEPT ![e] = "accepted"]
    BY <1>3 DEF PublishCount
  <2>2. Sent' = Sent \ {e} /\ e \in Sent /\ Refused' = Refused
    BY <1>0, <2>1 DEF Sent, Refused
  <2>4. Cardinality(Sent') = Cardinality(Sent) - 1
    BY <1>1, <2>2, CountTypes, OneEvent
  <2>3. HeldEvents' = HeldEvents
    BY <2>1 DEF HeldEvents, Held
  <2> QED
    BY <1>1, <2>1, <2>2, <2>3, <2>4, CountTypes DEF Counts
<1>4. ASSUME NEW from \in {"before", "checked"}, caller[e] = from,
             stats' = [stats EXCEPT !.Dropped = @ + 1],
             caller' = [caller EXCEPT ![e] = "refused"],
             UNCHANGED <<entered, done, queue, batch>>
      PROVE  Counts'
  <2>1. Refused' = Refused \union {e} /\ e \notin Refused /\ Sent' = Sent
    BY <1>0, <1>4 DEF Sent, Refused
  <2>3. Cardinality(Refused') = Cardinality(Refused) + 1
    BY <1>1, <2>1, CountTypes, OneEvent
  <2>2. HeldEvents' = HeldEvents
    BY <1>4 DEF HeldEvents, Held
  <2> QED
    BY <1>1, <1>4, <2>1, <2>2, <2>3, CountTypes DEF Counts
<1>5. CASE PublishCheck(e) /\ ~closed
  <2>1. /\ UNCHANGED <<stats, entered, done, queue, batch>>
        /\ caller[e] = "before" /\ caller' = [caller EXCEPT ![e] = "checked"]
    BY <1>5 DEF PublishCheck
  <2>2. Sent' = Sent /\ Refused' = Refused
    BY <1>0, <2>1 DEF Sent, Refused
  <2>3. HeldEvents' = HeldEvents
    BY <2>1 DEF HeldEvents, Held
  <2> QED
    BY <1>1, <2>1, <2>2, <2>3, CountTypes DEF Counts
<1> QED
  BY <1>2, <1>3, <1>4, <1>5 DEF Publish, PublishCheck, PublishFull

\* A write that succeeds moves its events from the batch to Published.
LEMMA WriteCounts ==
    ASSUME Counts, Custody, NEW w \in Workers, WriteOk(w)
    PROVE  Counts'
<1>1. /\ TypeOK /\ batch \in [Workers -> Seq(Events)]
      /\ stats' = [stats EXCEPT !.Published = @ + Len(batch[w])]
      /\ batch' = [batch EXCEPT ![w] = <<>>]
      /\ UNCHANGED <<entered, done, queue, caller>>
  BY DEF Custody, TypeInv, TypeOK, WriteOk, callVars
<1>2. Distinct(batch[w])
  BY DEF Custody, SingleCustody, Distinct
<1>3. /\ IsFiniteSet(Range(batch[w])) /\ Cardinality(Range(batch[w])) = Len(batch[w])
      /\ Len(batch[w]) \in Nat /\ Range(batch[w]) \subseteq Events
  BY <1>1, <1>2, DistinctCardinality, LenProperties, RangeOfSeq
<1>4. HeldEvents' = HeldEvents \ Range(batch[w]) /\ Range(batch[w]) \subseteq HeldEvents
  <2>1. Range(<<>>) = {}
    BY DEF Range
  <2>2. ASSUME NEW e \in Events
        PROVE  Held(e)' <=> Held(e) /\ e \notin Range(batch[w])
    <3>1. e \in Range(batch[w]) =>
              e \notin Range(queue) /\ \A v \in Workers \ {w} : e \notin Range(batch[v])
      BY DEF Custody, SingleCustody
    <3>2. /\ Range(batch'[w]) = {} /\ Range(queue') = Range(queue)
          /\ \A v \in Workers \ {w} : Range(batch'[v]) = Range(batch[v])
      BY <1>1, <2>1
    <3> QED
      BY <3>1, <3>2 DEF Held
  <2> QED
    BY <1>3, <2>2 DEF HeldEvents, Held
<1>5. Cardinality(HeldEvents') = Cardinality(HeldEvents) - Len(batch[w])
  <2>1. HeldEvents \intersect Range(batch[w]) = Range(batch[w])
    BY <1>4
  <2>2. IsFiniteSet(HeldEvents) /\ Cardinality(HeldEvents) \in Nat
    BY <1>1, CountTypes
  <2>3. Cardinality(HeldEvents \ Range(batch[w]))
            = Cardinality(HeldEvents) - Cardinality(HeldEvents \intersect Range(batch[w]))
    BY <2>2, FS_Difference, Zenon
  <2> QED
    BY <1>3, <1>4, <2>1, <2>3
<1>6. Sent' = Sent /\ Refused' = Refused
  BY <1>1 DEF Sent, Refused
<1> QED
  BY <1>1, <1>3, <1>5, <1>6, CountTypes DEF Counts

LEMMA NextCounts ==
    ASSUME Counts, Custody, Custody', LossInv, [Next]_vars
    PROVE  Counts'
<1>1. ASSUME UNCHANGED <<caller, stats, entered>>, done' \/ HeldEvents' = HeldEvents, done => done'
      PROVE  Counts'
  BY <1>1 DEF Counts, Sent, Refused
<1>2. ASSUME NEW w \in Workers, Work(w), ~WriteOk(w)
      PROVE  Counts'
  <2>1. UNCHANGED <<caller, stats, entered, done>>
    BY <1>2 DEF Work, Write, SelectEvent, SelectDone, CollectEvent, CollectEnd, Retry, Abandon,
                DrainEvent, DrainEmpty, WriteError, callVars
  <2>2. CASE TakeHead(w)
    <3>1. \A e \in Events : Held(e)' <=> Held(e)
      BY <2>1, <2>2, TakeCustody DEF Custody
    <3> QED
      BY <1>1, <2>1, <3>1 DEF HeldEvents
  <2>3. CASE ~TakeHead(w)
    <3>1. UNCHANGED <<queue, batch>> \/ done
      BY <1>2, <2>3 DEF Work, Write, SelectEvent, SelectDone, CollectEvent, CollectEnd, Retry,
                Abandon, DrainEvent, DrainEmpty, WriteError, Writing, LossInv, ClosingShape
    <3> QED
      BY <1>1, <2>1, <3>1 DEF HeldEvents, Held
  <2> QED
    BY <2>2, <2>3
<1>3. CASE Close \/ UNCHANGED vars
  <2>1. UNCHANGED <<caller, stats, entered, queue, batch>> /\ (done => done')
    BY <1>3 DEF Close, CloseBegin, CloseDone, CloseInner, vars
  <2> QED
    BY <1>1, <2>1 DEF HeldEvents, Held
<1> QED
  BY <1>2, <1>3, PublishCounts, WriteCounts DEF Next

LEMMA InitCounts == Init => Counts
<1> SUFFICES ASSUME Init PROVE Counts
  OBVIOUS
<1>1. HeldEvents = {} /\ Sent = {} /\ Refused = {}
  BY DEF Init, HeldEvents, Held, Sent, Refused, Range
<1>2. Cardinality({}) = 0 /\ Len(entered) = 0
  BY FS_EmptySet DEF Init
<1> QED
  BY <1>1, <1>2 DEF Init, Counts

\* The counters of /metrics account for every event, for any number of handlers
\* and workers: one that a failed attempt has written in part is counted by the
\* attempt that succeeds, and no event is counted twice (publisher.go, stats).
THEOREM CountersAreExact == Spec => []CountersAccount
<1>1. Spec => []Counts
  BY InitCounts, NextCounts, CustodyInvariant, LossInvariant, PTL DEF Spec
<1>2. Counts => CountersAccount
  BY DEF Counts, CountersAccount, HeldEvents, Sent, Refused
<1> QED
  BY <1>1, <1>2, PTL

----------------------------------------------------------------------------
(* One worker and no failed write: the order of the channel.                *)

\* An injection between intervals does not shorten them.
LEMMA IntervalInjection ==
    ASSUME NEW a \in Int, NEW b \in Int, NEW c \in Int, NEW d \in Int, a <= b,
           NEW g \in [a..b -> c..d], \A i, j \in a..b : i # j => g[i] # g[j]
    PROVE  b - a <= d - c
<1>1. g \in Injection(a..b, c..d)
  BY DEF Injection, IsInjective
<1>2. /\ IsFiniteSet(a..b)
      /\ Cardinality(a..b) = IF a > b THEN 0 ELSE b - a + 1
  BY FS_Interval, Zenon
<1>3. /\ IsFiniteSet(c..d)
      /\ Cardinality(c..d) = IF c > d THEN 0 ELSE d - c + 1
  BY FS_Interval, Zenon
<1>4. Cardinality(a..b) <= Cardinality(c..d)
  BY <1>1, <1>3, FS_Injection, Zenon
<1>5. g[a] \in c..d
  OBVIOUS
<1>6. Cardinality(a..b) = b - a + 1
  BY <1>2
<1>7. Cardinality(c..d) = d - c + 1
  BY <1>3, <1>5
<1> QED
  BY <1>4, <1>6, <1>7

\* A subsequence with all elements of a sequence without repetitions is the
\* whole sequence: what a write without error leaves is the batch, in its order.
LEMMA FullSubsequence ==
    ASSUME NEW S, NEW s \in Seq(S), Distinct(s),
           NEW p \in Subsequences(s), Range(s) \subseteq Range(p)
    PROVE  p = s
<1>1. PICK n \in 0..Len(s) :
        \E f \in {g \in [1..n -> 1..Len(s)] : \A i, j \in 1..n : i < j => g[i] < g[j]} :
           p = [i \in 1..n |-> s[f[i]]]
  BY DEF Subsequences
<1>2. PICK f \in [1..n -> 1..Len(s)] :
        /\ \A i, j \in 1..n : i < j => f[i] < f[j]
        /\ p = [i \in 1..n |-> s[f[i]]]
  BY <1>1
<1> DEFINE m == Len(s)
<1>3. s \in [1..m -> S] /\ m \in Nat /\ DOMAIN s = 1..m /\ n \in Nat /\ n <= m
  BY LenProperties
<1>4. \A i, j \in 1..n : i # j => f[i] # f[j]
  <2> SUFFICES ASSUME NEW i \in 1..n, NEW j \in 1..n, i # j PROVE f[i] # f[j]
    OBVIOUS
  <2>1. /\ i \in Int /\ j \in Int /\ f[i] \in Int /\ f[j] \in Int
        /\ i < j => f[i] < f[j]
        /\ j < i => f[j] < f[i]
    BY <1>2, <1>3
  <2> QED
    BY <2>1
<1>5. \A j \in 1..m : \E i \in 1..n : f[i] = j
  <2> TAKE j \in 1..m
  <2>1. s[j] \in Range(p)
    BY <1>3 DEF Range
  <2>2. PICK i \in 1..n : s[j] = s[f[i]]
    BY <1>2, <2>1 DEF Range
  <2> QED
    BY <1>3, <2>2 DEF Distinct
<1>6. n = m
  <2>1. f \in Bijection(1..n, 1..m)
    BY <1>4, <1>5 DEF Bijection, Injection, Surjection, IsInjective
  <2>2. IsFiniteSet(1..n) /\ Cardinality(1..n) = n
    <3>1. 1 \in Int /\ n \in Int
      BY <1>3
    <3>2. IsFiniteSet(1..n) /\ Cardinality(1..n) = IF 1 > n THEN 0 ELSE n - 1 + 1
      BY <3>1, FS_Interval, Zenon
    <3> QED
      BY <1>3, <3>2
  <2>3. IsFiniteSet(1..m) /\ Cardinality(1..m) = m
    <3>1. 1 \in Int /\ m \in Int
      BY <1>3
    <3>2. IsFiniteSet(1..m) /\ Cardinality(1..m) = IF 1 > m THEN 0 ELSE m - 1 + 1
      BY <3>1, FS_Interval, Zenon
    <3> QED
      BY <1>3, <3>2
  <2>4. Cardinality(1..m) = Cardinality(1..n)
    BY <2>1, <2>2, FS_Bijection, Zenon DEF ExistsBijection
  <2> QED
    BY <2>2, <2>3, <2>4
<1>7. ASSUME NEW k \in 1..n
      PROVE  f[k] = k
  <2>1. f[k] \in 1..n /\ k \in Int /\ n \in Int /\ f[k] \in Int /\ 1 <= k /\ k <= n
    BY <1>3, <1>6
  <2>2. \A i \in 1..k : i \in 1..n /\ f[i] \in 1..f[k]
    BY <1>2, <1>3, <1>6, <2>1
  <2>3. k <= f[k]
    <3> DEFINE g == [i \in 1..k |-> f[i]]
    <3>1. g \in [1..k -> 1..f[k]] /\ \A i, j \in 1..k : i # j => g[i] # g[j]
      BY <1>4, <2>2
    <3>2. k - 1 <= f[k] - 1
      <4> HIDE DEF g
      <4>1. 1 \in Int
        OBVIOUS
      <4> QED
        BY <2>1, <3>1, <4>1, IntervalInjection, Zenon
    <3> QED
      BY <2>1, <3>2
  <2>4. ASSUME NEW i \in k..n
        PROVE  i \in 1..n /\ f[i] \in f[k]..n
    <3>1. i \in 1..n /\ i \in Int /\ (i = k \/ k < i)
      BY <2>1
    <3>2. f[i] \in 1..n /\ f[k] <= f[i]
      BY <1>2, <1>6, <2>1, <3>1
    <3> QED
      BY <2>1, <3>1, <3>2
  <2>5. f[k] <= k
    <3> DEFINE g == [i \in k..n |-> f[i]]
    <3>1. g \in [k..n -> f[k]..n] /\ \A i, j \in k..n : i # j => g[i] # g[j]
      BY <1>4, <2>4
    <3>2. n - k <= n - f[k]
      <4> HIDE DEF g
      <4> QED
        BY <2>1, <3>1, IntervalInjection
    <3> QED
      BY <2>1, <3>2
  <2> QED
    BY <2>1, <2>3, <2>5
<1>8. p = [i \in 1..m |-> s[i]]
  BY <1>2, <1>6, <1>7
<1> QED
  BY <1>3, <1>8

\* Only the empty sequence has no elements.
LEMMA EmptyRange ==
    ASSUME NEW S, NEW s \in Seq(S), Range(s) = {}
    PROVE  s = <<>>
<1>1. Range(s) = {s[i] : i \in 1..Len(s)}
  BY RangeEquality
<1>2. s # <<>> => 1 \in 1..Len(s)
  BY EmptySeq
<1> QED
  BY <1>1, <1>2

\* The two halves of a sequence without repetitions share no element.
LEMMA ConcatDisjoint ==
    ASSUME NEW S, NEW s \in Seq(S), NEW t \in Seq(S), Distinct(s \o t)
    PROVE  Range(s) \intersect Range(t) = {}
<1> SUFFICES ASSUME NEW x \in Range(s), x \in Range(t) PROVE FALSE
  OBVIOUS
<1>1. /\ Len(s) \in Nat /\ DOMAIN s = 1..Len(s) /\ Len(t) \in Nat /\ DOMAIN t = 1..Len(t)
      /\ s \o t \in Seq(S) /\ Len(s \o t) = Len(s) + Len(t)
      /\ \A i \in 1..Len(s) + Len(t) :
            (s \o t)[i] = IF i <= Len(s) THEN s[i] ELSE t[i - Len(s)]
  BY ConcatProperties, LenProperties
<1>2. DOMAIN (s \o t) = 1..Len(s) + Len(t)
  BY <1>1, LenProperties
<1>3. PICK i \in 1..Len(s) : x = s[i]
  BY <1>1 DEF Range
<1>4. PICK j \in 1..Len(t) : x = t[j]
  BY <1>1 DEF Range
<1> DEFINE k == Len(s) + j
<1>5. /\ i \in 1..Len(s) + Len(t) /\ i <= Len(s)
      /\ k \in 1..Len(s) + Len(t) /\ ~ (k <= Len(s)) /\ k - Len(s) = j /\ i # k
  BY <1>1
<1>6. (s \o t)[i] = x /\ (s \o t)[k] = x
  <2> HIDE DEF k
  <2> QED
    BY <1>1, <1>3, <1>4, <1>5
<1> QED
  BY <1>2, <1>5, <1>6 DEF Distinct

\* An event enters the channel once, when its call of Publish sends it.
EnteredOnce == /\ Distinct(entered)
               /\ \A e \in Range(entered) : e \in Events /\ Taken(e)

FifoInv == /\ LossInv /\ Custody
           /\ EnteredOnce
           /\ SingleWorkerFifo

LEMMA InitFifo == Init => FifoInv
<1> SUFFICES ASSUME Init PROVE FifoInv
  OBVIOUS
<1>1. Range(<<>>) = {} /\ DOMAIN <<>> = {}
  BY DEF Range
<1>2. EnteredOnce
  BY <1>1 DEF Init, EnteredOnce, Distinct
<1>3. <<>> \in Seq(Events) /\ (<<>> \o <<>>) \o <<>> = <<>>
  BY EmptySeq, ConcatEmptySeq
<1>4. \A v \in Workers : batch[v] = <<>>
  BY DEF Init
<1>5. SingleWorkerFifo
  BY <1>3, <1>4 DEF Init, SingleWorkerFifo
<1> QED
  BY <1>2, <1>5, InitLossInv, InitCustody DEF FifoInv

\* Topic, batch and channel may be joined in either order.
LEMMA JoinEvents ==
    ASSUME NEW s \in Seq(Events), NEW t \in Seq(Events), NEW u \in Seq(Events)
    PROVE  (s \o t) \o u = s \o (t \o u)
<1>1. \A S : \A x, y, z \in Seq(S) : (x \o y) \o z = x \o (y \o z)
  BY ConcatAssociative, Zenon
<1> QED
  BY <1>1, SMTT(60)

\* The send appends the event to the channel and to what has entered it.
LEMMA SendFifo ==
    ASSUME FifoInv, NEW e \in Events, PublishSend(e)
    PROVE  EnteredOnce' /\ SingleWorkerFifo'
<1>1. /\ kafka \in Seq(Events) /\ batch \in [Workers -> Seq(Events)]
      /\ queue \in Seq(Events) /\ entered \in Seq(Events) /\ caller \in [Events -> CallSteps]
  BY DEF FifoInv, LossInv, TypeInv, TypeOK
<1>2. /\ queue' = Append(queue, e) /\ entered' = Append(entered, e)
      /\ caller' = [caller EXCEPT ![e] = "sent"] /\ caller[e] = "checked"
      /\ UNCHANGED <<batch, kafka, unlucky>>
  BY DEF PublishSend
<1>3. e \notin Range(entered) /\ \A x \in Range(entered) : x \in Events /\ Taken(x)
  BY <1>2 DEF FifoInv, EnteredOnce, Taken
<1>4. Range(entered') = Range(entered) \union {e}
  BY <1>1, <1>2, AppendRange
<1>5. \A x \in Events : Taken(x) \/ x = e => Taken(x)'
  BY <1>1, <1>2 DEF Taken
<1>6. Distinct(entered')
  BY <1>1, <1>2, <1>3, AppendDistinct DEF FifoInv, EnteredOnce
<1>7. EnteredOnce'
  BY <1>3, <1>4, <1>5, <1>6 DEF EnteredOnce
<1>8. ASSUME NEW w \in Workers, Workers = {w}, unlucky' = {}
      PROVE  entered' = (kafka' \o batch'[w]) \o queue'
  <2> DEFINE t == kafka \o batch[w]
  <2>1. t \in Seq(Events) /\ entered = t \o queue
    BY <1>1, <1>2, <1>8, ConcatProperties DEF FifoInv, SingleWorkerFifo
  <2>2. <<e>> \in Seq(Events)
    OBVIOUS
  <2> HIDE DEF t
  <2>3. Append(entered, e) = (t \o queue) \o <<e>>
    BY <1>1, <2>1, AppendIsConcat
  <2>4. Append(queue, e) = queue \o <<e>>
    BY <1>1, AppendIsConcat
  <2>5. (t \o queue) \o <<e>> = t \o (queue \o <<e>>)
    BY <1>1, <2>1, <2>2, JoinEvents
  <2> QED
    BY <1>2, <2>3, <2>4, <2>5 DEF t
<1> QED
  BY <1>7, <1>8 DEF SingleWorkerFifo

\* Taking an event moves the border between the batch and the channel.
LEMMA TakeFifo ==
    ASSUME FifoInv, NEW w \in Workers, TakeHead(w), UNCHANGED <<entered, kafka, unlucky>>
    PROVE  SingleWorkerFifo'
<1>1. /\ kafka \in Seq(Events) /\ batch \in [Workers -> Seq(Events)]
      /\ queue \in Seq(Events) /\ queue # <<>>
  BY DEF FifoInv, LossInv, TypeInv, TypeOK, TakeHead
<1>2. /\ Head(queue) \in Events /\ queue' \in Seq(Events) /\ queue' = Tail(queue)
      /\ batch'[w] = Append(batch[w], Head(queue))
  BY <1>1, HeadTailProperties DEF TakeHead
<1>3. ASSUME NEW v \in Workers, Workers = {v}, unlucky' = {}
      PROVE  entered' = (kafka' \o batch'[v]) \o queue'
  <2> DEFINE h == <<Head(queue)>>
             b == batch[w]
             q == Tail(queue)
  <2>1. v = w /\ entered = (kafka \o b) \o queue
    BY <1>3 DEF FifoInv, SingleWorkerFifo
  <2>2. h \in Seq(Events) /\ b \in Seq(Events) /\ q \in Seq(Events)
    BY <1>1, <1>2
  <2>3. queue = h \o q
    <3>1. /\ queue = SubSeq(queue, 1, Len(queue)) /\ q = SubSeq(queue, 2, Len(queue))
          /\ Head(queue) = queue[1] /\ Len(queue) \in Nat \ {0}
      BY <1>1, SubSeqFull, TailIsSubSeq, EmptySeq
    <3>2. 1 \in 1..Len(queue) /\ Len(queue) \in 1..Len(queue)
      BY <3>1
    <3>3. SubSeq(queue, 1, Len(queue)) = <<queue[1]>> \o SubSeq(queue, 1 + 1, Len(queue))
      BY <1>1, <3>2, SubSeqRecursiveFirst, Zenon
    <3> QED
      BY <3>1, <3>3
  <2>4. batch'[w] = b \o h
    BY <1>1, <1>2, AppendIsConcat
  <2> HIDE DEF h, b, q
  <2>5. kafka \o b \in Seq(Events)
    BY <1>1, <2>2, ConcatProperties
  <2>6. (kafka \o b) \o (h \o q) = ((kafka \o b) \o h) \o q
    BY <2>2, <2>5, JoinEvents
  <2>7. (kafka \o b) \o h = kafka \o (b \o h)
    <3>1. kafka \in Seq(Events)
      BY <1>1
    <3> QED
      BY <2>2, <3>1, JoinEvents
  <2> QED
    BY <1>2, <2>1, <2>3, <2>4, <2>6, <2>7 DEF q
<1> QED
  BY <1>3 DEF SingleWorkerFifo

\* A write without error moves the whole batch to the end of the topic, because
\* no event of it is there yet; with an empty batch an error changes nothing.
LEMMA WriteFifo ==
    ASSUME FifoInv, NEW w \in Workers, Write(w)
    PROVE  SingleWorkerFifo'
<1>1. /\ kafka \in Seq(Events) /\ batch \in [Workers -> Seq(Events)]
      /\ queue \in Seq(Events) /\ batch[w] \in Seq(Events) /\ TypeOK
  BY DEF FifoInv, LossInv, TypeInv, TypeOK
<1>2. UNCHANGED <<entered, queue>> /\ unlucky \subseteq unlucky'
  BY DEF Write, WriteOk, WriteError, callVars
<1>3. ASSUME NEW v \in Workers, Workers = {v}, unlucky' = {}
      PROVE  entered' = (kafka' \o batch'[v]) \o queue'
  <2> DEFINE b == batch[w]
  <2>1. v = w /\ entered = (kafka \o b) \o queue
    BY <1>2, <1>3 DEF FifoInv, SingleWorkerFifo
  <2>2. b \in Seq(Events) /\ kafka \o b \in Seq(Events) /\ <<>> \in Seq(Events)
    BY <1>1, ConcatProperties, EmptySeq
  <2>3. CASE WriteOk(w)
    <3>1. PICK p \in FirstCopies(b) :
             Range(b) \subseteq Range(p) \union Range(kafka) /\ kafka' = kafka \o p
      BY <2>3 DEF WriteOk
    <3>2. batch'[w] = <<>>
      BY <1>1, <2>3 DEF WriteOk
    <3>3. Range(kafka) \intersect Range(b) = {}
      <4>1. Distinct((kafka \o b) \o queue)
        BY <2>1 DEF FifoInv, EnteredOnce
      <4>2. Distinct(kafka \o b)
        <5> DEFINE t == kafka \o b
        <5>1. t \in Seq(Events) /\ Distinct(t \o queue)
          BY <2>2, <4>1
        <5> HIDE DEF t
        <5>2. /\ Len(t) \in Nat /\ Len(queue) \in Nat /\ DOMAIN t = 1..Len(t)
              /\ t \o queue \in Seq(Events) /\ Len(t \o queue) = Len(t) + Len(queue)
              /\ \A i \in 1..Len(t) + Len(queue) :
                    (t \o queue)[i] = IF i <= Len(t) THEN t[i] ELSE queue[i - Len(t)]
          BY <1>1, <5>1, ConcatProperties, LenProperties
        <5>3. DOMAIN (t \o queue) = 1..Len(t) + Len(queue)
          BY <5>2, LenProperties
        <5>4. \A i \in 1..Len(t) : i \in 1..Len(t) + Len(queue) /\ i <= Len(t)
          BY <5>2
        <5>5. Distinct(t)
          BY <5>1, <5>2, <5>3, <5>4 DEF Distinct
        <5> QED
          BY <5>5 DEF t
      <4> QED
        BY <1>1, <2>2, <4>2, ConcatDisjoint
    <3>4. p = b
      <4>1. p \in Subsequences(b) /\ Range(b) \subseteq Range(p)
        BY <3>1, <3>3 DEF FirstCopies
      <4>2. Distinct(b)
        BY DEF FifoInv, Custody, SingleCustody, Distinct
      <4> QED
        BY <2>2, <4>1, <4>2, FullSubsequence
    <3>5. (kafka \o b) \o <<>> = kafka \o b
      BY <2>2, ConcatEmptySeq
    <3> QED
      BY <1>2, <2>1, <3>1, <3>2, <3>4, <3>5
  <2>4. CASE WriteError(w)
    <3>1. PICK p \in FirstCopies(b) : kafka' = kafka \o p
      BY <2>4 DEF WriteError
    <3>2. Range(b) = {}
      BY <1>3, <2>4 DEF WriteError
    <3>3. b = <<>> /\ p = <<>>
      <4>1. p \in Seq(Events) /\ Range(p) = {}
        BY <2>2, <3>2, SubsequenceType DEF FirstCopies
      <4> QED
        BY <2>2, <3>2, <4>1, EmptyRange
    <3>4. batch'[w] = <<>>
      BY <1>1, <2>4, <3>3 DEF WriteError
    <3>5. kafka \o <<>> = kafka
      BY <1>1, ConcatEmptySeq
    <3> QED
      BY <1>2, <2>1, <3>1, <3>3, <3>4, <3>5
  <2> QED
    BY <2>3, <2>4 DEF Write
<1> QED
  BY <1>3 DEF SingleWorkerFifo

\* Only a batch whose write has failed is given up.
LEMMA AbandonFifo ==
    ASSUME FifoInv, NEW w \in Workers, Abandon(w)
    PROVE  SingleWorkerFifo'
<1>1. /\ batch \in [Workers -> Seq(Events)] /\ batch[w] \in Seq(Events)
      /\ UNCHANGED <<entered, queue, kafka, unlucky>> /\ batch'[w] = <<>>
      /\ Range(batch[w]) \subseteq unlucky
  BY DEF Abandon, callVars, FifoInv, LossInv, BackoffUnlucky, TypeInv, TypeOK
<1>2. ASSUME NEW v \in Workers, Workers = {v}, unlucky' = {}
      PROVE  entered' = (kafka' \o batch'[v]) \o queue'
  <2>1. v = w /\ Range(batch[w]) = {}
    BY <1>1, <1>2
  <2>2. batch[w] = <<>>
    BY <1>1, <2>1, EmptyRange
  <2> QED
    BY <1>1, <1>2, <2>1, <2>2 DEF FifoInv, SingleWorkerFifo
<1> QED
  BY <1>2 DEF SingleWorkerFifo

LEMMA NextFifo ==
    ASSUME FifoInv, [Next]_vars
    PROVE  FifoInv'
<1>1. LossInv' /\ Custody'
  BY NextLossInv, NextCustody DEF FifoInv
<1>2. ASSUME UNCHANGED <<queue, batch, kafka, unlucky, entered>>
      PROVE  SingleWorkerFifo'
  BY <1>2 DEF FifoInv, SingleWorkerFifo
<1>3. ASSUME UNCHANGED entered, \A x \in Events : Taken(x) => Taken(x)'
      PROVE  EnteredOnce'
  BY <1>3 DEF FifoInv, EnteredOnce
<1>4. ASSUME NEW e \in Events, Publish(e)
      PROVE  EnteredOnce' /\ SingleWorkerFifo'
  <2>1. CASE PublishSend(e)
    BY <2>1, SendFifo
  <2>2. CASE ~PublishSend(e)
    <3>1. /\ UNCHANGED <<queue, batch, kafka, unlucky, entered>>
          /\ \A x \in Events : Taken(x) => Taken(x)'
      BY <1>4, <2>2 DEF Publish, PublishCheck, PublishFull, PublishCount, Taken,
                        FifoInv, Custody, TypeInv, TypeOK
    <3> QED
      BY <1>2, <1>3, <3>1
  <2> QED
    BY <2>1, <2>2
<1>5. ASSUME NEW w \in Workers, Work(w)
      PROVE  EnteredOnce' /\ SingleWorkerFifo'
  <2>1. UNCHANGED <<caller, entered>>
    BY <1>5 DEF Work, Write, SelectEvent, SelectDone, CollectEvent, CollectEnd, Retry, Abandon,
                DrainEvent, DrainEmpty, WriteOk, WriteError, callVars
  <2>2. EnteredOnce'
    BY <1>3, <2>1 DEF Taken
  <2>3. CASE SelectEvent(w) \/ CollectEvent(w) \/ DrainEvent(w)
    <3>1. TakeHead(w) /\ UNCHANGED <<entered, kafka, unlucky>>
      BY <2>3 DEF SelectEvent, CollectEvent, DrainEvent, callVars
    <3> QED
      BY <2>2, <3>1, TakeFifo
  <2>4. CASE SelectDone(w) \/ CollectEnd(w) \/ Retry(w) \/ DrainEmpty(w)
    <3>1. UNCHANGED <<queue, batch, kafka, unlucky, entered>>
      BY <2>4 DEF SelectDone, CollectEnd, Retry, DrainEmpty, callVars
    <3> QED
      BY <1>2, <2>2, <3>1
  <2> QED
    BY <1>5, <2>2, <2>3, <2>4, WriteFifo, AbandonFifo DEF Work
<1>6. ASSUME UNCHANGED <<caller, queue, batch, kafka, unlucky, entered>>
      PROVE  EnteredOnce' /\ SingleWorkerFifo'
  <2>1. \A x \in Events : Taken(x) => Taken(x)'
    BY <1>6 DEF Taken
  <2> QED
    BY <1>2, <1>3, <1>6, <2>1
<1>7. ASSUME Close
      PROVE  EnteredOnce' /\ SingleWorkerFifo'
  BY <1>6, <1>7 DEF Close, CloseBegin, CloseDone, CloseInner
<1>8. ASSUME UNCHANGED vars
      PROVE  EnteredOnce' /\ SingleWorkerFifo'
  BY <1>6, <1>8 DEF vars
<1>9. EnteredOnce' /\ SingleWorkerFifo'
  BY <1>4, <1>5, <1>7, <1>8 DEF Next
<1> QED
  BY <1>1, <1>9 DEF FifoInv

\* With one worker and no failed write, the topic, the batch and the channel are,
\* one after the other, the events in the order Publish took them.
THEOREM OneWorkerKeepsOrder == Spec => []SingleWorkerFifo
<1>1. FifoInv => SingleWorkerFifo
  BY DEF FifoInv
<1> QED
  BY <1>1, InitFifo, NextFifo, PTL DEF Spec
=============================================================================
