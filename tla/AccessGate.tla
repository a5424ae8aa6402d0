----------------------------- MODULE AccessGate -----------------------------
(***************************************************************************)
(* The swipe path of the Access API: any number of HTTP handlers, in any   *)
(* number of replicas (access-api/handlers.go, App.Swipe), decide against  *)
(* one Redis (access-api/store.go) whether a gate opens, record the event  *)
(* in the recovery stream of the same Redis, hand it to the publisher and  *)
(* answer.                                                                 *)
(*                                                                         *)
(* Redis is a master with a replica that lags behind (asynchronous         *)
(* replication, Sentinel failover).  The client retries a script whose     *)
(* reply it did not get, so a script may run more than once per call.      *)
(*                                                                         *)
(* Abstracted: gate, latency, trace and time stamps of a swipe; the        *)
(* publisher, which takes an event or refuses it (see AsyncPublisher).     *)
(***************************************************************************)
EXTENDS Naturals, Sequences, FiniteSets

CONSTANTS
    Employees,
    Swipes,       \* the requests, each handled once; a swipe is its requestId
    NoSwipe,      \* marks the entries of log that are not of a swipe
    Attempts,     \* times the Redis client sends one command before it gives up
    StreamMax,    \* EVENT_STREAM_MAXLEN
    Faults,       \* the environment's steps allowed, a subset of FaultKinds
    MaxLosses     \* bound on expiries, resets and failovers, to keep log finite

FaultKinds == {"expire", "reset", "failover", "noReply", "kill"}

ASSUME AttemptsPositive == Attempts \in Nat \ {0}
ASSUME StreamMaxPositive == StreamMax \in Nat \ {0}
ASSUME FaultsKnown == Faults \subseteq FaultKinds
ASSUME NoSwipeApart == NoSwipe \notin Swipes
ASSUME MaxLossesNat == MaxLosses \in Nat

VARIABLES
    redis,        \* the master: states, recovery stream and dedupe keys
    replica,      \* the replica a failover promotes
    handler,      \* per swipe: where its handler is
    request,      \* per swipe: the employee and the direction
    sent,         \* per swipe: times the command at hand was sent
    decision,     \* per swipe: the reply of DecideAccess
    answer,       \* per swipe: the flags eventBuffered and kafkaQueued
    log,          \* history: decisions and losses of state, as Redis made them
    appended,     \* history: events in the order they entered the stream
    handed        \* history: events the publisher took

vars == <<redis, replica, handler, request, sent, decision, answer, log,
          appended, handed>>

Directions == {"IN", "OUT"}
Invalid == "INVALID"    \* any other direction, or a missing employee or gate
States == Directions \union {"UNKNOWN"}     \* UNKNOWN: the key does not exist
Final == {"answered", "unavailable", "rejected", "killed"}
HandlerSteps == {"new", "decide", "append", "publish", "respond"} \union Final
Reasons == {"ACCESS_ALLOWED", "NO_ENTRY_RECORD", "ANTI_PASSBACK_VIOLATION"}
Decisions == [granted : BOOLEAN, prev : States, cur : States, reason : Reasons]

\* Mutant of Decide: only a repeated IN is a violation.
DecideOutAlways(current, direction) ==
    IF current = "IN" /\ direction = "IN"
    THEN [granted |-> FALSE, prev |-> current, cur |-> current,
          reason |-> "ANTI_PASSBACK_VIOLATION"]
    ELSE [granted |-> TRUE, prev |-> current, cur |-> direction, reason |-> "ACCESS_ALLOWED"]

\* Mutant of Decide: the reason is returned in the place of the state.
DecideSwapped(current, direction) ==
    [granted |-> current # direction, prev |-> current, cur |-> "ACCESS_ALLOWED",
     reason |-> "ACCESS_ALLOWED"]

\* decideAccessScript: the decision for a direction in a state of the key.
Decide(current, direction) ==
    LET denied(reason) == [granted |-> FALSE, prev |-> current,
                           cur |-> current, reason |-> reason]
    IN  CASE current = "UNKNOWN" /\ direction = "OUT" -> denied("NO_ENTRY_RECORD")
          [] current = direction -> denied("ANTI_PASSBACK_VIOLATION")
          [] OTHER -> [granted |-> TRUE, prev |-> current,
                       cur |-> direction, reason |-> "ACCESS_ALLOWED"]

NoDecision == [granted |-> FALSE, prev |-> "UNKNOWN", cur |-> "UNKNOWN",
               reason |-> "NO_ENTRY_RECORD"]

Init ==
    /\ redis = [state |-> [e \in Employees |-> "UNKNOWN"],
                stream |-> <<>>, seen |-> {}]
    /\ replica = redis
    /\ handler = [s \in Swipes |-> "new"]
    /\ request \in [Swipes -> [emp : Employees, dir : Directions \union {Invalid}]]
    /\ sent = [s \in Swipes |-> 0]
    /\ decision = [s \in Swipes |-> NoDecision]
    /\ answer = [s \in Swipes |-> [buffered |-> FALSE, queued |-> FALSE]]
    /\ log = <<>>
    /\ appended = <<>>
    /\ handed = {}

Goto(s, step) == /\ handler' = [handler EXCEPT ![s] = step]
                 /\ sent' = [sent EXCEPT ![s] = 0]

----------------------------------------------------------------------------
(* Validation and the anti-passback decision.                               *)

Accept(s) ==
    /\ handler[s] = "new"
    /\ request[s].dir # Invalid
    /\ Goto(s, "decide")
    /\ UNCHANGED <<redis, replica, request, decision, answer, log, appended, handed>>

\* Answered 400.
Reject(s) ==
    /\ handler[s] = "new"
    /\ request[s].dir = Invalid
    /\ Goto(s, "rejected")
    /\ UNCHANGED <<redis, replica, request, decision, answer, log, appended, handed>>

\* Mutant of RunDecide: leaving deletes the key instead of setting it to OUT.
RunDecideDeletes(s) ==
    LET e == request[s].emp
        d == Decide(redis.state[e], request[s].dir)
    IN  /\ handler[s] = "decide"
        /\ redis' = [redis EXCEPT !.state[e] = IF d.cur = "OUT" THEN "UNKNOWN" ELSE d.cur]
        /\ log' = Append(log, [about |-> {e}, swipe |-> s, dir |-> request[s].dir,
                               granted |-> d.granted, prev |-> d.prev, cur |-> d.cur])
        /\ UNCHANGED <<replica, request, answer, appended, handed>>

\* One run of decideAccessScript; a granted decision sets the key, with a new
\* TTL, a denied one leaves it.
RunDecide(s) ==
    LET e == request[s].emp
        d == Decide(redis.state[e], request[s].dir)
    IN  /\ handler[s] = "decide"
        /\ redis' = [redis EXCEPT !.state[e] = d.cur]
        /\ log' = Append(log, [about |-> {e}, swipe |-> s, dir |-> request[s].dir,
                               granted |-> d.granted, prev |-> d.prev, cur |-> d.cur])
        /\ UNCHANGED <<replica, request, answer, appended, handed>>

DecideReplied(s) ==
    /\ RunDecide(s)
    /\ decision' = [decision EXCEPT ![s] = Decide(redis.state[request[s].emp], request[s].dir)]
    /\ Goto(s, "append")

\* The reply is lost: the client sends the script again, or gives up and the
\* handler answers 503 CACHE_UNAVAILABLE though the state may have changed.
Resend(s, failed) ==
    IF sent[s] + 1 < Attempts
    THEN sent' = [sent EXCEPT ![s] = @ + 1] /\ UNCHANGED handler
    ELSE Goto(s, failed)

\* Mutant of DecideReplyLost: the error of DecideAccess is not looked at.
DecideReplyLostIgnored(s) ==
    /\ "noReply" \in Faults
    /\ RunDecide(s)
    /\ Resend(s, "append")
    /\ UNCHANGED decision

DecideReplyLost(s) ==
    /\ "noReply" \in Faults
    /\ RunDecide(s)
    /\ Resend(s, "unavailable")
    /\ UNCHANGED decision

DecideNotRun(s) ==
    /\ "noReply" \in Faults
    /\ handler[s] = "decide"
    /\ Resend(s, "unavailable")
    /\ UNCHANGED <<redis, replica, request, decision, answer, log, appended, handed>>

----------------------------------------------------------------------------
(* AppendEventOnce: the dedupe key and the stream entry in one script.      *)

\* XADD MAXLEN ~ keeps at least the newest StreamMax entries.
Trimmed(stream) ==
    {SubSeq(stream, k, Len(stream)) :
        k \in {1} \union 1..(IF Len(stream) > StreamMax THEN Len(stream) - StreamMax + 1 ELSE 1)}

\* Mutant of RunAppend: no dedupe key.
RunAppendTwice(s) ==
    /\ handler[s] = "append"
    /\ \E kept \in Trimmed(Append(redis.stream, s)) :
          redis' = [redis EXCEPT !.stream = kept, !.seen = @ \union {s}]
    /\ appended' = Append(appended, s)
    /\ UNCHANGED <<replica, request, decision, log, handed>>

RunAppend(s) ==
    /\ handler[s] = "append"
    /\ IF s \in redis.seen
       THEN UNCHANGED <<redis, appended>>
       ELSE /\ \E kept \in Trimmed(Append(redis.stream, s)) :
                  redis' = [redis EXCEPT !.stream = kept, !.seen = @ \union {s}]
            /\ appended' = Append(appended, s)
    /\ UNCHANGED <<replica, request, decision, log, handed>>

AppendReplied(s) ==
    /\ RunAppend(s)
    /\ Goto(s, "publish")
    /\ answer' = [answer EXCEPT ![s].buffered = TRUE]

\* A failed append is only logged: the handler goes on without the buffer.
AppendReplyLost(s) ==
    /\ "noReply" \in Faults
    /\ RunAppend(s)
    /\ Resend(s, "publish")
    /\ UNCHANGED answer

\* Mutant of AppendNotRun: eventBuffered stays true after the error.
AppendNotRunBuffered(s) ==
    /\ "noReply" \in Faults
    /\ handler[s] = "append"
    /\ Resend(s, "publish")
    /\ answer' = [answer EXCEPT ![s].buffered = TRUE]
    /\ UNCHANGED <<redis, replica, request, decision, log, appended, handed>>

AppendNotRun(s) ==
    /\ "noReply" \in Faults
    /\ handler[s] = "append"
    /\ Resend(s, "publish")
    /\ UNCHANGED <<redis, replica, request, decision, answer, log, appended, handed>>

----------------------------------------------------------------------------
(* Publish and the answer.                                                  *)

PublishQueued(s) ==
    /\ handler[s] = "publish"
    /\ handed' = handed \union {s}
    /\ answer' = [answer EXCEPT ![s].queued = TRUE]
    /\ Goto(s, "respond")
    /\ UNCHANGED <<redis, replica, request, decision, log, appended>>

\* The queue is full or the publisher closed: logged, and the handler goes on.
PublishRefused(s) ==
    /\ handler[s] = "publish"
    /\ Goto(s, "respond")
    /\ UNCHANGED <<redis, replica, request, decision, answer, log, appended, handed>>

Respond(s) ==
    /\ handler[s] = "respond"
    /\ Goto(s, "answered")
    /\ UNCHANGED <<redis, replica, request, decision, answer, log, appended, handed>>

\* The process of the handler is killed.
Kill(s) ==
    /\ "kill" \in Faults
    /\ handler[s] \notin Final \union {"new"}
    /\ Goto(s, "killed")
    /\ UNCHANGED <<redis, replica, request, decision, answer, log, appended, handed>>

----------------------------------------------------------------------------
(* Steps of Redis and of operators.  The ones that can change what Redis    *)
(* knows of an employee other than by a decision are logged as losses.      *)

Losses == {i \in DOMAIN log : log[i].swipe \notin Swipes}

Lose(emps) ==
    /\ Cardinality(Losses) < MaxLosses
    /\ log' = Append(log, [about |-> emps, swipe |-> NoSwipe, dir |-> "OUT",
                           granted |-> FALSE, prev |-> "UNKNOWN", cur |-> "UNKNOWN"])
    /\ UNCHANGED <<handler, request, sent, decision, answer, appended, handed>>

\* The TTL of the key runs out (STATE_TTL_SECONDS, two days unless set to 0).
Expire(e) ==
    /\ "expire" \in Faults
    /\ redis.state[e] # "UNKNOWN"
    /\ redis' = [redis EXCEPT !.state[e] = "UNKNOWN"]
    /\ Lose({e})
    /\ UNCHANGED replica

\* POST /api/access/reset/:employeeId
ResetState(e) ==
    /\ "reset" \in Faults
    /\ redis' = [redis EXCEPT !.state[e] = "UNKNOWN"]
    /\ Lose({e})
    /\ UNCHANGED replica

Replicate ==
    /\ "failover" \in Faults
    /\ replica # redis
    /\ replica' = redis
    /\ UNCHANGED <<redis, handler, request, sent, decision, answer, log, appended, handed>>

Failover ==
    /\ "failover" \in Faults
    /\ replica # redis
    /\ redis' = replica
    /\ Lose({e \in Employees : replica.state[e] # redis.state[e]})
    /\ UNCHANGED replica

----------------------------------------------------------------------------
Handle(s) ==
    \/ Accept(s) \/ Reject(s)
    \/ DecideReplied(s) \/ DecideReplyLost(s) \/ DecideNotRun(s)
    \/ AppendReplied(s) \/ AppendReplyLost(s) \/ AppendNotRun(s)
    \/ PublishQueued(s) \/ PublishRefused(s) \/ Respond(s)

Next ==
    \/ \E s \in Swipes : Handle(s) \/ Kill(s)
    \/ \E e \in Employees : Expire(e) \/ ResetState(e)
    \/ Replicate
    \/ Failover

Spec == Init /\ [][Next]_vars

----------------------------------------------------------------------------
(* Properties.                                                              *)

RedisType == [state : [Employees -> States], stream : Seq(Swipes), seen : SUBSET Swipes]

LogEntries == [about : SUBSET Employees, swipe : Swipes \union {NoSwipe},
               dir : Directions, granted : BOOLEAN, prev : States, cur : States]

TypeOK ==
    /\ redis \in RedisType /\ replica \in RedisType
    /\ handler \in [Swipes -> HandlerSteps]
    /\ request \in [Swipes -> [emp : Employees, dir : Directions \union {Invalid}]]
    /\ sent \in [Swipes -> 0..Attempts - 1]
    /\ decision \in [Swipes -> Decisions]
    /\ answer \in [Swipes -> [buffered : BOOLEAN, queued : BOOLEAN]]
    /\ log \in Seq(LogEntries)
    /\ appended \in Seq(Swipes)
    /\ handed \subseteq Swipes

\* A failover is a loss in log.
NoFailover == "failover" \notin Faults \/ Losses = {}

IsLoss(entry) == entry.swipe = NoSwipe
Loses(i, e) == IsLoss(log[i]) /\ e \in log[i].about
Grants(i, e, d) == log[i].granted /\ log[i].dir = d /\ e \in log[i].about

\* Anti-passback, and its mirror image for leaving: whatever handlers race, two
\* grants of one direction to one employee have a grant of the other direction
\* between them, unless Redis lost or reset the employee's state meanwhile.
AntiPassback ==
    \A e \in Employees, d \in Directions : \A i, j \in DOMAIN log :
        i < j /\ Grants(i, e, d) /\ Grants(j, e, d) =>
            \E k \in i+1..j-1 : Loses(k, e) \/ \E o \in Directions \ {d} : Grants(k, e, o)

\* Nobody is let out who was not let in before, even after a failover to a
\* replica that lags behind.
EntryBeforeExit ==
    \A e \in Employees : \A j \in DOMAIN log :
        Grants(j, e, "OUT") => \E i \in 1..j-1 : Grants(i, e, "IN")

\* The events of an employee chain: each decision starts from the state the one
\* before it left, denied decisions included, unless state was lost between.
StateChain ==
    \A e \in Employees : \A i, j \in DOMAIN log :
        /\ i < j /\ e \in log[i].about /\ e \in log[j].about
        /\ ~IsLoss(log[i]) /\ ~IsLoss(log[j])
        /\ \A k \in i+1..j-1 : e \notin log[k].about
        => log[j].prev = log[i].cur

\* The recovery stream holds each event at most once, however often the append
\* was sent, and the newest StreamMax events, as long as no failover lost some.
RecoveryWindow ==
    /\ \A i, j \in DOMAIN redis.stream : i # j => redis.stream[i] # redis.stream[j]
    /\ NoFailover =>
          LET n == Len(redis.stream)
              m == Len(appended)
          IN  /\ n <= m /\ (n >= StreamMax \/ n = m)
              /\ \A i \in 1..n : redis.stream[i] = appended[m - n + i]

\* The flags of an answer tell the truth: an event called buffered is in the
\* stream or StreamMax newer ones have pushed it out (unless a failover lost
\* it), and an event called queued is one the publisher took.
AnswerFlags ==
    \A s \in Swipes : handler[s] \in {"respond", "answered"} =>
        /\ answer[s].buffered /\ NoFailover =>
              \E i \in DOMAIN appended :
                  /\ appended[i] = s
                  /\ \/ \E j \in DOMAIN redis.stream : redis.stream[j] = s
                     \/ Len(appended) - i >= StreamMax
        /\ answer[s].queued <=> s \in handed

\* What a handler answers is the decision Redis made last for its swipe.
AnswerIsLastDecision ==
    \A s \in Swipes : handler[s] \in {"append", "publish", "respond", "answered"} =>
        \E i \in DOMAIN log :
            /\ log[i].swipe = s
            /\ \A j \in DOMAIN log : log[j].swipe = s => j <= i
            /\ decision[s].granted = log[i].granted
            /\ decision[s].prev = log[i].prev /\ decision[s].cur = log[i].cur
=============================================================================
