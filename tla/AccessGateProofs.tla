-------------------------- MODULE AccessGateProofs --------------------------
(***************************************************************************)
(* Proofs about AccessGate: what a swipe decision guarantees, for any      *)
(* number of employees, handlers and retries and under every fault.        *)
(***************************************************************************)
EXTENDS AccessGate, SequenceTheorems, TLAPS

\* The part of the types the proofs need.
StateType ==
    /\ redis \in RedisType /\ replica \in RedisType
    /\ request \in [Swipes -> [emp : Employees, dir : Directions \union {Invalid}]]
    /\ \A s \in Swipes : handler[s] = "decide" => request[s].dir \in Directions
    /\ handler \in [Swipes -> HandlerSteps]
    /\ log \in Seq(LogEntries)

\* A direction Redis does not hold for an employee was last granted before a
\* grant of the other direction or a loss: it may be granted again.
MayGrantAgain ==
    \A e \in Employees, d \in Directions : redis.state[e] # d =>
        \A i \in DOMAIN log : Grants(i, e, d) =>
            \E k \in i+1..Len(log) :
                Loses(k, e) \/ \E o \in Directions \ {d} : Grants(k, e, o)

\* Whoever Redis, or the replica, knows has been let in.
KnownEntered ==
    \A e \in Employees :
        redis.state[e] # "UNKNOWN" \/ replica.state[e] # "UNKNOWN" =>
            \E i \in DOMAIN log : Grants(i, e, "IN")

\* Redis holds what the last decision about an employee left.
LastLeft ==
    \A e \in Employees : \A i \in DOMAIN log :
        /\ e \in log[i].about /\ ~IsLoss(log[i])
        /\ \A k \in i+1..Len(log) : e \notin log[k].about
        => redis.state[e] = log[i].cur

GateInv == /\ StateType
           /\ MayGrantAgain /\ AntiPassback
           /\ KnownEntered /\ EntryBeforeExit
           /\ LastLeft /\ StateChain

----------------------------------------------------------------------------
(* What Decide returns.                                                     *)

LEMMA DecideFacts ==
    ASSUME NEW c \in States, NEW d \in Directions
    PROVE  LET r == Decide(c, d)
           IN  /\ r \in Decisions
               /\ r.prev = c
               /\ r.granted => r.cur = d /\ c # d
               /\ r.granted /\ d = "OUT" => c = "IN"
               /\ ~r.granted => r.cur = c
  BY DEF Decide, States, Directions, Decisions, Reasons

----------------------------------------------------------------------------
(* The two ways the log grows.                                              *)

\* A step that appends the decision of swipe s for employee e.
Decides(s, e, d) ==
    \E r \in Decisions :
        /\ r = Decide(redis.state[e], d)
        /\ redis' \in RedisType
        /\ redis'.state = [redis.state EXCEPT ![e] = r.cur]
        /\ replica' = replica
        /\ log' = Append(log, [about |-> {e}, swipe |-> s, dir |-> d,
                               granted |-> r.granted, prev |-> r.prev, cur |-> r.cur])

\* A step that appends a loss for the employees emps.
LosesSome(emps) ==
    /\ redis' \in RedisType
    /\ \A e \in Employees \ emps : redis'.state[e] = redis.state[e]
    /\ \A e \in emps : redis'.state[e] \in {"UNKNOWN", replica.state[e]}
    /\ replica' = replica
    /\ log' = Append(log, [about |-> emps, swipe |-> NoSwipe, dir |-> "OUT",
                           granted |-> FALSE, prev |-> "UNKNOWN", cur |-> "UNKNOWN"])

\* A step that leaves what the invariant speaks of.
Keeps ==
    /\ redis' \in RedisType /\ replica' \in RedisType
    /\ redis'.state = redis.state
    /\ replica'.state \in {replica.state, redis.state}
    /\ log' = log

\* What XADD keeps of a stream is a stream.
LEMMA TrimmedType ==
    ASSUME NEW s \in Seq(Swipes), s # <<>>, NEW kept \in Trimmed(s)
    PROVE  kept \in Seq(Swipes)
<1>1. Len(s) \in Nat \ {0}
  BY EmptySeq
<1>2. PICK k \in 1..Len(s) : kept = SubSeq(s, k, Len(s))
  BY <1>1, StreamMaxPositive DEF Trimmed
<1>3. \A i \in k..Len(s) : s[i] \in Swipes
  BY <1>1, ElementOfSeq
<1> QED
  BY <1>1, <1>2, <1>3, SubSeqProperties

\* Every step of the specification is of one of the three kinds.
LEMMA StepKinds ==
    ASSUME StateType, [Next]_vars
    PROVE  \/ \E s \in Swipes, e \in Employees, d \in Directions : Decides(s, e, d)
           \/ \E emps \in SUBSET Employees : LosesSome(emps)
           \/ Keeps
<1>1. ASSUME NEW s \in Swipes, RunDecide(s)
      PROVE  \E e \in Employees, d \in Directions : Decides(s, e, d)
  <2>1. request[s].emp \in Employees /\ request[s].dir \in Directions
    BY <1>1 DEF RunDecide, StateType
  <2> DEFINE r == Decide(redis.state[request[s].emp], request[s].dir)
  <2>2. r \in Decisions
    BY <2>1, DecideFacts DEF StateType, RedisType
  <2>3. /\ redis' \in RedisType
        /\ redis'.state = [redis.state EXCEPT ![request[s].emp] = r.cur]
    BY <1>1, <2>2 DEF RunDecide, StateType, RedisType, Decisions
  <2>4. Decides(s, request[s].emp, request[s].dir)
    BY <1>1, <2>2, <2>3 DEF RunDecide, Decides
  <2> QED
    BY <2>1, <2>4
<1>2. ASSUME NEW s \in Swipes, RunAppend(s)
      PROVE  Keeps
  <2>1. CASE s \in redis.seen
    BY <1>2, <2>1 DEF RunAppend, Keeps, StateType
  <2>2. CASE s \notin redis.seen
    <3>1. PICK kept \in Trimmed(Append(redis.stream, s)) :
             redis' = [redis EXCEPT !.stream = kept, !.seen = @ \union {s}]
      BY <1>2, <2>2 DEF RunAppend
    <3>2. Append(redis.stream, s) \in Seq(Swipes) /\ Append(redis.stream, s) # <<>>
      BY AppendProperties DEF StateType, RedisType
    <3>3. kept \in Seq(Swipes)
      BY <3>2, TrimmedType
    <3> QED
      BY <1>2, <3>1, <3>3 DEF RunAppend, Keeps, StateType, RedisType
  <2> QED
    BY <2>1, <2>2
<1>3. ASSUME NEW s \in Swipes, Handle(s) \/ Kill(s), ~RunDecide(s), ~RunAppend(s)
      PROVE  Keeps
  BY <1>3 DEF Handle, Kill, Accept, Reject, DecideReplied, DecideReplyLost, DecideNotRun,
              AppendReplied, AppendReplyLost, AppendNotRun, PublishQueued, PublishRefused,
              Respond, Keeps, StateType
<1>4. ASSUME NEW e \in Employees, Expire(e) \/ ResetState(e)
      PROVE  LosesSome({e})
  <2>1. redis' = [redis EXCEPT !.state[e] = "UNKNOWN"] /\ replica' = replica
    BY <1>4 DEF Expire, ResetState
  <2>2. redis' \in RedisType /\ redis'.state = [redis.state EXCEPT ![e] = "UNKNOWN"]
    BY <2>1 DEF StateType, RedisType, States
  <2>3. redis.state \in [Employees -> States]
    BY DEF StateType, RedisType
  <2> QED
    BY <1>4, <2>1, <2>2, <2>3 DEF Expire, ResetState, Lose, LosesSome
<1>5. CASE Replicate
  BY <1>5 DEF Replicate, Keeps, StateType
<1>6. CASE Failover
  BY <1>6 DEF Failover, Lose, LosesSome, StateType, RedisType
<1>7. CASE UNCHANGED vars
  BY <1>7 DEF vars, Keeps, StateType
<1> QED
  BY <1>1, <1>2, <1>3, <1>4, <1>5, <1>6, <1>7 DEF Next

LEMMA NextStateType ==
    ASSUME StateType, [Next]_vars
    PROVE  StateType'
<1>1. /\ redis' \in RedisType /\ replica' \in RedisType
      /\ log' \in Seq(LogEntries)
  <2>1. ASSUME NEW s \in Swipes, NEW e \in Employees, NEW d \in Directions, Decides(s, e, d)
        PROVE  <1>1!:
    <3>1. PICK r \in Decisions :
             /\ redis'.state = [redis.state EXCEPT ![e] = r.cur]
             /\ log' = Append(log, [about |-> {e}, swipe |-> s, dir |-> d,
                                    granted |-> r.granted, prev |-> r.prev, cur |-> r.cur])
      BY <2>1 DEF Decides
    <3>2. [about |-> {e}, swipe |-> s, dir |-> d, granted |-> r.granted,
           prev |-> r.prev, cur |-> r.cur] \in LogEntries
      BY DEF LogEntries, Decisions
    <3>3. log' \in Seq(LogEntries)
      BY <3>1, <3>2, AppendProperties DEF StateType
    <3> QED
      BY <2>1, <3>1, <3>3 DEF Decides, StateType, Decisions
  <2>2. ASSUME NEW emps \in SUBSET Employees, LosesSome(emps)
        PROVE  <1>1!:
    <3>1. [about |-> emps, swipe |-> NoSwipe, dir |-> "OUT", granted |-> FALSE,
           prev |-> "UNKNOWN", cur |-> "UNKNOWN"] \in LogEntries
      BY DEF LogEntries, States, Directions
    <3>2. log' \in Seq(LogEntries)
      BY <2>2, <3>1, AppendProperties DEF StateType, LosesSome
    <3> QED
      BY <2>2, <3>2 DEF LosesSome, StateType
  <2>3. CASE Keeps
    BY <2>3 DEF Keeps, StateType
  <2> QED
    BY <2>1, <2>2, <2>3, StepKinds
<1>2. request' = request
  BY DEF Next, Handle, Kill, Accept, Reject, RunDecide, RunAppend, DecideReplied,
         DecideReplyLost, DecideNotRun, AppendReplied, AppendReplyLost, AppendNotRun,
         PublishQueued, PublishRefused, Respond, Expire, ResetState, Lose, Replicate,
         Failover, vars
<1>3. \/ handler' = handler
      \/ \E s \in Swipes, step \in HandlerSteps :
            /\ handler' = [handler EXCEPT ![s] = step]
            /\ step = "decide" => request[s].dir # Invalid
  <2>1. ASSUME NEW s \in Swipes, Handle(s) \/ Kill(s)
        PROVE  <1>3!:
    <3>1. ASSUME NEW step \in HandlerSteps \ {"decide"}, Goto(s, step)
          PROVE  <1>3!:
      BY <3>1 DEF Goto
    <3>2. /\ "decide" \in HandlerSteps
          /\ {"append", "publish", "respond", "answered", "unavailable", "rejected", "killed"}
                \subseteq HandlerSteps \ {"decide"}
      BY DEF HandlerSteps, Final
    <3>3. CASE Accept(s)
      BY <3>2, <3>3 DEF Accept, Goto
    <3>4. CASE DecideReplyLost(s) \/ DecideNotRun(s) \/ AppendReplyLost(s) \/ AppendNotRun(s)
      BY <3>1, <3>2, <3>4 DEF DecideReplyLost, DecideNotRun, AppendReplyLost,
                              AppendNotRun, Resend
    <3>5. CASE \/ Reject(s) \/ DecideReplied(s) \/ AppendReplied(s) \/ PublishQueued(s)
               \/ PublishRefused(s) \/ Respond(s) \/ Kill(s)
      BY <3>1, <3>2, <3>5 DEF Reject, DecideReplied, AppendReplied, PublishQueued,
                              PublishRefused, Respond, Kill
    <3> QED
      BY <2>1, <3>3, <3>4, <3>5 DEF Handle
  <2>2. CASE ~ \E s \in Swipes : Handle(s) \/ Kill(s)
    BY <2>2 DEF Next, Expire, ResetState, Lose, Replicate, Failover, vars
  <2> QED
    BY <2>1, <2>2
<1> QED
  BY <1>1, <1>2, <1>3 DEF StateType

----------------------------------------------------------------------------
(* The invariant.                                                           *)

\* How an appended entry shows in the predicates over the log.
LEMMA AppendedEntry ==
    ASSUME log \in Seq(LogEntries), NEW entry \in LogEntries, log' = Append(log, entry)
    PROVE  /\ DOMAIN log = 1..Len(log) /\ Len(log) \in Nat
           /\ DOMAIN log' = 1..Len(log) + 1 /\ Len(log') = Len(log) + 1
           /\ \A i \in 1..Len(log) : log'[i] = log[i]
           /\ log'[Len(log) + 1] = entry
<1>1. /\ log' \in Seq(LogEntries) /\ Len(log') = Len(log) + 1
      /\ \A i \in 1..Len(log) : log'[i] = log[i]
      /\ log'[Len(log) + 1] = entry
  BY AppendProperties
<1> QED
  BY <1>1, LenProperties

\* What a decision or a loss appended to the log has to satisfy for the
\* invariant to go on: entry is the new entry, st the states it leaves.
Continues(entry, st) ==
    /\ entry \in LogEntries
    /\ \A e \in Employees \ entry.about : st[e] = redis.state[e] 
    /\ \A e \in entry.about :
          IF IsLoss(entry) THEN ~entry.granted
          ELSE /\ entry.prev = redis.state[e] /\ entry.cur = st[e]
               /\ IF entry.granted
                  THEN /\ st[e] = entry.dir /\ redis.state[e] # entry.dir
                       /\ entry.dir = "OUT" => redis.state[e] = "IN"
                  ELSE st[e] = redis.state[e]
    /\ \A e \in Employees : st[e] \in {"UNKNOWN", redis.state[e], replica.state[e]} \/
                            (e \in entry.about /\ entry.granted /\ ~IsLoss(entry))

LEMMA DecideContinues ==
    ASSUME StateType, NEW s \in Swipes, NEW e \in Employees, NEW d \in Directions,
           Decides(s, e, d)
    PROVE  \E entry : Continues(entry, redis'.state) /\ log' = Append(log, entry)
<1> DEFINE r == Decide(redis.state[e], d)
           entry == [about |-> {e}, swipe |-> s, dir |-> d, granted |-> r.granted,
                     prev |-> r.prev, cur |-> r.cur]
<1>1. redis.state \in [Employees -> States]
  BY DEF StateType, RedisType
<1>2. /\ r \in Decisions /\ r.prev = redis.state[e]
      /\ r.granted => r.cur = d /\ redis.state[e] # d
      /\ r.granted /\ d = "OUT" => redis.state[e] = "IN"
      /\ ~r.granted => r.cur = redis.state[e]
  BY <1>1, DecideFacts
<1>3. /\ redis'.state = [redis.state EXCEPT ![e] = r.cur]
      /\ log' = Append(log, entry)
  BY DEF Decides
<1>4. entry \in LogEntries
  BY <1>2 DEF LogEntries, Decisions
<1> HIDE DEF r
<1>5. Continues(entry, redis'.state)
  BY <1>1, <1>2, <1>3, <1>4, NoSwipeApart DEF Continues, IsLoss
<1> QED
  BY <1>3, <1>5

LEMMA LossContinues ==
    ASSUME StateType, NEW emps \in SUBSET Employees, LosesSome(emps)
    PROVE  \E entry : Continues(entry, redis'.state) /\ log' = Append(log, entry)
<1> DEFINE entry == [about |-> emps, swipe |-> NoSwipe, dir |-> "OUT",
                     granted |-> FALSE, prev |-> "UNKNOWN", cur |-> "UNKNOWN"]
<1>1. entry \in LogEntries
  BY DEF LogEntries, Directions, States
<1>2. Continues(entry, redis'.state)
  BY <1>1 DEF Continues, LosesSome, IsLoss
<1> QED
  BY <1>2 DEF LosesSome

\* The invariant goes on when an entry is appended that continues the log.
LEMMA ContinueInv ==
    ASSUME GateInv, StateType', NEW entry, Continues(entry, redis'.state),
           log' = Append(log, entry), replica' = replica
    PROVE  GateInv'
<1>0. PICK n \in Nat : n = Len(log)
  BY LenProperties DEF GateInv, StateType
<1>1. /\ DOMAIN log = 1..n
      /\ DOMAIN log' = 1..n + 1 /\ Len(log') = n + 1
      /\ \A i \in 1..n : log'[i] = log[i]
      /\ log'[n + 1] = entry
  BY <1>0, AppendedEntry DEF GateInv, StateType, Continues
<1>2. /\ redis.state \in [Employees -> States] /\ redis'.state \in [Employees -> States]
      /\ entry.about \subseteq Employees /\ entry.dir \in Directions
  BY DEF GateInv, StateType, RedisType, Continues, LogEntries
<1>3. ASSUME NEW i \in 1..n, NEW e \in Employees, NEW d \in Directions
      PROVE  /\ (Grants(i, e, d))' <=> Grants(i, e, d)
             /\ (Loses(i, e))' <=> Loses(i, e)
  BY <1>1 DEF Grants, Loses, IsLoss
<1>4. ASSUME NEW e \in Employees, NEW d \in Directions
      PROVE  /\ (Grants(n + 1, e, d))' <=> entry.granted /\ entry.dir = d /\ e \in entry.about
             /\ (Loses(n + 1, e))' <=> IsLoss(entry) /\ e \in entry.about
  BY <1>1 DEF Grants, Loses, IsLoss
<1>5. MayGrantAgain'
  <2> SUFFICES ASSUME NEW e \in Employees, NEW d \in Directions, redis'.state[e] # d,
                      NEW i \in 1..n + 1, (Grants(i, e, d))'
               PROVE  \E k \in i+1..n+1 :
                         (Loses(k, e))' \/ \E o \in Directions \ {d} : (Grants(k, e, o))'
    BY <1>1 DEF MayGrantAgain
  <2>1. i \in 1..n
    BY <1>1, <1>4 DEF Continues
  <2>2. Grants(i, e, d)
    BY <1>3, <2>1
  <2>3. CASE redis.state[e] # d
    <3>1. PICK k \in i+1..n : Loses(k, e) \/ \E o \in Directions \ {d} : Grants(k, e, o)
      BY <1>0, <1>1, <2>1, <2>2, <2>3 DEF GateInv, MayGrantAgain
    <3>2. k \in 1..n /\ k \in i+1..n+1
      BY <1>1, <2>1
    <3> QED
      BY <1>3, <3>1, <3>2
  <2>4. CASE redis.state[e] = d
    <3>0. e \in entry.about
      BY <2>4 DEF Continues
    <3>1. IsLoss(entry) \/ (entry.granted /\ entry.dir # d)
      <4>1. CASE ~IsLoss(entry) /\ entry.granted
        BY <2>4, <3>0, <4>1 DEF Continues
      <4>2. CASE ~IsLoss(entry) /\ ~entry.granted
        BY <2>4, <3>0, <4>2 DEF Continues
      <4> QED
        BY <4>1, <4>2
    <3>2. n + 1 \in i+1..n+1
      BY <1>1, <2>1
    <3> QED
      BY <1>2, <1>4, <3>0, <3>1, <3>2
  <2> QED
    BY <2>3, <2>4
<1>6. AntiPassback'
  <2> SUFFICES ASSUME NEW e \in Employees, NEW d \in Directions,
                      NEW i \in 1..n + 1, NEW j \in 1..n + 1, i < j,
                      (Grants(i, e, d))', (Grants(j, e, d))'
               PROVE  \E k \in i+1..j-1 :
                         (Loses(k, e))' \/ \E o \in Directions \ {d} : (Grants(k, e, o))'
    BY <1>1 DEF AntiPassback
  <2>1. i \in 1..n
    BY <1>1
  <2>2. CASE j \in 1..n
    <3>1. PICK k \in i+1..j-1 : Loses(k, e) \/ \E o \in Directions \ {d} : Grants(k, e, o)
      BY <1>1, <1>3, <2>1, <2>2 DEF GateInv, AntiPassback
    <3>2. k \in 1..n
      BY <1>1, <2>1, <2>2
    <3> QED
      BY <1>3, <3>1, <3>2
  <2>3. CASE j = n + 1
    <3>1. redis.state[e] # d
      BY <1>4, <2>3 DEF Continues
    <3>2. PICK k \in i+1..n : Loses(k, e) \/ \E o \in Directions \ {d} : Grants(k, e, o)
      BY <1>0, <1>1, <1>3, <2>1, <3>1 DEF GateInv, MayGrantAgain
    <3>3. k \in 1..n /\ k \in i+1..j-1
      BY <1>1, <2>1, <2>3
    <3> QED
      BY <1>3, <3>2, <3>3
  <2> QED
    BY <1>1, <2>2, <2>3, SMTT(60)
<1>7. KnownEntered'
  <2> SUFFICES ASSUME NEW e \in Employees,
                      redis'.state[e] # "UNKNOWN" \/ replica.state[e] # "UNKNOWN"
               PROVE  \E i \in 1..n + 1 : (Grants(i, e, "IN"))'
    BY <1>1 DEF KnownEntered
  <2>1. CASE redis.state[e] # "UNKNOWN" \/ replica.state[e] # "UNKNOWN"
    <3>1. PICK i \in 1..n : Grants(i, e, "IN")
      BY <1>1, <2>1 DEF GateInv, KnownEntered
    <3>2. i \in 1..n + 1
      BY <1>1
    <3> QED
      BY <1>3, <3>1, <3>2 DEF Directions
  <2>2. CASE redis.state[e] = "UNKNOWN" /\ replica.state[e] = "UNKNOWN"
    <3>1. e \in entry.about /\ entry.granted /\ entry.dir = "IN"
      BY <1>2, <2>2 DEF Continues, Directions
    <3>2. n + 1 \in 1..n + 1
      BY <1>1
    <3> QED
      BY <1>4, <3>1, <3>2 DEF Directions
  <2> QED
    BY <2>1, <2>2
<1>8. EntryBeforeExit'
  <2> SUFFICES ASSUME NEW e \in Employees, NEW j \in 1..n + 1, (Grants(j, e, "OUT"))'
               PROVE  \E i \in 1..j-1 : (Grants(i, e, "IN"))'
    BY <1>1 DEF EntryBeforeExit
  <2>1. CASE j \in 1..n
    <3>1. PICK i \in 1..j-1 : Grants(i, e, "IN")
      BY <1>1, <1>3, <2>1 DEF GateInv, EntryBeforeExit, Directions
    <3>2. i \in 1..n
      BY <1>1, <2>1
    <3> QED
      BY <1>3, <3>1, <3>2 DEF Directions
  <2>2. CASE j = n + 1
    <3>1. redis.state[e] = "IN"
      BY <1>4, <2>2 DEF Continues, Directions
    <3>2. PICK i \in 1..n : Grants(i, e, "IN")
      BY <1>1, <3>1 DEF GateInv, KnownEntered
    <3>3. i \in 1..j-1
      BY <1>1, <2>2
    <3> QED
      BY <1>3, <3>2, <3>3 DEF Directions
  <2> QED
    BY <1>1, <2>1, <2>2
<1>9. LastLeft'
  <2> SUFFICES ASSUME NEW e \in Employees, NEW i \in 1..n + 1,
                      e \in log'[i].about, ~IsLoss(log'[i]),
                      \A k \in i+1..n+1 : e \notin log'[k].about
               PROVE  redis'.state[e] = log'[i].cur
    BY <1>1 DEF LastLeft, IsLoss
  <2>1. CASE i = n + 1
    BY <1>1, <2>1 DEF Continues
  <2>2. CASE i \in 1..n
    <3>1. e \notin entry.about
      BY <1>1, <2>2
    <3>2. \A k \in i+1..n : k \in 1..n /\ k \in i+1..n+1
      BY <1>1, <2>2
    <3>3. redis.state[e] = log[i].cur
      BY <1>0, <1>1, <2>2, <3>2 DEF GateInv, LastLeft
    <3> QED
      BY <1>1, <2>2, <3>1, <3>3 DEF Continues
  <2> QED
    BY <1>1, <2>1, <2>2
<1>10. StateChain'
  <2> SUFFICES ASSUME NEW e \in Employees, NEW i \in 1..n + 1, NEW j \in 1..n + 1, i < j,
                      e \in log'[i].about, e \in log'[j].about,
                      ~IsLoss(log'[i]), ~IsLoss(log'[j]),
                      \A k \in i+1..j-1 : e \notin log'[k].about
               PROVE  log'[j].prev = log'[i].cur
    BY <1>1 DEF StateChain, IsLoss
  <2>1. i \in 1..n
    BY <1>1
  <2>2. \A k \in i+1..j-1 : k \in 1..n
    BY <1>1, <2>1
  <2>3. CASE j \in 1..n
    BY <1>1, <2>1, <2>2, <2>3 DEF GateInv, StateChain
  <2>4. CASE j = n + 1
    <3>1. \A k \in i+1..n : k \in 1..n /\ k \in i+1..j-1
      BY <1>1, <2>1, <2>4
    <3>2. redis.state[e] = log[i].cur
      BY <1>0, <1>1, <2>1, <3>1 DEF GateInv, LastLeft
    <3>3. entry.prev = redis.state[e]
      BY <1>1, <2>4 DEF Continues
    <3> QED
      BY <1>1, <2>1, <2>4, <3>2, <3>3
  <2> QED
    BY <1>1, <2>3, <2>4
<1> QED
  BY <1>5, <1>6, <1>7, <1>8, <1>9, <1>10 DEF GateInv

LEMMA InitGateInv == Init => GateInv
<1> SUFFICES ASSUME Init PROVE GateInv
  OBVIOUS
<1>1. log = <<>> /\ log \in Seq(LogEntries) /\ Len(log) = 0 /\ DOMAIN log = {}
  BY DEF Init
<1>2. redis \in RedisType /\ replica = redis /\ \A e \in Employees : redis.state[e] = "UNKNOWN"
  <2>1. <<>> \in Seq(Swipes)
    OBVIOUS
  <2> QED
    BY <2>1 DEF Init, RedisType, States
<1>3. StateType
  BY <1>1, <1>2 DEF Init, StateType, HandlerSteps
<1> QED
  BY <1>1, <1>2, <1>3 DEF GateInv, MayGrantAgain, AntiPassback, KnownEntered,
                         EntryBeforeExit, LastLeft, StateChain

LEMMA NextGateInv ==
    ASSUME GateInv, [Next]_vars
    PROVE  GateInv'
<1>1. StateType /\ StateType'
  BY NextStateType DEF GateInv
<1>2. CASE \E s \in Swipes, e \in Employees, d \in Directions : Decides(s, e, d)
  <2>1. PICK entry : Continues(entry, redis'.state) /\ log' = Append(log, entry)
    BY <1>1, <1>2, DecideContinues
  <2> QED
    BY <1>1, <1>2, <2>1, ContinueInv DEF Decides
<1>3. CASE \E emps \in SUBSET Employees : LosesSome(emps)
  <2>1. PICK entry : Continues(entry, redis'.state) /\ log' = Append(log, entry)
    BY <1>1, <1>3, LossContinues
  <2> QED
    BY <1>1, <1>3, <2>1, ContinueInv DEF LosesSome
<1>4. CASE Keeps
  BY <1>1, <1>4 DEF Keeps, GateInv, MayGrantAgain, AntiPassback, KnownEntered,
                    EntryBeforeExit, LastLeft, StateChain, Grants, Loses, IsLoss
<1> QED
  BY <1>1, <1>2, <1>3, <1>4, StepKinds

LEMMA GateInvariant == Spec => []GateInv
  BY InitGateInv, NextGateInv, PTL DEF Spec

\* The anti-passback rule holds whatever handlers race and however often the
\* client repeats a script.
THEOREM AntiPassbackHolds == Spec => []AntiPassback
<1>1. GateInv => AntiPassback
  BY DEF GateInv
<1> QED
  BY <1>1, GateInvariant, PTL

\* Nobody is let out who was not let in before, failovers included.
THEOREM EntryBeforeExitHolds == Spec => []EntryBeforeExit
<1>1. GateInv => EntryBeforeExit
  BY DEF GateInv
<1> QED
  BY <1>1, GateInvariant, PTL

\* The decisions about an employee form one chain of states.
THEOREM StateChainHolds == Spec => []StateChain
<1>1. GateInv => StateChain
  BY DEF GateInv
<1> QED
  BY <1>1, GateInvariant, PTL

----------------------------------------------------------------------------
(* Type correctness.                                                        *)

TypeInv == StateType /\ TypeOK

LEMMA InitTypeInv == Init => TypeInv
<1> SUFFICES ASSUME Init PROVE TypeInv
  OBVIOUS
<1>1. StateType
  BY InitGateInv DEF GateInv
<1>2. sent \in [Swipes -> 0..Attempts - 1]
  <2>1. 0 \in 0..Attempts - 1
    BY AttemptsPositive
  <2> QED
    BY <2>1 DEF Init
<1>3. /\ decision \in [Swipes -> Decisions] /\ appended \in Seq(Swipes)
      /\ answer \in [Swipes -> [buffered : BOOLEAN, queued : BOOLEAN]]
  BY DEF Init, NoDecision, Decisions, States, Reasons
<1> QED
  BY <1>1, <1>2, <1>3 DEF TypeInv, TypeOK, StateType, Init

\* The client sends a command at most Attempts times, and every answer is a
\* decision the script can return.
LEMMA NextTypeInv ==
    ASSUME TypeInv, [Next]_vars
    PROVE  TypeInv'
<1>1. StateType'
  BY NextStateType DEF TypeInv
<1>2. sent' \in [Swipes -> 0..Attempts - 1]
  <2>0. sent \in [Swipes -> 0..Attempts - 1] /\ Attempts \in Nat \ {0}
    BY AttemptsPositive DEF TypeInv, TypeOK
  <2>1. ASSUME NEW s \in Swipes, NEW step, Goto(s, step)
        PROVE  sent' \in [Swipes -> 0..Attempts - 1]
    BY <2>0, <2>1 DEF Goto
  <2>2. ASSUME NEW s \in Swipes, NEW step, Resend(s, step)
        PROVE  sent' \in [Swipes -> 0..Attempts - 1]
    <3>1. CASE sent[s] + 1 < Attempts
      <4>1. sent[s] + 1 \in 0..Attempts - 1
        BY <2>0, <3>1
      <4> QED
        BY <2>0, <2>2, <3>1, <4>1 DEF Resend
    <3> QED
      BY <2>1, <2>2, <3>1 DEF Resend
  <2>3. ASSUME NEW s \in Swipes, Handle(s) \/ Kill(s)
        PROVE  sent' \in [Swipes -> 0..Attempts - 1]
    BY <2>1, <2>2, <2>3
       DEF Handle, Kill, Accept, Reject, DecideReplied, DecideReplyLost, DecideNotRun,
           AppendReplied, AppendReplyLost, AppendNotRun, PublishQueued, PublishRefused, Respond
  <2> QED
    BY <2>0, <2>3 DEF Next, Expire, ResetState, Lose, Replicate, Failover, vars
<1>3. decision' \in [Swipes -> Decisions]
  <2>1. decision \in [Swipes -> Decisions]
    BY DEF TypeInv, TypeOK
  <2>2. ASSUME NEW s \in Swipes, DecideReplied(s)
        PROVE  decision' \in [Swipes -> Decisions]
    <3>1. request[s].emp \in Employees /\ request[s].dir \in Directions
      BY <2>2 DEF DecideReplied, RunDecide, TypeInv, StateType
    <3>2. Decide(redis.state[request[s].emp], request[s].dir) \in Decisions
      BY <3>1, DecideFacts DEF TypeInv, StateType, RedisType
    <3> QED
      BY <2>1, <2>2, <3>2 DEF DecideReplied
  <2>3. (\A s \in Swipes : ~DecideReplied(s)) => decision' = decision
    BY DEF Next, Handle, Kill, Accept, Reject, DecideReplyLost, DecideNotRun,
           AppendReplied, AppendReplyLost, AppendNotRun, RunAppend, PublishQueued,
           PublishRefused, Respond, Expire, ResetState, Lose, Replicate, Failover, vars
  <2> QED
    BY <2>1, <2>2, <2>3
<1>4. /\ answer' \in [Swipes -> [buffered : BOOLEAN, queued : BOOLEAN]]
      /\ handed' \subseteq Swipes
  <2>1. /\ answer \in [Swipes -> [buffered : BOOLEAN, queued : BOOLEAN]]
        /\ handed \subseteq Swipes
    BY DEF TypeInv, TypeOK
  <2>2. ASSUME NEW s \in Swipes, AppendReplied(s) \/ PublishQueued(s)
        PROVE  <1>4!:
    BY <2>1, <2>2 DEF AppendReplied, PublishQueued, RunAppend
  <2>3. (\A s \in Swipes : ~AppendReplied(s) /\ ~PublishQueued(s)) =>
            UNCHANGED <<answer, handed>>
    BY DEF Next, Handle, Kill, Accept, Reject, DecideReplied, DecideReplyLost, DecideNotRun,
           RunDecide, AppendReplyLost, AppendNotRun, RunAppend,
           PublishRefused, Respond, Expire, ResetState, Lose, Replicate, Failover, vars
  <2> QED
    BY <2>1, <2>2, <2>3
<1>5. appended' \in Seq(Swipes)
  <2>1. appended \in Seq(Swipes)
    BY DEF TypeInv, TypeOK
  <2>2. ASSUME NEW s \in Swipes, RunAppend(s)
        PROVE  appended' \in Seq(Swipes)
    <3>1. appended' = appended \/ appended' = Append(appended, s)
      BY <2>2 DEF RunAppend
    <3> QED
      BY <2>1, <3>1, AppendProperties
  <2>3. (\A s \in Swipes : ~RunAppend(s)) => appended' = appended
    BY DEF Next, Handle, Kill, Accept, Reject, DecideReplied, DecideReplyLost, DecideNotRun,
           RunDecide, AppendReplied, AppendReplyLost, AppendNotRun, PublishQueued,
           PublishRefused, Respond, Expire, ResetState, Lose, Replicate, Failover, vars
  <2> QED
    BY <2>1, <2>2, <2>3
<1> QED
  BY <1>1, <1>2, <1>3, <1>4, <1>5 DEF TypeInv, TypeOK, StateType

LEMMA TypeInvariant == Spec => []TypeInv
  BY InitTypeInv, NextTypeInv, PTL DEF Spec

\* Every variable keeps its type: a command is sent at most Attempts times.
THEOREM GateTypeCorrect == Spec => []TypeOK
<1>1. TypeInv => TypeOK
  BY DEF TypeInv
<1> QED
  BY <1>1, TypeInvariant, PTL

----------------------------------------------------------------------------
(* What a handler answers.                                                  *)

Decided == {"append", "publish", "respond", "answered"}

\* The log grows by a decision for the swipe of a handler that is deciding, or
\* by a loss; only the reply to its own script takes a handler out of "decide"
\* to the steps after it.
LEMMA DecidedSteps ==
    ASSUME TypeInv, [Next]_vars
    PROVE  \/ \E s \in Swipes : RunDecide(s) /\ (DecideReplied(s) \/ DecideReplyLost(s))
           \/ /\ \/ log' = log
                 \/ \E emps \in SUBSET Employees : Lose(emps)
              /\ decision' = decision
              /\ \A s \in Swipes : handler'[s] \in Decided => handler[s] \in Decided
<1>1. ASSUME NEW s \in Swipes, Handle(s) \/ Kill(s), ~RunDecide(s)
      PROVE  /\ log' = log /\ decision' = decision
             /\ \A x \in Swipes : handler'[x] \in Decided => handler[x] \in Decided
  <2>0. handler \in [Swipes -> HandlerSteps]
    BY DEF TypeInv, StateType
  <2>1. log' = log /\ decision' = decision
    BY <1>1 DEF Handle, Kill, Accept, Reject, DecideReplied, DecideReplyLost, DecideNotRun,
                AppendReplied, AppendReplyLost, AppendNotRun, RunAppend, PublishQueued,
                PublishRefused, Respond
  <2>2. ASSUME NEW step, Goto(s, step), step \in Decided => handler[s] \in Decided
        PROVE  \A x \in Swipes : handler'[x] \in Decided => handler[x] \in Decided
    BY <2>0, <2>2 DEF Goto
  <2>3. CASE Accept(s) \/ Reject(s) \/ DecideNotRun(s) \/ Kill(s)
    BY <2>1, <2>2, <2>3 DEF Accept, Reject, DecideNotRun, Resend, Kill, Decided
  <2>4. CASE AppendReplied(s) \/ AppendReplyLost(s) \/ AppendNotRun(s)
    BY <2>1, <2>2, <2>4 DEF AppendReplied, AppendReplyLost, AppendNotRun, RunAppend,
                            Resend, Decided
  <2>5. CASE PublishQueued(s) \/ PublishRefused(s) \/ Respond(s)
    BY <2>1, <2>2, <2>5 DEF PublishQueued, PublishRefused, Respond, Decided
  <2> QED
    BY <1>1, <2>3, <2>4, <2>5 DEF Handle, DecideReplied, DecideReplyLost
<1>2. ASSUME NEW s \in Swipes, Handle(s) \/ Kill(s), RunDecide(s)
      PROVE  DecideReplied(s) \/ DecideReplyLost(s)
  BY <1>2 DEF RunDecide, Handle, Kill, Accept, Reject, DecideNotRun, AppendReplied,
              AppendReplyLost, AppendNotRun, RunAppend, PublishQueued, PublishRefused, Respond
<1>3. ASSUME NEW s \in Swipes, Handle(s) \/ Kill(s), RunDecide(s)
      PROVE  \E x \in Swipes : RunDecide(x) /\ (DecideReplied(x) \/ DecideReplyLost(x))
  BY <1>2, <1>3
<1>4. CASE \E s \in Swipes : Handle(s) \/ Kill(s)
  BY <1>1, <1>3, <1>4
<1>5. CASE \E e \in Employees : Expire(e) \/ ResetState(e)
  <2>1. PICK e \in Employees : Expire(e) \/ ResetState(e)
    BY <1>5
  <2>2. Lose({e}) /\ {e} \in SUBSET Employees
    BY <2>1 DEF Expire, ResetState
  <2> QED
    BY <2>2 DEF Lose
<1>6. CASE Failover
  <2> DEFINE emps == {e \in Employees : replica.state[e] # redis.state[e]}
  <2>1. Lose(emps) /\ emps \in SUBSET Employees
    BY <1>6 DEF Failover
  <2> HIDE DEF emps
  <2> QED
    BY <2>1 DEF Lose
<1>7. CASE Replicate \/ UNCHANGED vars
  BY <1>7 DEF Replicate, vars
<1> QED
  BY <1>4, <1>5, <1>6, <1>7 DEF Next

LEMMA NextAnswer ==
    ASSUME TypeInv, AnswerIsLastDecision, [Next]_vars
    PROVE  AnswerIsLastDecision'
<1>1. PICK n \in Nat : n = Len(log) /\ log \in Seq(LogEntries) /\ DOMAIN log = 1..n
  BY LenProperties DEF TypeInv, StateType
<1>2. handler \in [Swipes -> HandlerSteps] /\ decision \in [Swipes -> Decisions]
  BY DEF TypeInv, TypeOK
<1> DEFINE LastIs(s, i) == /\ log'[i].swipe = s
                           /\ \A j \in DOMAIN log' : log'[j].swipe = s => j <= i
                           /\ decision'[s].granted = log'[i].granted
                           /\ decision'[s].prev = log'[i].prev
                           /\ decision'[s].cur = log'[i].cur
<1>3. ASSUME NEW entry \in LogEntries, log' = Append(log, entry),
             NEW x \in Swipes, handler[x] \in Decided, entry.swipe # x,
             decision'[x] = decision[x]
      PROVE  \E i \in DOMAIN log' : LastIs(x, i)
  <2>1. /\ DOMAIN log' = 1..n + 1 /\ log'[n + 1] = entry
        /\ \A i \in 1..n : log'[i] = log[i]
    BY <1>1, <1>3, AppendedEntry
  <2>2. PICK i \in 1..n :
           /\ log[i].swipe = x
           /\ \A j \in 1..n : log[j].swipe = x => j <= i
           /\ decision[x].granted = log[i].granted
           /\ decision[x].prev = log[i].prev /\ decision[x].cur = log[i].cur
    BY <1>1, <1>3 DEF AnswerIsLastDecision, Decided
  <2>3. \A j \in 1..n + 1 : j \in 1..n \/ j = n + 1
    BY <1>1
  <2>4. \A j \in DOMAIN log' : log'[j].swipe = x => j <= i
    BY <1>3, <2>1, <2>2, <2>3
  <2>5. i \in DOMAIN log'
    BY <1>1, <2>1
  <2> QED
    BY <1>3, <2>1, <2>2, <2>4, <2>5
<1>4. CASE \E s \in Swipes : RunDecide(s) /\ (DecideReplied(s) \/ DecideReplyLost(s))
  <2>1. PICK s \in Swipes : RunDecide(s) /\ (DecideReplied(s) \/ DecideReplyLost(s))
    BY <1>4
  <2> DEFINE d == Decide(redis.state[request[s].emp], request[s].dir)
             entry == [about |-> {request[s].emp}, swipe |-> s, dir |-> request[s].dir,
                       granted |-> d.granted, prev |-> d.prev, cur |-> d.cur]
  <2>2. request[s].emp \in Employees /\ request[s].dir \in Directions /\ handler[s] = "decide"
    BY <2>1 DEF RunDecide, TypeInv, StateType
  <2>3. d \in Decisions
    BY <2>2, DecideFacts DEF TypeInv, StateType, RedisType
  <2>4. entry \in LogEntries /\ log' = Append(log, entry)
    BY <2>1, <2>2, <2>3 DEF RunDecide, LogEntries, Decisions
  <2>5. /\ entry.swipe = s /\ entry.granted = d.granted
        /\ entry.prev = d.prev /\ entry.cur = d.cur
    OBVIOUS
  <2>6. /\ \A x \in Swipes \ {s} : handler'[x] = handler[x] /\ decision'[x] = decision[x]
        /\ handler'[s] \in Decided => decision'[s] = d
    <3>1. CASE DecideReplied(s)
      BY <1>2, <3>1 DEF DecideReplied, Goto
    <3>2. CASE DecideReplyLost(s)
      BY <1>2, <2>2, <3>2 DEF DecideReplyLost, Resend, Goto, Decided
    <3> QED
      BY <2>1, <3>1, <3>2
  <2> HIDE DEF d, entry
  <2>7. ASSUME NEW x \in Swipes, handler'[x] \in Decided
        PROVE  \E i \in DOMAIN log' : LastIs(x, i)
    <3>1. CASE x # s
      BY <1>3, <2>4, <2>5, <2>6, <2>7, <3>1
    <3>2. CASE x = s
      <4>1. /\ DOMAIN log' = 1..n + 1 /\ log'[n + 1] = entry
        BY <1>1, <2>4, AppendedEntry
      <4>2. n + 1 \in 1..n + 1 /\ \A j \in 1..n + 1 : j <= n + 1
        BY <1>1
      <4>3. decision'[s] = d
        BY <2>6, <2>7, <3>2
      <4> QED
        BY <2>5, <3>2, <4>1, <4>2, <4>3
    <3> QED
      BY <3>1, <3>2
  <2> QED
    BY <2>7 DEF AnswerIsLastDecision, Decided
<1>5. ASSUME decision' = decision,
             \A s \in Swipes : handler'[s] \in Decided => handler[s] \in Decided,
             NEW emps \in SUBSET Employees, Lose(emps)
      PROVE  AnswerIsLastDecision'
  <2> DEFINE entry == [about |-> emps, swipe |-> NoSwipe, dir |-> "OUT",
                       granted |-> FALSE, prev |-> "UNKNOWN", cur |-> "UNKNOWN"]
  <2>1. entry \in LogEntries /\ log' = Append(log, entry) /\ entry.swipe = NoSwipe
    BY <1>5 DEF Lose, LogEntries, Directions, States
  <2> HIDE DEF entry
  <2>2. ASSUME NEW x \in Swipes, handler'[x] \in Decided
        PROVE  \E i \in DOMAIN log' : LastIs(x, i)
    BY <1>3, <1>5, <2>1, <2>2, NoSwipeApart
  <2> QED
    BY <2>2 DEF AnswerIsLastDecision, Decided
<1>6. ASSUME log' = log, decision' = decision,
             \A s \in Swipes : handler'[s] \in Decided => handler[s] \in Decided
      PROVE  AnswerIsLastDecision'
  BY <1>6 DEF AnswerIsLastDecision, Decided
<1> QED
  BY <1>4, <1>5, <1>6, DecidedSteps

\* What a handler answers is the last decision Redis made for its swipe, however
\* often the script was sent.
THEOREM AnswersLastDecision == Spec => []AnswerIsLastDecision
<1>1. Init => AnswerIsLastDecision
  BY DEF Init, AnswerIsLastDecision
<1> QED
  BY <1>1, NextAnswer, TypeInvariant, PTL DEF Spec

----------------------------------------------------------------------------
(* The recovery stream.                                                     *)

\* No event is twice in a stream, and the dedupe key of each is there.
Deduped(r) ==
    /\ \A i, j \in DOMAIN r.stream : i # j => r.stream[i] # r.stream[j]
    /\ \A i \in DOMAIN r.stream : r.stream[i] \in r.seen

\* Unless a failover lost some, the dedupe keys are of events that entered the
\* stream, and so is every event whose append was answered; the dedupe keys are
\* why a repeated append still tells the truth.
BufferInv ==
    /\ Deduped(redis) /\ Deduped(replica)
    /\ RecoveryWindow
    /\ NoFailover => redis.seen \subseteq Range(appended)
    /\ \A s \in Swipes :
          /\ answer[s].buffered /\ NoFailover => s \in Range(appended)
          /\ answer[s].queued <=> s \in handed

\* A failover stays in the log.
LEMMA LossesStay ==
    ASSUME TypeInv, [Next]_vars, NoFailover'
    PROVE  NoFailover /\ ~Failover
<1>1. ASSUME NEW entry \in LogEntries, log' = Append(log, entry)
      PROVE  Losses \subseteq Losses' /\ (entry.swipe = NoSwipe => Losses' # {})
  <2>1. /\ DOMAIN log = 1..Len(log) /\ Len(log) \in Nat
        /\ DOMAIN log' = 1..Len(log) + 1 /\ log'[Len(log) + 1] = entry
        /\ \A i \in 1..Len(log) : log'[i] = log[i]
    BY <1>1, AppendedEntry DEF TypeInv, StateType
  <2>2. Len(log) + 1 \in 1..Len(log) + 1 /\ \A i \in 1..Len(log) : i \in 1..Len(log) + 1
    BY <2>1
  <2>3. Losses \subseteq Losses'
    BY <2>1, <2>2 DEF Losses
  <2>4. entry.swipe = NoSwipe => Len(log) + 1 \in Losses'
    BY <2>1, <2>2, NoSwipeApart DEF Losses
  <2> QED
    BY <2>3, <2>4
<1>2. ASSUME NEW emps \in SUBSET Employees, Lose(emps)
      PROVE  Losses \subseteq Losses' /\ Losses' # {}
  <2> DEFINE entry == [about |-> emps, swipe |-> NoSwipe, dir |-> "OUT",
                       granted |-> FALSE, prev |-> "UNKNOWN", cur |-> "UNKNOWN"]
  <2>1. entry \in LogEntries /\ log' = Append(log, entry) /\ entry.swipe = NoSwipe
    BY <1>2 DEF Lose, LogEntries, Directions, States
  <2> HIDE DEF entry
  <2> QED
    BY <1>1, <2>1
<1>3. Losses \subseteq Losses'
  <2>1. CASE \E s \in Swipes, e \in Employees, d \in Directions : Decides(s, e, d)
    <3>1. PICK entry : Continues(entry, redis'.state) /\ log' = Append(log, entry)
      BY <2>1, DecideContinues DEF TypeInv
    <3> QED
      BY <1>1, <3>1 DEF Continues
  <2>2. CASE \E emps \in SUBSET Employees : LosesSome(emps)
    <3>1. PICK entry : Continues(entry, redis'.state) /\ log' = Append(log, entry)
      BY <2>2, LossContinues DEF TypeInv
    <3> QED
      BY <1>1, <3>1 DEF Continues
  <2>3. CASE Keeps
    BY <2>3 DEF Keeps, Losses
  <2> QED
    BY <2>1, <2>2, <2>3, StepKinds DEF TypeInv
<1>4. NoFailover
  BY <1>3 DEF NoFailover
<1>5. ASSUME Failover PROVE FALSE
  <2> DEFINE emps == {e \in Employees : replica.state[e] # redis.state[e]}
  <2>1. Lose(emps) /\ emps \in SUBSET Employees /\ "failover" \in Faults
    BY <1>5 DEF Failover
  <2> HIDE DEF emps
  <2> QED
    BY <1>2, <2>1 DEF NoFailover
<1> QED
  BY <1>4, <1>5

\* XADD keeps the newest entries: all of them, or at least StreamMax.
LEMMA TrimmedFacts ==
    ASSUME NEW t \in Seq(Swipes), t # <<>>, NEW kept \in Trimmed(t)
    PROVE  \E k \in 1..Len(t) :
              /\ kept \in Seq(Swipes) /\ Len(kept) = Len(t) - k + 1
              /\ \A i \in 1..Len(kept) : kept[i] = t[k + i - 1]
              /\ k = 1 \/ Len(kept) >= StreamMax
<1>1. Len(t) \in Nat \ {0}
  BY EmptySeq
<1>2. PICK k \in 1..Len(t) :
         kept = SubSeq(t, k, Len(t)) /\ (k = 1 \/ k <= Len(t) - StreamMax + 1)
  <2>1. PICK k \in {1} \union 1..(IF Len(t) > StreamMax THEN Len(t) - StreamMax + 1 ELSE 1) :
           kept = SubSeq(t, k, Len(t))
    BY DEF Trimmed
  <2>2. k \in 1..Len(t) /\ (k = 1 \/ k <= Len(t) - StreamMax + 1)
    BY <1>1, <2>1, StreamMaxPositive
  <2> QED
    BY <2>1, <2>2
<1>3. \A i \in k..Len(t) : t[i] \in Swipes
  BY <1>1, ElementOfSeq
<1>4. /\ k \in Int /\ Len(t) \in Int /\ k <= Len(t)
      /\ StreamMax \in Int
  BY <1>1, StreamMaxPositive
<1>5. /\ kept \in Seq(Swipes)
      /\ Len(kept) = IF k <= Len(t) THEN Len(t) - k + 1 ELSE 0
      /\ \A i \in 1..Len(t) - k + 1 : kept[i] = t[k + i - 1]
  BY <1>2, <1>3, <1>4, SubSeqProperties
<1>6. Len(kept) = Len(t) - k + 1
  BY <1>4, <1>5
<1>7. k = 1 \/ Len(kept) >= StreamMax
  BY <1>2, <1>4, <1>6
<1> QED
  BY <1>5, <1>6, <1>7

\* A new event goes to the end of the stream and of its history.
LEMMA AppendBuffer ==
    ASSUME TypeInv, BufferInv, NEW s \in Swipes, s \notin redis.seen,
           NEW kept \in Trimmed(Append(redis.stream, s)),
           redis' = [redis EXCEPT !.stream = kept, !.seen = @ \union {s}],
           appended' = Append(appended, s), NoFailover' => NoFailover
    PROVE  Deduped(redis') /\ RecoveryWindow'
<1> DEFINE n == Len(redis.stream)
           m == Len(appended)
           t == Append(redis.stream, s)
<1>1. redis.stream \in Seq(Swipes) /\ appended \in Seq(Swipes)
  BY DEF TypeInv, TypeOK, RedisType
<1>2. /\ n \in Nat /\ m \in Nat /\ DOMAIN redis.stream = 1..n /\ StreamMax \in Nat
  BY <1>1, LenProperties, StreamMaxPositive
<1>3. /\ t \in Seq(Swipes) /\ t # <<>> /\ Len(t) = n + 1
      /\ \A i \in 1..n : t[i] = redis.stream[i]
      /\ t[n + 1] = s
  BY <1>1, AppendProperties
<1>4. /\ Len(appended') = m + 1
      /\ \A i \in 1..m : appended'[i] = appended[i]
      /\ appended'[m + 1] = s
  BY <1>1, AppendProperties
<1>5. redis'.stream = kept /\ redis'.seen = redis.seen \union {s}
  BY DEF TypeInv, TypeOK, RedisType
<1>0. kept \in Trimmed(t)
  OBVIOUS
<1> HIDE DEF t
<1>6. PICK k \in 1..n + 1 :
         /\ kept \in Seq(Swipes) /\ Len(kept) = n + 1 - k + 1
         /\ \A i \in 1..Len(kept) : kept[i] = t[k + i - 1]
         /\ k = 1 \/ Len(kept) >= StreamMax
  BY <1>0, <1>3, TrimmedFacts
<1>7. DOMAIN kept = 1..Len(kept) /\ Len(kept) \in Nat
  BY <1>6, LenProperties
<1> HIDE DEF n, m
<1>8. \A i \in 1..Len(kept) : k + i - 1 \in 1..n + 1
  BY <1>2, <1>6, <1>7
<1>9. \A i \in 1..n + 1 : t[i] \in redis.seen \union {s} /\ (t[i] = s => i = n + 1)
  <2> TAKE i \in 1..n + 1
  <2>1. CASE i = n + 1
    BY <1>3, <2>1
  <2>2. CASE i \in 1..n
    <3>1. t[i] \in redis.seen
      BY <1>2, <1>3, <2>2 DEF BufferInv, Deduped
    <3> QED
      BY <3>1
  <2> QED
    BY <1>2, <2>1, <2>2
<1>10. \A i, j \in 1..n + 1 : i # j => t[i] # t[j]
  <2> SUFFICES ASSUME NEW i \in 1..n + 1, NEW j \in 1..n + 1, i # j
               PROVE  t[i] # t[j]
    OBVIOUS
  <2>1. CASE i = n + 1 \/ j = n + 1
    BY <1>3, <1>9, <2>1
  <2>2. CASE i \in 1..n /\ j \in 1..n
    BY <1>2, <1>3, <2>2 DEF BufferInv, Deduped
  <2> QED
    BY <1>2, <2>1, <2>2
<1>11. \A i, j \in 1..Len(kept) : i # j => kept[i] # kept[j]
  <2> SUFFICES ASSUME NEW i \in 1..Len(kept), NEW j \in 1..Len(kept), i # j
               PROVE  kept[i] # kept[j]
    OBVIOUS
  <2>1. k + i - 1 \in 1..n + 1 /\ k + j - 1 \in 1..n + 1 /\ k + i - 1 # k + j - 1
    BY <1>2, <1>7, <1>8
  <2> QED
    BY <1>6, <1>10, <2>1
<1>12. Deduped(redis')
  BY <1>5, <1>6, <1>7, <1>8, <1>9, <1>11 DEF Deduped
<1>13. ASSUME NoFailover'
       PROVE  /\ Len(kept) <= m + 1 /\ (Len(kept) >= StreamMax \/ Len(kept) = m + 1)
              /\ \A i \in 1..Len(kept) : kept[i] = appended'[m + 1 - Len(kept) + i]
  <2>1. /\ n <= m /\ (n >= StreamMax \/ n = m)
        /\ \A i \in 1..n : redis.stream[i] = appended[m - n + i]
    BY <1>13 DEF BufferInv, RecoveryWindow, n, m
  <2>2. Len(kept) <= m + 1 /\ (Len(kept) >= StreamMax \/ Len(kept) = m + 1)
    BY <1>2, <1>6, <1>7, <2>1
  <2>3. ASSUME NEW i \in 1..Len(kept)
        PROVE  kept[i] = appended'[m + 1 - Len(kept) + i]
    <3> DEFINE j == k + i - 1
    <3>1. j \in 1..n + 1 /\ kept[i] = t[j]
      BY <1>6, <1>8
    <3>0. m + 1 - Len(kept) + i = m - n + j
      <4>1. n \in Int /\ m \in Int /\ k \in Int /\ i \in Int /\ Len(kept) = n + 1 - k + 1
        BY <1>2, <1>6, <1>7
      <4> QED
        BY <4>1, SMTT(60)
    <3> HIDE DEF j
    <3>2. CASE j = n + 1
      <4>1. m - n + j = m + 1
        BY <1>2, <3>2
      <4> QED
        BY <1>3, <1>4, <3>0, <3>1, <3>2, <4>1
    <3>3. CASE j \in 1..n
      <4>1. m - n + j \in 1..m
        BY <1>2, <2>1, <3>3
      <4>2. t[j] = appended[m - n + j]
        BY <1>3, <2>1, <3>3
      <4> QED
        BY <1>4, <3>0, <3>1, <4>1, <4>2
    <3>4. j = n + 1 \/ j \in 1..n
      BY <1>2, <3>1
    <3> QED
      BY <3>2, <3>3, <3>4
  <2> QED
    BY <2>2, <2>3
<1>14. RecoveryWindow'
  <2>1. \A i, j \in DOMAIN redis'.stream : i # j => redis'.stream[i] # redis'.stream[j]
    BY <1>5, <1>7, <1>11
  <2>2. ASSUME NoFailover'
        PROVE  /\ Len(redis'.stream) <= Len(appended')
               /\ Len(redis'.stream) >= StreamMax \/ Len(redis'.stream) = Len(appended')
               /\ \A i \in 1..Len(redis'.stream) :
                     redis'.stream[i] = appended'[Len(appended') - Len(redis'.stream) + i]
    <3> DEFINE p == redis'.stream
               q == Len(appended')
    <3>1. p = kept /\ q = m + 1
      BY <1>4, <1>5
    <3>2. /\ Len(kept) <= m + 1 /\ (Len(kept) >= StreamMax \/ Len(kept) = m + 1)
          /\ \A i \in 1..Len(kept) : kept[i] = appended'[m + 1 - Len(kept) + i]
      BY <1>13, <2>2
    <3> HIDE DEF p, q
    <3>3. Len(p) <= q /\ (Len(p) >= StreamMax \/ Len(p) = q)
      BY <3>1, <3>2
    <3>4. ASSUME NEW i \in 1..Len(p)
          PROVE  p[i] = appended'[q - Len(p) + i]
      <4>1. kept[i] = appended'[m + 1 - Len(kept) + i]
        BY <3>1, <3>2
      <4>2. m + 1 - Len(kept) + i = q - Len(p) + i
        BY <1>2, <1>7, <3>1
      <4> QED
        BY <3>1, <4>1, <4>2
    <3> QED
      BY <3>3, <3>4 DEF p, q
  <2> QED
    BY <2>1, <2>2 DEF RecoveryWindow
<1> QED
  BY <1>12, <1>14

\* A step that leaves the stream of the master, or puts the replica's in its place.
LEMMA KeepBuffer ==
    ASSUME TypeInv, BufferInv, NoFailover' => NoFailover,
           redis' \in RedisType, appended' = appended,
           \/ redis'.stream = redis.stream /\ redis'.seen = redis.seen
           \/ redis' = replica /\ ~NoFailover'
    PROVE  Deduped(redis') /\ RecoveryWindow'
<1>1. CASE redis'.stream = redis.stream /\ redis'.seen = redis.seen
  <2>1. Deduped(redis')
    BY <1>1 DEF BufferInv, Deduped
  <2>2. RecoveryWindow'
    <3> DEFINE p == redis.stream
               p1 == redis'.stream
    <3>1. p1 = p /\ appended' = appended
      BY <1>1
    <3> HIDE DEF p, p1
    <3> QED
      BY <3>1, ZenonT(60) DEF BufferInv, RecoveryWindow, p, p1
  <2> QED
    BY <2>1, <2>2
<1>2. CASE redis' = replica /\ ~NoFailover'
  BY <1>2 DEF BufferInv, Deduped, RecoveryWindow
<1> QED
  BY <1>1, <1>2

\* The steps of the master's stream.
LEMMA StreamSteps ==
    ASSUME TypeInv, [Next]_vars
    PROVE  \/ \E s \in Swipes : RunAppend(s) /\ (AppendReplied(s) \/ AppendReplyLost(s))
           \/ Failover
           \/ redis'.stream = redis.stream /\ redis'.seen = redis.seen /\ appended' = appended
<1>1. redis \in RedisType
  BY DEF TypeInv, TypeOK
<1>2. ASSUME NEW s \in Swipes, Handle(s) \/ Kill(s), ~AppendReplied(s), ~AppendReplyLost(s)
      PROVE  redis'.stream = redis.stream /\ redis'.seen = redis.seen /\ appended' = appended
  BY <1>1, <1>2 DEF Handle, Kill, Accept, Reject, DecideReplied, DecideReplyLost, DecideNotRun,
                    RunDecide, AppendNotRun, PublishQueued, PublishRefused, Respond, RedisType
<1>3. ASSUME NEW e \in Employees, Expire(e) \/ ResetState(e)
      PROVE  redis'.stream = redis.stream /\ redis'.seen = redis.seen /\ appended' = appended
  BY <1>1, <1>3 DEF Expire, ResetState, Lose, RedisType
<1>4. CASE Replicate \/ UNCHANGED vars
  BY <1>4 DEF Replicate, vars
<1>5. ASSUME NEW s \in Swipes, AppendReplied(s) \/ AppendReplyLost(s)
      PROVE  RunAppend(s)
  BY <1>5 DEF AppendReplied, AppendReplyLost
<1> QED
  BY <1>2, <1>3, <1>4, <1>5 DEF Next

\* The steps of the flags and of what the publisher took.
LEMMA FlagSteps ==
    ASSUME TypeInv, [Next]_vars
    PROVE  /\ \A s \in Swipes :
                 answer'[s].buffered => \/ answer[s].buffered
                                        \/ AppendReplied(s)
           /\ \A s \in Swipes : (answer[s].queued <=> s \in handed) =>
                 (answer'[s].queued <=> s \in handed')
<1>1. answer \in [Swipes -> [buffered : BOOLEAN, queued : BOOLEAN]]
  BY DEF TypeInv, TypeOK
<1>2. ASSUME NEW x \in Swipes, AppendReplied(x)
      PROVE  handed' = handed /\ answer' = [answer EXCEPT ![x].buffered = TRUE]
  BY <1>2 DEF AppendReplied, RunAppend
<1>3. ASSUME NEW x \in Swipes, PublishQueued(x)
      PROVE  handed' = handed \union {x} /\ answer' = [answer EXCEPT ![x].queued = TRUE]
  BY <1>3 DEF PublishQueued
<1>4. (\A s \in Swipes : ~AppendReplied(s) /\ ~PublishQueued(s)) =>
          UNCHANGED <<answer, handed>>
  BY DEF Next, Handle, Kill, Accept, Reject, DecideReplied, DecideReplyLost, DecideNotRun,
         RunDecide, AppendReplyLost, AppendNotRun, RunAppend,
         PublishRefused, Respond, Expire, ResetState, Lose, Replicate, Failover, vars
<1>5. CASE \E x \in Swipes : AppendReplied(x)
  <2>1. PICK x \in Swipes : AppendReplied(x)
    BY <1>5
  <2>2. /\ \A s \in Swipes \ {x} : answer'[s] = answer[s]
        /\ answer'[x].queued = answer[x].queued
        /\ handed' = handed
    BY <1>1, <1>2, <2>1
  <2> QED
    BY <2>1, <2>2
<1>6. CASE \E x \in Swipes : PublishQueued(x)
  <2>1. PICK x \in Swipes : PublishQueued(x)
    BY <1>6
  <2>2. /\ \A s \in Swipes \ {x} : answer'[s] = answer[s]
        /\ answer'[x].queued /\ answer'[x].buffered = answer[x].buffered
        /\ handed' = handed \union {x}
    BY <1>1, <1>3, <2>1
  <2> QED
    BY <2>1, <2>2
<1> QED
  BY <1>4, <1>5, <1>6

LEMMA NextBuffer ==
    ASSUME TypeInv, BufferInv, [Next]_vars
    PROVE  BufferInv'
<1>1. TypeInv' /\ (NoFailover' => NoFailover /\ ~Failover)
  BY NextTypeInv, LossesStay
<1>2. /\ redis \in RedisType /\ redis' \in RedisType
      /\ appended \in Seq(Swipes) /\ appended' \in Seq(Swipes)
  BY <1>1 DEF TypeInv, TypeOK
<1>3. /\ Deduped(redis') /\ RecoveryWindow'
      /\ Range(appended) \subseteq Range(appended')
      /\ NoFailover' => redis'.seen \subseteq Range(appended')
      /\ \A s \in Swipes : AppendReplied(s) => s \in redis'.seen
  <2>1. ASSUME NEW s \in Swipes, RunAppend(s), AppendReplied(s) \/ AppendReplyLost(s)
        PROVE  <1>3!:
    <3>0. \A x \in Swipes : AppendReplied(x) => x \in redis'.seen
      <4> SUFFICES ASSUME NEW x \in Swipes, RunAppend(x) PROVE x \in redis'.seen
        BY DEF AppendReplied
      <4> QED
        BY <1>2 DEF RunAppend, RedisType
    <3>1. CASE s \in redis.seen
      <4>1. redis' = redis /\ appended' = appended
        BY <2>1, <3>1 DEF RunAppend
      <4>2. Deduped(redis') /\ RecoveryWindow'
        BY <1>1, <1>2, <4>1, KeepBuffer
      <4> QED
        BY <1>1, <3>0, <4>1, <4>2 DEF BufferInv
    <3>2. CASE s \notin redis.seen
      <4>1. /\ appended' = Append(appended, s)
            /\ \E kept \in Trimmed(Append(redis.stream, s)) :
                  redis' = [redis EXCEPT !.stream = kept, !.seen = @ \union {s}]
        BY <2>1, <3>2 DEF RunAppend
      <4>2. Deduped(redis') /\ RecoveryWindow'
        BY <1>1, <3>2, <4>1, AppendBuffer
      <4>3. redis'.seen = redis.seen \union {s}
        BY <1>2, <4>1 DEF RedisType
      <4>4. Range(appended') = Range(appended) \union {s}
        <5>1. <<s>> \in Seq(Swipes) /\ Range(<<s>>) = {s}
          BY DEF Range
        <5>2. appended' = appended \o <<s>>
          BY <1>2, <4>1, AppendIsConcat
        <5> QED
          <6>1. Range(appended \o <<s>>) = Range(appended) \union Range(<<s>>)
            BY <1>2, <5>1, RangeConcatenation, ZenonT(60)
          <6> QED
            BY <5>1, <5>2, <6>1
      <4> QED
        BY <1>1, <3>0, <4>2, <4>3, <4>4 DEF BufferInv
    <3> QED
      BY <3>1, <3>2
  <2>2. CASE Failover
    <3>1. redis' = replica /\ appended' = appended /\ ~NoFailover'
      BY <1>1, <2>2 DEF Failover, Lose
    <3>2. Deduped(redis') /\ RecoveryWindow'
      BY <1>1, <1>2, <3>1, KeepBuffer
    <3>3. \A s \in Swipes : ~AppendReplied(s)
      BY <2>2 DEF AppendReplied, Goto, Failover, Lose, RunAppend, TypeInv, StateType
    <3> QED
      BY <3>1, <3>2, <3>3
  <2>3. CASE /\ redis'.stream = redis.stream /\ redis'.seen = redis.seen
             /\ appended' = appended
             /\ \A s \in Swipes : ~AppendReplied(s)
    <3>1. Deduped(redis') /\ RecoveryWindow'
      BY <1>1, <1>2, <2>3, KeepBuffer
    <3> QED
      BY <1>1, <2>3, <3>1 DEF BufferInv
  <2>4. ASSUME NEW s \in Swipes, AppendReplied(s)
        PROVE  RunAppend(s)
    BY <2>4 DEF AppendReplied
  <2> QED
    BY <2>1, <2>2, <2>3, <2>4, StreamSteps
<1>4. Deduped(replica')
  <2>1. replica' = replica \/ replica' = redis
    BY DEF Next, Handle, Kill, Accept, Reject, RunDecide, RunAppend, DecideReplied,
           DecideReplyLost, DecideNotRun, AppendReplied, AppendReplyLost, AppendNotRun,
           PublishQueued, PublishRefused, Respond, Expire, ResetState, Lose, Replicate,
           Failover, vars
  <2> QED
    BY <2>1 DEF BufferInv
<1>5. ASSUME NEW s \in Swipes
      PROVE  /\ answer'[s].buffered /\ NoFailover' => s \in Range(appended')
             /\ answer'[s].queued <=> s \in handed'
  BY <1>1, <1>3, FlagSteps DEF BufferInv
<1> QED
  BY <1>3, <1>4, <1>5 DEF BufferInv

LEMMA BufferInvariant == Spec => [](TypeInv /\ BufferInv)
<1>1. ASSUME Init PROVE BufferInv
  <2>1. /\ redis.stream = <<>> /\ redis.seen = {} /\ replica = redis /\ appended = <<>>
        /\ \A s \in Swipes : ~answer[s].buffered /\ ~answer[s].queued
        /\ handed = {} /\ DOMAIN <<>> = {} /\ Len(<<>>) = 0 /\ 1..0 = {}
    BY <1>1 DEF Init
  <2>2. RecoveryWindow
    BY <2>1 DEF RecoveryWindow
  <2> QED
    BY <2>1, <2>2 DEF BufferInv, Deduped
<1>2. Init => TypeInv /\ BufferInv
  BY <1>1, InitTypeInv
<1>3. TypeInv /\ BufferInv /\ [Next]_vars => (TypeInv /\ BufferInv)'
  BY NextTypeInv, NextBuffer
<1> QED
  BY <1>2, <1>3, PTL DEF Spec

\* The recovery stream holds each event at most once, however often its append
\* was sent, and the newest StreamMax events unless a failover lost some.
THEOREM StreamKeepsNewest == Spec => []RecoveryWindow
<1>1. TypeInv /\ BufferInv => RecoveryWindow
  BY DEF BufferInv
<1> QED
  BY <1>1, BufferInvariant, PTL

\* An answer calls an event buffered only if it is in the stream or StreamMax
\* newer ones have pushed it out, and queued only if the publisher took it.
THEOREM FlagsTellTruth == Spec => []AnswerFlags
<1>1. ASSUME TypeInv, BufferInv PROVE AnswerFlags
  <2> SUFFICES ASSUME NEW s \in Swipes, answer[s].buffered, NoFailover
               PROVE  \E i \in DOMAIN appended :
                         /\ appended[i] = s
                         /\ \/ \E j \in DOMAIN redis.stream : redis.stream[j] = s
                            \/ Len(appended) - i >= StreamMax
    BY <1>1 DEF AnswerFlags, BufferInv
  <2> DEFINE n == Len(redis.stream)
             m == Len(appended)
  <2>1. /\ n \in Nat /\ m \in Nat /\ StreamMax \in Nat
        /\ DOMAIN redis.stream = 1..n /\ DOMAIN appended = 1..m
    BY <1>1, LenProperties, StreamMaxPositive DEF TypeInv, TypeOK, RedisType
  <2>2. /\ n <= m /\ (n >= StreamMax \/ n = m)
        /\ \A i \in 1..n : redis.stream[i] = appended[m - n + i]
    BY <1>1 DEF BufferInv, RecoveryWindow
  <2>3. PICK i \in 1..m : appended[i] = s
    BY <1>1, <2>1 DEF BufferInv, Range
  <2> HIDE DEF n, m
  <2>4. CASE i <= m - n
    <3>1. m - i >= StreamMax
      BY <2>1, <2>2, <2>3, <2>4
    <3> QED
      BY <2>1, <2>3, <3>1 DEF m
  <2>5. CASE ~ (i <= m - n)
    <3> DEFINE j == i - (m - n)
    <3>1. j \in 1..n /\ m - n + j = i
      BY <2>1, <2>2, <2>3, <2>5
    <3>2. redis.stream[j] = s
      BY <2>2, <2>3, <3>1
    <3> QED
      BY <2>1, <2>3, <3>1, <3>2
  <2> QED
    BY <2>4, <2>5
<1>2. TypeInv /\ BufferInv => AnswerFlags
  BY <1>1
<1> QED
  BY <1>2, BufferInvariant, PTL
=============================================================================
