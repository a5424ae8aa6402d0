---------------------------- MODULE AccountsProofs ----------------------------
(***************************************************************************)
(* Proofs about the reset links of Accounts, for any number of accounts,   *)
(* handlers, links and passwords, and clocks that run for ever.            *)
(*                                                                         *)
(* A link goes from the task of the request that drew it to the list of    *)
(* the links sent, and to spent by a confirmation: the invariant says that *)
(* it is in one of these places at a time, and of one account.             *)
(***************************************************************************)
EXTENDS Accounts, TLAPS

SentTo(u) == {sent[u][i] : i \in DOMAIN sent[u]}

Rows == [password : Passwords, active : BOOLEAN, link : Links \union {NoLink},
         expires : Int, used : Int]
RequestTasks == [step : {"request"}, user : UserAccounts, link : Links, wasUsed : BOOLEAN]
ConfirmTasks == [step : {"confirm"}, user : UserAccounts, link : Links, password : Passwords,
                 at : Int]

\* The variables the links are about have their types.
LinkTypes ==
    /\ now \in Int
    /\ account \in [UserAccounts -> Rows]
    /\ task \in [Handlers -> {Idle} \union RequestTasks \union ConfirmTasks]
    /\ sent \in [UserAccounts -> Seq(Links)]

\* The link of a row is the last one sent to its account, and unspent.
RowLinks ==
    \A u \in UserAccounts :
        account[u].link # NoLink => /\ sent[u] # <<>>
                                    /\ account[u].link = sent[u][Len(sent[u])]
                                    /\ account[u].link \notin spent

\* No link is sent to two accounts.
OneReceiver == \A u, v \in UserAccounts : \A link \in SentTo(u) : link \in SentTo(v) => u = v

\* The link of a request not yet committed is nowhere else.
FreshLinks ==
    \A h \in Handlers :
        task[h].step = "request" =>
            /\ \A u \in UserAccounts : task[h].link \notin SentTo(u)
            /\ \A g \in Handlers \ {h} : task[g].step = "request" => task[g].link # task[h].link

\* What is confirmed was sent to the account it is confirmed for.
ConfirmedWasSent ==
    /\ \A h \in Handlers : task[h].step = "confirm" => task[h].link \in SentTo(task[h].user)
    /\ \A link \in spent : \E u \in UserAccounts : link \in SentTo(u)

LinkInv == /\ LinkTypes /\ RowLinks /\ OneReceiver /\ FreshLinks /\ ConfirmedWasSent

----------------------------------------------------------------------------

\* NULL in a column of times is a number that no clock shows.
LEMMA NeverIsInt == Never \in Int
BY DEF Never

\* What Append does to the set of a sequence's elements, and to its last one.
LEMMA AppendElements ==
    ASSUME NEW S, NEW s \in Seq(S), NEW x \in S
    PROVE  LET t == Append(s, x)
           IN  /\ t \in Seq(S) /\ t # <<>> /\ t[Len(t)] = x
               /\ {t[i] : i \in DOMAIN t} = {s[i] : i \in DOMAIN s} \union {x}
<1> DEFINE t == Append(s, x)
<1>1. /\ t \in Seq(S) /\ Len(t) = Len(s) + 1 /\ t[Len(t)] = x
      /\ DOMAIN t = 1..Len(s) + 1 /\ DOMAIN s = 1..Len(s) /\ Len(s) \in Nat
      /\ \A i \in 1..Len(s) : t[i] = s[i]
  OBVIOUS
<1>2. {t[i] : i \in DOMAIN t} = {s[i] : i \in DOMAIN s} \union {x}
  BY <1>1
<1>3. t # <<>>
  BY <1>1
<1>4. QED
  BY <1>1, <1>2, <1>3

\* The last link sent to an account is one sent to it.
LEMMA LastIsSent ==
    ASSUME LinkTypes, NEW u \in UserAccounts, sent[u] # <<>>
    PROVE  sent[u][Len(sent[u])] \in SentTo(u)
BY DEF LinkTypes, SentTo

\* Three kinds of task, told apart by their step.
LEMMA TaskKinds ==
    ASSUME LinkTypes, NEW h \in Handlers
    PROVE  /\ task[h].step = "request" => task[h] \in RequestTasks
           /\ task[h].step = "confirm" => task[h] \in ConfirmTasks
           /\ Idle.step = "idle"
BY DEF LinkTypes, Idle, RequestTasks, ConfirmTasks

----------------------------------------------------------------------------

\* The invariant holds at the start: no link is sent.
LEMMA LinksInit == Init => LinkInv
<1> SUFFICES ASSUME Init PROVE LinkInv
  OBVIOUS
<1>1. LinkTypes
  <2>1. [password : Passwords, active : {TRUE}, link : {NoLink}, expires : {Never},
         used : {Never}] \subseteq Rows
    BY NeverIsInt DEF Rows
  <2>2. account \in [UserAccounts -> Rows]
    BY <2>1 DEF Init
  <2>3. <<>> \in Seq(Links)
    OBVIOUS
  <2>4. QED
    BY <2>2, <2>3 DEF Init, LinkTypes
<1>2. \A u \in UserAccounts : account[u].link = NoLink /\ SentTo(u) = {}
  <2>1. DOMAIN <<>> = {}
    OBVIOUS
  <2>2. QED
    BY <2>1 DEF Init, SentTo
<1>3. \A h \in Handlers : task[h].step = "idle"
  BY DEF Init, Idle
<1>4. QED
  BY <1>1, <1>2, <1>3 DEF Init, LinkInv, RowLinks, OneReceiver, FreshLinks, ConfirmedWasSent

\* A request draws a link that is nowhere, and sends nothing yet.
LEMMA LinksStartRequest ==
    ASSUME LinkInv, NEW h \in Handlers, NEW user \in UserAccounts, NEW link \in Links,
           StartRequest(h, user, link)
    PROVE  LinkInv'
<1> USE DEF LinkInv
<1> DEFINE new == [step |-> "request", user |-> user, link |-> link,
                   wasUsed |-> account[user].used # Never]
<1>1. /\ task' = [task EXCEPT ![h] = new] /\ new \in RequestTasks
      /\ UNCHANGED <<now, account, sent, spent>>
  BY DEF StartRequest, RequestTasks
<1>2. \A u \in UserAccounts : SentTo(u)' = SentTo(u) /\ link \notin SentTo(u)
  BY <1>1 DEF StartRequest, SentTo
<1>3. \A g \in Handlers : task[g].step = "request" => task[g].link # link
  BY TaskKinds DEF StartRequest
<1>4. /\ task'[h] = new /\ \A g \in Handlers \ {h} : task'[g] = task[g]
      /\ new.step = "request" /\ new.link = link
  BY <1>1 DEF LinkTypes
<1> HIDE DEF new
<1>5. LinkTypes'
  BY <1>1 DEF LinkTypes
<1>6. RowLinks' /\ OneReceiver'
  BY <1>1, <1>2 DEF RowLinks, OneReceiver
<1>7. FreshLinks'
  BY <1>2, <1>3, <1>4 DEF FreshLinks
<1>8. ConfirmedWasSent'
  <2>1. \A g \in Handlers : task[g].step = "confirm" => task[g].user \in UserAccounts
    BY TaskKinds DEF ConfirmTasks
  <2>2. QED
    BY <1>1, <1>2, <1>4, <2>1 DEF ConfirmedWasSent
<1>9. QED
  BY <1>5, <1>6, <1>7, <1>8

\* The commit of a request puts its link on the row and at the end of what is sent.
LEMMA LinksCommitRequest ==
    ASSUME LinkInv, NEW h \in Handlers, CommitRequest(h)
    PROVE  LinkInv'
<1> USE DEF LinkInv
<1>0. PICK t \in RequestTasks, u \in UserAccounts : t = task[h] /\ u = t.user
  BY TaskKinds DEF CommitRequest, RequestTasks
<1>1. t.step = "request" /\ t.user = u /\ t.link \in Links
  BY <1>0 DEF RequestTasks
<1>2. /\ task' = [task EXCEPT ![h] = Idle] /\ sent' = [sent EXCEPT ![u] = Append(sent[u], t.link)]
      /\ UNCHANGED <<now, spent>>
  BY <1>0, <1>1 DEF CommitRequest
<1>3. /\ task'[h] = Idle /\ \A g \in Handlers \ {h} : task'[g] = task[g]
      /\ Idle.step = "idle"
  BY <1>2, TaskKinds DEF LinkTypes
<1>4. /\ account' \in [UserAccounts -> Rows] /\ account'[u].link = t.link
      /\ \A v \in UserAccounts \ {u} : account'[v] = account[v]
  <2>1. account' = [account EXCEPT ![u] =
                       [account[u] EXCEPT !.link = t.link, !.expires = now + LinkLife,
                           !.used = IF t.wasUsed THEN Never ELSE account[u].used]]
    BY <1>0, <1>1 DEF CommitRequest, LinkTypes, Rows
  <2>2. now + LinkLife \in Int /\ Never \in Int
    BY AccountConstants, NeverIsInt DEF LinkTypes
  <2>3. [account[u] EXCEPT !.link = t.link, !.expires = now + LinkLife,
            !.used = IF t.wasUsed THEN Never ELSE account[u].used] \in Rows
    BY <1>1, <2>2, ZenonT(60) DEF LinkTypes, Rows
  <2>4. QED
    BY <1>1, <2>1, <2>3 DEF LinkTypes, Rows
<1>5. /\ sent'[u] \in Seq(Links) /\ sent'[u] # <<>> /\ sent'[u][Len(sent'[u])] = t.link
      /\ SentTo(u)' = SentTo(u) \union {t.link}
      /\ \A v \in UserAccounts \ {u} : sent'[v] = sent[v] /\ SentTo(v)' = SentTo(v)
  <2>1. sent'[u] = Append(sent[u], t.link) /\ sent[u] \in Seq(Links)
    BY <1>1, <1>2 DEF LinkTypes
  <2>2. \A v \in UserAccounts \ {u} : sent'[v] = sent[v]
    BY <1>1, <1>2 DEF LinkTypes
  <2>3. QED
    BY <1>1, <2>1, <2>2, AppendElements DEF SentTo
<1>6. \A v \in UserAccounts : t.link \notin SentTo(v)
  BY <1>0, <1>1 DEF FreshLinks
<1>7. t.link \notin spent
  BY <1>6 DEF ConfirmedWasSent
<1>8. LinkTypes'
  BY <1>2, <1>4, <1>5 DEF LinkTypes
<1>9. RowLinks'
  BY <1>2, <1>4, <1>5, <1>7 DEF RowLinks
<1>10. OneReceiver'
  <2> SUFFICES ASSUME NEW v \in UserAccounts, NEW w \in UserAccounts, NEW link,
                      link \in SentTo(v)', link \in SentTo(w)'
               PROVE  v = w
    BY DEF OneReceiver
  <2>1. CASE link = t.link
    BY <1>5, <1>6, <2>1
  <2>2. CASE link # t.link
    BY <1>5, <2>2 DEF OneReceiver
  <2>3. QED
    BY <2>1, <2>2
<1>11. FreshLinks'
  <2>1. \A g \in Handlers \ {h} : task[g].step = "request" => task[g].link # t.link
    BY <1>0, <1>1 DEF FreshLinks
  <2>2. QED
    BY <1>3, <1>5, <2>1 DEF FreshLinks
<1>12. ConfirmedWasSent'
  <2>1. \A v \in UserAccounts : SentTo(v) \subseteq SentTo(v)'
    BY <1>5
  <2>2. \A g \in Handlers : task'[g].step = "confirm" =>
            /\ task[g].step = "confirm" /\ task'[g] = task[g] /\ task[g].user \in UserAccounts
    BY <1>3, TaskKinds DEF ConfirmTasks
  <2>3. QED
    BY <1>2, <2>1, <2>2 DEF ConfirmedWasSent
<1>13. QED
  BY <1>8, <1>9, <1>10, <1>11, <1>12

\* A confirmation that starts has read the last link sent to the account.
LEMMA LinksStartConfirm ==
    ASSUME LinkInv, NEW h \in Handlers, NEW user \in UserAccounts, NEW link \in Links,
           NEW password \in Passwords, StartConfirm(h, user, link, password)
    PROVE  LinkInv'
<1> USE DEF LinkInv
<1> DEFINE new == [step |-> "confirm", user |-> user, link |-> link, password |-> password,
                   at |-> now]
<1>1. /\ task' = [task EXCEPT ![h] = new] /\ new \in ConfirmTasks
      /\ UNCHANGED <<now, account, sent, spent>>
  BY DEF StartConfirm, ConfirmTasks, LinkTypes
<1>2. \A u \in UserAccounts : SentTo(u)' = SentTo(u)
  BY <1>1 DEF SentTo
<1>3. link \in SentTo(user)
  <2>1. account[user].link = link /\ link # NoLink
    BY AccountConstants DEF StartConfirm, Accepted
  <2>2. QED
    BY <2>1, LastIsSent DEF RowLinks
<1>4. /\ task'[h] = new /\ \A g \in Handlers \ {h} : task'[g] = task[g]
      /\ new.step = "confirm" /\ new.link = link /\ new.user = user
  BY <1>1 DEF LinkTypes
<1> HIDE DEF new
<1>5. LinkTypes'
  BY <1>1 DEF LinkTypes
<1>6. RowLinks' /\ OneReceiver'
  BY <1>1, <1>2 DEF RowLinks, OneReceiver
<1>7. FreshLinks'
  BY <1>2, <1>4 DEF FreshLinks
<1>8. ConfirmedWasSent'
  <2>1. \A g \in Handlers : task[g].step = "confirm" => task[g].user \in UserAccounts
    BY TaskKinds DEF ConfirmTasks
  <2>2. QED
    BY <1>1, <1>2, <1>3, <1>4, <2>1 DEF ConfirmedWasSent
<1>9. QED
  BY <1>5, <1>6, <1>7, <1>8

\* The commit of a confirmation clears the row, whatever link it has become, and
\* spends a link of this account: no other account's row has it.
LEMMA LinksCommitConfirm ==
    ASSUME LinkInv, NEW h \in Handlers, CommitConfirm(h)
    PROVE  LinkInv'
<1> USE DEF LinkInv
<1>0. PICK t \in ConfirmTasks, u \in UserAccounts : t = task[h] /\ u = t.user
  BY TaskKinds DEF CommitConfirm, ConfirmTasks
<1>1. /\ t.step = "confirm" /\ t.user = u /\ t.link \in Links
      /\ t.password \in Passwords /\ t.at \in Int
  BY <1>0 DEF ConfirmTasks
<1>2. task' = [task EXCEPT ![h] = Idle] /\ spent' = spent \union {t.link} /\ UNCHANGED <<now, sent>>
  BY <1>0, <1>1 DEF CommitConfirm
<1>3. /\ task'[h] = Idle /\ \A g \in Handlers \ {h} : task'[g] = task[g]
      /\ Idle.step = "idle"
  BY <1>2, TaskKinds DEF LinkTypes
<1>4. /\ account' \in [UserAccounts -> Rows] /\ account'[u].link = NoLink
      /\ \A v \in UserAccounts \ {u} : account'[v] = account[v]
  <2>1. account' = [account EXCEPT ![u] =
                       [account[u] EXCEPT !.password = t.password, !.used = t.at,
                           !.link = NoLink, !.expires = Never]]
    BY <1>0, <1>1 DEF CommitConfirm, LinkTypes, Rows
  <2>2. [account[u] EXCEPT !.password = t.password, !.used = t.at,
            !.link = NoLink, !.expires = Never] \in Rows
    BY <1>1, NeverIsInt, ZenonT(60) DEF LinkTypes, Rows
  <2>3. QED
    BY <1>1, <2>1, <2>2 DEF LinkTypes, Rows
<1>5. \A v \in UserAccounts : SentTo(v)' = SentTo(v)
  BY <1>2 DEF SentTo
<1>6. t.link \in SentTo(u)
  BY <1>0, <1>1 DEF ConfirmedWasSent
<1>7. \A v \in UserAccounts \ {u} : t.link \notin SentTo(v)
  BY <1>1, <1>6 DEF OneReceiver
<1>8. LinkTypes'
  BY <1>2, <1>4 DEF LinkTypes
<1>9. RowLinks'
  BY <1>1, <1>2, <1>4, <1>7, LastIsSent DEF RowLinks
<1>10. OneReceiver'
  BY <1>5 DEF OneReceiver
<1>11. FreshLinks'
  BY <1>3, <1>5 DEF FreshLinks
<1>12. ConfirmedWasSent'
  <2>1. \A g \in Handlers : task'[g].step = "confirm" =>
            /\ task[g].step = "confirm" /\ task'[g] = task[g] /\ task[g].user \in UserAccounts
    BY <1>3, TaskKinds DEF ConfirmTasks
  <2>2. QED
    BY <1>1, <1>2, <1>5, <1>6, <2>1 DEF ConfirmedWasSent
<1>13. QED
  BY <1>8, <1>9, <1>10, <1>11, <1>12

\* The other steps send and spend no link.
LEMMA LinksOtherSteps ==
    ASSUME LinkInv, UNCHANGED <<sent, spent>>,
           \/ UNCHANGED <<account, task>> /\ now' \in Int
           \/ UNCHANGED <<now, account>> /\ \E h \in Handlers : task' = [task EXCEPT ![h] = Idle]
           \/ /\ UNCHANGED <<now, task>>
              /\ \E u \in UserAccounts : account' = [account EXCEPT ![u].active = FALSE]
    PROVE  LinkInv'
<1> USE DEF LinkInv
<1>1. \A u \in UserAccounts : SentTo(u)' = SentTo(u)
  BY DEF SentTo
<1>2. now' \in Int /\ account' \in [UserAccounts -> Rows]
  BY DEF LinkTypes, Rows
<1>3. \A u \in UserAccounts : account'[u].link = account[u].link
  BY ZenonT(60) DEF LinkTypes, Rows
<1>4. \A h \in Handlers : task'[h] = task[h] \/ task'[h] = Idle
  BY DEF LinkTypes
<1>5. task' \in [Handlers -> {Idle} \union RequestTasks \union ConfirmTasks]
  BY DEF LinkTypes
<1>6. Idle.step = "idle"
  BY DEF Idle
<1>7. LinkTypes' /\ RowLinks' /\ OneReceiver'
  BY <1>1, <1>2, <1>3, <1>5 DEF LinkTypes, RowLinks, OneReceiver
<1>8. FreshLinks'
  BY <1>1, <1>4, <1>6 DEF FreshLinks
<1>9. ConfirmedWasSent'
  <2>1. \A g \in Handlers : task'[g].step = "confirm" =>
            /\ task[g].step = "confirm" /\ task'[g] = task[g] /\ task[g].user \in UserAccounts
    BY <1>4, <1>6, TaskKinds DEF ConfirmTasks
  <2>2. QED
    BY <1>1, <2>1 DEF ConfirmedWasSent
<1>10. QED
  BY <1>7, <1>8, <1>9

\* Every step keeps the invariant.
LEMMA LinksStep == LinkInv /\ [Next]_vars => LinkInv'
<1> SUFFICES ASSUME LinkInv, [Next]_vars PROVE LinkInv'
  OBVIOUS
<1>0. now \in Int
  BY DEF LinkInv, LinkTypes
<1>1. ASSUME NEW b \in Browsers, NEW user \in UserAccounts, NEW password \in Passwords,
             NEW remember \in BOOLEAN, Login(b, user, password, remember)
      PROVE  LinkInv'
  BY <1>0, <1>1, LinksOtherSteps DEF Login
<1>2. ASSUME NEW b \in Browsers, Logout(b) PROVE LinkInv'
  BY <1>0, <1>2, LinksOtherSteps DEF Logout
<1>3. ASSUME NEW h \in Handlers, Abandon(h) PROVE LinkInv'
  BY <1>3, LinksOtherSteps DEF Abandon
<1>4. ASSUME NEW user \in UserAccounts, Deactivate(user) PROVE LinkInv'
  BY <1>4, LinksOtherSteps DEF Deactivate
<1>5. CASE Tick
  BY <1>0, <1>5, LinksOtherSteps DEF Tick
<1>6. CASE UNCHANGED vars
  BY <1>0, <1>6, LinksOtherSteps DEF vars
<1>7. QED
  BY <1>1, <1>2, <1>3, <1>4, <1>5, <1>6, LinksStartRequest, LinksCommitRequest,
     LinksStartConfirm, LinksCommitConfirm DEF Next

\* The row of an account holds no link but the last one sent to it, no spent one,
\* and none of another account: however request_password_reset and
\* confirm_password_reset overlap, in any number of threads.
THEOREM OnlyTheLastLinkHolds == Spec => []OnlyTheLastLink
<1>1. LinkInv => OnlyTheLastLink
  <2> SUFFICES ASSUME LinkInv, NEW u \in UserAccounts, account[u].link # NoLink
               PROVE  /\ sent[u] # <<>> /\ account[u].link = sent[u][Len(sent[u])]
                      /\ account[u].link \notin spent
                      /\ \A v \in UserAccounts \ {u} : account[v].link # account[u].link
    BY DEF OnlyTheLastLink
  <2>1. /\ sent[u] # <<>> /\ account[u].link = sent[u][Len(sent[u])]
        /\ account[u].link \notin spent
    BY DEF LinkInv, RowLinks
  <2>2. ASSUME NEW v \in UserAccounts \ {u}, account[v].link = account[u].link
        PROVE  FALSE
    <3>1. account[u].link \in SentTo(u) /\ account[v].link \in SentTo(v)
      BY <2>2, LastIsSent DEF LinkInv, RowLinks
    <3>2. QED
      BY <2>2, <3>1 DEF LinkInv, OneReceiver
  <2>3. QED
    BY <2>1, <2>2
<1>2. QED
  BY <1>1, LinksInit, LinksStep, PTL DEF Spec
=============================================================================
