------------------------------- MODULE Accounts -------------------------------
(***************************************************************************)
(* Log-in, sessions and the password reset links of the Reporting API:     *)
(* routers/auth.py, dependencies.py and the session tokens of security.py. *)
(*                                                                         *)
(* A handler reads the account's row and commits later, without a lock:    *)
(* the two are actions.  A session token is its user and expiry, signed;   *)
(* nothing is stored of it.  A password stands for itself and its hash, a  *)
(* link for its token and the token's hash.                                *)
(***************************************************************************)
EXTENDS Integers, Sequences, FiniteSets

CONSTANTS
    Handlers,          \* the threads that serve requests
    Browsers,
    UserAccounts,
    NoUser,
    Passwords,
    LongEnough,        \* the passwords of six characters or more
    Links,             \* the reset tokens the generator gives, each once
    NoLink,
    LinkLife,          \* 30 minutes
    SessionLife,       \* TOKEN_TTL_SECONDS
    RememberedLife,    \* REMEMBER_ME_TOKEN_TTL_SECONDS
    ClockBound         \* the bound on the clock

VARIABLES
    now,
    account,           \* the rows of user_accounts
    session,           \* the cookie a browser holds
    task,              \* what a handler is doing
    sent,              \* the links sent to an account, in the order of their commits
    spent              \* the links by which a password was set

vars == <<now, account, session, task, sent, spent>>

ASSUME AccountConstants ==
    /\ LongEnough \subseteq Passwords
    /\ NoLink \notin Links /\ NoUser \notin UserAccounts
    /\ LinkLife \in Nat /\ SessionLife \in Nat /\ RememberedLife \in Nat /\ ClockBound \in Nat

Never == -1
Idle == [step |-> "idle"]

Init ==
    /\ now = 0
    /\ account \in [UserAccounts -> [password : Passwords, active : {TRUE}, link : {NoLink},
                                     expires : {Never}, used : {Never}]]
    /\ session = [b \in Browsers |-> [user |-> NoUser, expires |-> Never]]
    /\ task = [h \in Handlers |-> Idle]
    /\ sent = [u \in UserAccounts |-> <<>>]
    /\ spent = {}

----------------------------------------------------------------------------
(* Sessions.                                                                *)

\* parse_session_token and get_optional_current_user; get_current_user answers
\* 401 where this is NoUser.
CurrentUser(browser) ==
    LET s == session[browser]
    IN  IF s.user # NoUser /\ s.expires >= now /\ account[s.user].active THEN s.user ELSE NoUser

Login(browser, user, password, remember) ==
    /\ account[user].active /\ account[user].password = password
    /\ session' = [session EXCEPT ![browser] =
                      [user |-> user,
                       expires |-> now + (IF remember THEN RememberedLife ELSE SessionLife)]]
    /\ UNCHANGED <<now, account, task, sent, spent>>

Logout(browser) ==
    /\ session' = [session EXCEPT ![browser] = [user |-> NoUser, expires |-> Never]]
    /\ UNCHANGED <<now, account, task, sent, spent>>

----------------------------------------------------------------------------
(* request_password_reset.                                                  *)

\* The select, of an active account, and a token no one has seen.
StartRequest(h, user, link) ==
    /\ task[h] = Idle
    /\ account[user].active
    /\ \A v \in UserAccounts : \A i \in DOMAIN sent[v] : sent[v][i] # link
    /\ \A g \in Handlers : task[g] # Idle => task[g].link # link
    /\ task' = [task EXCEPT ![h] = [step |-> "request", user |-> user, link |-> link,
                                    wasUsed |-> account[user].used # Never]]
    /\ UNCHANGED <<now, account, session, sent, spent>>

\* The commit writes used_at only if the row read had one.
CommitRequest(h) ==
    LET t == task[h]
    IN  /\ t.step = "request"
        /\ account' = [account EXCEPT
                          ![t.user].link = t.link, ![t.user].expires = now + LinkLife,
                          ![t.user].used = IF t.wasUsed THEN Never ELSE @]
        /\ sent' = [sent EXCEPT ![t.user] = Append(@, t.link)]
        /\ task' = [task EXCEPT ![h] = Idle]
        /\ UNCHANGED <<now, session, spent>>

----------------------------------------------------------------------------
(* confirm_password_reset.                                                  *)

\* The row of the token, and what is checked of it.
Accepted(user, link) ==
    /\ account[user].link = link
    /\ account[user].active
    /\ account[user].used = Never
    /\ account[user].expires # Never /\ account[user].expires >= now

StartConfirm(h, user, link, password) ==
    /\ task[h] = Idle
    /\ password \in LongEnough
    /\ Accepted(user, link)
    /\ task' = [task EXCEPT ![h] = [step |-> "confirm", user |-> user, link |-> link,
                                    password |-> password, at |-> now]]
    /\ UNCHANGED <<now, account, session, sent, spent>>

\* Mutant of CommitConfirm: the link stays on the row.
CommitConfirmKeepsLink(h) ==
    LET t == task[h]
    IN  /\ t.step = "confirm"
        /\ account' = [account EXCEPT ![t.user].password = t.password]
        /\ spent' = spent \union {t.link}
        /\ task' = [task EXCEPT ![h] = Idle]
        /\ UNCHANGED <<now, session, sent>>

\* Whatever the row has become since it was read.
CommitConfirm(h) ==
    LET t == task[h]
    IN  /\ t.step = "confirm"
        /\ account' = [account EXCEPT ![t.user].password = t.password, ![t.user].used = t.at,
                                      ![t.user].link = NoLink, ![t.user].expires = Never]
        /\ spent' = spent \union {t.link}
        /\ task' = [task EXCEPT ![h] = Idle]
        /\ UNCHANGED <<now, session, sent>>

----------------------------------------------------------------------------

\* The request is cut off before its commit.
Abandon(h) ==
    /\ task[h] # Idle
    /\ task' = [task EXCEPT ![h] = Idle]
    /\ UNCHANGED <<now, account, session, sent, spent>>

Deactivate(user) ==
    /\ account[user].active
    /\ account' = [account EXCEPT ![user].active = FALSE]
    /\ UNCHANGED <<now, session, task, sent, spent>>

Tick ==
    /\ now < ClockBound
    /\ now' = now + 1
    /\ UNCHANGED <<account, session, task, sent, spent>>

Next ==
    \/ \E b \in Browsers, user \in UserAccounts, password \in Passwords, remember \in BOOLEAN :
           Login(b, user, password, remember)
    \/ \E b \in Browsers : Logout(b)
    \/ \E h \in Handlers, user \in UserAccounts, link \in Links : StartRequest(h, user, link)
    \/ \E h \in Handlers, user \in UserAccounts, link \in Links, password \in Passwords :
           StartConfirm(h, user, link, password)
    \/ \E h \in Handlers : CommitRequest(h) \/ CommitConfirm(h) \/ Abandon(h)
    \/ \E user \in UserAccounts : Deactivate(user)
    \/ Tick

Spec == Init /\ [][Next]_vars

----------------------------------------------------------------------------
(* Properties.                                                              *)

\* A row holds no link but the last one sent to its account, in time, and never
\* one that has set a password, however requests and confirmations overlap; so a
\* confirmation that reads the row after another's commit, or after a newer link,
\* is refused.  (Two that read it before either commits both set the password.)
OnlyTheLastLink ==
    \A u \in UserAccounts :
        LET row == account[u]
        IN  row.link # NoLink =>
                /\ sent[u] # <<>> /\ row.link = sent[u][Len(sent[u])]
                /\ row.link \notin spent
                /\ \A v \in UserAccounts \ {u} : account[v].link # row.link
=============================================================================
