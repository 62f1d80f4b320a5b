---------------------------- MODULE AuthService ----------------------------
(* The auth-service (apps/auth-service/main.go): accounts in the table users,  *)
(* refresh tokens as keys of Redis with a time to live, and the handlers of    *)
(* signup, login, refresh and logout, each request in a goroutine of its own.  *)
(* A step is one call of PostgreSQL or Redis. An account is named by its email *)
(* (UNIQUE in users, and no row is ever changed or deleted); a password and    *)
(* its bcrypt hash are one value. Access tokens are signed and carried by the  *)
(* client, the service keeps nothing of them, so they are left out.            *)
EXTENDS Naturals, FiniteSets

CONSTANTS
  Handlers,   \* the requests the process can serve at once
  Emails,     \* the emails clients sign up with
  Passwords,  \* the passwords they send
  Tokens,     \* the uuids a run can hand out as refresh tokens
  Faults,     \* what may go wrong, a subset of AllFaults
  Nothing     \* no password, no account, no token

(* An error of DEL or SET, a client that goes away, a crash of the process.    *)
AllFaults == {"del", "set", "cancel", "crash"}

ASSUME AuthAssumption ==
  /\ Nothing \notin Emails \cup Passwords \cup Tokens
  /\ Faults \subseteq AllFaults

VARIABLES
  users,      \* the password of each account
  refresh,    \* Redis, "refresh:" and a token: the account it stands for
  pc,         \* where each request stands
  task,       \* the account it is for, and the token it was sent
  issued,     \* the uuids drawn so far
  session,    \* of a token: the account that logged in, the token this began with
  answered,   \* the tokens clients were answered with
  presented,  \* the tokens clients sent to refresh or logout, or let expire
  loggedOut,  \* the tokens whose logout was answered with "logged_out"
  failed,     \* the tokens whose SET or DEL was answered with an error
  forked      \* the sessions a refresh of which deleted no token: see Forks

(* The variables of the service, and what the clients and an observer of the   *)
(* calls know, which the service does not read.                                *)
service == <<users, refresh, pc, task, issued>>
observed == <<failed, forked>>
clients == <<session, answered, presented, loggedOut, observed>>
vars == <<service, clients>>

Stored == {t \in Tokens : refresh[t] # Nothing}

NoTask == [uid |-> Nothing, old |-> Nothing]

NoSession == [uid |-> Nothing, first |-> Nothing]

Init ==
  /\ users = [e \in Emails |-> Nothing]
  /\ refresh = [t \in Tokens |-> Nothing]
  /\ pc = [h \in Handlers |-> "idle"]
  /\ task = [h \in Handlers |-> NoTask]
  /\ issued = {}
  /\ session = [t \in Tokens |-> NoSession]
  /\ answered = {} /\ presented = {} /\ loggedOut = {}
  /\ failed = {} /\ forked = {}

Fails(call) == call \in Faults

Goto(h, label, t) ==
  /\ pc' = [pc EXCEPT ![h] = label]
  /\ task' = [task EXCEPT ![h] = t]

Drop(t) == refresh' = [refresh EXCEPT ![t] = Nothing]

-----------------------------------------------------------------------------

(* Mutation of Signup: a real upsert, ON CONFLICT (email) DO UPDATE.           *)
SignupUpsert(e, pw) ==
  /\ users' = [users EXCEPT ![e] = pw]
  /\ UNCHANGED <<refresh, pc, task, issued, session, answered, presented, loggedOut, observed>>

(* signup: one INSERT ... ON CONFLICT (email) DO NOTHING, answered with        *)
(* "created" either way. An error of the database changes nothing.             *)
Signup(e, pw) ==
  /\ users' = IF users[e] = Nothing THEN [users EXCEPT ![e] = pw] ELSE users
  /\ UNCHANGED <<refresh, pc, task, issued, session, answered, presented, loggedOut, observed>>

(* login, as far as the SELECT and the comparison; a wrong password or an      *)
(* unknown email is answered with 401.                                         *)
LoginLookup(h, e, pw) ==
  /\ pc[h] = "idle"
  /\ users[e] = pw
  /\ Goto(h, "create", [uid |-> e, old |-> Nothing])
  /\ UNCHANGED <<users, refresh, issued, clients>>

(* Mutation of RefreshGet: the error of the GET is not looked at.              *)
RefreshGetUnchecked(h, t) ==
  /\ pc[h] = "idle"
  /\ Goto(h, "del", [uid |-> refresh[t], old |-> t])
  /\ presented' = presented \cup {t}
  /\ UNCHANGED <<users, refresh, issued, session, answered, loggedOut, observed>>

(* refresh, the GET; a token that is not there, or an error, is answered with  *)
(* 401.                                                                        *)
RefreshGet(h, t) ==
  /\ pc[h] = "idle"
  /\ t \in Stored
  /\ Goto(h, "del", [uid |-> refresh[t], old |-> t])
  /\ presented' = presented \cup {t}
  /\ UNCHANGED <<users, refresh, issued, session, answered, loggedOut, observed>>

(* A DEL, whose error nobody looks at: it says whether the key was there.      *)
Delete(t) ==
  \/ Drop(t) /\ UNCHANGED failed
  \/ Fails("del") /\ UNCHANGED refresh /\ failed' = failed \cup {t}

(* A refresh whose DEL found no token, or failed, goes on all the same, and    *)
(* its session may fork.                                                       *)
Forks(t) == t \notin Stored \/ t \in Stored'

(* Mutation of RefreshDel: the token is not deleted.                           *)
RefreshKeep(h) ==
  /\ pc[h] = "del"
  /\ Goto(h, "create", task[h])
  /\ UNCHANGED <<users, refresh, issued, clients>>

(* "rotate: delete old": the result of the DEL is not looked at.               *)
RefreshDel(h) ==
  /\ pc[h] = "del"
  /\ Delete(task[h].old)
  /\ forked' = IF Forks(task[h].old) THEN forked \cup {session[task[h].old].first}
                                    ELSE forked
  /\ Goto(h, "create", task[h])
  /\ UNCHANGED <<users, issued, session, answered, presented, loggedOut>>

(* The session a new token belongs to: a login begins one, a refresh goes on   *)
(* with that of the token it was sent.                                         *)
SessionOf(h, t) ==
  IF task[h].old = Nothing THEN [uid |-> task[h].uid, first |-> t]
                           ELSE session[task[h].old]

IsRefresh(h) == task[h].old # Nothing

(* createRefreshToken and the answer: a new uuid, stored by SET. After an      *)
(* error, which does not say whether SET was executed, login answers with 500  *)
(* and refresh with the token all the same.                                    *)
CreateRefreshToken(h) ==
  \E t \in Tokens \ issued, error \in {FALSE, TRUE} :
    /\ pc[h] = "create"
    /\ error => Fails("set")
    /\ issued' = issued \cup {t}
    /\ \/ refresh' = [refresh EXCEPT ![t] = task[h].uid]
       \/ error /\ UNCHANGED refresh
    /\ failed' = IF error THEN failed \cup {t} ELSE failed
    /\ session' = [session EXCEPT ![t] = SessionOf(h, t)]
    /\ answered' = IF error /\ ~IsRefresh(h) THEN answered ELSE answered \cup {t}
    /\ Goto(h, "idle", NoTask)
    /\ UNCHANGED <<users, presented, loggedOut, forked>>

(* Mutation of Logout: every token of the account is deleted.                  *)
LogoutEverywhere(t) ==
  /\ t \in answered
  /\ refresh' = [u \in Tokens |-> IF refresh[u] = refresh[t] THEN Nothing ELSE refresh[u]]
  /\ presented' = presented \cup {t}
  /\ loggedOut' = loggedOut \cup {t}
  /\ UNCHANGED <<users, pc, task, issued, session, answered, observed>>

(* Mutation of Logout: the answer without the DEL.                             *)
LogoutAnswersOnly(t) ==
  /\ t \in answered
  /\ presented' = presented \cup {t}
  /\ loggedOut' = loggedOut \cup {t}
  /\ UNCHANGED <<users, refresh, pc, task, issued, session, answered, observed>>

(* logout: one DEL whose result is not looked at, and the answer.              *)
Logout(t) ==
  /\ t \in answered
  /\ Delete(t)
  /\ presented' = presented \cup {t}
  /\ loggedOut' = loggedOut \cup {t}
  /\ UNCHANGED <<users, pc, task, issued, session, answered, forked>>

(* The time to live ends.                                                      *)
Expire(t) ==
  /\ t \in Stored
  /\ Drop(t)
  /\ presented' = presented \cup {t}
  /\ UNCHANGED <<users, pc, task, issued, session, answered, loggedOut, observed>>

(* The client goes away, and every later call under its context fails; or the  *)
(* connection is lost before the answer.                                       *)
Cancel(h) ==
  /\ Fails("cancel")
  /\ pc[h] # "idle"
  /\ Goto(h, "idle", NoTask)
  /\ UNCHANGED <<users, refresh, issued, clients>>

(* The process ends and is started again; PostgreSQL and Redis go on.          *)
Crash ==
  /\ Fails("crash")
  /\ \E h \in Handlers : pc[h] # "idle"
  /\ pc' = [h \in Handlers |-> "idle"]
  /\ task' = [h \in Handlers |-> NoTask]
  /\ UNCHANGED <<users, refresh, issued, clients>>

Handle(h) ==
  \/ \E e \in Emails, pw \in Passwords : LoginLookup(h, e, pw)
  \/ \E t \in answered : RefreshGet(h, t)
  \/ RefreshDel(h) \/ CreateRefreshToken(h) \/ Cancel(h)

Next ==
  \/ \E h \in Handlers : Handle(h)
  \/ \E e \in Emails, pw \in Passwords : Signup(e, pw)
  \/ \E t \in Tokens : Logout(t) \/ Expire(t)
  \/ Crash

Spec == Init /\ [][Next]_vars

-----------------------------------------------------------------------------

(* Types, and which tokens there can be: what is stored, answered, presented   *)
(* or began a session was issued, and a request at work is for an account.     *)
TypeOK ==
  /\ users \in [Emails -> Passwords \cup {Nothing}]
  /\ refresh \in [Tokens -> Emails \cup {Nothing}]
  /\ pc \in [Handlers -> {"idle", "del", "create"}]
  /\ task \in [Handlers -> [uid : Emails \cup {Nothing}, old : Tokens \cup {Nothing}]]
  /\ session \in [Tokens -> [uid : Emails \cup {Nothing}, first : Tokens \cup {Nothing}]]
  /\ issued \subseteq Tokens
  /\ Stored \subseteq issued
  /\ answered \subseteq issued /\ presented \subseteq issued
  /\ loggedOut \subseteq answered
  /\ failed \subseteq issued /\ forked \subseteq issued
  /\ \A t \in issued : session[t].first \in issued
  /\ \A h \in Handlers :
       /\ pc[h] = "idle" <=> task[h].uid = Nothing
       /\ pc[h] = "del" => task[h].old \in issued
       /\ task[h].old # Nothing => task[h].old \in issued

(* A token that was spent by a refresh, revoked by a logout or has expired is  *)
(* never accepted again, whatever refresh is under way with it (refreshHandler *)
(* stores new uuids only).                                                     *)
GoneStaysGone ==
  [][\A t \in issued : refresh[t] = Nothing => refresh'[t] = Nothing]_vars

(* A token stands for the account whose login began the session it was handed  *)
(* on in, although refreshes of several accounts interleave between the GET of *)
(* the old token and the SET of the new one (refreshHandler).                  *)
OwnerKept ==
  \A t \in Tokens : refresh[t] \in {Nothing, session[t].uid}

(* "rotate: delete old, create new" is to leave a session one live token. It   *)
(* has two only after a refresh that deleted none, because another one had     *)
(* deleted it since the GET or because the DEL failed (refreshHandler).        *)
TwoTokensOnlyForked ==
  \A t, u \in Stored :
    session[t].first = session[u].first => t = u \/ session[t].first \in forked

(* A client can use the tokens it was answered with until it does, or they     *)
(* expire, or it logs out, unless the SET of just this token failed: nothing   *)
(* another request does ends a session (createRefreshToken, refreshHandler).   *)
AnsweredTokenStored == answered \ presented \subseteq Stored \cup failed

(* "Logout and revoke refresh token": a token whose logout was answered is not *)
(* accepted any more, unless a call about just this token failed.              *)
LoggedOutRevoked == loggedOut \cap Stored \subseteq failed

(* The promise of Sessions: the handlers' calls, their interleavings and their *)
(* failures amount to steps of accounts and sessions. A signup for an email    *)
(* that exists is none, although it is answered with "created", and a rotation *)
(* is an End and a Refresh however many requests come in between.              *)
Promise == INSTANCE Sessions WITH accounts <- users, accepts <- refresh

ImplementsSessions == Promise!Spec

=============================================================================
