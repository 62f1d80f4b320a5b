---------------------------- MODULE AccessTokens ----------------------------
(* Time in the auth-service (apps/auth-service/main.go): the access tokens     *)
(* that login and refresh answer along with a refresh token, the lifetimes of  *)
(* both, and /me, which tells whom an access token names. AuthService takes    *)
(* its steps here at some instant. Clocks count down, and a tick passes only   *)
(* when no key of Redis is overdue; a signature is never forged, so that an    *)
(* access token is its claims. What clients were answered is kept as well.     *)
EXTENDS AuthService

CONSTANTS
  Lifetimes   \* what ACCESS_TOKEN_MIN and REFRESH_TOKEN_DAYS may say, in ticks

(* Zero is what main makes of a variable that is not a number.                 *)
ASSUME LifetimesAssumption == Lifetimes \subseteq [access : Nat, refresh : Nat]

VARIABLES
  ttl,       \* accessTTL and refreshTTL
  left,      \* the time to live of each stored refresh token
  minted,    \* the access token a request has made and not answered yet
  access     \* the access token answered along with a refresh token

timed == <<ttl, left, minted, access>>

NoAccess == [sub |-> Nothing, left |-> 0]

TimedInit ==
  /\ Init
  /\ ttl \in Lifetimes
  /\ left = [t \in Tokens |-> 0]
  /\ minted = [h \in Handlers |-> NoAccess]
  /\ access = [t \in Tokens |-> NoAccess]

Ripened(token) == [token EXCEPT !.left = IF @ > 0 THEN @ - 1 ELSE 0]

(* Mutation of Expires: SET without an expiration.                             *)
NeverExpires == FALSE

(* An expiration of zero is none: SET leaves the key for ever.                 *)
Expires == ttl.refresh > 0

(* A tick of the clock.                                                        *)
Tick ==
  /\ Expires => \A t \in Stored : left[t] > 0
  /\ left' = [t \in Tokens |-> IF t \in Stored /\ left[t] > 0 THEN left[t] - 1 ELSE 0]
  /\ minted' = [h \in Handlers |-> Ripened(minted[h])]
  /\ access' = [t \in Tokens |-> Ripened(access[t])]
  /\ UNCHANGED <<vars, ttl>>

(* Mutation of MeAnswer: parsed without the validation of the claims.          *)
MeAnswerUnvalidated(token) == token.sub

(* me: an access token is good before its exp, and names an account.           *)
MeAnswer(token) == IF token.left > 0 THEN token.sub ELSE Nothing

(* Mutation of CreateAccessToken: for the account of any request at work.      *)
CreateAccessForAnyone(h) ==
  /\ pc[h] = "create" /\ minted[h] = NoAccess
  /\ \E g \in Handlers :
       pc[g] = "create" /\ minted' = [minted EXCEPT ![h] = [sub |-> task[g].uid, left |-> ttl.access]]
  /\ UNCHANGED <<vars, ttl, left, access>>

(* createAccessToken, in login after the comparison, in refresh after the DEL. *)
CreateAccessToken(h) ==
  /\ pc[h] = "create" /\ minted[h] = NoAccess
  /\ minted' = [minted EXCEPT ![h] = [sub |-> task[h].uid, left |-> ttl.access]]
  /\ UNCHANGED <<vars, ttl, left, access>>

(* createRefreshToken, with a time to live, and the answer of both tokens.     *)
AnswerTokens(h) ==
  /\ minted[h] # NoAccess
  /\ CreateRefreshToken(h)
  /\ \E t \in issued' \ issued :
       /\ left' = [left EXCEPT ![t] = IF t \in Stored' THEN ttl.refresh ELSE 0]
       /\ access' = IF t \in answered' THEN [access EXCEPT ![t] = minted[h]] ELSE access
  /\ minted' = [minted EXCEPT ![h] = NoAccess]
  /\ UNCHANGED ttl

(* Redis ends the time to live of a key.                                       *)
TimeOut(t) ==
  /\ Expires /\ left[t] = 0
  /\ Expire(t)
  /\ UNCHANGED timed

(* The steps that make no token and end none by time.                          *)
Untimed ==
  \/ \E h \in Handlers :
       \/ \E e \in Emails, pw \in Passwords : LoginLookup(h, e, pw)
       \/ \E t \in answered : RefreshGet(h, t)
       \/ RefreshDel(h)
  \/ \E e \in Emails, pw \in Passwords : Signup(e, pw)
  \/ \E t \in Tokens : Logout(t)

(* What a request had made is gone with it.                                    *)
Abandon ==
  /\ Crash \/ \E h \in Handlers : Cancel(h)
  /\ minted' = [h \in Handlers |-> IF pc'[h] = "idle" THEN NoAccess ELSE minted[h]]
  /\ UNCHANGED <<ttl, left, access>>

TimedNext ==
  \/ Untimed /\ UNCHANGED timed
  \/ \E h \in Handlers : CreateAccessToken(h) \/ AnswerTokens(h)
  \/ \E t \in Tokens : TimeOut(t)
  \/ Abandon
  \/ Tick

(* Time goes on, and Redis lets no key outlive its time.                       *)
TimedSpec ==
  /\ TimedInit /\ [][TimedNext]_<<vars, timed>>
  /\ WF_<<vars, timed>>(Tick)
  /\ \A t \in Tokens : WF_<<vars, timed>>(TimeOut(t))

-----------------------------------------------------------------------------

(* Types; only a request that is about to answer has made an access token.     *)
TimedTypeOK ==
  /\ TypeOK
  /\ ttl \in Lifetimes
  /\ left \in [Tokens -> Nat]
  /\ access \in [Tokens -> [sub : Emails \cup {Nothing}, left : Nat]]
  /\ minted \in [Handlers -> [sub : Emails \cup {Nothing}, left : Nat]]
  /\ \A h \in Handlers : minted[h] # NoAccess => pc[h] = "create"

(* The access token of an answer names the account its refresh token stands    *)
(* for, although the requests of several accounts come between the SELECT or   *)
(* the GET and the two tokens (loginHandler, refreshHandler).                  *)
AccessOwner == \A t \in answered : access[t].sub = session[t].uid

SessionTokens(s) == {t \in issued : session[t].first = s}

(* Of a session that began with s no token is stored, nor is a request at work *)
(* with one.                                                                   *)
Over(s) ==
  /\ s \in issued
  /\ SessionTokens(s) \cap Stored = {}
  /\ \A h \in Handlers : task[h].old \notin SessionTokens(s)

(* A session that is over stays so and is handed no token any more, neither a  *)
(* refresh token nor an access token, whatever was sent, lost or expired.      *)
OverForGood ==
  [][\A s \in Tokens :
       Over(s) => Over(s)' /\ SessionTokens(s)' = SessionTokens(s)]_<<vars, timed>>

(* An access token cannot be revoked, but those of a session that is over are  *)
(* refused from some time on, since no more of them are made (meHandler).      *)
AccessRunsOut ==
  \A s \in Tokens :
    Over(s) ~> [](\A t \in SessionTokens(s) : MeAnswer(access[t]) = Nothing)

(* A refresh token that nobody uses ends by itself, unless REFRESH_TOKEN_DAYS  *)
(* is not a number: strconv's error is dropped, and an expiration of zero      *)
(* keeps the key for ever (main, createRefreshToken).                          *)
RefreshRunsOut ==
  \A t \in Tokens : t \in Stored /\ ttl.refresh > 0 ~> t \notin Stored

=============================================================================
