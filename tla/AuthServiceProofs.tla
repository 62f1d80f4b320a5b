-------------------------- MODULE AuthServiceProofs --------------------------
(* AuthService for any number of requests, accounts and tokens, and, below,    *)
(* AccessTokens for any lifetimes.                                             *)
EXTENDS AccessTokens, TLAPS

(* The types hold at the start,                                                *)
LEMMA InitType == Init => TypeOK
BY AuthAssumption DEF Init, TypeOK, Stored, NoTask, NoSession

(* and every step keeps them.                                                  *)
LEMMA NextType == TypeOK /\ [Next]_vars => TypeOK'
<1> SUFFICES ASSUME TypeOK, [Next]_vars PROVE TypeOK'
  OBVIOUS
<1> USE AuthAssumption
<1>1. ASSUME NEW e \in Emails, NEW pw \in Passwords, Signup(e, pw)
      PROVE  TypeOK'
  BY <1>1 DEF Signup, TypeOK, Stored, observed
<1>2. ASSUME NEW h \in Handlers, NEW e \in Emails, NEW pw \in Passwords,
             LoginLookup(h, e, pw)
      PROVE  TypeOK'
  BY <1>2 DEF LoginLookup, Goto, TypeOK, Stored, clients, observed
<1>3. ASSUME NEW h \in Handlers, NEW t \in answered, RefreshGet(h, t)
      PROVE  TypeOK'
  <2>1. t \in issued /\ t \in Tokens /\ refresh[t] \in Emails
    BY <1>3 DEF TypeOK, RefreshGet, Stored
  <2> QED BY <1>3, <2>1 DEF RefreshGet, Goto, TypeOK, Stored, observed
<1>4. ASSUME NEW h \in Handlers, RefreshDel(h)
      PROVE  TypeOK'
  <2>1. task[h].old \in issued /\ task[h] \in [uid : Emails \cup {Nothing}, old : Tokens \cup {Nothing}]
    BY <1>4 DEF RefreshDel, TypeOK
  <2>2. session[task[h].old].first \in issued
    BY <2>1 DEF TypeOK
  <2> QED BY <1>4, <2>1, <2>2 DEF RefreshDel, Delete, Drop, Goto, TypeOK, Stored
<1>5. ASSUME NEW h \in Handlers, CreateRefreshToken(h)
      PROVE  TypeOK'
  <2>1. PICK t \in Tokens \ issued :
          /\ pc[h] = "create"
          /\ issued' = issued \cup {t}
          /\ refresh' \in {refresh, [refresh EXCEPT ![t] = task[h].uid]}
          /\ session' = [session EXCEPT ![t] = SessionOf(h, t)]
          /\ answered' \in {answered, answered \cup {t}}
          /\ failed' \in {failed, failed \cup {t}}
          /\ Goto(h, "idle", NoTask)
          /\ UNCHANGED <<users, presented, loggedOut, forked>>
    BY <1>5 DEF CreateRefreshToken
  <2>2. /\ task[h].uid \in Emails
        /\ task[h].old \in Tokens \cup {Nothing}
    BY <2>1 DEF TypeOK
  <2>3. SessionOf(h, t) \in [uid : Emails \cup {Nothing}, first : Tokens \cup {Nothing}]
    BY <2>2 DEF SessionOf, TypeOK
  <2>4. session' \in [Tokens -> [uid : Emails \cup {Nothing}, first : Tokens \cup {Nothing}]]
    BY <2>1, <2>3 DEF TypeOK
  <2>5. \A u \in issued' : session'[u].first \in issued'
    <3>1. SessionOf(h, t).first \in issued'
      <4>1. task[h].old = Nothing \/ task[h].old \in issued
        BY <2>1 DEF TypeOK
      <4> QED BY <2>1, <4>1 DEF SessionOf, TypeOK
    <3> QED BY <2>1, <3>1 DEF TypeOK
  <2>6. refresh' \in [Tokens -> Emails \cup {Nothing}] /\ Stored' \subseteq issued'
    BY <2>1, <2>2 DEF TypeOK, Stored
  <2>7. /\ pc' \in [Handlers -> {"idle", "del", "create"}]
        /\ task' \in [Handlers -> [uid : Emails \cup {Nothing}, old : Tokens \cup {Nothing}]]
        /\ \A g \in Handlers :
             /\ pc'[g] = "idle" <=> task'[g].uid = Nothing
             /\ pc'[g] = "del" => task'[g].old \in issued'
             /\ task'[g].old # Nothing => task'[g].old \in issued'
    BY <2>1 DEF Goto, NoTask, TypeOK
  <2> QED BY <2>1, <2>4, <2>5, <2>6, <2>7 DEF TypeOK
<1>6. ASSUME NEW t \in Tokens, Logout(t)
      PROVE  TypeOK'
  BY <1>6 DEF Logout, Delete, Drop, TypeOK, Stored
<1>7. ASSUME NEW t \in Tokens, Expire(t)
      PROVE  TypeOK'
  BY <1>7 DEF Expire, Drop, TypeOK, Stored, observed
<1>8. ASSUME NEW h \in Handlers, Cancel(h)
      PROVE  TypeOK'
  BY <1>8 DEF Cancel, Goto, NoTask, TypeOK, Stored, clients, observed
<1>9. CASE Crash
  BY <1>9 DEF Crash, NoTask, TypeOK, Stored, clients, observed
<1>10. CASE UNCHANGED vars
  BY <1>10 DEF vars, service, clients, observed, TypeOK, Stored
<1> QED BY <1>1, <1>2, <1>3, <1>4, <1>5, <1>6, <1>7, <1>8, <1>9, <1>10
        DEF Next, Handle

(* Whatever is stored, answered or being rotated was issued.                   *)
THEOREM TypeCorrect == Spec => []TypeOK
<1> QED BY InitType, NextType, PTL DEF Spec

-----------------------------------------------------------------------------

(* The only step that stores a token stores a new one, for the account and the *)
(* session of the request; every other step leaves the sessions alone and      *)
(* stores nothing.                                                             *)
Stores(h, t) ==
  /\ pc[h] = "create" /\ t \in Tokens \ issued
  /\ issued' = issued \cup {t}
  /\ refresh' \in {refresh, [refresh EXCEPT ![t] = task[h].uid]}
  /\ session' = [session EXCEPT ![t] = SessionOf(h, t)]
  /\ answered' \in {answered, answered \cup {t}}
  /\ failed' \in {failed, failed \cup {t}}
  /\ refresh'[t] = task[h].uid \/ t \in failed'
  /\ pc' = [pc EXCEPT ![h] = "idle"]
  /\ task' = [task EXCEPT ![h] = NoTask]
  /\ UNCHANGED <<presented, loggedOut, forked>>

StoresNothing ==
  /\ \A t \in Tokens : refresh'[t] \in {refresh[t], Nothing}
  /\ UNCHANGED <<issued, session, answered>>
  /\ failed \subseteq failed'
  /\ \A h \in Handlers :
       \/ task'[h] = NoTask /\ pc'[h] = "idle"
       \/ task'[h] = task[h]
       \/ task'[h].old = Nothing
       \/ /\ task'[h].old \in Stored /\ task'[h].old \in presented'
          /\ pc'[h] = "del"
          /\ task'[h].uid = refresh[task'[h].old]

(* The insert of CreateRefreshToken is the only store a handler makes.         *)
LEMMA CreateStores ==
  ASSUME TypeOK, NEW h \in Handlers, CreateRefreshToken(h)
  PROVE  \E t \in Tokens : Stores(h, t)
BY DEF CreateRefreshToken, Stores, Goto, TypeOK, Fails

(* A step stores no token, or one of one handler.                              *)
LEMMA StepStores ==
  ASSUME TypeOK, [Next]_vars
  PROVE  StoresNothing \/ \E h \in Handlers, t \in Tokens : Stores(h, t)
<1>1. ASSUME NEW e \in Emails, NEW pw \in Passwords, Signup(e, pw)
      PROVE  StoresNothing
  BY <1>1 DEF Signup, StoresNothing, observed
<1>2. ASSUME NEW h \in Handlers, NEW e \in Emails, NEW pw \in Passwords,
             LoginLookup(h, e, pw)
      PROVE  StoresNothing
  BY <1>2 DEF LoginLookup, Goto, StoresNothing, clients, observed, TypeOK
<1>3. ASSUME NEW h \in Handlers, NEW t \in answered, RefreshGet(h, t)
      PROVE  StoresNothing
  BY <1>3 DEF RefreshGet, Goto, StoresNothing, observed, TypeOK
<1>4. ASSUME NEW h \in Handlers, RefreshDel(h)
      PROVE  StoresNothing
  BY <1>4 DEF RefreshDel, Delete, Drop, Goto, StoresNothing, TypeOK
<1>5. ASSUME NEW h \in Handlers, CreateRefreshToken(h)
      PROVE  \E t \in Tokens : Stores(h, t)
  BY <1>5, CreateStores
<1>6. ASSUME NEW t \in Tokens, Logout(t) \/ Expire(t)
      PROVE  StoresNothing
  BY <1>6 DEF Logout, Delete, Expire, Drop, StoresNothing, observed, TypeOK
<1>7. ASSUME NEW h \in Handlers, Cancel(h)
      PROVE  StoresNothing
  BY <1>7 DEF Cancel, Goto, StoresNothing, clients, observed, TypeOK
<1>8. CASE Crash
  BY <1>8 DEF Crash, StoresNothing, clients, observed, TypeOK
<1>9. CASE UNCHANGED vars
  BY <1>9 DEF vars, service, clients, observed, StoresNothing
<1> QED BY <1>1, <1>2, <1>3, <1>4, <1>5, <1>6, <1>7, <1>8, <1>9
        DEF Next, Handle

(* A token that is spent, revoked or expired stays so.                         *)
THEOREM GoneTokensStayGone == Spec => GoneStaysGone
<1>1. TypeOK /\ [Next]_vars =>
        [\A t \in issued : refresh[t] = Nothing => refresh'[t] = Nothing]_vars
  <2> SUFFICES ASSUME TypeOK, [Next]_vars, NEW t \in issued, refresh[t] = Nothing
               PROVE  refresh'[t] = Nothing
    OBVIOUS
  <2>1. t \in Tokens
    BY DEF TypeOK
  <2>2. CASE StoresNothing
    BY <2>1, <2>2 DEF StoresNothing
  <2>3. ASSUME NEW h \in Handlers, NEW u \in Tokens, Stores(h, u)
        PROVE  refresh'[t] = Nothing
    BY <2>1, <2>3 DEF Stores, TypeOK
  <2> QED BY <2>2, <2>3, StepStores
<1> QED BY <1>1, TypeCorrect, PTL DEF Spec, GoneStaysGone

-----------------------------------------------------------------------------

(* A rotation under way is for the account of the session it goes on with.     *)
CarriedOwner ==
  \A h \in Handlers :
    task[h].old # Nothing => task[h].uid = session[task[h].old].uid

OwnerInv == TypeOK /\ OwnerKept /\ CarriedOwner

(* Every step keeps the owners of the tokens.                                  *)
LEMMA NextOwner == OwnerInv /\ [Next]_vars => OwnerInv'
<1> SUFFICES ASSUME OwnerInv, [Next]_vars PROVE OwnerInv'
  OBVIOUS
<1> USE AuthAssumption
<1>1. TypeOK /\ TypeOK'
  BY NextType DEF OwnerInv
<1>2. CASE StoresNothing
  <2>1. OwnerKept'
    BY <1>2 DEF StoresNothing, OwnerInv, OwnerKept
  <2>2. CarriedOwner'
    BY <1>1, <1>2 DEF StoresNothing, OwnerInv, OwnerKept, CarriedOwner, NoTask, Stored
  <2> QED BY <1>1, <2>1, <2>2 DEF OwnerInv
<1>3. ASSUME NEW h \in Handlers, NEW t \in Tokens, Stores(h, t)
      PROVE  OwnerInv'
  <2>1. SessionOf(h, t).uid = task[h].uid
    BY DEF SessionOf, OwnerInv, CarriedOwner
  <2>2. session'[t].uid = task[h].uid
    BY <1>1, <1>3, <2>1 DEF Stores, TypeOK
  <2>3. refresh[t] = Nothing
    BY <1>1, <1>3 DEF Stores, TypeOK, Stored
  <2>4. \A u \in Tokens : u # t => session'[u] = session[u] /\ refresh'[u] = refresh[u]
    BY <1>1, <1>3 DEF Stores, TypeOK
  <2>5. refresh'[t] \in {Nothing, task[h].uid}
    BY <1>1, <1>3, <2>3 DEF Stores, TypeOK
  <2>6. OwnerKept'
    BY <2>2, <2>4, <2>5 DEF OwnerInv, OwnerKept
  <2>7. CarriedOwner'
    <3> SUFFICES ASSUME NEW g \in Handlers, task'[g].old # Nothing
                 PROVE  task'[g].uid = session'[task'[g].old].uid
      BY DEF CarriedOwner
    <3>1. task'[g] = task[g]
      BY <1>1, <1>3 DEF Stores, TypeOK, NoTask
    <3>2. task[g].old \in issued
      BY <1>1, <3>1 DEF TypeOK
    <3>3. task[g].old \in Tokens /\ task[g].old # t
      BY <1>1, <1>3, <3>2 DEF Stores, TypeOK
    <3> QED BY <2>4, <3>1, <3>3 DEF OwnerInv, CarriedOwner
  <2> QED BY <1>1, <2>6, <2>7 DEF OwnerInv
<1> QED BY <1>1, <1>2, <1>3, StepStores

(* A token stands for the account whose login began its session.               *)
THEOREM TokensKeepOwner == Spec => []OwnerKept
<1>1. Init => OwnerInv
  BY InitType DEF Init, OwnerInv, OwnerKept, CarriedOwner, NoTask
<1>2. OwnerInv => OwnerKept
  BY DEF OwnerInv
<1> QED BY <1>1, <1>2, NextOwner, PTL DEF Spec

-----------------------------------------------------------------------------

(* The token a rotation under way will delete was presented.                   *)
TokenInv ==
  /\ TypeOK
  /\ AnsweredTokenStored
  /\ \A h \in Handlers : task[h].old # Nothing => task[h].old \in presented

(* A token leaves Redis only if it was presented, and no presented token is    *)
(* forgotten.                                                                  *)
LEMMA StepDrops ==
  ASSUME TokenInv, [Next]_vars
  PROVE  /\ presented \subseteq presented'
         /\ \A t \in Stored : refresh'[t] = refresh[t] \/ t \in presented'
<1> USE DEF Stored
<1>1. ASSUME NEW h \in Handlers, RefreshDel(h)
      PROVE  /\ presented \subseteq presented'
             /\ \A t \in Stored : refresh'[t] = refresh[t] \/ t \in presented'
  <2>1. task[h].old \in issued
    BY <1>1 DEF RefreshDel, TokenInv, TypeOK
  <2>2. task[h].old \in presented
    BY <2>1, AuthAssumption, <1>1 DEF TokenInv, TypeOK
  <2> QED BY <1>1, <2>2 DEF RefreshDel, Delete, Drop, TokenInv, TypeOK
<1>2. ASSUME NEW h \in Handlers, CreateRefreshToken(h)
      PROVE  /\ presented \subseteq presented'
             /\ \A t \in Stored : refresh'[t] = refresh[t] \/ t \in presented'
  BY <1>2 DEF CreateRefreshToken, TokenInv, TypeOK
<1>3. ASSUME NEW t \in Tokens, Logout(t) \/ Expire(t)
      PROVE  /\ presented \subseteq presented'
             /\ \A u \in Stored : refresh'[u] = refresh[u] \/ u \in presented'
  BY <1>3 DEF Logout, Delete, Expire, Drop, TokenInv, TypeOK
<1>4. CASE \/ \E e \in Emails, pw \in Passwords : Signup(e, pw)
           \/ Crash
           \/ UNCHANGED vars
  BY <1>4 DEF Signup, Crash, vars, service, clients
<1>5. ASSUME NEW h \in Handlers,
             \/ \E e \in Emails, pw \in Passwords : LoginLookup(h, e, pw)
             \/ \E t \in answered : RefreshGet(h, t)
             \/ Cancel(h)
      PROVE  /\ presented \subseteq presented'
             /\ \A t \in Stored : refresh'[t] = refresh[t] \/ t \in presented'
  BY <1>5 DEF LoginLookup, RefreshGet, Cancel, service, clients
<1> QED BY <1>1, <1>2, <1>3, <1>4, <1>5 DEF Next, Handle

(* No token a client was answered with is lost before it is used, revoked or   *)
(* expired, unless its SET failed.                                             *)
THEOREM UnusedTokensKept == Spec => []AnsweredTokenStored
<1>1. Init => TokenInv
  BY InitType DEF Init, TokenInv, AnsweredTokenStored, NoTask
<1>2. TokenInv /\ [Next]_vars => TokenInv'
  <2> SUFFICES ASSUME TokenInv, [Next]_vars PROVE TokenInv'
    OBVIOUS
  <2> USE AuthAssumption
  <2>1. TypeOK /\ TypeOK'
    BY NextType DEF TokenInv
  <2>2. /\ presented \subseteq presented'
        /\ \A t \in Stored : refresh'[t] = refresh[t] \/ t \in presented'
    BY StepDrops
  <2>3. \A t \in answered \ presented' : t \in Stored' \cup failed
    BY <2>2 DEF TokenInv, AnsweredTokenStored, Stored
  <2>4. CASE StoresNothing
    <3>1. AnsweredTokenStored'
      BY <2>3, <2>4 DEF StoresNothing, AnsweredTokenStored
    <3>2. \A h \in Handlers : task'[h].old # Nothing => task'[h].old \in presented'
      BY <2>2, <2>4 DEF StoresNothing, TokenInv, NoTask
    <3> QED BY <2>1, <3>1, <3>2 DEF TokenInv
  <2>5. ASSUME NEW h \in Handlers, NEW t \in Tokens, Stores(h, t)
        PROVE  TokenInv'
    <3>1. task[h].uid # Nothing
      BY <2>1, <2>5 DEF Stores, TypeOK
    <3>2. t \in Stored' \cup failed'
      BY <2>5, <3>1 DEF Stores, Stored
    <3>3. AnsweredTokenStored'
      BY <2>3, <2>5, <3>2 DEF Stores, AnsweredTokenStored
    <3>4. \A g \in Handlers : task'[g].old # Nothing => task'[g].old \in presented'
      BY <2>1, <2>2, <2>5 DEF Stores, TokenInv, TypeOK, NoTask
    <3> QED BY <2>1, <3>3, <3>4 DEF TokenInv
  <2> QED BY <2>1, <2>4, <2>5, StepStores
<1>3. TokenInv => AnsweredTokenStored
  BY DEF TokenInv
<1> QED BY <1>1, <1>2, <1>3, PTL DEF Spec

-----------------------------------------------------------------------------

(* A token whose logout was answered is not accepted, unless a call about it   *)
(* failed.                                                                     *)
THEOREM LogoutRevokes == Spec => []LoggedOutRevoked
<1> DEFINE RevokedInv == TypeOK /\ LoggedOutRevoked
<1>1. Init => RevokedInv
  BY InitType DEF Init, LoggedOutRevoked
<1>2. RevokedInv /\ [Next]_vars => RevokedInv'
  <2> SUFFICES ASSUME TypeOK, LoggedOutRevoked, [Next]_vars PROVE LoggedOutRevoked'
    BY NextType
  <2> SUFFICES ASSUME NEW t \in loggedOut', t \in Tokens
               PROVE  refresh'[t] = Nothing \/ t \in failed'
    BY DEF LoggedOutRevoked, Stored
  <2>1. ASSUME NEW u \in Tokens, Logout(u)
        PROVE  t \in loggedOut \/ refresh'[t] = Nothing \/ t \in failed'
    BY <2>1 DEF Logout, Delete, Drop, TypeOK
  <2>2. loggedOut' = loggedOut \/ \E u \in Tokens : Logout(u)
    BY DEF Next, Handle, Signup, LoginLookup, RefreshGet, RefreshDel, CreateRefreshToken,
           Expire, Cancel, Crash, vars, service, clients
  <2>3. CASE t \in loggedOut
    <3>1. t \in issued /\ (refresh[t] = Nothing \/ t \in failed)
      BY <2>3 DEF TypeOK, LoggedOutRevoked, Stored
    <3>2. CASE StoresNothing
      BY <3>1, <3>2 DEF StoresNothing
    <3>3. ASSUME NEW h \in Handlers, NEW u \in Tokens, Stores(h, u)
          PROVE  refresh'[t] = Nothing \/ t \in failed'
      BY <3>1, <3>3 DEF Stores, TypeOK
    <3> QED BY <3>2, <3>3, StepStores
  <2> QED BY <2>1, <2>2, <2>3
<1> QED BY <1>1, <1>2, PTL DEF Spec

-----------------------------------------------------------------------------

(* The session a rotation between DEL and SET goes on with.                    *)
Rotating(h, f) ==
  pc[h] = "create" /\ task[h].old # Nothing /\ session[task[h].old].first = f

(* A session that has not forked has one token, or one rotation, or neither:   *)
(* while a refresh is between DEL and SET nothing else is left of the session. *)
RotationInv ==
  /\ TypeOK
  /\ TwoTokensOnlyForked
  /\ \A f \in issued \ forked, h \in Handlers :
       Rotating(h, f) => /\ \A t \in Stored : session[t].first # f
                         /\ \A g \in Handlers : Rotating(g, f) => g = h

(* A step that neither stores a token nor begins a rotation keeps it.          *)
LEMMA QuietRotation ==
  ASSUME RotationInv, TypeOK', UNCHANGED <<issued, session>>, forked \subseteq forked',
         \A t \in Tokens : refresh'[t] \in {refresh[t], Nothing},
         \A h \in Handlers, f \in issued \ forked' : Rotating(h, f)' => Rotating(h, f)
  PROVE  RotationInv'
<1>1. Stored' \subseteq Stored
  BY DEF Stored
<1>2. TwoTokensOnlyForked'
  BY <1>1 DEF RotationInv, TwoTokensOnlyForked
<1>3. ASSUME NEW f \in issued' \ forked', NEW h \in Handlers, Rotating(h, f)'
      PROVE  /\ \A t \in Stored' : session'[t].first # f
             /\ \A g \in Handlers : Rotating(g, f)' => g = h
  <2>1. f \in issued \ forked /\ Rotating(h, f)
    BY <1>3
  <2> QED BY <1>1, <1>3, <2>1 DEF RotationInv
<1> QED BY <1>2, <1>3 DEF RotationInv

(* A DEL that removes the token leaves nothing else of the session.            *)
LEMMA DelRotation ==
  ASSUME RotationInv, TypeOK', NEW h \in Handlers, RefreshDel(h)
  PROVE  RotationInv'
<1> DEFINE old == task[h].old
<1>1. old \in issued /\ old \in Tokens /\ pc[h] = "del" /\ old # Nothing
  BY AuthAssumption DEF RefreshDel, RotationInv, TypeOK
<1>2. /\ UNCHANGED <<issued, session, task>> /\ forked \subseteq forked'
      /\ \A t \in Tokens : refresh'[t] \in {refresh[t], Nothing}
      /\ \A g \in Handlers \ {h} : pc'[g] = pc[g]
  BY DEF RefreshDel, Delete, Drop, Goto, RotationInv, TypeOK
<1>3. \A g \in Handlers \ {h} : \A f : Rotating(g, f)' => Rotating(g, f)
  BY <1>2 DEF Rotating
<1>4. CASE session[old].first \in forked'
  <2>1. \A f \in issued \ forked' : ~Rotating(h, f)'
    BY <1>2, <1>4 DEF Rotating
  <2> QED BY <1>2, <1>3, <2>1, QuietRotation
<1>5. CASE session[old].first \notin forked'
  <2>1. old \in Stored /\ old \notin Stored'
    BY <1>5 DEF RefreshDel, Forks
  <2>2. forked' = forked
    BY <1>5 DEF RefreshDel
  <2>3. Stored' \subseteq Stored
    BY <1>2 DEF Stored
  <2>4. session[old].first \in issued \ forked
    BY <1>1, <1>5, <2>2 DEF RotationInv, TypeOK
  <2>5. \A t \in Stored' : session'[t].first # session[old].first
    BY <1>2, <2>1, <2>3, <2>4 DEF RotationInv, TwoTokensOnlyForked
  <2>6. \A g \in Handlers \ {h} : ~Rotating(g, session[old].first)
    BY <2>1, <2>4 DEF RotationInv
  <2>7. TwoTokensOnlyForked'
    BY <1>2, <2>2, <2>3 DEF RotationInv, TwoTokensOnlyForked
  <2>8. ASSUME NEW f \in issued' \ forked', NEW g \in Handlers, Rotating(g, f)'
        PROVE  /\ \A t \in Stored' : session'[t].first # f
               /\ \A k \in Handlers : Rotating(k, f)' => k = g
    <3>1. \A k \in Handlers : Rotating(k, f)' =>
            (IF k = h THEN f = session[old].first ELSE Rotating(k, f))
      BY <1>2, <1>3 DEF Rotating
    <3>2. CASE g = h
      BY <2>5, <2>6, <2>8, <3>1, <3>2
    <3>3. CASE g # h
      <4>1. Rotating(g, f) /\ f \in issued \ forked
        BY <1>2, <2>2, <2>8, <3>1, <3>3
      <4>2. f # session[old].first
        BY <2>6, <3>3, <4>1
      <4> QED BY <1>2, <2>3, <3>1, <4>1, <4>2 DEF RotationInv
    <3> QED BY <3>2, <3>3
  <2> QED BY <2>7, <2>8 DEF RotationInv
<1> QED BY <1>4, <1>5

(* A SET ends the rotation, and its token is the only one of the session.      *)
LEMMA StoreRotation ==
  ASSUME RotationInv, TypeOK', NEW h \in Handlers, NEW t \in Tokens, Stores(h, t)
  PROVE  RotationInv'
<1> DEFINE first == SessionOf(h, t).first
<1>1. /\ t \notin issued /\ issued' = issued \cup {t} /\ forked' = forked
      /\ session'[t] = SessionOf(h, t)
      /\ \A u \in Tokens \ {t} : session'[u] = session[u] /\ refresh'[u] = refresh[u]
      /\ pc'[h] = "idle"
      /\ \A g \in Handlers \ {h} : pc'[g] = pc[g] /\ task'[g] = task[g]
  BY DEF Stores, RotationInv, TypeOK
<1>2. Stored \subseteq issued /\ Stored' \subseteq Stored \cup {t}
  BY <1>1 DEF RotationInv, TypeOK, Stored
<1>3. \A u \in Stored : u # t /\ u \in Tokens /\ session[u].first \in issued
  BY <1>1, <1>2 DEF RotationInv, TypeOK
<1>4. first \notin forked => \A u \in Stored : session[u].first # first
  <2>1. CASE task[h].old = Nothing
    BY <1>1, <1>3, <2>1 DEF SessionOf
  <2>2. CASE task[h].old # Nothing
    <3>1. Rotating(h, first) /\ first \in issued
      BY <2>2 DEF Rotating, SessionOf, Stores, RotationInv, TypeOK
    <3> QED BY <3>1 DEF RotationInv
  <2> QED BY <2>1, <2>2
<1>5. TwoTokensOnlyForked'
  BY <1>1, <1>2, <1>3, <1>4 DEF RotationInv, TwoTokensOnlyForked
<1>6. \A g \in Handlers : \A f : Rotating(g, f)' => g # h /\ Rotating(g, f) /\ f \in issued
  <2> SUFFICES ASSUME NEW g \in Handlers, NEW f, Rotating(g, f)'
               PROVE  g # h /\ Rotating(g, f) /\ f \in issued
    OBVIOUS
  <2>1. g # h /\ pc[g] = "create" /\ task'[g] = task[g]
    BY <1>1 DEF Rotating
  <2>2. task[g].old \in issued /\ task[g].old \in Tokens
    BY <2>1 DEF Rotating, RotationInv, TypeOK
  <2>3. session'[task[g].old] = session[task[g].old]
    BY <1>1, <2>2
  <2> QED BY <2>1, <2>2, <2>3 DEF Rotating, RotationInv, TypeOK
<1>7. ASSUME NEW f \in issued' \ forked', NEW g \in Handlers, Rotating(g, f)'
      PROVE  /\ \A u \in Stored' : session'[u].first # f
             /\ \A k \in Handlers : Rotating(k, f)' => k = g
  <2>1. g # h /\ Rotating(g, f) /\ f \in issued \ forked
    BY <1>1, <1>6, <1>7
  <2>2. first # f
    <3>1. CASE task[h].old = Nothing
      BY <1>1, <2>1, <3>1 DEF SessionOf
    <3>2. CASE task[h].old # Nothing
      BY <2>1, <3>2 DEF SessionOf, Rotating, Stores, RotationInv
    <3> QED BY <3>1, <3>2
  <2> QED BY <1>1, <1>2, <1>3, <1>6, <2>1, <2>2 DEF RotationInv
<1> QED BY <1>5, <1>7 DEF RotationInv

(* Every step keeps the rotations.                                             *)
LEMMA NextRotation == RotationInv /\ [Next]_vars => RotationInv'
<1> SUFFICES ASSUME RotationInv, [Next]_vars PROVE RotationInv'
  OBVIOUS
<1> USE DEF Rotating
<1>1. TypeOK /\ TypeOK'
  BY NextType DEF RotationInv
<1>2. ASSUME NEW h \in Handlers, CreateRefreshToken(h)
      PROVE  RotationInv'
  BY <1>1, <1>2, CreateStores, StoreRotation
<1>3. ASSUME NEW h \in Handlers, RefreshDel(h)
      PROVE  RotationInv'
  BY <1>1, <1>3, DelRotation
<1>4. ASSUME NEW e \in Emails, NEW pw \in Passwords, Signup(e, pw)
      PROVE  RotationInv'
  BY <1>1, <1>4, QuietRotation DEF Signup, observed
<1>5. ASSUME NEW h \in Handlers, NEW e \in Emails, NEW pw \in Passwords,
             LoginLookup(h, e, pw)
      PROVE  RotationInv'
  BY <1>1, <1>5, QuietRotation DEF LoginLookup, Goto, clients, observed, TypeOK
<1>6. ASSUME NEW h \in Handlers, NEW t \in answered, RefreshGet(h, t)
      PROVE  RotationInv'
  BY <1>1, <1>6, QuietRotation DEF RefreshGet, Goto, observed, TypeOK
<1>7. ASSUME NEW t \in Tokens, Logout(t) \/ Expire(t)
      PROVE  RotationInv'
  BY <1>1, <1>7, QuietRotation DEF Logout, Expire, Delete, Drop, observed, TypeOK
<1>8. ASSUME NEW h \in Handlers, Cancel(h)
      PROVE  RotationInv'
  BY <1>1, <1>8, QuietRotation DEF Cancel, Goto, clients, observed, TypeOK
<1>9. CASE Crash
  BY <1>1, <1>9, QuietRotation DEF Crash, clients, observed, TypeOK
<1>10. CASE UNCHANGED vars
  BY <1>1, <1>10, QuietRotation DEF vars, service, clients, observed
<1> QED BY <1>2, <1>3, <1>4, <1>5, <1>6, <1>7, <1>8, <1>9, <1>10 DEF Next, Handle

(* A session has two live tokens only after a refresh whose DEL removed none.  *)
THEOREM OneTokenPerSession == Spec => []TwoTokensOnlyForked
<1>1. Init => RotationInv
  BY InitType DEF Init, RotationInv, TwoTokensOnlyForked, Stored
<1>2. RotationInv => TwoTokensOnlyForked
  BY DEF RotationInv
<1> QED BY <1>1, <1>2, NextRotation, PTL DEF Spec

-----------------------------------------------------------------------------

(* Every request under way is for an account there is, and a token that was    *)
(* not drawn yet belongs to no session.                                        *)
SessionInv ==
  /\ OwnerInv
  /\ \A t \in Tokens \ issued : session[t] = NoSession
  /\ \A h \in Handlers : task[h].uid # Nothing => users[task[h].uid] # Nothing

(* No step but Signup touches an account, and Signup takes none away.          *)
LEMMA AccountsStay ==
  ASSUME TypeOK, [Next]_vars
  PROVE  \A e \in Emails : users[e] # Nothing => users'[e] = users[e]
BY DEF TypeOK, Next, Handle, Signup, LoginLookup, RefreshGet, RefreshDel,
       CreateRefreshToken, Logout, Expire, Cancel, Crash, vars, service

(* A request takes up the account it found, by its email or by its token.      *)
LEMMA TaskSources ==
  ASSUME OwnerInv, [Next]_vars, NEW h \in Handlers, task'[h].uid # Nothing
  PROVE  \/ task'[h] = task[h]
         \/ users[task'[h].uid] # Nothing
         \/ \E t \in Stored : task'[h].uid = refresh[t]
<1> USE AuthAssumption
<1>1. ASSUME NEW g \in Handlers, NEW e \in Emails, NEW pw \in Passwords,
             LoginLookup(g, e, pw), task'[h] # task[h]
      PROVE  users[task'[h].uid] # Nothing
  BY <1>1 DEF LoginLookup, Goto, OwnerInv, TypeOK
<1>2. ASSUME NEW g \in Handlers, NEW t \in answered, RefreshGet(g, t), task'[h] # task[h]
      PROVE  \E u \in Stored : task'[h].uid = refresh[u]
  BY <1>2 DEF RefreshGet, Goto, OwnerInv, TypeOK
<1>3. ASSUME NEW g \in Handlers,
             RefreshDel(g) \/ CreateRefreshToken(g) \/ Cancel(g)
      PROVE  task'[h] = task[h]
  BY <1>3 DEF RefreshDel, CreateRefreshToken, Cancel, Goto, NoTask, OwnerInv, TypeOK
<1>4. ASSUME Crash PROVE FALSE
  BY <1>4 DEF Crash, NoTask
<1>5. ASSUME NEW t \in Tokens, Logout(t) \/ Expire(t)
      PROVE  task'[h] = task[h]
  BY <1>5 DEF Logout, Expire
<1>6. ASSUME NEW e \in Emails, NEW pw \in Passwords, Signup(e, pw)
      PROVE  task'[h] = task[h]
  BY <1>6 DEF Signup
<1>7. CASE UNCHANGED vars
  BY <1>7 DEF vars, service
<1> QED BY <1>1, <1>2, <1>3, <1>4, <1>5, <1>6, <1>7 DEF Next, Handle

(* What a token stands for is an account there is.                             *)
OwnersExist ==
  \A t \in Tokens : session[t].uid # Nothing => users[session[t].uid] # Nothing

LiveInv == SessionInv /\ OwnersExist

(* Every step keeps it.                                                        *)
LEMMA NextSession == LiveInv /\ [Next]_vars => LiveInv'
<1> SUFFICES ASSUME LiveInv, [Next]_vars PROVE LiveInv'
  OBVIOUS
<1> USE AuthAssumption DEF LiveInv, SessionInv
<1>1. OwnerInv /\ OwnerInv' /\ TypeOK /\ TypeOK'
  BY NextOwner DEF OwnerInv
<1>2. \A e \in Emails : users[e] # Nothing => users'[e] # Nothing
  BY <1>1, AccountsStay
<1>3. ASSUME NEW h \in Handlers, task'[h].uid # Nothing
      PROVE  users'[task'[h].uid] # Nothing
  <2>1. task'[h].uid \in Emails
    BY <1>1, <1>3 DEF TypeOK
  <2>2. CASE task'[h] = task[h]
    BY <1>2, <1>3, <2>1, <2>2
  <2>3. CASE users[task'[h].uid] # Nothing
    BY <1>2, <2>1, <2>3
  <2>4. CASE \E t \in Stored : task'[h].uid = refresh[t]
    <3>1. PICK t \in Tokens : task'[h].uid = refresh[t] /\ refresh[t] # Nothing
      BY <2>4 DEF Stored
    <3>2. session[t].uid = task'[h].uid
      BY <1>1, <3>1 DEF OwnerInv, OwnerKept
    <3> QED BY <1>2, <1>3, <2>1, <3>1, <3>2 DEF OwnersExist
  <2> QED BY <1>1, <1>3, <2>2, <2>3, <2>4, TaskSources
<1>4. CASE StoresNothing
  <2>1. issued' = issued /\ session' = session
    BY <1>4 DEF StoresNothing
  <2>2. OwnersExist'
    BY <1>1, <1>2, <2>1 DEF OwnersExist, TypeOK
  <2> QED BY <1>1, <1>3, <2>1, <2>2
<1>5. ASSUME NEW h \in Handlers, NEW t \in Tokens, Stores(h, t)
      PROVE  LiveInv'
  <2>1. \A u \in Tokens : u # t => session'[u] = session[u]
    BY <1>1, <1>5 DEF Stores, TypeOK
  <2>2. session'[t].uid = task[h].uid
    <3>1. SessionOf(h, t).uid = task[h].uid
      BY <1>1 DEF SessionOf, OwnerInv, CarriedOwner
    <3> QED BY <1>1, <1>5, <3>1 DEF Stores, TypeOK
  <2>3. \A u \in Tokens \ issued' : session'[u] = NoSession
    BY <1>5, <2>1 DEF Stores
  <2>4. OwnersExist'
    BY <1>1, <1>2, <2>1, <2>2 DEF OwnersExist, TypeOK
  <2> QED BY <1>1, <1>3, <2>3, <2>4
<1> QED BY <1>1, <1>4, <1>5, StepStores

(* A token that leaves Redis ends; the others stay as they are.                *)
LEMMA DropEnds ==
  ASSUME TypeOK, NEW t \in Tokens, Drop(t) \/ UNCHANGED refresh, UNCHANGED <<users, session>>
  PROVE  Promise!End(t) \/ UNCHANGED <<users, session, refresh>>
BY DEF TypeOK, Drop, Promise!End

(* Under the mapping every step of the auth-service is one of the promise.     *)
LEMMA StepKeepsPromise ==
  ASSUME LiveInv, [Next]_vars
  PROVE  [Promise!Next]_<<users, session, refresh>>
<1> USE AuthAssumption DEF LiveInv, SessionInv
<1>1. TypeOK
  BY DEF OwnerInv
<1>2. ASSUME NEW h \in Handlers, CreateRefreshToken(h)
      PROVE  Promise!Next
  <2>1. PICK t \in Tokens : Stores(h, t)
    BY <1>1, <1>2, CreateStores
  <2>2. session[t] = NoSession /\ NoSession = Promise!NoSession
    BY <2>1 DEF Stores, NoSession, Promise!NoSession
  <2>3. SessionOf(h, t).uid = task[h].uid /\ task[h].uid \in Emails
    BY <1>1, <2>1 DEF SessionOf, OwnerInv, CarriedOwner, Stores, TypeOK
  <2>4. users' = users
    BY <1>2 DEF CreateRefreshToken
  <2>5. Promise!Join(t, SessionOf(h, t))
    BY <2>1, <2>2, <2>3, <2>4 DEF Promise!Join, Stores
  <2>6. CASE task[h].old = Nothing
    <3>1. Promise!Login(t, task[h].uid)
      BY <2>3, <2>5, <2>6 DEF Promise!Login, SessionOf
    <3> QED BY <2>3, <3>1 DEF Promise!Next
  <2>7. CASE task[h].old # Nothing
    <3>1. task[h].old \in issued /\ task[h].old \in Tokens
      BY <1>1, <2>7 DEF TypeOK
    <3>2. session[task[h].old] # NoSession
      BY <1>1, <3>1 DEF TypeOK, NoSession
    <3>3. Promise!Refresh(t, task[h].old)
      BY <2>2, <2>5, <2>7, <3>2 DEF Promise!Refresh, SessionOf
    <3> QED BY <3>1, <3>3 DEF Promise!Next
  <2> QED BY <2>6, <2>7
<1>3. ASSUME NEW h \in Handlers, RefreshDel(h)
      PROVE  [Promise!Next]_<<users, session, refresh>>
  <2>1. task[h].old \in Tokens
    BY <1>1, <1>3 DEF RefreshDel, TypeOK
  <2> QED BY <1>1, <1>3, <2>1, DropEnds DEF RefreshDel, Delete, Promise!Next
<1>4. ASSUME NEW t \in Tokens, Logout(t) \/ Expire(t)
      PROVE  [Promise!Next]_<<users, session, refresh>>
  BY <1>1, <1>4, DropEnds DEF Logout, Expire, Delete, Promise!Next
<1>5. ASSUME NEW e \in Emails, NEW pw \in Passwords, Signup(e, pw)
      PROVE  [Promise!Next]_<<users, session, refresh>>
  BY <1>5 DEF Signup, Promise!Next, Promise!Register
<1>6. ASSUME NEW h \in Handlers,
             \/ \E e \in Emails, pw \in Passwords : LoginLookup(h, e, pw)
             \/ \E t \in answered : RefreshGet(h, t)
             \/ Cancel(h)
      PROVE  UNCHANGED <<users, session, refresh>>
  BY <1>6 DEF LoginLookup, RefreshGet, Cancel, clients
<1>7. CASE Crash
  BY <1>7 DEF Crash, clients
<1>8. CASE UNCHANGED vars
  BY <1>8 DEF vars, service, clients
<1> QED BY <1>2, <1>3, <1>4, <1>5, <1>6, <1>7, <1>8 DEF Next, Handle

(* The auth-service implements Sessions, whatever its calls do.                *)
THEOREM AuthServiceRefines == Spec => ImplementsSessions
<1>1. Init => LiveInv
  BY InitType DEF Init, LiveInv, SessionInv, OwnersExist, OwnerInv, OwnerKept, CarriedOwner,
     NoTask, NoSession
<1>2. Init => Promise!Init
  BY DEF Init, Promise!Init, NoSession, Promise!NoSession
<1>3. LiveInv /\ [Next]_vars => [Promise!Next]_<<users, session, refresh>>
  BY StepKeepsPromise
<1> QED BY <1>1, <1>2, <1>3, NextSession, PTL DEF Spec, ImplementsSessions, Promise!Spec

-----------------------------------------------------------------------------
(* Time and access tokens.                                                     *)

(* Time only restricts when AuthService takes its steps.                       *)
LEMMA StepUntimed == [TimedNext]_<<vars, timed>> => [Next]_vars
BY DEF TimedNext, Untimed, CreateAccessToken, AnswerTokens, TimeOut, Abandon, Tick, Next, Handle

(* With lifetimes the service is still the one of AuthService, and what is     *)
(* proved of that one holds.                                                   *)
THEOREM TimedIsAuthService == TimedSpec => Spec
<1>1. TimedInit => Init
  BY DEF TimedInit
<1> QED BY <1>1, StepUntimed, PTL DEF TimedSpec, Spec

-----------------------------------------------------------------------------

(* An access token names the account of the request that made it, and that     *)
(* account is the one its answer's session belongs to.                         *)
MintedOwner == \A h \in Handlers : minted[h] # NoAccess => minted[h].sub = task[h].uid

AccessInv == TimedTypeOK /\ OwnerInv /\ MintedOwner /\ AccessOwner

(* An answer: the one new token gets the access token of its request.          *)
LEMMA AnswerGives ==
  ASSUME TypeOK, NEW h \in Handlers, AnswerTokens(h)
  PROVE  \E t \in Tokens :
           /\ Stores(h, t)
           /\ left' = [left EXCEPT ![t] = IF t \in Stored' THEN ttl.refresh ELSE 0]
           /\ access' = IF t \in answered' THEN [access EXCEPT ![t] = minted[h]] ELSE access
<1>1. PICK t \in Tokens : Stores(h, t)
  BY CreateStores DEF AnswerTokens
<1>2. issued' \ issued = {t}
  BY <1>1 DEF Stores
<1> QED BY <1>1, <1>2 DEF AnswerTokens

(* The invariant holds at the start,                                           *)
LEMMA InitAccess == TimedInit => AccessInv
<1> SUFFICES ASSUME TimedInit PROVE AccessInv
  OBVIOUS
<1>1. OwnerInv
  BY InitType DEF TimedInit, Init, OwnerInv, OwnerKept, CarriedOwner, NoTask, NoSession
<1> QED BY <1>1 DEF TimedInit, AccessInv, TimedTypeOK, OwnerInv, MintedOwner, AccessOwner, Init, NoAccess

(* and every step keeps it.                                                    *)
LEMMA NextAccess == AccessInv /\ [TimedNext]_<<vars, timed>> => AccessInv'
<1> SUFFICES ASSUME AccessInv, [TimedNext]_<<vars, timed>> PROVE AccessInv'
  OBVIOUS
<1> USE AuthAssumption, LifetimesAssumption DEF AccessInv
<1>1. [Next]_vars
  BY StepUntimed
<1>2. TypeOK /\ TypeOK' /\ OwnerInv /\ OwnerInv'
  BY <1>1, NextOwner DEF OwnerInv
<1>3. ttl' = ttl /\ ttl.access \in Nat /\ ttl.refresh \in Nat
  BY DEF TimedTypeOK, TimedNext, Untimed, CreateAccessToken, AnswerTokens, TimeOut,
         Abandon, Tick, timed
<1>4. CASE Untimed /\ UNCHANGED timed
  <2>1. /\ UNCHANGED <<session, answered>>
        /\ \A h \in Handlers : pc[h] = "create" => pc'[h] = "create" /\ task'[h] = task[h]
    BY <1>2, <1>4 DEF Untimed, LoginLookup, RefreshGet, RefreshDel, Signup, Logout, Goto, clients, TypeOK
  <2> QED BY <1>2, <1>4, <2>1 DEF TimedTypeOK, MintedOwner, AccessOwner, timed
<1>5. ASSUME NEW h \in Handlers, CreateAccessToken(h)
      PROVE  AccessInv'
  <2>1. [sub |-> task[h].uid, left |-> ttl.access] \in [sub : Emails \cup {Nothing}, left : Nat]
    BY <1>2, <1>3 DEF TypeOK
  <2>2. /\ UNCHANGED <<ttl, left, access, pc, task, session, answered>>
        /\ pc[h] = "create"
        /\ minted' = [minted EXCEPT ![h] = [sub |-> task[h].uid, left |-> ttl.access]]
    BY <1>5 DEF CreateAccessToken, vars, service, clients
  <2> QED BY <1>2, <2>1, <2>2 DEF TimedTypeOK, MintedOwner, AccessOwner
<1>6. ASSUME NEW h \in Handlers, AnswerTokens(h)
      PROVE  AccessInv'
  <2>1. PICK t \in Tokens :
          /\ Stores(h, t)
          /\ left' = [left EXCEPT ![t] = IF t \in Stored' THEN ttl.refresh ELSE 0]
          /\ access' = IF t \in answered' THEN [access EXCEPT ![t] = minted[h]] ELSE access
    BY <1>2, <1>6, AnswerGives
  <2>2. /\ minted[h] # NoAccess
        /\ minted' = [minted EXCEPT ![h] = NoAccess]
    BY <1>6 DEF AnswerTokens
  <2>3. session'[t].uid = task[h].uid
    <3>1. SessionOf(h, t).uid = task[h].uid
      BY <1>2 DEF SessionOf, OwnerInv, CarriedOwner
    <3> QED BY <1>2, <2>1, <3>1 DEF Stores, TypeOK
  <2>4. AccessOwner'
    <3>1. t \notin answered
      BY <1>2, <2>1 DEF Stores, TypeOK
    <3>2. \A u \in answered : session'[u] = session[u] /\ access'[u] = access[u]
      BY <1>2, <2>1, <3>1 DEF Stores, TypeOK, TimedTypeOK
    <3>3. t \in answered' => access'[t] = minted[h]
      BY <2>1 DEF TimedTypeOK
    <3> QED BY <2>1, <2>2, <2>3, <3>2, <3>3 DEF AccessOwner, MintedOwner, Stores
  <2>5. \A g \in Handlers : minted'[g] # NoAccess => g # h /\ minted'[g] = minted[g]
    BY <2>2 DEF TimedTypeOK
  <2>6. \A g \in Handlers : g # h => task'[g] = task[g] /\ pc'[g] = pc[g]
    BY <1>2, <2>1 DEF Stores, TypeOK
  <2>7. MintedOwner'
    BY <2>5, <2>6 DEF MintedOwner
  <2>8. TimedTypeOK'
    BY <1>2, <1>3, <2>1, <2>2, <2>5, <2>6 DEF TimedTypeOK, NoAccess
  <2> QED BY <1>2, <2>4, <2>7, <2>8
<1>7. ASSUME NEW t \in Tokens, TimeOut(t)
      PROVE  AccessInv'
  BY <1>2, <1>7 DEF TimeOut, Expire, TimedTypeOK, MintedOwner, AccessOwner, timed
<1>8. CASE Abandon
  <2>1. /\ UNCHANGED <<session, answered, ttl, left, access>>
        /\ minted' = [h \in Handlers |-> IF pc'[h] = "idle" THEN NoAccess ELSE minted[h]]
    BY <1>8 DEF Abandon, Crash, Cancel, clients
  <2>2. \A h \in Handlers : pc'[h] # "idle" => pc'[h] = pc[h] /\ task'[h] = task[h]
    BY <1>2, <1>8 DEF Abandon, Crash, Cancel, Goto, TypeOK
  <2> QED BY <1>2, <2>1, <2>2 DEF TimedTypeOK, MintedOwner, AccessOwner, NoAccess
<1>9. CASE Tick
  <2>1. /\ UNCHANGED <<ttl, pc, task, session, answered>>
        /\ left' \in [Tokens -> Nat]
    BY <1>9 DEF Tick, vars, service, clients, TimedTypeOK
  <2>2. \A a \in [sub : Emails \cup {Nothing}, left : Nat] :
          /\ Ripened(a) \in [sub : Emails \cup {Nothing}, left : Nat]
          /\ Ripened(a).sub = a.sub
    BY DEF Ripened
  <2>3. Ripened(NoAccess) = NoAccess
    BY DEF Ripened, NoAccess
  <2>4. /\ minted' = [h \in Handlers |-> Ripened(minted[h])]
        /\ access' = [t \in Tokens |-> Ripened(access[t])]
    BY <1>9 DEF Tick
  <2>5. answered \subseteq Tokens
    BY <1>2 DEF TypeOK
  <2> QED BY <1>2, <2>1, <2>2, <2>3, <2>4, <2>5 DEF TimedTypeOK, MintedOwner, AccessOwner
<1>10. CASE UNCHANGED <<vars, timed>>
  BY <1>2, <1>10 DEF vars, service, clients, timed, TimedTypeOK, MintedOwner, AccessOwner
<1> QED BY <1>4, <1>5, <1>6, <1>7, <1>8, <1>9, <1>10 DEF TimedNext

(* Types, and only a request about to answer has made an access token.         *)
THEOREM TimedTypeCorrect == TimedSpec => []TimedTypeOK
<1>1. AccessInv => TimedTypeOK
  BY DEF AccessInv
<1> QED BY InitAccess, NextAccess, <1>1, PTL DEF TimedSpec

(* Whatever requests come in between, an access token names the account of the *)
(* session it was answered for.                                                *)
THEOREM AccessNamesOwner == TimedSpec => []AccessOwner
<1>1. AccessInv => AccessOwner
  BY DEF AccessInv
<1> QED BY InitAccess, NextAccess, <1>1, PTL DEF TimedSpec

-----------------------------------------------------------------------------

(* A session that is over takes no step of AuthService up again.               *)
LEMMA StepStaysOver ==
  ASSUME TypeOK, [Next]_vars, NEW s \in Tokens, Over(s)
  PROVE  Over(s)' /\ SessionTokens(s)' = SessionTokens(s)
<1> USE AuthAssumption
<1>1. /\ s \in issued /\ SessionTokens(s) \subseteq issued /\ issued \subseteq Tokens
      /\ Nothing \notin SessionTokens(s)
  BY DEF Over, SessionTokens, TypeOK
<1>2. CASE StoresNothing
  <2>1. SessionTokens(s)' = SessionTokens(s) /\ issued' = issued
    BY <1>2 DEF StoresNothing, SessionTokens
  <2>2. Stored' \subseteq Stored
    BY <1>2 DEF StoresNothing, Stored
  <2>3. \A h \in Handlers : task'[h].old \notin SessionTokens(s)
    BY <1>1, <1>2 DEF StoresNothing, Over, NoTask
  <2> QED BY <2>1, <2>2, <2>3 DEF Over
<1>3. ASSUME NEW h \in Handlers, NEW t \in Tokens, Stores(h, t)
      PROVE  Over(s)' /\ SessionTokens(s)' = SessionTokens(s)
  <2>1. t \notin issued /\ issued' = issued \cup {t} /\ s # t
    BY <1>1, <1>3 DEF Stores
  <2>2. SessionOf(h, t).first # s
    <3>1. task[h].old = Nothing \/ task[h].old \in issued \ SessionTokens(s)
      BY DEF TypeOK, Over
    <3> QED BY <2>1, <3>1 DEF SessionOf, SessionTokens
  <2>3. session'[t].first # s /\ \A u \in issued : session'[u] = session[u]
    BY <1>1, <1>3, <2>1, <2>2 DEF Stores, TypeOK
  <2>4. SessionTokens(s)' = SessionTokens(s)
    BY <2>1, <2>3 DEF SessionTokens
  <2>5. Stored' \subseteq Stored \cup {t} /\ t \notin SessionTokens(s)
    BY <1>1, <1>3, <2>1 DEF Stores, Stored, TypeOK
  <2>6. \A g \in Handlers : task'[g] \in {task[g], NoTask}
    BY <1>3 DEF Stores, TypeOK
  <2> QED BY <1>1, <2>1, <2>4, <2>5, <2>6 DEF Over, NoTask
<1> QED BY <1>2, <1>3, StepStores

(* A session that is over is handed no token any more, whatever is under way.  *)
THEOREM SessionsStayOver == TimedSpec => OverForGood
<1>1. TypeOK /\ [TimedNext]_<<vars, timed>> =>
        [\A s \in Tokens : Over(s) => Over(s)' /\ SessionTokens(s)' = SessionTokens(s)]_<<vars, timed>>
  BY StepUntimed, StepStaysOver
<1>2. TimedSpec => []TypeOK
  BY TimedIsAuthService, TypeCorrect, PTL
<1> QED BY <1>1, <1>2, PTL DEF TimedSpec, OverForGood

=============================================================================
