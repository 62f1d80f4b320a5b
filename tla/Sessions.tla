------------------------------ MODULE Sessions ------------------------------
(* What the auth-service promises of accounts and sessions, without requests,  *)
(* the order of their calls and what may fail: an account keeps the password   *)
(* it was made with, a session begins with a login to an account there is and  *)
(* stays that account's from token to token, and a token that is not accepted  *)
(* any more is never accepted again.                                           *)
CONSTANTS Emails, Passwords, Tokens, Nothing

VARIABLES
  accounts,  \* the password of each account
  session,   \* of a token handed out: the account, the token it began with
  accepts    \* the account a token is accepted for

NoSession == [uid |-> Nothing, first |-> Nothing]

Init ==
  /\ accounts = [e \in Emails |-> Nothing]
  /\ session = [t \in Tokens |-> NoSession]
  /\ accepts = [t \in Tokens |-> Nothing]

Register(e, pw) ==
  /\ accounts[e] = Nothing
  /\ accounts' = [accounts EXCEPT ![e] = pw]
  /\ UNCHANGED <<session, accepts>>

(* A token that was never handed out joins a session; it may be one that is    *)
(* not accepted even then.                                                     *)
Join(t, s) ==
  /\ session[t] = NoSession
  /\ session' = [session EXCEPT ![t] = s]
  /\ accepts' \in {accepts, [accepts EXCEPT ![t] = s.uid]}
  /\ UNCHANGED accounts

Login(t, e) == accounts[e] # Nothing /\ Join(t, [uid |-> e, first |-> t])

Refresh(t, old) == session[old] # NoSession /\ Join(t, session[old])

(* It was used, or its client logged out, or its time is over.                 *)
End(t) ==
  /\ accepts[t] # Nothing
  /\ accepts' = [accepts EXCEPT ![t] = Nothing]
  /\ UNCHANGED <<accounts, session>>

Next ==
  \/ \E e \in Emails, pw \in Passwords : Register(e, pw)
  \/ \E t \in Tokens : End(t)
  \/ \E t \in Tokens, e \in Emails : Login(t, e)
  \/ \E t, old \in Tokens : Refresh(t, old)

Spec == Init /\ [][Next]_<<accounts, session, accepts>>

=============================================================================
