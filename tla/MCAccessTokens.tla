--------------------------- MODULE MCAccessTokens ---------------------------
(* Values for the constants of AccessTokens.                                   *)
EXTENDS AccessTokens

(* Clients go away and the process dies.                                       *)
LostAnswers == {"cancel", "crash"}

(* One tick each, or two variables that are not numbers.                       *)
Settings == {[access |-> 1, refresh |-> 1], [access |-> 0, refresh |-> 0]}

=============================================================================
