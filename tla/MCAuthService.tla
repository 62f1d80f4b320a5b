--------------------------- MODULE MCAuthService ---------------------------
(* Values for the constants of AuthService.                                    *)
EXTENDS AuthService, TLC

(* Everything may fail; nothing.                                               *)
AnyFault == AllFaults

Symmetry ==
  Permutations(Handlers) \cup Permutations(Tokens) \cup Permutations(Emails)
    \cup Permutations(Passwords)

=============================================================================
