SPECIFICATION Spec
CONSTANTS
  Handlers = {h1, h2}
  Emails = {e1, e2}
  Passwords = {p1, p2}
  Tokens = {t1, t2, t3}
  Faults <- AnyFault
  Nothing = nothing
SYMMETRY Symmetry
INVARIANTS
  TwoTokensOnlyForked
  AnsweredTokenStored
  LoggedOutRevoked
PROPERTIES
  ImplementsSessions
