SPECIFICATION TimedSpec
CONSTANTS
  Handlers = {h1, h2}
  Emails = {e1, e2}
  Passwords = {p1}
  Tokens = {t1, t2}
  Faults <- LostAnswers
  Lifetimes <- Settings
  Nothing = nothing
INVARIANTS
  AccessOwner
PROPERTIES
  OverForGood
  AccessRunsOut
  RefreshRunsOut
