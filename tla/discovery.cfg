SPECIFICATION Spec
CONSTANTS
  Letters <- Words
  Create <- CreateWord
  Update <- UpdateWord
  Delete <- DeleteWord
  Handlers = {h1, h2}
  Releases <- TwoReleases
  Services <- AllServices
  Offers <- Growing
  Lossy = TRUE
INVARIANTS
  AnswerComplete
  SentAsDescribed
  KeysApart
PROPERTIES
  HealthyServes
