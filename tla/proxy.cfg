SPECIFICATION ProxySpec
CONSTANTS
  Texts <- SomeTexts
  Types <- SomeTypes
  Reads <- ReadsAs
  Methods <- Verbs
  Remainders <- SomePaths
  Dotted <- DottedTexts
  Patterns <- SomePatterns
  Targets <- SomeTargets
  Queries <- SomeQueries
  Bodies <- SomeBodies
  Fields <- UpstreamFields
  NonNumbers <- Infinities
  NoTarget = none
  MaxRoutes = 4
  NoBody = nobody
  BadBody = badbody
INVARIANTS
  LongestRoute
  ParamsDenotePath
  CalledByRoute
