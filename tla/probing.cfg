SPECIFICATION FairSpec
CONSTANTS
  Ids = {s1, s2}
  Prefixes <- PlainPrefixes
  NormalizePrefix <- NormalizeStrings
  Confs <- BadConf
  HttpConfs <- HttpOnes
  BasedConfs <- BasedOnes
  InferBase <- InferFromDocument
  NoDoc = "nodoc"
  Handlers = {h1, h2}
  Main = main
  UseCache = TRUE
  AdminOps <- Edits
  Bodies <- BadBodies
  Malformed <- BadOnes
  Budget <- TicksForever
PROPERTIES
  CacheConverges
  ProbedAgain
