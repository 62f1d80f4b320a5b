SPECIFICATION Spec
CONSTANTS
  Ids = {s1}
  Prefixes <- PlainPrefixes
  NormalizePrefix <- NormalizeStrings
  Confs <- OneConf
  HttpConfs <- HttpOnes
  BasedConfs <- BasedOnes
  InferBase <- InferFromDocument
  NoDoc = "nodoc"
  Handlers = {h1}
  Main = main
  UseCache = TRUE
  AdminOps <- Edits
  Bodies <- SwitchBodies
  Malformed <- BadOnes
  Budget <- TwoWritesOneTick
PROPERTIES
  ProbeWritesStatusOnly
