SPECIFICATION Spec
CONSTANTS
  Ids = {s1, s2}
  Prefixes <- SlashPrefixes
  NormalizePrefix <- NormalizeStrings
  Confs <- AllConfs
  HttpConfs <- HttpOnes
  BasedConfs <- BasedOnes
  InferBase <- InferFromDocument
  NoDoc = "nodoc"
  Handlers = {h1}
  Main = main
  UseCache = TRUE
  AdminOps <- Admin
  Bodies <- ProtocolBodies
  Malformed <- BadOnes
  Budget <- EverythingOnce
SYMMETRY Symmetry
INVARIANTS
  TypeOK
  NoResurrection
  Provenance
  RoutingCurrent
  CacheFresh
  OwnWriteLoaded
PROPERTIES
  ImplementsSnapshotRouting
