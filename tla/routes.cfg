SPECIFICATION Spec
CONSTANTS
  Handlers = {h1, h2}
  Services = {s1, s2}
  Ids = {r1, r2, r3}
  Keys <- CatalogKeys
  Rpcs <- CatalogRpcs
  Discovered <- CatalogMethods
  DefaultKey <- CatalogKey
  Edits <- Anything
  Lossy = TRUE
SYMMETRY Symmetry
INVARIANTS
  TypeOK
  CountsAddUp
  BulkCovers
