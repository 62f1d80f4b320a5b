SPECIFICATION Spec
CONSTANTS
  Ids = {s1, s2}
  Bases = {inferred}
  Targets = {target}
  Document = document
  Empty = empty
  Inferred = inferred
  None = none
  MaxSaves = 1
  MaxTyped = 1
  MaxWrites = 2
SYMMETRY Symmetry
PROPERTIES
  OverwritesStaleOrLeftOut
  MountedWithOwn
  TypedStays
