SPECIFICATION FairSpec
CONSTANTS
  Starters = {g1, g2, g3}
  MaxFaults = 3
INVARIANTS
  ServingComplete
  RecordedIsApplied
PROPERTIES
  StartsAtLast
CHECK_DEADLOCK FALSE
