SPECIFICATION FairSpec
CONSTANTS
  Ids <- TwoServices
  Present <- OneService
  MaxVersion <- ServiceVersions
  MaxRoutes <- RouteVersions
  Opened <- SomePages
  MaxCalls = 2
  MaxFaults = 1
INVARIANTS
  OneSubmission
  ReadsOwnChange
PROPERTIES
  ForeignByAddressOrUnguarded
  HomeConverges
