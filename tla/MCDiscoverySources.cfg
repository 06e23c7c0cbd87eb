SPECIFICATION FairSpec
CONSTANTS
  s1 = s1
  s2 = s2
  v1 = v1
  v2 = v2
  None = None
  Lost = Lost
  Source <- TwoSources
  Server <- TwoServers
  WorkerLimit = 1
  MaxAttempts = 2
  Aging <- OneSource
  MaxFailures = 1
  MaxFaults = 1
INVARIANTS
  TypeOK
  ClaimExclusive
  RunningIsHeld
PROPERTIES
  DueIsFetched
  ImplementsClaims
CHECK_DEADLOCK FALSE
