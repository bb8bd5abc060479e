SPECIFICATION FairSpec
CONSTANTS
  NumUses = 3
  MaxConcurrency = 2
  MaxToolRounds = 1
INVARIANTS
  TypeOK
  UnsafeRunsAlone
  GoroutinesBounded
  ResultsDelivered
PROPERTIES
  UsesKeepContract
  RunEnds
CHECK_DEADLOCK FALSE
