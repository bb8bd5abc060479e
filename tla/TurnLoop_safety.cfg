SPECIFICATION Spec
CONSTANTS
  MaxTurns = 2
  MaxToolRounds = 1
  NumModels = 2
  MaxUses = 2
  MaxPrompt = 1
  KeepLast = 0
  ForceCompact = FALSE
  FailureLimit = 1
  TornWrites = FALSE
INVARIANTS
  TypeOK
  ResumeFaithful
  BreakerHolds
  StreamMatchesAnswer
CHECK_DEADLOCK FALSE
