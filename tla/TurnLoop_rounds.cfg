SPECIFICATION FairSpec
CONSTANTS
  MaxTurns = 1
  MaxToolRounds = 3
  NumModels = 2
  MaxUses = 2
  MaxPrompt = 2
  KeepLast = 0
  ForceCompact = TRUE
  FailureLimit = 1
  TornWrites = FALSE
INVARIANTS
  UnpairedOnlyIfInterrupted
PROPERTY TurnEnds
CHECK_DEADLOCK FALSE
