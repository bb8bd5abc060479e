SPECIFICATION Spec
CONSTANTS
  MaxTurns = 1
  MaxToolRounds = 1
  NumModels = 1
  MaxUses = 0
  MaxPrompt = 1
  KeepLast = 0
  ForceCompact = FALSE
  FailureLimit = 1
  TornWrites = FALSE
INVARIANT AlwaysResumable
CHECK_DEADLOCK FALSE
