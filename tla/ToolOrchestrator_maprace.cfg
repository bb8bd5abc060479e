SPECIFICATION Spec
CONSTANTS
  NumUses = 2
  MaxConcurrency = 0
  MaxToolRounds = 1
INVARIANT NoMapRace
CHECK_DEADLOCK FALSE
