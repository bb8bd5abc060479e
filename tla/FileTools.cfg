SPECIFICATION Spec
CONSTANTS
  Files = {f1}
  Agents = {main}
  PerRound = {}
  Slots = 1
  MaxOps = 3
  MaxClock = 4
INVARIANTS
  TypeOK
  StaleWriteRejected
  
  UnchangedIsTrue
CHECK_DEADLOCK FALSE
