SPECIFICATION Spec
CONSTANTS
  Files = {f1}
  Agents = {main}
  PerRound = {}
  Slots = 1
  MaxOps = 3
  MaxClock = 3
INVARIANTS
  CreateOnlyNew
CHECK_DEADLOCK FALSE
