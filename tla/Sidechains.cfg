SPECIFICATION Spec
CONSTANTS
  Tasks = {t1}
  Actors = {a1, a2}
  MaxToolRounds = 2
  MaxCalls = 3
  MaxFaults = 1
INVARIANTS
  TypeOK
  TaskSettles
  KilledStops
  SummariesMirrored
SYMMETRY ActorSymmetry
CHECK_DEADLOCK FALSE
