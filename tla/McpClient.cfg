SPECIFICATION FairSpec
CONSTANTS
  Calls = {c1, c2}
  MaxSessions = 4
  MaxFaults = 3
INVARIANTS
  TypeOK
  
  RecoveredFirst

  
CHECK_DEADLOCK FALSE
