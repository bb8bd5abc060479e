SPECIFICATION FairSpec
CONSTANTS
  Procs = {p1, p2}
  Slots = {1, 2}
  Busy = {p1}
  MaxRetries = 1
  Ant = FALSE
  Rotates = TRUE
  MaxTokens = 1
  MaxFaults = 1
INVARIANTS
  TypeOK
  OwnGrantAccepted
  StoreCurrent
  RetriesContained

  
  
CHECK_DEADLOCK FALSE
