SPECIFICATION Spec
CONSTANTS
  Writers = {w1, w2}
  Direct = {w2}
  FlushThreads = 1
  Limit = 3
  LockTimeout = 0
  StaleAge = 0
  MaxEntries = 2
  MaxAdds = 1
  MaxFaults = 2
  MaxClock = 2
INVARIANTS
  TypeOK
  LockExcludes
  EntriesKept
  RemovedHidden
  LoadShowsSettled
CHECK_DEADLOCK FALSE
