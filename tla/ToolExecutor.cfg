SPECIFICATION FairSpec
CONSTANTS
  Input = {in1, in2}
  NoInput = NoInput
  NumHooks = 2
INVARIANTS
  TypeOK
  CallsCleared
  OutcomesHonest
PROPERTIES
  ImplementsContract
  ExecuteReturns
CHECK_DEADLOCK FALSE
