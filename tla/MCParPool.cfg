\* The call may end or stay with an element that never comes back.
SPECIFICATION FairSpec
CONSTANTS
  MaxItems = 4
  MaxCores = 3
INVARIANTS
  TypeOK
  WorkersBounded
  ResultConserved
PROPERTIES
  ImplementsParCall
  Termination
  PanicEndsProcess
CHECK_DEADLOCK FALSE
