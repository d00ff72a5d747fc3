SPECIFICATION Spec
CONSTANTS
  Programs <- MCHolePrograms
  Pools <- MCHoles
  MaxInt = 3
  MaxCallDepth = 3
  MaxSize = 2
INVARIANTS
  NeverStuck
CHECK_DEADLOCK FALSE
