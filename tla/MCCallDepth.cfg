SPECIFICATION FairSpec
CONSTANTS
  MaxCallDepth = 2
  MaxThreads = 4
  MaxBranches = 2
  MaxBlocks = 2
  MaxWork = 5
INVARIANTS
  TypeOK
  DepthExact
  StackBounded
  WaitedFor
PROPERTIES
  Terminates
