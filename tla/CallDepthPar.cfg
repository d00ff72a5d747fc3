SPECIFICATION Spec
CONSTANTS
  MaxCallDepth = 2
  MaxThreads = 3
  MaxBranches = 1
  MaxBlocks = 1
  MaxWork = 5
INVARIANTS
  RecursionReported
