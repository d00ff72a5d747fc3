SPECIFICATION Spec
CONSTANTS
  Programs <- MCPrograms
  Pools <- MCPools
  MaxInt = 3
  MaxCallDepth = 3
  MaxSize = 2
INVARIANTS
  NeverStuck
  ValuesTyped
  EffectsCounted
PROPERTIES
  ImmutableKept
  OnlyTargetsChange
CHECK_DEADLOCK FALSE
