SPECIFICATION MCSpec
CONSTANTS
  N = 3
  MaxFaults = 3
  MaxEdits = 1
INVARIANTS
  TypeOK
  NeverLost
  AllOrNothing
  LitterBounded
  SuccessIsComplete
