SPECIFICATION Spec
CONSTANTS
  Programs <- MCPrograms
  MaxCommands = 2
INVARIANTS
  CheckAgreesWithRun
