SPECIFICATION Spec
CONSTANTS
  Programs <- MCPrograms
  MaxCommands = 2
INVARIANTS
  TypeOK
  OnlyOnSuccess
  OnePhaseReports
  FenceIdsFresh
  BlocksIndependent
