SPECIFICATION Spec
CONSTANTS
  Programs <- MCPrograms
  Names <- MCNames
  Prelude <- MCPrelude
INVARIANTS
  TypeOK
  NothingDropped
  FixpointsAgree
  DiagnosedOnce
PROPERTY
  Terminates
