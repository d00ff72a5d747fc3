SPECIFICATION MCSpec
CONSTANTS
  Names = {"main", "lib"}
  Dirs = {"real", "link"}
  Real = "real"
  Texts <- MCTexts
  MaxSaves = 1
  MaxNotes = 3
INVARIANTS
  TypeOK
  AnalysesCurrent
  NothingStale
  
PROPERTIES
  Responsive
