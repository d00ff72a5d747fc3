SPECIFICATION Spec
CONSTANTS
  Names = {"main", "lib"}
  Dirs = {"real"}
  Real = "real"
  Texts <- MCTexts
  MaxSaves = 0
  MaxNotes = 3
INVARIANTS
  OpenDocumentShown
