SPECIFICATION Spec
CONSTANTS
  Tasks = {s, t}
  Artifacts = {a, b}
  MaxVersion = 6
  Faults = TRUE
SYMMETRY Symmetry
INVARIANTS
  MissingOnlyByDeletion
  UnreferencedIsStray
  DeletedIsGone
PROPERTY ReadIsAudited
CHECK_DEADLOCK FALSE
