SPECIFICATION Spec
CONSTANTS
  Sessions = {s1, s2}
  Writers = {w1, w2, w3}
  Absent = Absent
  Free = Free
  MaxVersion = 3
SYMMETRY Symmetry
INVARIANTS
  TypeOK
  VersionIdentifiesContent
  ConflictIsReal
PROPERTY ImplementsAtomicSession
