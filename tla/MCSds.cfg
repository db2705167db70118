CONSTANTS
  Names = {s, t}
  a = a
  NUL = NUL
  NULL = NULL
  Texts <- MCTexts
  Counts = {0, 2}
  IntMax = 3
  MaxPrealloc = 2
  Header = 2
  Word = 2
  Memory = 20
SYMMETRY Symmetry
SPECIFICATION Spec
INVARIANTS TypeOK Fits KeepsRange Accounted
