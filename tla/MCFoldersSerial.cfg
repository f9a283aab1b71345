CONSTANTS
  Records = {k1, k2}
  Names = {n1, n2, n3}
  NoName = noName
  Requests = {r1, r2}
  FoldersMax = 1
  Chunk = 1
  Overlap = FALSE
  MaxId = 3
SPECIFICATION Spec
SYMMETRY Symmetry
INVARIANTS
  FoldersOfRecordsExist
  FoldersNearlyBounded
PROPERTY NewFoldersAreEmpty
