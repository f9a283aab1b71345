CONSTANTS
  Keys = {k1}
  Requests = {r1, r2, r3}
  Writers <- MCWriters
  Cleaner = cleaner
  Absent = absent
  NoRow = noRow
  Threshold = 1
  MaxTime = 2
  PatchDtos <- UiPatches
  PostDtos <- NoDtos
  PutDtos <- NoDtos
  Stored <- OneStored
  FirstId = 3
SPECIFICATION Spec
SYMMETRY Symmetry
INVARIANTS
  ConflictIsGenuine
PROPERTIES
  NoLostWrite
  ImplementsAtomic
