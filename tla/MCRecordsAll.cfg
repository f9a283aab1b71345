CONSTANTS
  Keys = {k1, k2}
  Requests = {r1, r2}
  Writers <- MCWriters
  Cleaner = cleaner
  Absent = absent
  NoRow = noRow
  Threshold = 1
  MaxTime = 1
  PatchDtos <- ClientPatches
  PostDtos <- ClientPosts
  PutDtos <- AllPuts
  Stored <- TwoStored
  FirstId = 3
SPECIFICATION Spec
SYMMETRY Symmetry
INVARIANTS
  IdsNameOneRecord
PROPERTY PurgeIsFinal
