CONSTANTS
  Keys = {k1}
  Isolates = {i1}
  None = none
  Window = 2
  MaxFailures = 3
  Block = 2
  SnapshotInterval = 1
  PersistInterval = 2
  PersistEvery = 3
  PruneThreshold = 0
  MaxTracked = 1
  MaxFaults = 1
  MaxTime = 5
  MaxMail = 1
SPECIFICATION Spec
INVARIANTS
  ForgottenAreRecent
  BlocksHaveCause
  GuessesBounded
PROPERTIES
  BlocksSurvive
CHECK_DEADLOCK FALSE
