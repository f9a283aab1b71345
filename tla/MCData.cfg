CONSTANTS
  Keys = {k1, k2}
  Uploads = {r1}
  Sweeps = {p1}
  Cron = TRUE
  Reuploads = FALSE
  MaxUpload = 1
  Grace = 2
SPECIFICATION FairSpec
INVARIANTS
  RowHasData
  PurgeReclaims
PROPERTY OrphansReclaimed
