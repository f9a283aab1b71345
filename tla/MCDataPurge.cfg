CONSTANTS
  Keys = {k1}
  Uploads = {r1}
  Sweeps = {p1}
  Cron = FALSE
  Reuploads = TRUE
  MaxUpload = 1
  Grace = 2
SPECIFICATION Spec
INVARIANT RowHasData
CHECK_DEADLOCK FALSE
