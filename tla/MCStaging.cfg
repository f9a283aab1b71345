SPECIFICATION Spec
CONSTANTS
  Puts = {p1, p2}
  MaxPuts = 2
  Others = {other}
  MaxRevisions = 1
  MaxBeside = 1
  Names = {png}
  ImageNames = {png}
  Bytes = {zip1, zip2, huge}
  TooLarge = {huge}
  Entries <- MCEntries
  Offers <- MCOffers
  Uploads <- MCUploads
  None = None
  zip1 = zip1
  zip2 = zip2
  huge = huge
  png = png
SYMMETRY Symmetry
CHECK_DEADLOCK FALSE
INVARIANTS
  RowsAreWhole
  AcceptedIsRecorded
  UndisturbedSucceeds
  CurrentIsAnnounced
  
