CONSTANTS
  Keys = {1, 2}
  PageSize = 1
  None = None
  InitialTables <- MCInitialTables
  InitialFilters <- MCInitialFilters
  MaxEvents = 3
SPECIFICATION FeedSpec
INVARIANTS
  ListIsOfItsView
  SelectionIsShown
  CaughtUp
CHECK_DEADLOCK FALSE
