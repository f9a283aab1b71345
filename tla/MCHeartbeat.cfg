CONSTANTS
  Ids = {i1}
  Heartbeat = 2
  IdleLimit = 2
  None = none
  EarlyPosts = FALSE
  MaxFaults = 1
  MaxAge = 7
SPECIFICATION FairSpec
INVARIANTS
  Attended
  SilenceBounded
PROPERTIES
  PingsContinue
  StopsWhenAlone
