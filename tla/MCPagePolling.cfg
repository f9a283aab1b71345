CONSTANTS
  Sockets = {s1, s2, s3}
  MaxFailures = 3
  None = None
  Fast = 1
  Slow = 2
  MaxChains = 2
SPECIFICATION FairPageSpec
INVARIANTS
  NoStraySocket
  LiveIsTrue
  PollsInTime
PROPERTY Reconnects
