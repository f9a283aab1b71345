CONSTANTS
  Ids = {i1}
  Gets = {g1, g2}
  Posts = {p1}
  None = none
  MaxQueued = 2
  MaxLives = 2
  MaxSent = 3
  MaxSeq = 3
SPECIFICATION PollFairSpec
INVARIANTS
  WaitersAreReached
  NoPollIsLost
PROPERTIES
  ImplementsChannel
  PollsAreAnswered
