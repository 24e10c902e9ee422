SPECIFICATION FairSpec
CONSTANTS
  x = x
  s1 = s1
  s2 = s2
  q1 = q1
  q2 = q2
  q3 = q3
  Self = Self
  None = None
  e1 = e1
  Peer = {q1, q2, q3}
  Neighbour = {q1, q2}
  Service = {x}
  Search = {s1, s2}
  Of <- MCOf
  Executor = {e1}
  Knows <- MCKnows
  asksForPeers = 1
  maxSearchSize = 1
  searchTimeout = 0
  searchInterval = 60
  MaxPeers = 3
  Impatient = {}
  MaxChanges = 3
  MaxNet = 1
INVARIANTS ChannelStaysOpen
PROPERTIES CancelEnds ReachableIsFound
CHECK_DEADLOCK FALSE
