SPECIFICATION FairSpec
CONSTANTS
  p1 = p1
  p2 = p2
  a1 = a1
  a2 = a2
  a3 = a3
  b1 = b1
  Peer = {p1, p2}
  Conn = {a1}
  Owner <- MCOwner
  Blacklisted = {}
  MaxPeers = 2
  MaxConns = 1
  Mortal = {a1}
  Slow = {}
  None = None
PROPERTY ClosedIsReleased
CHECK_DEADLOCK FALSE
