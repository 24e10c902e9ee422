SPECIFICATION FairSpec
CONSTANTS
  p1 = p1
  p2 = p2
  a1 = a1
  a2 = a2
  a3 = a3
  b1 = b1
  Peer = {p1, p2}
  Conn = {a1, a2, b1}
  Owner <- MCOwner
  Blacklisted = {}
  MaxPeers = 1
  MaxConns = 2
  Mortal = {a1}
  Slow = {a2}
  None = None
INVARIANTS TrackedHasPool TrackedIsObserved
PROPERTIES NewCompletes ClosingCompletes
CHECK_DEADLOCK FALSE
