SPECIFICATION Spec
CONSTANTS
  p1 = p1
  p2 = p2
  p3 = p3
  a1 = a1
  a2 = a2
  a3 = a3
  b1 = b1
  b2 = b2
  c1 = c1
  Peer = {p1, p2, p3}
  Conn = {a1, a2, a3, b1, c1}
  Owner <- MCOwner
  Strategies = {"FIFO", "LIFO", "Unknown", "Random"}
  MaxPeersSet = 2
  MaxConnsSet = 2
  DefaultMaxPeers = 2
INVARIANTS Capacity PeerQuota
PROPERTIES HighLevelProtected DroppedIsClosed NewcomerKept ImplementsRegistry
CHECK_DEADLOCK FALSE
