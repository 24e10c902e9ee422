SPECIFICATION Spec
CONSTANTS
  p1 = p1
  p2 = p2
  c1 = c1
  c2 = c2
  c3 = c3
  s1 = s1
  s2 = s2
  s3 = s3
  s4 = s4
  Peer = {p1, p2}
  Conn = {c1, c2, c3}
  Stream = {s1, s2, s3, s4}
  Owner <- MCOwner
  ConnOf <- MCConnOf
  MaxCounts <- MCMaxCounts
INVARIANTS CountExact HeldIsRead GoneIsClean
