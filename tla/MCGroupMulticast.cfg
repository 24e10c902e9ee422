SPECIFICATION FairSpec
CONSTANTS
  q1 = q1
  q2 = q2
  c1 = c1
  c2 = c2
  s1 = s1
  s2 = s2
  s3 = s3
  None = None
  Peer = {q1}
  Conn = {c1, c2}
  Owner <- MCOwner
  Stream = {s1, s2, s3}
  On <- MCOn
  Opened = {s1, s3}
  Unread = {s2}
  Task = {1, 2}
  Mortal = {c2}
  Faults = {"error"}
  MaxGroup = 2
INVARIANTS FramesWhole SyncReports
PROPERTIES NilIsHandled SyncReturns
CHECK_DEADLOCK FALSE
