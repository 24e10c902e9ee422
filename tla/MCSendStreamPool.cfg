SPECIFICATION FairSpec
CONSTANTS
  User = {u1, u2}
  Stream = {s1, s2, s3}
  initSize = 2
  maxSize = 3
  None = None
  Free = Free
  Loop = Loop
INVARIANTS CountersExact Bounded Exclusive
PROPERTY ClosedReleasesBorrowers
CHECK_DEADLOCK FALSE
