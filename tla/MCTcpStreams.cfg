SPECIFICATION FairSpec
CONSTANTS
  A = A
  B = B
  s1 = s1
  s2 = s2
  End = {A, B}
  Stream = {s1, s2}
INVARIANTS HalfUsedOnce HalvesAccounted
PROPERTY NewStreamAccepted
CHECK_DEADLOCK FALSE
