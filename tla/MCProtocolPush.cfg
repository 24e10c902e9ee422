SPECIFICATION PushFairSpec
CONSTANTS
  A = A
  B = B
  x = x
  y = y
  Loop = Loop
  Again = Again
  Host = {A, B}
  Proto = {x}
  Registrars = {A}
  Pusher = {Loop, Again}
  Faults = {"send", "timeout"}
  MaxOps = 3
  MaxPushes = 1
INVARIANTS BooksAgree ConfirmedIsApplied
PROPERTY PushReturns
CHECK_DEADLOCK FALSE
