SPECIFICATION FairSpec
CONSTANTS
  p1 = p1
  p2 = p2
  d1 = d1
  d2 = d2
  Peer = {p1}
  Self = Self
  Addr = {d1, d2}
  Answers <- MCAnswers
  Stranger = Stranger
  Nobody = Nobody
  Unset = Unset
  TryTimesSet = 0
  DefaultTryTimes = 2
  ActBound = 2
  MaxStarts = 2
  MaxUps = 1
  Calls = 0
INVARIANTS GivenUpQuiet AttemptsBounded AllConnectedSound
PROPERTIES NecessaryPeerDialed StopEndsDialing
CHECK_DEADLOCK FALSE
