SPECIFICATION FairSpec
CONSTANTS
  d1 = d1
  d2 = d2
  w1 = w1
  Main = Main
  Dialer = {d1}
  AddrCaller = {w1}
  MaxStarts = 2
PROPERTIES CloseReturns LoopsEndOnClose
CHECK_DEADLOCK FALSE
