SPECIFICATION ExchangeFairSpec
CONSTANTS
  h1 = h1
  h2 = h2
  c1 = c1
  c2 = c2
  c3 = c3
  p1 = p1
  p2 = p2
  None = None
  Host = {h1, h2}
  Conn = {c1, c2}
  Dialer <- MCDialer
  Proto = {p1, p2}
  Registrars = {h1}
  Unregisters = FALSE
  Races = FALSE
  Rejecting = {h2}
  MaxOps = 2
INVARIANTS  NoHalfOpen
PROPERTY ExchangeReturns
CHECK_DEADLOCK FALSE
