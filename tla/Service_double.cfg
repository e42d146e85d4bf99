SPECIFICATION ServiceSpec
CONSTANTS
  Clients = {c1}
  Handlers = {h1}
  Workers = {w1, w2}
  Me = c1
  StreamsFail = FALSE
  FirstPort = 3000
  ReallocAt = {0, 1, 2, 4}
  Unlocked = Unlocked
  None = None
  Stray = Stray
  c1 = c1
  c2 = c2
  c3 = c3
  h1 = h1
  h2 = h2
  w1 = w1
  w2 = w2
  w3 = w3
INVARIANTS ViewerAssertion
CHECK_DEADLOCK FALSE
