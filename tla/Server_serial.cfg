SPECIFICATION Spec
CONSTANTS
  Clients = {c1, c2, c3}
  Handlers = {h1}
  Workers = {w1, w2}
  StreamsFail = TRUE
  FirstPort = 3000
  ReallocAt = {0, 1, 2, 4}
  Unlocked = Unlocked
  None = None
  Stray = Stray
  c1 = c1
  c2 = c2
  c3 = c3
  h1 = h1
  w1 = w1
  w2 = w2
INVARIANTS TypeOK StreamsReachTheirClient
PROPERTIES RegistrySpec
