SPECIFICATION Spec
CONSTANTS
  Clients = {c1, c2, c3, c4}
  Handlers = {h1, h2}
  Workers = {w1, w2}
  StreamsFail = FALSE
  FirstPort = 3000
  ReallocAt = {0, 1, 2, 4}
  Unlocked = Unlocked
  None = None
  Stray = Stray
  c1 = c1
  c2 = c2
  c3 = c3
  c4 = c4
  h1 = h1
  h2 = h2
  w1 = w1
  w2 = w2
SYMMETRY MCSymmetry
INVARIANTS CriticalSections EachBindRegisteredOnce ActivatedHasStreamer PortBlocksDisjoint
CHECK_DEADLOCK FALSE
