SPECIFICATION Spec
CONSTANTS
  Durations = {40, 52}
  MaxPosts = 3
  Full = 3
  Low = 1
  MaxBus = 2
  Length = 100
  Positions = {98, 99, 100}
  RangeEnds = {0, 3081, 6162, 1000000}
  p1 = p1
  p2 = p2
  p3 = p3
  Pads = {p1, p2, p3}
  NoPad = NoPad
  NumBranches = 3
  Cap = 2
  Needs = {1, 3}
  End = 3
  MaxSpeed = 1
  MaxInfos = 5
INVARIANTS TypeOK DurationCoherent PlayingCoherent BufferingCoherent GraphInBounds RawPadsPlaced TopologyPrinted CapsNegotiated
PROPERTIES FullQueuePlays Prerolls RateFollowsKeys FailureEnds
CHECK_DEADLOCK FALSE
