SPECIFICATION FairSpec
CONSTANTS
  SourceIds = {1, 2, 3}
  MaxBuffers = 4
  Overshoot = 2
INVARIANTS OneFeeder QueueBounded
PROPERTIES NeverStarves BackPressure ErrorEnds
CHECK_DEADLOCK FALSE
