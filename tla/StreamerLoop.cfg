SPECIFICATION FairSpec
CONSTANTS
  s1 = s1
  s2 = s2
  s3 = s3
  Streams = {s1, s2, s3}
  NumWorkers = 2
  MaxErrors = 2
  Nobody = Nobody
INVARIANTS NobodyElseQuits LoopUsedAlive
PROPERTIES ErrorEndsStream
CHECK_DEADLOCK FALSE
