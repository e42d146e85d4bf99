SPECIFICATION Spec
CONSTANTS
  Streams = 3
  Width = 4
  Typed = {0, 1, 3, 5, 17}
INVARIANT SelectsExisting
CHECK_DEADLOCK FALSE
