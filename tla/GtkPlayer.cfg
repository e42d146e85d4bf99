SPECIFICATION Spec
CONSTANTS
  Kinds <- MCKinds
  TagValues = {"a", "b"}
  Duration = 520
  GST_SECOND = 10
  MaxBus = 2
INVARIANTS TypeOK StateCoherent OnlyUserSeeks TagsShown
CHECK_DEADLOCK FALSE
