SPECIFICATION Spec
CONSTANT MaxElements = 7
INVARIANTS
  BackIsLast
  InPlace
CHECK_DEADLOCK FALSE
