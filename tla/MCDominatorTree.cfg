SPECIFICATION FairSpec
CONSTANTS
  Undefined = Undefined
  Graphs <- MCGraphs
INVARIANTS
  CompleteOrder
  PredecessorBefore
  FirstSuccessorNext
  TreeIsDominatorTree
  FingersClimb
PROPERTIES
  Terminates
CHECK_DEADLOCK FALSE
