SPECIFICATION FairSpec
CONSTANTS
  Val = {"v"}
  Programs <- MCPrograms
INVARIANTS
  WithinEverySolution
  FixpointReached
  ResultIsLiveness
PROPERTIES
  SetsOnlyGrow
  Terminates
CHECK_DEADLOCK FALSE
