SPECIFICATION AllocSpec
CONSTANT Functions <- MCFunctions
CONSTANT RegOrder <- MCRegOrder
CONSTANT GpPool <- MCGpPool
CONSTANT XmmPool <- MCXmmPool
CONSTANT CallerSaved <- MCCallerSaved
CONSTANT CalleeSaved <- MCCalleeSaved
CONSTRAINT ScannedOnly
INVARIANTS
  InterferenceSeen
  StartsAtDefinition
  NotHeldTooLong
  MembersCompatible
  GroupsSeeInterference
  TempsDoNoHarm
  FreeMeansFree
  SlotsApart
  DiesOnlyUnderPressure
PROPERTY ImplementsAllocation
CHECK_DEADLOCK FALSE
