SPECIFICATION AllocSpec
CONSTANT Functions <- LostRange
CONSTANT RegOrder <- MCRegOrder
CONSTANT GpPool <- MCGpPool
CONSTANT XmmPool <- MCXmmPool
CONSTANT CallerSaved <- MCCallerSaved
CONSTANT CalleeSaved <- MCCalleeSaved
INVARIANT NothingLost
CHECK_DEADLOCK FALSE
