SPECIFICATION AllocSpec
CONSTANT Functions <- StolenRegister
CONSTANT RegOrder <- MCRegOrder
CONSTANT GpPool <- MCGpPool
CONSTANT XmmPool <- MCXmmPool
CONSTANT CallerSaved <- MCCallerSaved
CONSTANT CalleeSaved <- MCCalleeSaved
INVARIANT FreeMeansFree
CHECK_DEADLOCK FALSE
