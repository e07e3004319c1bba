SPECIFICATION Spec
CONSTANTS
  Functions <- OneInRbx
  GpOrder <- MCGpOrder
  GpArguments <- MCGpArguments
  XmmArguments <- MCXmmArguments
  CallerSaved <- MCCallerSaved
  CalleeSaved <- MCCalleeSaved
INVARIANT LiveValuesSurvive
CHECK_DEADLOCK FALSE
