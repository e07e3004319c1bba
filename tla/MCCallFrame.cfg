SPECIFICATION Spec
CONSTANTS
  Functions <- MCFunctions
  GpOrder <- MCGpOrder
  GpArguments <- MCGpArguments
  XmmArguments <- MCXmmArguments
  CallerSaved <- MCCallerSaved
  CalleeSaved <- MCCalleeSaved
INVARIANTS
  ReturnsToCaller
  SavedValuesSurvive
  ArgumentsArrive
  CallsAligned
CHECK_DEADLOCK FALSE
