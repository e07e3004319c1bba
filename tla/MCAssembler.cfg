SPECIFICATION Spec
CONSTANTS
  Modules <- MCModules
  PageSize = 4096
  CodeAddress = 1048576
INVARIANTS
  DecodesBack
  JumpsLand
  ReferencesLead
  FitsMeasured
CHECK_DEADLOCK FALSE
