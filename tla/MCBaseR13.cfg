SPECIFICATION Spec
CONSTANTS
  Modules <- BaseR13
  PageSize = 4096
  CodeAddress = 1048576
INVARIANT DecodesBack
CHECK_DEADLOCK FALSE
