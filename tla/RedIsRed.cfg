SPECIFICATION Spec
CONSTANTS
  Documents <- OneDefect
INVARIANT RedIsRed
CHECK_DEADLOCK FALSE
