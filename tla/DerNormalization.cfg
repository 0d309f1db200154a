CONSTANTS
  Radix = 8
  Half = 4
  MaxLengthBytes = 2
  Word = 64
  Constructed <- MCConstructed
  LongTag <- MCLongTag
  Inputs <- MCInputs
SPECIFICATION Spec
CHECK_DEADLOCK FALSE
INVARIANTS
  Canonical
  ReaderTakesAll
  ReadsInside
