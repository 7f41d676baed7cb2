SPECIFICATION Spec
CONSTANTS
  Word = 256
  Byte = 8
  Bits = 4
  WordBits = 2
  MaxPrecision = 5
  Strings <- TupleStrings
  Input <- Inputs
INVARIANT Renders
CHECK_DEADLOCK FALSE
