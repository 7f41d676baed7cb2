SPECIFICATION Spec
CONSTANTS
  Word = 256
  Byte = 8
  Bits = 4
  WordBits = 2
  MaxPrecision = 5
  Strings <- DelimiterStrings
  Input <- Delimited
PROPERTY StopsAtText
CHECK_DEADLOCK FALSE
