SPECIFICATION Spec
CONSTANTS
  Word = 65536
  Byte = 256
  MaxPrecision = 9
  BlockBits = 4
  Pow5PerBlock = 1
  FracBits = 4
  ExpBits = 4
  MaxDigits10 = 3
  DefaultPrecision = 2
  ExpLower <- Lowest
  ExpUpper = 2
  Jobs <- Values
INVARIANTS TypeOK FillsArea Layout SameForAll ReadsBack Nearest Shortest Remainder
PROPERTIES Completes
CHECK_DEADLOCK FALSE
