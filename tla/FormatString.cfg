SPECIFICATION Spec
CONSTANTS
  Word = 256
  Byte = 8
  Bits = 4
  WordBits = 2
  MaxPrecision = 5
  Strings <- AllStrings
  Input <- Inputs
INVARIANTS TypeOK ChecksSuffice AcceptsGrammar ParsersAgree EveryArgument Renders PartsOfInput Assigned
  InsideWords AnswersRight
PROPERTIES Decided ReadsIntegers StopsAtText
CHECK_DEADLOCK FALSE
