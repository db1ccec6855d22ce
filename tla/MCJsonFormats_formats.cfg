SPECIFICATION Spec
CONSTANTS
  IndentSize = 2
  BufferSize = 16
  IntegerBits = 20
  MinExp <- MCMinExp
  MaxExp = 6
  Bits <- MCBits
  Floats <- MCFloats
  Singles <- MCSingles
  MaxSize = 65535
INVARIANTS
  BufferHolds
  WritesValue
  DecodesForms
  RefusesParts
CHECK_DEADLOCK FALSE
