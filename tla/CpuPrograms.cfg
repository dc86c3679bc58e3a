SPECIFICATION Spec
CONSTANTS
  Cells <- SomeCells
  Unmapped = 118
  Images <- SomeImages
  Inputs = {0, 255}
  Restarts = {7}
INVARIANTS
  TypeOK
  StatusShape
  DecimalSum
  DecimalDifference
  Difference
  Product
  RecursiveSum
  ParityOfBits
PROPERTIES
  FlagsKept
  StackReturns
