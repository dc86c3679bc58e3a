SPECIFICATION Spec
CONSTANTS
  Top = 3
  Bytes = {0, 1}
  Registers = {"pc"}
  Written = {0, 2, 3}
  Codecs <- Compressed
  NoneDecoded <- Garbage
  Programs <- MovingPrograms
INVARIANTS
  RamCleared
