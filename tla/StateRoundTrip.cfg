SPECIFICATION Spec
CONSTANTS
  Top = 3
  Bytes = {0, 1}
  Registers = {"pc"}
  Written = {0, 2}
  Codecs <- AllCodecs
  NoneDecoded <- Garbage
  Programs <- RoundTripPrograms
INVARIANTS
  TypeOK
  EveryCellKnown
  RomAndRamPartition
  RoundTrip
  OnlyAlienRomRefused
PROPERTIES
  RomAsGiven
  RefusedHarmless
