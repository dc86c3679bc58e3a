SPECIFICATION InterruptedSpec
CONSTANTS
  Cells <- SomeCells
  Unmapped = 118
  Images <- SomeImages
  Inputs = {0}
  Restarts = {1, 2}
  MaxFrames = 2
INVARIANTS
  InterruptsUnnoticed
