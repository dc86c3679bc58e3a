SPECIFICATION FairSpec
CONSTANTS
  NoController = NoController
  Controllers = {c1}
  Slots <- InitSlots
  Texts <- AsyncTexts
  TicksPerIsr = 1
  Ticks = {0, 1}
PROPERTIES
  RunReturns
