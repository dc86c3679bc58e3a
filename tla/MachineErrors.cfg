SPECIFICATION Spec
CONSTANTS
  NoController = NoController
  Controllers = {c1}
  Slots <- ErrorSlots
  Texts <- AsyncTexts
  TicksPerIsr = 1
  Ticks = {0, 1}
INVARIANTS
  AllErrorsReported
