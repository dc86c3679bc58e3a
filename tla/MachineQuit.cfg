\* Two controllers to attach, replace, share and detach, and the handlers a
\* quitting machine meets.
SPECIFICATION FairSpec
CONSTANTS
  NoController = NoController
  Controllers = {c1, c2}
  Slots <- QuitSlots
  Texts <- AsyncTexts
  TicksPerIsr = 1
  Ticks = {0, 1}
INVARIANTS
  NoDanglingController
PROPERTIES
  ConfigFrozen
  QuitReturns
  IdleReturns
  LoadCollected
  SaveCollected
