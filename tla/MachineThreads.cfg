\* Every option set, and the handlers that change what the threads do.
SPECIFICATION Spec
CONSTANTS
  NoController = NoController
  Controllers = {c1}
  Slots <- ThreadSlots
  Texts <- FlagTexts
  TicksPerIsr = 2
  Ticks = {0, 1}
INVARIANTS
  TypeOK
  MutualExclusion
  Quiescent
  StopsForAReason
  QuitDrains
  InlineTransfers
  IsrLatency
  IInv
PROPERTIES
  LoadNeverReplaced
  ImplementsSession
