CONSTANTS
  Monitor = {0, 1}
  Slot <- SwappedSlots
  Window = {w1}
  w1 = w1
  NumVirtual = 2
  MaxInputs = 3
  MaxWire = 2
SPECIFICATION Spec
INVARIANTS InSyncAtRest WorkspacesAtHome NoneStranded
CHECK_DEADLOCK FALSE
