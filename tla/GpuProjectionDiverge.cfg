\* Expected to be violated: warps of one block take different
\* quick-bailout decisions.
CONSTANTS
  NBlocks = 2
  Warps = 2
  NItemsIn <- MCNItemsIn
  ExtraLens = {0, 8}
  SlotHead = 16
  SlotRowSz = 16
  SlotLength = 64
  NRooms = 2
SPECIFICATION Spec
CHECK_DEADLOCK FALSE
INVARIANTS BlockBailsTogether
