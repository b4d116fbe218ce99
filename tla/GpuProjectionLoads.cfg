\* One launch of gpusort_projection over every interleaving of two blocks:
\* claims, n_loaded and the NoSpace status agree with what was copied.
CONSTANTS
  NBlocks = 2
  Warps = 2
  NItemsIn <- MCNItemsIn
  ExtraLens = {0, 8}
  SlotHead = 16
  SlotRowSz = 16
  SlotLength = 64
  NRooms = 2
SPECIFICATION Spec
CHECK_DEADLOCK FALSE
INVARIANTS TypeOK RowsCopiedOnce NoSilentLeftover
