\* Expected to be violated: the usage and nitems atomicAdds of two blocks
\* interleave so that both confirm regions that overlap.
CONSTANTS
  NBlocks = 2
  Warps = 2
  NItemsIn <- MCNItemsIn
  ExtraLens = {0, 8}
  SlotHead = 16
  SlotRowSz = 16
  SlotLength = 64
  NRooms = 2
SPECIFICATION Spec
CHECK_DEADLOCK FALSE
INVARIANTS SlotRegionsDisjoint
