\* Result entries after one launch of gpusort_projection: expected to be
\* violated, line 180 is also run by threads with no tuple, whose store lands
\* on another block's entry or on results[nrooms].
CONSTANTS
  NBlocks = 2
  Warps = 2
  NItemsIn <- MCNItemsIn
  ExtraLens = {0, 8}
  SlotHead = 16
  SlotRowSz = 16
  SlotLength = 64
  NRooms = 3
SPECIFICATION Spec
CHECK_DEADLOCK FALSE
INVARIANT ResultsReferToLoadedRows
