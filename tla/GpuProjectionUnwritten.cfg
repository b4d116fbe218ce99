\* Expected to be violated: a block failing the nrooms check leaves
\* kresults->nitems counting entries it never wrote.
CONSTANTS
  NBlocks = 2
  Warps = 2
  NItemsIn <- MCNItemsIn
  ExtraLens = {0, 8}
  SlotHead = 16
  SlotRowSz = 16
  SlotLength = 64
  NRooms = 2
SPECIFICATION Spec
CHECK_DEADLOCK FALSE
INVARIANTS ResultsWritten
