\* Round trip of rows loaded by insert_block: expected to be violated, the
\* block path reserves LONGALIGN(t_len) but writes the kern_tupitem header too.
CONSTANTS
  ChunkLen = 256
  HeadSz = 32
  TupItemHdr <- MCTupItemHdr
  BLCKSZ = 128
  PageHdrSz <- MCPageHdrSz
  Blocks = {1}
  TupLens = {24, 32}
  MaxLines = 2
  MaxTupleCalls = 1
  NotNormal = NotNormal
SPECIFICATION Spec
CHECK_DEADLOCK FALSE
INVARIANT FetchRoundTrip
