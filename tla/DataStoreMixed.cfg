\* A row chunk filled by insert_block over two heap pages and by up to six
\* insert_tuple calls, in any order, up to and past the point where the
\* chunk is full: all-or-nothing block loads filtered by the snapshot, the
\* double-ended bound, and the round trip of chunks of slot tuples only.
CONSTANTS
  ChunkLen = 256
  HeadSz = 32
  TupItemHdr <- MCTupItemHdr
  BLCKSZ = 128
  PageHdrSz <- MCPageHdrSz
  Blocks = {1, 2}
  TupLens = {24, 32}
  MaxLines = 2
  MaxTupleCalls = 6
  NotNormal = NotNormal
SPECIFICATION Spec
CHECK_DEADLOCK FALSE
INVARIANTS TypeOK DoubleEnded LoadedExactlyVisible TupleRowsRoundTrip
