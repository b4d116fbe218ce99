\* The uninitialised kds_length of line 380 lies 8 bytes either side of the computed length.
CONSTANTS
    p1 = p1  p2 = p2  p3 = p3  n1 = n1  n2 = n2
    Pds <- MCPds
    Names <- MCNames
    NoPds = NoPds
    NoName = NoName
    KdsHead = 8
    ColMetaSz = 8
    TupDescs <- MCTupDescs
    BLCKSZ = 64
    RowLens = {20}
    SlotRooms = {1}
    StaleDeltas <- MCStaleDeltas
SPECIFICATION Spec
CHECK_DEADLOCK FALSE
INVARIANT MappingsIntact
