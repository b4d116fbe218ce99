\* Every sequence of creations, worker mappings, releases and ERRORs, with
\* the unset kds_length holding the computed length.
CONSTANTS
    p1 = p1  p2 = p2  p3 = p3  n1 = n1  n2 = n2
    Pds <- MCPds
    Names <- MCNames
    NoPds = NoPds
    NoName = NoName
    KdsHead = 8
    ColMetaSz = 8
    TupDescs <- MCTupDescs
    BLCKSZ = 64
    RowLens = {20}
    SlotRooms = {1}
    StaleDeltas = {0}
SPECIFICATION Spec
\* A torn-down context and a context whose release went wild stop.
CHECK_DEADLOCK FALSE
INVARIANTS RegistryIsLive NoLeakedFile ColmetaMatchesDeform
