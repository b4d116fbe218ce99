------------------------- MODULE MCChunkLifecycle --------------------------
(***************************************************************************)
(* Three chunk descriptors and two temporary file names for                *)
(* ChunkLifecycle: enough for a file-backed toast chunk, the slot chunk    *)
(* chained to it and a worker's mapping of either, or for two row chunks.  *)
(* Sizes are scaled: an 8-byte kds header, 8 bytes of colmeta per column   *)
(* and BLCKSZ 64, so a row chunk of 20 bytes over one column takes 40 and  *)
(* the slot region starts at offset 64.  The four tuple descriptors cover  *)
(* an aligned fixed-length prefix, an oid header, a varlena first column   *)
(* and a NUMERIC column that internal_format turns into a fixed one.       *)
(***************************************************************************)
EXTENDS ChunkLifecycle

CONSTANTS p1, p2, p3, n1, n2

MCPds == {p1, p2, p3}
MCNames == {n1, n2}

Attr(len, align, byval, numeric) ==
    [len |-> len, align |-> align, byval |-> byval, numeric |-> numeric]

Bool == Attr(1, 1, TRUE, FALSE)
Int2 == Attr(2, 2, TRUE, FALSE)
Int4 == Attr(4, 4, TRUE, FALSE)
Int8 == Attr(8, 8, TRUE, FALSE)
Text == Attr(-1, 4, FALSE, FALSE)
Numeric == Attr(-1, 4, FALSE, TRUE)

MCTupDescs ==
    { [hasoid |-> FALSE, attrs |-> <<Int4>>],
      [hasoid |-> TRUE,  attrs |-> <<Bool, Int8>>],
      [hasoid |-> FALSE, attrs |-> <<Text, Int4>>],
      [hasoid |-> FALSE, attrs |-> <<Int2, Numeric, Int4>>] }

\* The unset kds_length of lines 380 and 447 one word short of, equal to,
\* or one word past the computed length.
MCStaleDeltas == {-8, 0, 8}
=============================================================================
