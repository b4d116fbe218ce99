--------------------------- MODULE MCDataStoreRow ---------------------------
(***************************************************************************)
(* DataStoreRow at scaled sizes.  The chunk has room for five or six slot  *)
(* tuples, so the full-chunk return of insert_tuple happens; the block is  *)
(* small enough that a second page fails the insert_block pre-check once   *)
(* a first one is loaded.  TupItemHdr is offsetof(kern_tupitem, htup): a   *)
(* 4-byte t_len and a 6-byte t_self, padded to the 4-byte alignment of     *)
(* HeapTupleHeaderData.                                                    *)
(***************************************************************************)
EXTENDS DataStoreRow

MCTupItemHdr == 12
MCPageHdrSz == 24

=============================================================================
