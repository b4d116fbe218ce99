------------------------------- MODULE Layout -------------------------------
(***************************************************************************)
(* The column metadata init_kern_data_store writes into a chunk's header   *)
(* (src/unnamed/part_000:267-332), and the reference it is checked         *)
(* against: where heap_deform_tuple finds each column of a tuple with no   *)
(* nulls.                                                                  *)
(*                                                                         *)
(* A tuple descriptor is a record: hasoid is tupdesc->tdhasoid and attrs   *)
(* the attributes, each with its attlen (-1 varlena, -2 cstring), its      *)
(* alignment in bytes (typealign_get_width of attalign), attbyval and      *)
(* whether its type is NUMERIC.  attnum is the position in attrs.          *)
(***************************************************************************)
EXTENDS Integers, Sequences

\* TYPEALIGN of c.h; MAXALIGN, STROMALIGN and LONGALIGN are TYPEALIGN(8, _).
TypeAlign(a, x) == ((x + a - 1) \div a) * a

\* offsetof(HeapTupleHeaderData, t_bits) and sizeof(Oid).
TBitsOffset == 23
OidSize == 4

\* Lines 288-291: where the first column of a tuple without nulls starts.
HeapHeader(hasoid) == TypeAlign(8, TBitsOffset + (IF hasoid THEN OidSize ELSE 0))

\* Lines 307-315: with internal_format a NUMERIC column is stored as an
\* 8-byte by-value cl_ulong.
ColumnFormat(a, internal) ==
    IF internal /\ a.numeric
    THEN [a EXCEPT !.byval = TRUE, !.align = 8, !.len = 8]
    ELSE a

\* Mutant: line 320, the alignment of a fixed-length column, left out.
CacheOffUnaligned(a, off) == IF off > 0 THEN (IF a.len > 0 THEN off ELSE -1) ELSE off

\* Lines 317-323: the cached offset of column a when the previous columns
\* end at off; -1 once a column of no fixed length was met.
CacheOff(a, off) ==
    IF off > 0 THEN (IF a.len > 0 THEN TypeAlign(a.align, off) ELSE -1) ELSE off

\* Lines 293-331: the loop from column i on, with attcacheoff = off.
RECURSIVE ColmetaFrom(_, _, _, _)
ColmetaFrom(attrs, internal, i, off) ==
    IF i > Len(attrs) THEN <<>>
    ELSE LET a   == ColumnFormat(attrs[i], internal)
             cur == CacheOff(a, off)
         IN  <<[byval |-> a.byval, align |-> a.align, len |-> a.len,
                attnum |-> i, attcacheoff |-> cur]>>
             \o ColmetaFrom(attrs, internal, i + 1,
                            IF cur >= 0 THEN cur + a.len ELSE cur)

\* kds->colmeta as init_kern_data_store leaves it.
KdsColmeta(td, internal) == ColmetaFrom(td.attrs, internal, 1, HeapHeader(td.hasoid))

-----------------------------------------------------------------------------
(* The reference: heap tuple deforming *)

\* Column i starts at its alignment after the end of column i - 1, and the
\* first starts at the aligned end of the header.
RECURSIVE DeformStart(_, _, _)
DeformStart(attrs, hdr, i) ==
    TypeAlign(attrs[i].align,
              IF i = 1 THEN hdr ELSE DeformStart(attrs, hdr, i - 1) + attrs[i - 1].len)

\* A column's offset is the same in every tuple without nulls exactly when
\* it and all columns before it have a fixed length.
FixedPrefix(attrs, i) == \A k \in 1..i : attrs[k].len > 0

\* The colmeta entry a reader of the chunk expects for column i.
ExpectedColmeta(td, internal, i) ==
    LET attrs == [k \in 1..Len(td.attrs) |-> ColumnFormat(td.attrs[k], internal)]
    IN  [byval |-> attrs[i].byval, align |-> attrs[i].align, len |-> attrs[i].len,
         attnum |-> i,
         attcacheoff |-> IF FixedPrefix(attrs, i)
                         THEN DeformStart(attrs, HeapHeader(td.hasoid), i)
                         ELSE -1]
=============================================================================
