---------------------------- MODULE DataStoreRow ----------------------------
(***************************************************************************)
(* A row-format kern_data_store (src/unnamed/part_000, datastore.c) and    *)
(* the two operations that fill it:                                        *)
(*   pgstrom_data_store_insert_block - copy the visible tuples of a heap   *)
(*     page, all or nothing, or return -1 ("load it on the next chunk");   *)
(*   pgstrom_data_store_insert_tuple - copy one tuple of a slot, or return *)
(*     false when it does not fit.                                         *)
(* The chunk grows from both ends: the index array of uint offsets grows   *)
(* forward from KERN_DATA_STORE_BODY (HeadSz bytes from the base), the     *)
(* kern_tupitem records (t_len, t_self, then the tuple bytes) grow         *)
(* backward from kds->length; kds->usage counts the bytes of the tail.     *)
(*                                                                         *)
(* Bytes are counted exactly (widths and alignments of the code, scaled    *)
(* sizes for the chunk and the block); tuple contents are not: an item is  *)
(* its offset, its t_len and its t_self.  A heap page is its line          *)
(* pointers: not normal, or a tuple of some length that the scan's         *)
(* snapshot sees or not.                                                   *)
(***************************************************************************)
EXTENDS Naturals, Sequences, FiniteSets

CONSTANTS
  ChunkLen,      \* kds->length = pds->kds_length
  HeadSz,        \* STROMALIGN(offsetof(kern_data_store, colmeta[ncols]))
  TupItemHdr,    \* offsetof(kern_tupitem, htup)
  BLCKSZ,        \* heap block size
  PageHdrSz,     \* SizeOfPageHeaderData
  Blocks,        \* block numbers of the relation
  TupLens,       \* possible t_len of a heap tuple
  MaxLines,      \* most line pointers on a page
  MaxTupleCalls, \* bound on insert_tuple calls
  NotNormal      \* a line pointer that is unused, dead or a redirect

ASSUME ChunkLen \in Nat /\ HeadSz \in Nat /\ TupItemHdr \in Nat
ASSUME Blocks \subseteq Nat \ {0}

VARIABLES
  nitems,    \* kds->nitems
  usage,     \* kds->usage
  items,     \* items[k+1] = [ofs, len, self]: tup_index[k] and its kern_tupitem
  pages,     \* pages[b] = [lps, allVisible]: the heap page of block b
  recovery,  \* snapshot->takenDuringRecovery
  tried,     \* blocks already handed to insert_block for this chunk
  loaded,    \* blocks insert_block copied (returned >= 0)
  ncalls     \* insert_tuple calls made so far

vars == <<nitems, usage, items, pages, recovery, tried, loaded, ncalls>>

TYPEALIGN(a, x) == ((x + a - 1) \div a) * a
LONGALIGN(x) == TYPEALIGN(8, x)
MAXALIGN(x) == TYPEALIGN(8, x)

(* sizeof(uint): one entry of the index array.                            *)
IndexEntrySz == 4

(***************************************************************************)
(* Heap pages.  A page holds its line pointers and tuples in BLCKSZ; a     *)
(* page marked all-visible has only tuples every snapshot sees, except     *)
(* that a snapshot taken during recovery may not trust the flag (the       *)
(* reason heapgetpage() and insert_block test takenDuringRecovery).        *)
(***************************************************************************)
LinePointer == {NotNormal} \cup [len : TupLens, visible : BOOLEAN]

PageFits(lps) ==
  LET tups == {l \in DOMAIN lps : lps[l] # NotNormal}
      RECURSIVE Bytes(_)
      Bytes(S) == IF S = {} THEN 0
                  ELSE LET l == CHOOSE x \in S : TRUE
                       IN MAXALIGN(lps[l].len) + Bytes(S \ {l})
  IN PageHdrSz + 4 * Len(lps) + Bytes(tups) <= BLCKSZ

Page == {pg \in [lps : UNION {[1 .. n -> LinePointer] : n \in 1 .. MaxLines},
                 allVisible : BOOLEAN] : PageFits(pg.lps)}

ConsistentPage(pg, inRecovery) ==
  pg.allVisible /\ ~inRecovery =>
    \A l \in DOMAIN pg.lps : pg.lps[l] # NotNormal => pg.lps[l].visible

(* The tuples of block b the scan's snapshot sees.                        *)
VisibleTuples(b) ==
  {<<b, l>> : l \in {x \in DOMAIN pages[b].lps :
                       pages[b].lps[x] # NotNormal /\ pages[b].lps[x].visible}}

(***************************************************************************)
(* pgstrom_data_store_insert_block(pds, rel, blknum, snapshot, prune).     *)
(* The pre-check assumes every line pointer yields a tuple; on failure the *)
(* chunk is untouched and -1 goes back.  Otherwise every normal line       *)
(* pointer in offset order is tested (all_visible short-cuts the test      *)
(* unless the snapshot was taken during recovery), each visible tuple gets *)
(* usage += LONGALIGN(t_len), its kern_tupitem is written at length-usage  *)
(* and its offset into tup_index[nitems + ntup]; nitems += ntup at the end.*)
(***************************************************************************)
(* Mutant: the pre-check without the one-page safety margin.             *)
MaxConsumeNoMargin(lines) ==
  HeadSz + IndexEntrySz * (nitems + lines) + TupItemHdr * lines + usage

MaxConsume(lines) ==
  HeadSz + IndexEntrySz * (nitems + lines) + TupItemHdr * lines + BLCKSZ + usage

(* Mutant: the all-visible flag trusted even under a recovery snapshot.  *)
RECURSIVE ScanPageTrustFlag(_, _, _, _)
ScanPageTrustFlag(b, lineoff, used, acc) ==
  LET pg    == pages[b]
      lp    == pg.lps[lineoff]
      valid == pg.allVisible \/ lp.visible
  IN IF lineoff > Len(pg.lps) THEN acc
     ELSE IF lp = NotNormal \/ ~valid
       THEN ScanPageTrustFlag(b, lineoff + 1, used, acc)
     ELSE LET used2 == used + LONGALIGN(lp.len)
          IN ScanPageTrustFlag(b, lineoff + 1, used2,
                      Append(acc, [ofs |-> ChunkLen - used2, len |-> lp.len,
                                   self |-> <<b, lineoff>>]))

(* The items a scan of the page appends to a tail of `used` bytes.        *)
RECURSIVE ScanPage(_, _, _, _)
ScanPage(b, lineoff, used, acc) ==
  LET pg    == pages[b]
      lp    == pg.lps[lineoff]
      valid == (pg.allVisible /\ ~recovery) \/ lp.visible
  IN IF lineoff > Len(pg.lps) THEN acc
     ELSE IF lp = NotNormal \/ ~valid
       THEN ScanPage(b, lineoff + 1, used, acc)
     ELSE LET used2 == used + LONGALIGN(lp.len)
          IN ScanPage(b, lineoff + 1, used2,
                      Append(acc, [ofs |-> ChunkLen - used2, len |-> lp.len,
                                   self |-> <<b, lineoff>>]))

(* Mutant: the closing kds->nitems += ntup left out.                      *)
InsertBlockNoCount(b) ==
  /\ b \notin tried
  /\ tried' = tried \cup {b}
  /\ IF MaxConsume(Len(pages[b].lps)) > ChunkLen
       THEN UNCHANGED <<nitems, usage, items, loaded>>
       ELSE LET new == ScanPage(b, 1, usage, <<>>)
            IN /\ items' = items \o new
               /\ usage' = IF new = <<>> THEN usage
                           ELSE ChunkLen - new[Len(new)].ofs
               /\ loaded' = loaded \cup {b}
               /\ UNCHANGED nitems
  /\ UNCHANGED <<pages, recovery, ncalls>>

InsertBlock(b) ==
  /\ b \notin tried
  /\ tried' = tried \cup {b}
  /\ IF MaxConsume(Len(pages[b].lps)) > ChunkLen
       THEN UNCHANGED <<nitems, usage, items, loaded>>
       ELSE LET new == ScanPage(b, 1, usage, <<>>)
            IN /\ items' = items \o new
               /\ usage' = IF new = <<>> THEN usage
                           ELSE ChunkLen - new[Len(new)].ofs
               /\ nitems' = nitems + Len(new)
               /\ loaded' = loaded \cup {b}
  /\ UNCHANGED <<pages, recovery, ncalls>>

(***************************************************************************)
(* pgstrom_data_store_insert_tuple(pds, slot).  nrooms is INT_MAX for a    *)
(* row store, so the first test never fails here.  The room check counts  *)
(* the index array with the new entry, the tail and the new item; when it *)
(* passes, usage grows by LONGALIGN(header + t_len), the item is written   *)
(* at length - usage and its offset goes to tup_index[nitems++].  The      *)
(* slot's tuple carries the t_self <<0, n>> of the n-th call.              *)
(***************************************************************************)
TupleConsume(len) ==
  HeadSz + IndexEntrySz * (nitems + 1) + usage + LONGALIGN(TupItemHdr + len)

(* Mutant: the item written at length - usage before usage is advanced.  *)
InsertTupleWriteFirst(len) ==
  /\ ncalls < MaxTupleCalls
  /\ ncalls' = ncalls + 1
  /\ IF TupleConsume(len) > ChunkLen
       THEN UNCHANGED <<nitems, usage, items>>
       ELSE /\ usage' = usage + LONGALIGN(TupItemHdr + len)
            /\ items' = Append(items, [ofs |-> ChunkLen - usage, len |-> len,
                                       self |-> <<0, ncalls + 1>>])
            /\ nitems' = nitems + 1
  /\ UNCHANGED <<pages, recovery, tried, loaded>>

InsertTuple(len) ==
  /\ ncalls < MaxTupleCalls
  /\ ncalls' = ncalls + 1
  /\ IF TupleConsume(len) > ChunkLen
       THEN UNCHANGED <<nitems, usage, items>>
       ELSE LET used == usage + LONGALIGN(TupItemHdr + len)
            IN /\ usage' = used
               /\ items' = Append(items, [ofs |-> ChunkLen - used, len |-> len,
                                          self |-> <<0, ncalls + 1>>])
               /\ nitems' = nitems + 1
  /\ UNCHANGED <<pages, recovery, tried, loaded>>

(***************************************************************************)
(* kern_fetch_data_store, row format: row_index >= nitems is "no row";     *)
(* otherwise the kern_tupitem at tup_index[row_index] is read in place.    *)
(* What it yields is what insert stored only if those bytes lie inside the *)
(* chunk and nothing written later (another item or the index array)       *)
(* overlapped them; otherwise it reads bytes of someone else.              *)
(***************************************************************************)
NoRow == [t_len |-> 0, t_self |-> <<0, 0>>]
Garbage == [t_len |-> 0, t_self |-> <<0, 0>>, clobbered |-> TRUE]

Footprint(it) == it.ofs .. (it.ofs + TupItemHdr + it.len - 1)
IndexArea == HeadSz .. (HeadSz + IndexEntrySz * nitems - 1)

Intact(k) ==
  /\ Footprint(items[k + 1]) \subseteq 0 .. ChunkLen - 1
  /\ Footprint(items[k + 1]) \cap IndexArea = {}
  /\ \A m \in (k + 2) .. Len(items) :
       Footprint(items[k + 1]) \cap Footprint(items[m]) = {}

KdsFetch(k) ==
  IF k >= nitems THEN NoRow
  ELSE IF Intact(k) THEN [t_len |-> items[k + 1].len, t_self |-> items[k + 1].self]
  ELSE Garbage

Init ==
  /\ recovery \in BOOLEAN
  /\ pages \in {pg \in [Blocks -> Page] :
                  \A b \in Blocks : ConsistentPage(pg[b], recovery)}
  /\ nitems = 0
  /\ usage = 0
  /\ items = <<>>
  /\ tried = {}
  /\ loaded = {}
  /\ ncalls = 0

Next ==
  \/ \E b \in Blocks : InsertBlock(b)
  \/ \E len \in TupLens : InsertTuple(len)

Spec == Init /\ [][Next]_vars

(***************************************************************************)
(* Properties.                                                             *)
(***************************************************************************)
Item == [ofs : 0 .. ChunkLen, len : TupLens, self : ({0} \X (1 .. MaxTupleCalls)) \cup
                                          (Blocks \X (1 .. MaxLines))]

TypeOK ==
  /\ nitems = Len(items)
  /\ usage \in 0 .. ChunkLen
  /\ items \in Seq(Item)
  /\ recovery \in BOOLEAN
  /\ tried \subseteq Blocks /\ loaded \subseteq tried
  /\ ncalls \in 0 .. MaxTupleCalls

(* The double-ended layout of spec section 8: the end of the index array  *)
(* plus the tail the chunk accounts for (kds->usage) never passes          *)
(* kds->length, whatever mix of insert_block and insert_tuple filled it.   *)
DoubleEnded == HeadSz + IndexEntrySz * nitems + usage <= ChunkLen

(* Round trip (spec section 8): for every stored row, kern_fetch_data_store *)
(* yields the t_len and t_self its insert stored; i.e. the kern_tupitem   *)
(* written by insert_tuple or insert_block lies inside the chunk and is    *)
(* not overwritten by a later item or by the index array.                  *)
FetchRoundTrip ==
  \A k \in 0 .. nitems - 1 :
    KdsFetch(k) = [t_len |-> items[k + 1].len, t_self |-> items[k + 1].self]

(* As long as no heap block was loaded into the chunk, the round trip    *)
(* holds: the rows insert_tuple stores (the slot tuples of a sort or hash *)
(* store) read back with their own t_len and t_self, up to and past the    *)
(* call whose room check first fails.                                     *)
TupleRowsRoundTrip == loaded = {} => FetchRoundTrip

(* insert_block is all or nothing and filters by the snapshot: the block   *)
(* rows of the chunk are exactly the tuples the snapshot sees on the       *)
(* blocks it loaded, even for an all-visible page read by a snapshot taken *)
(* during recovery, and no row of a block came twice.                      *)
LoadedExactlyVisible ==
  /\ {items[k].self : k \in {x \in DOMAIN items : items[x].self[1] # 0}}
       = UNION {VisibleTuples(b) : b \in loaded}
  /\ \A x, y \in DOMAIN items : x # y => items[x].self # items[y].self

=============================================================================
