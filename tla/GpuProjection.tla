--------------------------- MODULE GpuProjection ---------------------------
(***************************************************************************)
(* One launch of gpusort_projection (src/src/cuda_gpusort.h): the blocks   *)
(* of the grid move the unclaimed rows of a row chunk kds_in into the      *)
(* sorting segment kds_slot and its result-index array kresults.           *)
(*                                                                         *)
(* A block is Warps warps; the model gives each warp one thread, the       *)
(* thread with global id b * Warps + w, since the threads of a warp read   *)
(* and write together.  Per block, in the code's order:                    *)
(*   - every thread deforms its row (if valid) and the block forms the     *)
(*     stairlike prefix sums of rows and extra bytes;                      *)
(*   - every warp reads kds_slot->nitems and ->usage for the quick         *)
(*     bailout, non-atomically and at its own time;                        *)
(*   - lid 0 does atomicAdd(&usage, extra_sum), then                       *)
(*     atomicAdd(&nitems, nrows_sum), each one step;                       *)
(*   - after __syncthreads the block confirms its reservation;             *)
(*   - lid 0 does atomicAdd(&kresults->nitems, nrows_sum);                 *)
(*   - the block checks nrooms, writes its result entries, copies its      *)
(*     rows, sets their claim bits and adds nrows_sum to n_loaded.         *)
(* Other blocks run these steps interleaved.  A row is its global id; a    *)
(* slot row or result entry is an index.                                   *)
(***************************************************************************)
EXTENDS Naturals, FiniteSets, FiniteSetsExt

CONSTANTS
  NBlocks,     \* grid size
  Warps,       \* warps (here: threads) per block
  NItemsIn,    \* possible kds_in->nitems
  ExtraLens,   \* possible MAXALIGNed extra_len of a deformed row
  SlotHead,    \* KERN_DATA_STORE_SLOT_LENGTH(kds_slot, 0)
  SlotRowSz,   \* bytes of values/isnull per slot row
  SlotLength,  \* kds_slot->length
  NRooms       \* kresults->nrooms

BlockIds == 0 .. NBlocks - 1
WarpIds  == 0 .. Warps - 1
RowIds   == 0 .. NBlocks * Warps - 1

VARIABLES
  nitemsIn,    \* kds_in->nitems
  claimed0,    \* rows whose row_index low bit was set before the launch
  extraLen,    \* extraLen[g]: extra bytes the row of thread g needs
  claimed,     \* rows whose low bit is set now
  slotNitems,  \* kds_slot->nitems
  slotUsage,   \* kds_slot->usage
  kresNitems,  \* kresults->nitems
  nLoaded,     \* kgpusort->n_loaded (rows moved by this launch)
  kerror,      \* kgpusort->kerror: "ok" or "nospace"
  pc,          \* pc[b]: where lid 0 of block b is
  seen,        \* seen[b][w]: the quick-bailout outcome warp w read
  extraBase,   \* __shared__ extra_base of block b
  nrowsBase,   \* __shared__ nrows_base of block b
  kresBase,    \* __shared__ kresults_base of block b
  slotRows,    \* <<kds_index, g>>: slot row kds_index holds row g
  resEntries,  \* <<k, kds_index>>: kresults->results[k] = kds_index
  confirmed    \* history: blocks that passed the confirmation check

vars == <<nitemsIn, claimed0, extraLen, claimed, slotNitems, slotUsage,
          kresNitems, nLoaded, kerror, pc, seen, extraBase, nrowsBase,
          kresBase, slotRows, resEntries, confirmed>>

Gid(b, w) == b * Warps + w

(* A thread has a tuple when its id is below kds_in->nitems and the row's *)
(* claim bit was clear at the start (lines 114-115).                      *)
ValidIgnoreClaim(g) == g < nitemsIn

Valid(g) == g < nitemsIn /\ g \notin claimed0

(* arithmetic_stairlike_add over the threads of block b: the exclusive    *)
(* prefix sum at w and the block total.                                   *)
RowsBefore(b, w) == Cardinality({v \in 0 .. w - 1 : Valid(Gid(b, v))})
NRowsSum(b)      == Cardinality({v \in WarpIds : Valid(Gid(b, v))})
ExtraOf(g)       == IF Valid(g) THEN extraLen[g] ELSE 0
ExtraSum(b)      == MapThenSumSet(LAMBDA v : ExtraOf(Gid(b, v)), WarpIds)

(* KERN_DATA_STORE_SLOT_LENGTH(kds_slot, n)                               *)
SlotLen(n) == SlotHead + SlotRowSz * n

(***************************************************************************)
(* Quick bailout (lines 138-144), read by warp w.  A warp that bails sets  *)
(* StromError_DataStoreNoSpace and leaves for `out`, where the error is    *)
(* written back.  lid 0 is in warp 0: passing, it goes on to its atomics   *)
(* without waiting for the other warps.                                    *)
(***************************************************************************)
QuickBail(b) ==
  SlotLen(slotNitems + NRowsSum(b)) + slotUsage + ExtraSum(b) > SlotLength

QuickCheck(b, w) ==
  /\ seen[b][w] = "none"
  /\ w = 0 => pc[b] = "start"
  /\ LET bail == QuickBail(b)
     IN /\ seen' = [seen EXCEPT ![b][w] = IF bail THEN "bail" ELSE "go"]
        /\ kerror' = IF bail THEN "nospace" ELSE kerror
        /\ pc' = IF w = 0 THEN [pc EXCEPT ![b] = IF bail THEN "out" ELSE "usage"]
                 ELSE pc
  /\ UNCHANGED <<nitemsIn, claimed0, extraLen, claimed, slotNitems, slotUsage,
                 kresNitems, nLoaded, extraBase, nrowsBase, kresBase,
                 slotRows, resEntries, confirmed>>

(* extra_base = atomicAdd(&kds_slot->usage, extra_sum)                    *)
AtomicUsage(b) ==
  /\ pc[b] = "usage"
  /\ extraBase' = [extraBase EXCEPT ![b] = slotUsage]
  /\ slotUsage' = slotUsage + ExtraSum(b)
  /\ pc' = [pc EXCEPT ![b] = "nitems"]
  /\ UNCHANGED <<nitemsIn, claimed0, extraLen, claimed, slotNitems, kresNitems,
                 nLoaded, kerror, seen, nrowsBase, kresBase, slotRows, resEntries,
                 confirmed>>

(* nrows_base = atomicAdd(&kds_slot->nitems, nrows_sum)                   *)
AtomicNitems(b) ==
  /\ pc[b] = "nitems"
  /\ nrowsBase' = [nrowsBase EXCEPT ![b] = slotNitems]
  /\ slotNitems' = slotNitems + NRowsSum(b)
  /\ pc' = [pc EXCEPT ![b] = "sync"]
  /\ UNCHANGED <<nitemsIn, claimed0, extraLen, claimed, slotUsage, kresNitems,
                 nLoaded, kerror, seen, extraBase, kresBase, slotRows, resEntries,
                 confirmed>>

(***************************************************************************)
(* __syncthreads() at line 152, then the confirmation (lines 155-161).     *)
(* When every warp passed, the block tests its own reservation; failing,   *)
(* it sets NoSpace and leaves, and nothing gives back what the atomics     *)
(* took.  When every warp bailed, the block is over.  When some warps      *)
(* bailed and some did not, part of the block waits at a barrier the rest  *)
(* has left: undefined behaviour, after which the model lets that block do *)
(* nothing more.                                                           *)
(***************************************************************************)
ConfirmFails(b) ==
  SlotLen(nrowsBase[b] + NRowsSum(b)) + (extraBase[b] + ExtraSum(b)) > SlotLength

AllSeen(b) == \A w \in WarpIds : seen[b][w] # "none"

(* Mutant: a failed confirmation leaves without STROM_SET_ERROR.         *)
Barrier1ConfirmSilent(b) ==
  /\ pc[b] \in {"sync", "out"}
  /\ AllSeen(b)
  /\ CASE pc[b] = "sync" /\ \A w \in WarpIds : seen[b][w] = "go" ->
            /\ pc' = [pc EXCEPT ![b] = IF ConfirmFails(b) THEN "done" ELSE "kres"]
            /\ UNCHANGED kerror
            /\ confirmed' = IF ConfirmFails(b) THEN confirmed ELSE confirmed \cup {b}
       [] pc[b] = "out" /\ \A w \in WarpIds : seen[b][w] = "bail" ->
            /\ pc' = [pc EXCEPT ![b] = "done"]
            /\ UNCHANGED <<kerror, confirmed>>
       [] OTHER ->
            /\ pc' = [pc EXCEPT ![b] = "diverged"]
            /\ UNCHANGED <<kerror, confirmed>>
  /\ UNCHANGED <<nitemsIn, claimed0, extraLen, claimed, slotNitems, slotUsage,
                 kresNitems, nLoaded, seen, extraBase, nrowsBase, kresBase,
                 slotRows, resEntries>>

Barrier1(b) ==
  /\ pc[b] \in {"sync", "out"}
  /\ AllSeen(b)
  /\ CASE pc[b] = "sync" /\ \A w \in WarpIds : seen[b][w] = "go" ->
            /\ pc' = [pc EXCEPT ![b] = IF ConfirmFails(b) THEN "done" ELSE "kres"]
            /\ kerror' = IF ConfirmFails(b) THEN "nospace" ELSE kerror
            /\ confirmed' = IF ConfirmFails(b) THEN confirmed ELSE confirmed \cup {b}
       [] pc[b] = "out" /\ \A w \in WarpIds : seen[b][w] = "bail" ->
            /\ pc' = [pc EXCEPT ![b] = "done"]
            /\ UNCHANGED <<kerror, confirmed>>
       [] OTHER ->
            /\ pc' = [pc EXCEPT ![b] = "diverged"]
            /\ UNCHANGED <<kerror, confirmed>>
  /\ UNCHANGED <<nitemsIn, claimed0, extraLen, claimed, slotNitems, slotUsage,
                 kresNitems, nLoaded, seen, extraBase, nrowsBase, kresBase,
                 slotRows, resEntries>>

(* kresults_base = atomicAdd(&kresults->nitems, nrows_sum)                *)
AtomicKres(b) ==
  /\ pc[b] = "kres"
  /\ kresBase' = [kresBase EXCEPT ![b] = kresNitems]
  /\ kresNitems' = kresNitems + NRowsSum(b)
  /\ pc' = [pc EXCEPT ![b] = "check"]
  /\ UNCHANGED <<nitemsIn, claimed0, extraLen, claimed, slotNitems, slotUsage,
                 nLoaded, kerror, seen, extraBase, nrowsBase, slotRows, resEntries,
                 confirmed>>

(***************************************************************************)
(* Lines 174-249: the nrooms check (NoSpace and out on failure, again with *)
(* no rollback), then line 180, then the copy into the slot rows, the      *)
(* claim bits and n_loaded.  Line 180 is run by EVERY thread of the block: *)
(* a thread with no tuple has nrows_ofs equal to the rows before it, so    *)
(* it stores the same index as the next thread with a tuple, or, when no   *)
(* such thread follows, stores nrows_base + nrows_sum at                   *)
(* results[kresults_base + nrows_sum], the first entry of whichever block  *)
(* reserved next, or results[nrooms].  A store replaces what another block *)
(* stored there.  The copy, the claim bits and the atomicAdd on n_loaded   *)
(* touch only this block's rows, and the only cross-block effect of line   *)
(* 180 is which block stores an entry last, so the block's run is one     *)
(* step.                                                                   *)
(***************************************************************************)
BlockRows(b) == {w \in WarpIds : Valid(Gid(b, w))}

KdsIndex(b, w) == nrowsBase[b] + RowsBefore(b, w)

(* The stores of line 180 by the threads ws of block b.                   *)
ResStores(b, ws) == {<<kresBase[b] + RowsBefore(b, w), KdsIndex(b, w)>> : w \in ws}

(* resEntries after the stores st: each stored location holds its new     *)
(* value.                                                                  *)
Store(st) ==
  {e \in resEntries : e[1] \notin {x[1] : x \in st}} \cup st

WriteBack(b) ==
  /\ resEntries' = Store(ResStores(b, WarpIds))
  /\ slotRows' = slotRows \cup {<<KdsIndex(b, w), Gid(b, w)>> : w \in BlockRows(b)}
  /\ claimed' = claimed \cup {Gid(b, w) : w \in BlockRows(b)}
  /\ nLoaded' = nLoaded + NRowsSum(b)

(* Mutant: the nrooms check of line 175 left out.                        *)
ResultsCheckNoRooms(b) ==
  /\ pc[b] = "check"
  /\ pc' = [pc EXCEPT ![b] = "done"]
  /\ WriteBack(b)
  /\ UNCHANGED kerror
  /\ UNCHANGED <<nitemsIn, claimed0, extraLen, slotNitems, slotUsage,
                 kresNitems, seen, extraBase, nrowsBase, kresBase, confirmed>>

ResultsCheck(b) ==
  /\ pc[b] = "check"
  /\ pc' = [pc EXCEPT ![b] = "done"]
  /\ IF kresBase[b] + NRowsSum(b) > NRooms
       THEN /\ kerror' = "nospace"
            /\ UNCHANGED <<claimed, nLoaded, slotRows, resEntries>>
       ELSE /\ WriteBack(b)
            /\ UNCHANGED kerror
  /\ UNCHANGED <<nitemsIn, claimed0, extraLen, slotNitems, slotUsage,
                 kresNitems, seen, extraBase, nrowsBase, kresBase, confirmed>>

(***************************************************************************)
(* The launch.  kds_in's row count, which of its rows an earlier launch    *)
(* over the same grid already moved (whole blocks of them), and the extra *)
(* bytes of each row are inputs; kds_slot and kresults start empty.        *)
(***************************************************************************)
Init ==
  /\ nitemsIn \in NItemsIn
  /\ claimed0 \in {UNION {{Gid(b, w) : w \in WarpIds} \cap 0 .. nitemsIn - 1 :
                          b \in S} : S \in SUBSET BlockIds}
  /\ extraLen \in [RowIds -> ExtraLens]
  /\ claimed = claimed0
  /\ slotNitems = 0
  /\ slotUsage = 0
  /\ kresNitems = 0
  /\ nLoaded = 0
  /\ kerror = "ok"
  /\ pc = [b \in BlockIds |-> "start"]
  /\ seen = [b \in BlockIds |-> [w \in WarpIds |-> "none"]]
  /\ extraBase = [b \in BlockIds |-> 0]
  /\ nrowsBase = [b \in BlockIds |-> 0]
  /\ kresBase = [b \in BlockIds |-> 0]
  /\ slotRows = {}
  /\ resEntries = {}
  /\ confirmed = {}

Next ==
  \E b \in BlockIds :
    \/ \E w \in WarpIds : QuickCheck(b, w)
    \/ AtomicUsage(b)
    \/ AtomicNitems(b)
    \/ Barrier1(b)
    \/ AtomicKres(b)
    \/ ResultsCheck(b)

Spec == Init /\ [][Next]_vars

(* Every block of the launch has left the kernel.                        *)
Finished == \A b \in BlockIds : pc[b] \in {"done", "diverged"}

(***************************************************************************)
(* Properties.                                                             *)
(***************************************************************************)
TypeOK ==
  /\ nitemsIn \in NItemsIn
  /\ claimed0 \subseteq claimed /\ claimed \subseteq RowIds
  /\ extraLen \in [RowIds -> ExtraLens]
  /\ {slotNitems, slotUsage, kresNitems, nLoaded} \subseteq Nat
  /\ kerror \in {"ok", "nospace"}
  /\ pc \in [BlockIds -> {"start", "usage", "nitems", "sync", "out", "kres",
                          "check", "done", "diverged"}]
  /\ seen \in [BlockIds -> [WarpIds -> {"none", "go", "bail"}]]
  /\ slotRows \subseteq Nat \X RowIds
  /\ resEntries \subseteq (0 .. NRooms) \X Nat

(* Every row this launch claims was copied into exactly one slot row, no  *)
(* two rows share a slot row, and a row an earlier launch claimed (the     *)
(* row_index low bit, line 115) is never copied again.  Holding needs the *)
(* atomicAdd on kds_slot->nitems (line 150) and the stairlike offsets to   *)
(* give every block a range of its own and the claim bits to be set only   *)
(* for rows that were copied (line 244).                                  *)
RowsCopiedOnce ==
  /\ \A g \in RowIds :
       Cardinality({s \in slotRows : s[2] = g}) =
         IF g \in claimed \ claimed0 THEN 1 ELSE 0
  /\ \A s1, s2 \in slotRows : s1[1] = s2[1] => s1 = s2

(* After the launch no entry was stored at or past nrooms, every entry    *)
(* below kresults->nitems that the launch stored (line 180) refers to a    *)
(* slot row the launch filled, and every filled slot row is referred to by *)
(* exactly one of them: the sort kernels permute exactly the rows of the   *)
(* segment.                                                                *)
ResultsReferToLoadedRows ==
  Finished =>
    /\ \A e \in resEntries : e[1] < NRooms
    /\ \A e \in resEntries : e[1] < kresNitems => \E s \in slotRows : s[1] = e[2]
    /\ \A s \in slotRows :
         Cardinality({e \in resEntries : e[1] < kresNitems /\ e[2] = s[1]}) = 1

(* When the launch is over and a valid row of kds_in was left unclaimed,  *)
(* kgpusort->kerror says NoSpace, so the host opens a new segment for it   *)
(* instead of losing the row (spec 4.5: out-of-space is surfaced via the  *)
(* status field).                                                          *)
NoSilentLeftover ==
  Finished /\ (\E g \in RowIds : Valid(g) /\ g \notin claimed)
    => kerror = "nospace"

(* The slot rows and the extra areas that blocks passing the confirmation *)
(* (line 155) hold lie inside kds_slot and do not overlap: the values      *)
(* area of the segment ends before the extra area of every such block.    *)
SlotRegionsDisjoint ==
  \A a, b \in confirmed :
    NRowsSum(a) > 0 /\ ExtraSum(b) > 0 =>
      SlotLen(nrowsBase[a] + NRowsSum(a)) <= SlotLength - (extraBase[b] + ExtraSum(b))

(* After the launch every entry below kresults->nitems holds an index the *)
(* launch wrote: the sort kernels, which gpusort_main runs on the segment  *)
(* even after a NoSpace error (MEMO at lines 490-491), read exactly these. *)
ResultsWritten ==
  Finished => \A k \in 0 .. kresNitems - 1 : \E e \in resEntries : e[1] = k

(* All threads of a block take the same quick-bailout decision, so every   *)
(* __syncthreads() of the block is reached by all of its threads or none. *)
BlockBailsTogether == \A b \in BlockIds : pc[b] # "diverged"

=============================================================================
