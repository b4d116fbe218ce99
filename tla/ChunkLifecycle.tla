--------------------------- MODULE ChunkLifecycle ---------------------------
(***************************************************************************)
(* Creation, file mapping and release of data-store chunks                 *)
(* (src/unnamed/part_000:242-265 and 334-529).                             *)
(*                                                                         *)
(* A chunk (pgstrom_data_store, "pds") is created by a GpuContext, which   *)
(* pushes it onto its pds_list registry.  A row chunk lives in memory or   *)
(* in a new temporary file mapped MAP_SHARED; a slot chunk lives in memory *)
(* or, when it is given a file-backed toast chunk, in the same file at the *)
(* BLCKSZ-aligned offset after the toast's region.  A background worker    *)
(* maps a region of such a file with pgstrom_file_mmap_data_store.         *)
(* Release detaches the chunk from pds_list, releases its toast first,     *)
(* unmaps and unlinks its file.  At teardown the context releases what is  *)
(* left on pds_list (spec section 3, "Lifecycle"); that code is not under  *)
(* src/ and is modelled from the spec, in no particular order.             *)
(*                                                                         *)
(* Sizes are bytes at a scaled BLCKSZ.  Contents are abstracted to whether *)
(* a mapping's bytes are still those written through it: an ftruncate     *)
(* that shrinks the file below the end of a mapped region destroys them.  *)
(* The two reads of a kds_length that holds no computed value (line 380,  *)
(* an uninitialised local; lines 426, 447 and 462, a name the function     *)
(* does not declare) are a choice among pds->kds_length + StaleDeltas.    *)
(***************************************************************************)
EXTENDS Integers, Sequences, SequencesExt, FiniteSets, Layout

CONSTANTS
    Pds,          \* chunk descriptors the processes may allocate
    Names,        \* temporary file names get_pgstrom_temp_filename may return
    NoPds,        \* the NULL pds pointer
    NoName,       \* the NULL kds_fname
    KdsHead,      \* offsetof(kern_data_store, colmeta[0])
    ColMetaSz,    \* sizeof(kern_colmeta)
    TupDescs,     \* the tuple descriptors a context may create chunks for
    BLCKSZ,
    RowLens,      \* the length arguments of pgstrom_create_data_store_row
    SlotRooms,    \* the nrooms arguments of pgstrom_create_data_store_slot
    StaleDeltas   \* how far an unset kds_length may lie from pds->kds_length

ASSUME /\ NoPds \notin Pds /\ NoName \notin Names
       /\ 0 \in StaleDeltas

VARIABLES
    tupdesc,   \* the context's tuple descriptor
    pds,       \* [Pds -> descriptor]
    pdsList,   \* gcontext->pds_list, in push order
    fsize,     \* [Names -> size of the file's inode, -1 before it is created]
    linked,    \* the names currently present in the directory
    unlinks,   \* [Names -> number of unlink() calls on the name]
    pc         \* "run", "teardown" (the context is released) or "wild" (UB)

vars == <<tupdesc, pds, pdsList, fsize, linked, unlinks, pc>>

NAtts == Len(tupdesc.attrs)

\* STROMALIGN(offsetof(kern_data_store, colmeta[tupdesc->natts])).
HeadSz == TypeAlign(8, KdsHead + ColMetaSz * NAtts)

\* Lines 353-355 and 420-423.
RowKdsLength(len) == HeadSz + TypeAlign(8, len)
SlotKdsLength(nrooms) ==
    HeadSz + (TypeAlign(8, NAtts) + TypeAlign(8, 8 * NAtts)) * nrooms

\* What a read of the unset kds_length may yield.
Unset(klen) == {klen + d : d \in StaleDeltas} \cap Nat

\* A descriptor: st is unused, live, freed, or unmapped (a worker's pds
\* after pgstrom_file_unmap_data_store); klen and kofs are pds->kds_length
\* and pds->kds_offset; mofs and mlen the file region mapped (or the bytes
\* allocated); length and colmeta are kds->length and kds->colmeta as
\* init_kern_data_store sets them (0 and <<>> in a chunk an ERROR left
\* before that call), internal its internal_format argument;
\* intact says the mapped bytes are still those written through it.
Unused == [st |-> "unused", fmt |-> "row", fname |-> NoName, klen |-> 0,
           kofs |-> 0, mofs |-> 0, mlen |-> 0, length |-> 0, ktoast |-> NoPds,
           colmeta |-> <<>>, internal |-> FALSE, worker |-> FALSE, intact |-> TRUE]

Live == {p \in Pds : pds[p].st = "live"}
Fresh == {p \in Pds : pds[p].st = "unused"}
FreshNames == {f \in Names : fsize[f] = -1}

\* Chunks a live chunk holds as its toast.
Owned == {pds[p].ktoast : p \in Live} \ {NoPds}

\* The effect of ftruncate(f, n) on the regions mapped from f.
Truncated(ps, f, n) ==
    [p \in Pds |-> IF /\ ps[p].st = "live" /\ ps[p].fname = f
                      /\ ps[p].mofs + ps[p].mlen > n
                   THEN [ps[p] EXCEPT !.intact = FALSE] ELSE ps[p]]

\* A region just mapped is intact when it lies inside the file.
Mapped(r, size) == [r EXCEPT !.intact = (r.mofs + r.mlen <= size)]

\* An ERROR (ereport(ERROR)) of a system call: the operation is abandoned
\* with the state it has reached, and the transaction's abort tears the
\* context down.
Abort(ps, l, fs, lk) ==
    /\ pds' = ps /\ pdsList' = l /\ fsize' = fs /\ linked' = lk
    /\ pc' = "teardown"
    /\ UNCHANGED unlinks

-----------------------------------------------------------------------------
(* Creation, lines 334-465 *)

\* Lines 345-392 and 399: pds allocated zeroed and pushed onto pds_list
\* before the storage exists; file_mapped creates a new file, truncates it
\* to pds->kds_length and maps the unset kds_length.  Any of the three
\* system calls may fail with an ERROR; mmap always does for length 0.
CreateRow ==
    /\ pc = "run"
    /\ UNCHANGED tupdesc
    /\ \E p \in Fresh, len \in RowLens :
        LET klen == RowKdsLength(len)
            base == [Unused EXCEPT !.st = "live", !.klen = klen]
            l    == Append(pdsList, p)
        IN
        \/ /\ pds' = [pds EXCEPT ![p] = [base EXCEPT !.mlen = klen, !.length = klen,
                                                    !.colmeta = KdsColmeta(tupdesc, FALSE)]]
           /\ pdsList' = l
           /\ UNCHANGED <<fsize, linked, unlinks, pc>>
        \/ \E f \in FreshNames :
             LET named == [base EXCEPT !.fname = f]
                 fs    == [fsize EXCEPT ![f] = klen]
             IN
             \/ Abort([pds EXCEPT ![p] = named], l, fsize, linked)
             \/ Abort([pds EXCEPT ![p] = named], l, [fsize EXCEPT ![f] = 0],
                      linked \cup {f})
             \/ Abort([pds EXCEPT ![p] = named], l, fs, linked \cup {f})
             \/ \E n \in Unset(klen) \ {0} :
                  /\ pds' = [pds EXCEPT ![p] =
                               Mapped([named EXCEPT !.mlen = n, !.length = klen,
                                             !.colmeta = KdsColmeta(tupdesc, FALSE)],
                                      klen)]
                  /\ pdsList' = l
                  /\ fsize' = fs
                  /\ linked' = linked \cup {f}
                  /\ UNCHANGED <<unlinks, pc>>

\* Line 430: the slot region starts at the first block after the toast's.
SlotOffset(t) == TypeAlign(BLCKSZ, pds[t].klen)

\* The toast chunks a caller may hand to pgstrom_create_data_store_slot: a
\* live row chunk of this context that no other chunk owns yet.
Toasts == {t \in Live : pds[t].fmt = "row" /\ ~pds[t].worker} \ Owned

\* Line 425: no toast, or a toast in memory.
InMemory(t) == IF t = NoPds THEN TRUE ELSE pds[t].fname = NoName

\* Lines 415-463.  The storage is sized and initialised by the undeclared
\* kds_length; a file-backed toast makes the slot chunk reopen the toast's
\* file, extend it to cover both regions and map its own region.
\* pds->kds_offset is left zero.  pds->ktoast is set only at line 460,
\* after the last ERROR exit.
CreateSlot ==
    /\ pc = "run"
    /\ UNCHANGED tupdesc
    /\ \E p \in Fresh, nrooms \in SlotRooms, t \in Toasts \cup {NoPds},
          internal \in BOOLEAN :
        LET klen == SlotKdsLength(nrooms)
            base == [Unused EXCEPT !.st = "live", !.fmt = "slot", !.klen = klen,
                                   !.internal = internal]
            cm   == KdsColmeta(tupdesc, internal)
            l    == Append(pdsList, p)
        IN
        \E n \in Unset(klen) :
        \/ /\ InMemory(t)
           /\ pds' = [pds EXCEPT ![p] = [base EXCEPT !.mlen = n, !.length = n,
                                                    !.colmeta = cm, !.ktoast = t]]
           /\ pdsList' = l
           /\ UNCHANGED <<fsize, linked, unlinks, pc>>
        \/ /\ ~InMemory(t)
           /\ LET f     == pds[t].fname
                  ofs   == SlotOffset(t)
                  named == [base EXCEPT !.fname = f]
                  fs    == [fsize EXCEPT ![f] = ofs + klen]
                  ps    == Truncated(pds, f, ofs + klen)
              IN
              \/ Abort([pds EXCEPT ![p] = named], l, fsize, linked)
              \/ Abort([pds EXCEPT ![p] = named], l, fs, linked)
              \/ Abort([ps EXCEPT ![p] = named], l, fs, linked)
              \/ /\ n > 0
                 /\ pds' = [ps EXCEPT ![p] =
                              Mapped([named EXCEPT !.mofs = ofs, !.mlen = n,
                                                   !.length = n, !.colmeta = cm,
                                                   !.ktoast = t],
                                     ofs + klen)]
                 /\ pdsList' = l
                 /\ fsize' = fs
                 /\ UNCHANGED <<linked, unlinks, pc>>

-----------------------------------------------------------------------------
(* The background worker, lines 473-529 *)

\* Lines 473-515: a worker maps the region a backend chunk, created and
\* initialised, describes by its kds_fname, kds_offset and kds_length.  The pds is palloc0'd and is
\* on no pds_list; ftruncate sets the file to exactly offset + length.
FileMmap ==
    /\ pc = "run"
    /\ UNCHANGED tupdesc
    /\ \E p \in Fresh, q \in Live :
        /\ ~pds[q].worker
        /\ pds[q].length > 0
        /\ pds[q].fname \in linked
        /\ LET f   == pds[q].fname
               ofs == pds[q].kofs
               len == pds[q].klen
               ps  == Truncated(pds, f, ofs + len)
           IN
           /\ pds' = [ps EXCEPT ![p] =
                        Mapped([Unused EXCEPT !.st = "live", !.fmt = pds[q].fmt,
                                   !.fname = f, !.klen = len, !.kofs = ofs,
                                   !.mofs = ofs, !.mlen = len,
                                   !.length = pds[q].length,
                                   !.colmeta = pds[q].colmeta,
                                   !.internal = pds[q].internal, !.worker = TRUE],
                               ofs + len)]
           /\ fsize' = [fsize EXCEPT ![f] = ofs + len]
           /\ UNCHANGED <<pdsList, linked, unlinks, pc>>

\* Lines 517-529, called by the worker when it is done with the region.
FileUnmap ==
    /\ \E p \in Live :
        /\ pds[p].worker
        /\ pds' = [pds EXCEPT ![p].st = "unmapped"]
    /\ UNCHANGED <<tupdesc, pdsList, fsize, linked, unlinks, pc>>

-----------------------------------------------------------------------------
(* Release, lines 242-265 *)

\* Mutant: dlist_delete (line 249) left out.
DetachSkipped(l, p) == l

\* Line 249: dlist_delete(&pds->chain).
Detach(l, p) == Remove(l, p)

\* Mutant: the unlink of line 256 left out.
UnlinkSkipped(lk, f) == lk

\* Line 256: unlink(pds->kds_fname) removes the name if it is present and
\* otherwise fails with a WARNING.
Unlink(lk, f) == lk \ {f}

\* The state pgstrom_release_data_store works on.
Heap == [pds |-> pds, list |-> pdsList, linked |-> linked,
         unlinks |-> unlinks, wild |-> FALSE]

\* pgstrom_release_data_store(p) applied to heap h.  Reading a freed pds,
\* or dlist_delete on the zeroed chain of a worker's pds, is undefined
\* behaviour and ends the model in "wild".
RECURSIVE ReleaseOf(_, _)
ReleaseOf(p, h) ==
    IF h.wild \/ h.pds[p].st # "live" \/ h.pds[p].worker
    THEN [h EXCEPT !.wild = TRUE]
    ELSE LET t  == h.pds[p].ktoast
             f  == h.pds[p].fname
             h1 == IF t # NoPds THEN ReleaseOf(t, h) ELSE h
         IN  IF h1.wild THEN h1
             ELSE [h1 EXCEPT !.pds[p].st = "freed",
                             !.list = Detach(@, p),
                             !.linked = IF f = NoName THEN @ ELSE Unlink(@, f),
                             !.unlinks = IF f = NoName THEN @
                                         ELSE [@ EXCEPT ![f] = @ + 1]]

ApplyHeap(h) ==
    /\ pds' = h.pds
    /\ pdsList' = h.list
    /\ linked' = h.linked
    /\ unlinks' = h.unlinks
    /\ pc' = IF h.wild THEN "wild" ELSE pc
    /\ UNCHANGED fsize

\* A caller releases one of its chunks, never a toast another chunk owns
\* (the spec: a chunk exclusively owns its toast chunk).
Release ==
    /\ pc = "run"
    /\ UNCHANGED tupdesc
    /\ \E p \in Live \ Owned : ~pds[p].worker /\ ApplyHeap(ReleaseOf(p, Heap))

\* The context is done with its chunks.
Teardown ==
    /\ pc = "run"
    /\ pc' = "teardown"
    /\ UNCHANGED <<tupdesc, pds, pdsList, fsize, linked, unlinks>>

\* Teardown releases every chunk still on pds_list, in an order the spec
\* leaves open.
TeardownStep ==
    /\ pc = "teardown"
    /\ UNCHANGED tupdesc
    /\ \E p \in ToSet(pdsList) : ApplyHeap(ReleaseOf(p, Heap))

Init ==
    /\ tupdesc \in TupDescs
    /\ pds = [p \in Pds |-> Unused]
    /\ pdsList = <<>>
    /\ fsize = [f \in Names |-> -1]
    /\ linked = {}
    /\ unlinks = [f \in Names |-> 0]
    /\ pc = "run"

Next ==
    \/ CreateRow \/ CreateSlot \/ FileMmap \/ FileUnmap
    \/ Release \/ Teardown \/ TeardownStep

Spec == Init /\ [][Next]_vars

-----------------------------------------------------------------------------
(* Properties *)

\* pds_list holds each chunk of the context that is still allocated, once,
\* across the cascade of pgstrom_release_data_store into the toast chunk
\* and the ERROR exits of creation that leave a half-built chunk behind.
RegistryIsLive ==
    pc # "wild" =>
        /\ IsInjective(pdsList)
        /\ ToSet(pdsList) = {p \in Live : ~pds[p].worker}

\* No temporary file outlives the chunks of the context that use it: once
\* every chunk naming a file is released, its name is unlinked.
NoLeakedFile ==
    pc # "wild" =>
        \A f \in linked : \E p \in Live : ~pds[p].worker /\ pds[p].fname = f

\* Every initialised chunk's header describes the context's columns as the
\* executor's deform of a tuple without nulls finds them: the cached
\* offset of each column of the fixed-length prefix, -1 after it, with the
\* NUMERIC columns of an internal-format slot chunk as 8-byte values.
ColmetaMatchesDeform ==
    \A p \in Live :
        pds[p].length > 0 =>
            pds[p].colmeta = [i \in 1..NAtts |-> ExpectedColmeta(tupdesc, pds[p].internal, i)]

\* Release never touches a freed chunk or a worker's chunk.
ReleaseSafe == pc # "wild"

\* Release never unlinks a name twice (a second unlink fails and logs a
\* WARNING, line 257).
UnlinkOnce == \A f \in Names : unlinks[f] <= 1

\* Every live chunk's storage holds kds->length bytes, and a file-backed
\* chunk's mapping lies inside its file and has not been cut by a later
\* ftruncate of the shared file.
MappingsIntact ==
    \A p \in Live :
        /\ pds[p].length <= pds[p].mlen
        /\ pds[p].fname # NoName => pds[p].intact
=============================================================================
