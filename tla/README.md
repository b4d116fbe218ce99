# TLA+ models of PG-Strom's data store and GPU sort

This directory holds TLA+ models of parts of this repository's sources and
the TLC configurations that check them. The sources are:

- `src/unnamed/part_000`, which is `datastore.c`;
- `src/src/cuda_gpusort.h`;
- `src/src/gpu_device.c`.

`PROJECT.json` lists three things: the components, the runs with their
expected outcomes, and the mutants that show each property can fail. It also
gives the source lines that every definition translates (`map`), the findings,
and the hazards.

## The system

- **Data store chunks** (`datastore.c`). A `kern_data_store` is one buffer
  whose internal references are all offsets.
  - It starts with a fixed header and the column metadata.
  - In row format, an index array of `uint` offsets grows forward from
    `KERN_DATA_STORE_BODY`.
  - `kern_tupitem` records (`t_len`, `t_self`, then the heap tuple) grow
    backward from `kds->length`. `kds->usage` counts the bytes of that tail.
  - `pgstrom_data_store_insert_block` copies the visible tuples of one heap
    page. If the page cannot fit, it returns -1.
  - `pgstrom_data_store_insert_tuple` copies one tuple. It returns false
    when the chunk is full.
  - `kern_fetch_data_store` reads a row back in place.
  - Chunks are created in process memory or in a mapped file. A slot-format
    chunk can be chained to a row-format "toast" chunk, in the same file.
  - `pgstrom_release_data_store` releases a chunk together with its toast
    chunk.
  - `pgstrom_create_kern_parambuf` serialises the query's Consts and Params
    into a `kern_parambuf`. It holds a header, one `cl_uint` offset per
    parameter, where 0 means null, and the values, each padded to 8 bytes.
- **GPU sort** (`cuda_gpusort.h`).
  - `gpusort_projection` moves the rows of an input chunk into a sorting
    segment (`kds_slot`) and into the result-index array `kresults`.
  - `gpusort_main` is a dynamic-parallelism kernel. It launches
    `gpusort_bitonic_local` once and then, for `i = B, 2B, ...` while
    `i < nhalf`:
    - `gpusort_bitonic_step`, for `j = 2i` down to just above `B`;
    - one `gpusort_bitonic_merge`.
  - It ends with `gpusort_fixup_pointers`, which rewrites the by-reference
    values of every sorted slot row from device to host addresses.
  - The local and merge kernels sort partitions of `2B` entries in shared
    memory, with a barrier after every compare-and-swap round.
  - Errors of a kernel are written to `kresults->kerror`.
- **GPU devices** (`gpu_device.c`).
  - `pgstrom_collect_gpu_device` parses the output of a helper process and
    keeps the devices of compute capability 6 or higher.
  - The work-group sizing helpers wrap CUDA occupancy queries.
  - The SQL functions report the cached device attributes.

How the parts interact:

1. The host fills row chunks with `insert_block` and `insert_tuple`.
2. On the device, `gpusort_projection` moves the chunk's rows into a sorting
   segment.
3. `gpusort_main` sorts the segment's `kresults` and translates the slot
   rows' pointers.
4. The host reads the result.

## Modules

| Module | Models | State / actions |
|---|---|---|
| `GpuSortSpec` | The promise a sort segment makes (spec section 8, "Sort correctness") | `order`, `status`. `Finish` ends with a sorted permutation. `Abort` ends with an error and leaves the order unchanged. |
| `BitonicSort` | `gpusort_main` with the local, step, merge and fixup kernels | See below. |
| `MCBitonicSort` | Instantiates `BitonicSort` | The three kernels' maximum block sizes `<<3, 2, 4>>`, so the common block size `B` is 2. |
| `GpuProjection` | One launch of `gpusort_projection` | See below. |
| `MCGpuProjection` | Instantiates `GpuProjection` | Two blocks of two warps, 3 or 4 input rows. |
| `DataStoreRow` | A row chunk: `insert_block`, `insert_tuple` and the row branch of fetch | See below. |
| `MCDataStoreRow` | Instantiates `DataStoreRow` | `offsetof(kern_tupitem, htup)` = 12 and `SizeOfPageHeaderData` = 24. |
| `DeviceLines` | The `gpuinfo -md` line format and the `DevAttributes` fields | Constants and operators only. |
| `DeviceTable` | What device discovery promises | `status`, `table`, `baseCC`, `baseTPB`. `Publish` gives the supported devices the input describes; `Fail` is an ERROR. |
| `DeviceInfo` | `pgstrom_collect_gpu_device` and the set-returning `pgstrom_device_info` | See below. |
| `MCDeviceInfo` | Instantiates `DeviceInfo` | 187 gpuinfo outputs: well-formed, one per error path, truncated, late count. |
| `WorkgroupSize` | `largest_workgroup_size` and `optimal_workgroup_size` | See below. |
| `MCWorkgroupSize` | Instantiates `WorkgroupSize` | 288 calls with an 8-bit `cl_int`. |
| `Layout` | The column metadata of `init_kern_data_store`, and the heap deform it must agree with | Operators only; see under `ChunkLifecycle`. |
| `ChunkLifecycle` | Chunk creation, the worker's file mapping, and release | See below. |
| `MCChunkLifecycle` | Instantiates `ChunkLifecycle` | Three descriptors, two file names, four tuple descriptors, `BLCKSZ` scaled to 64. |
| `ParamBuf` | `pgstrom_create_kern_parambuf` | See below. |
| `MCParamBuf` | Instantiates `ParamBuf` | Lists of one to three nodes over `int4`, `uuid` and `text`; a two-entry `ParamListInfo`. |

### BitonicSort

**Variables.**

- `results` is `kresults->results`.
- `pc` says which launch of `gpusort_main` comes next: `local`, `step`,
  `merge`, `fixup` or `done`.
- `i` and `j` are the loop variables of `gpusort_main`.
- `round` is the barrier round inside the kernel that is running.
- `kerror` is `kresults->kerror`.
- `translated[r]` counts how often slot row `r`'s by-reference values were
  rewritten from device to host addresses by `gpusort_fixup_pointers`.

**Actions.**

- Each kernel's rounds are the sets of index pairs that the threads of one
  round compare (`LocalPairs`, `StepPairs`, `MergePairs`). The index and
  partner formulas, and the `idx1 < part_size` and `idx1 < nitems` guards,
  are translated from the kernels.
- One step of `LocalRound` or `MergeRound` is one round between two
  `__syncthreads()`.
- `StepRound` is a whole step launch, because that kernel has no barrier.
- After a kernel's last round, the action continues with `gpusort_main`'s
  control flow (`AfterOuterPass`).
- `KernelStatus` models a kernel that ends with a runtime error, or does not.
- `LaunchFails` models a failed `cudaGetParameterBuffer`, `cudaLaunchDevice`
  or `cudaDeviceSynchronize` before any launch (`goto out`).
- `LaunchFixup` is the last launch (lines 655-704). The block size is any
  size up to the fixup kernel's limit (`FixupMaxThreads`) and `nitems`. The
  grid is rounded up to whole blocks (`FixupThreads`), which is what the
  device-side `pgstrom_optimal_workgroup_size` (outside `src/`) is taken to
  compute, as its host twin `optimal_workgroup_size` does. The kernel
  (`FixupKernel`, lines 431-468) runs as one step, because its threads share
  nothing: each thread with `gid < nitems` translates row `results[gid]`.
  A failed synchronisation afterwards sets `kerror`. The kernel's own status
  goes to `kgpusort->kerror`, which the model does not track.

**Refinement.** `SortRefinement` checks that `BitonicSort` implements
`GpuSortSpec`. The mapping sends `order` to `results` once the pipeline is
done without an error, and to the identity before that.

**Keys.** Keys range over {0, 1}. By the 0-1 principle, a comparator network
that sorts every 0/1 input sorts every input. This model is such a network:
which pairs are compared depends only on the index, never on the keys.

### GpuProjection

**Blocks and warps.** The grid has `NBlocks` blocks of `Warps` warps. Each
warp stands for one thread, because the threads of a warp read and write
together. The thread of warp `w` in block `b` owns input row `b * Warps + w`.
It has a tuple (`Valid`) when that id is below `kds_in->nitems` and the row's
claim bit (the low bit of `row_index`) was clear at launch. Each valid row
needs 0 or 8 extra bytes for its indirect values.

**Block steps, in the code's order.** Blocks interleave at every atomic step.

1. `QuickCheck(b, w)`: each warp reads `kds_slot->nitems` and `usage` at its
   own time. A warp that bails sets NoSpace and leaves.
2. `AtomicUsage` and `AtomicNitems`: lid 0, in warp 0, does the two
   `atomicAdd`s as two separate steps.
3. `Barrier1`: the `__syncthreads` and the confirmation check. A failed check
   gives nothing back. A block whose warps disagree at the quick bailout
   reaches the barrier with only part of its threads. That is undefined
   behaviour: the block is marked `diverged` and does nothing more.
4. `AtomicKres`: the `kresults->nitems` `atomicAdd`.
5. `ResultsCheck`: the `nrooms` check (again with no rollback), then the
   block's write-back (`WriteBack`): line 180, the copy into slot rows, the
   claim bits and `n_loaded`. Line 180 is run by every thread of the block,
   tuple-less ones included (`ResStores(b, WarpIds)`). A tuple-less thread
   stores the same index as the next thread with a tuple or, when none
   follows, stores `nrows_base + nrows_sum` at
   `results[kresults_base + nrows_sum]`. That is another block's first
   entry, or `results[nrooms]`. `Store` lets a later store replace an
   earlier one at the same entry. Everything else the write-back touches
   belongs to the block. The only cross-block effect is which block stores
   an entry last, and block order decides that, so the write-back is one
   step.

**Abstraction and inputs.** Column values are abstracted to which slot row
holds which input row. Four things are inputs:

- `kds_in->nitems`;
- the rows an earlier launch over the same grid claimed (whole blocks);
- each row's extra bytes;
- the slot geometry (`SlotHead`, `SlotRowSz`, `SlotLength`) and
  `kresults->nrooms`.

`KERN_DATA_STORE_SLOT_LENGTH` is defined outside `src/`. It is modelled as
`SlotHead + SlotRowSz * n`.

### DataStoreRow

**Sizes.** Bytes are counted exactly: the widths and alignments of the code,
with a scaled chunk length and block size.

**Items.** An item is its offset, its `t_len` and its `t_self`. Tuple bytes
are not modelled.

**Pages.** A heap page is a sequence of line pointers. Each line pointer is
either not normal, or a tuple of some length that the snapshot sees or does
not see. Every page fits in `BLCKSZ`.

**The all-visible flag.** A page flagged all-visible holds only visible
tuples, except under a snapshot taken during recovery. This is why the code
tests `takenDuringRecovery`.

**InsertBlock.** This action is the whole function:

1. the worst-case pre-check, with the -1 return;
2. the scan in offset order;
3. `usage += LONGALIGN(t_len)` for each tuple;
4. the item written at `length - usage`;
5. `nitems += ntup` at the end.

**InsertTuple.** This action is the whole function, including the `false`
return.

**KdsFetch.** This operator reads item `k` in place. The bytes of item `k`
are intact only if three things hold:

- they lie inside the chunk;
- they do not overlap the index array;
- no later item overlaps them.

Otherwise `KdsFetch` yields `Garbage`.

### DeviceInfo

**Input.** `input` is the whole output of `gpuinfo -md`, a sequence of
abstract lines (`DeviceLines`). A line is its tag (empty, no `:`, no `=`,
`PLATFORM`, `DEVICE<n>`, anything else), the device index `atoi` reads after
`DEVICE`, the attribute name and `atoi` of the value. Strings (versions,
device names) are numbers: nothing tells them apart except equality.

**Parse.** One action per branch of the `fgets` loop: `SkipEmpty`,
`Unparsable`, `Platform` (the two versions and the count), `PlatformFails`,
`Device` and `DeviceFails`. The first `DEVICE` line allocates `devAttrs`
zero-filled with the count seen at that moment (`alloc`; -1 is NULL). The
`Assert(num_devices > 0)` is compiled out of a release build, so it is not a
guard. `EndOfInput` is `ClosePipeStream`, whose result is ignored.

**Compaction.** One action per iteration of the loop at line 170:
`CompactSkip` (CC below 6), `CompactKeep` (baselines, `CORES_PER_MPU`, the
`memcpy` down to `j`) and `CompactDone`. `CompactWild` is the iteration that
reads `devAttrs[i]` outside the allocation; the model stops there in
`wild`, as it does when `Device` would store outside it. `parsed` is a
history variable: `devAttrs` as the loop found it.

**SQL.** `DeviceInfoCall` is one call of `pgstrom_device_info` in a backend
after discovery succeeded: device and attribute index from `call_cntr`, done
at `numDevAttrs`. Formatting the value is left out.
`GpuAttrCall` is one call of a scalar accessor, such as `pgstrom_gpu_cc_major`,
with an index from -1 to `MaxDevices`. It raises an ERROR outside
`0..numDevAttrs - 1`, and otherwise returns the field of `devAttrs[d]`. All
eleven accessors are modelled. Nine return one field. The CUDA cores are
`CORES_PER_MPU` times `MULTIPROCESSOR_COUNT`. `pgstrom_gpu_pci_id` formats
the PCI domain, bus and device ids as `"%04d:%02d:%02d"`; the model keeps
the triple, because the `:` separators make that text one-to-one.

**Refinement.** `DeviceTableRefinement` checks that `DeviceInfo` implements
`DeviceTable`. The mapping gives `ready` and the table of the first
`numDevAttrs` entries once `pc = "done"`, `failed` on an ERROR, and `probing`
before (and in `wild`). `DeviceTable` reads the input declaratively: the last
line that sets an attribute wins, an unset one is zero, and the count is the
last `NUMBER_OF_DEVICES` line.

### WorkgroupSize

One call of either function is one step from `Pending` to a result. The
call's arguments, and what the CUDA attribute queries report for the kernel
and the device, are one record drawn from `Calls`.

- `LargestWorkgroupSize` is lines 400-429. `shmemSizeTotal` is a `size_t`
  sum stored in a `cl_int`, modelled by `ToCInt`, truncation to `IntBits`
  bits. The shrink test of lines 405-408 is in `size_t` and not truncated.
- `OptimalWorkgroupSize` is lines 325-349. The occupancy calculator is a
  nondeterministic choice among the block sizes up to `blockSizeLimit` whose
  shared memory, as `blocksize_to_shmemsize_helper` computes it, fits. It
  reports 0 when none fits.
- Both end in `Geometry`: the `INT_MAX` check, then `ceil(nitems / block)`.
  A block size of 0 passes the check only for `nitems = 0`, and then the
  division faults (status `fault`).

### ChunkLifecycle

The state is what the creation and release functions change:

- `pds`, one record per descriptor: its status, format, `kds_fname`,
  `pds->kds_length`, `pds->kds_offset` and `ktoast`;
- for each descriptor, the file region it mapped (or the bytes it
  allocated), `kds->length`, and whether the mapped bytes are still intact;
- `pdsList`, the context's `pds_list`;
- `fsize`, `linked` and `unlinks`: each file's size, whether its name is in
  the directory, and how often it was unlinked;
- `pc`: running, tearing down, or `wild` (undefined behaviour);
- `tupdesc`, the context's tuple descriptor. It is chosen at the start and
  never changes.

Each chunk also records the `kds->colmeta` that `init_kern_data_store` wrote
into its header, computed by `Layout`'s `KdsColmeta`. That operator
translates the loop at lines 288-331:

1. The first column starts at the `MAXALIGN`ed end of a heap tuple header
   with no null bitmap, plus the oid if there is one.
2. A fixed-length column is aligned.
3. The first varlena or cstring column sets the cached offset to -1 for
   good.
4. With `internal_format`, a NUMERIC column becomes an 8-byte by-value
   column.

The reference it is checked against, `ExpectedColmeta`, is the heap deform
walk. A column starts at its alignment after the previous one ends. Its
offset is known without the data exactly when every column up to it has a
fixed length.

The actions:

- **`CreateRow`** is lines 334-402. The pds is pushed onto `pds_list`
  before any storage exists. In memory it gets `pds->kds_length` bytes.
  File-backed, it opens a fresh name, truncates the file to
  `pds->kds_length` and maps the local `kds_length`, which is never
  assigned. The model reads that local as `pds->kds_length` plus a value
  from `StaleDeltas`. Each of the three system calls may ERROR.
- **`CreateSlot`** is lines 404-465. `kds_length`, which this function does
  not declare, is read the same way. With a file-backed toast chunk, it
  reopens the toast's file, extends it to the region's end at
  `TYPEALIGN(BLCKSZ, toast length)`, and maps that region.
  `pds->kds_offset` stays 0, and `ktoast` is set only after the last ERROR
  exit.
- **`FileMmap`** and **`FileUnmap`** are lines 473-529. A worker maps the
  region a backend chunk describes by name, offset and length. The
  `ftruncate` sets the file to exactly that region's end.
- **`Release`** is `pgstrom_release_data_store` (lines 241-265), as the
  recursive `ReleaseOf`. It releases `ktoast` first, then calls
  `dlist_delete`, then unmaps and unlinks. Reading a freed pds, or
  `dlist_delete` on a worker's zeroed chain, is `wild`. A caller never
  releases a toast that a live chunk owns (the spec's exclusive
  ownership).
- **`Teardown`** and **`TeardownStep`** are modelled from the spec, because
  the `GpuContext` code is not in `src/`. The context releases what is left
  on `pds_list`, in an order the spec leaves open. An ERROR of any system
  call leads here, because the transaction's abort releases the context.

### ParamBuf

One step is one iteration of the `foreach` over `used_params`.

- **State.**
  - `used` is the list and `pinfo` the `ParamListInfo`. A paramFetch hook
    may rewrite an entry of `pinfo`.
  - `cell` is the list position. The C `index` is always `cell - 1`,
    because every path increments it once.
  - `len` is `str.len` and `poffset` the offset array.
  - `blobs` are the appended values. Each records its offset, its size,
    and what was copied: a model value for the datum, or `"pointer"` when
    the bytes are those of a Datum that holds a pointer.
  - `hdr` is the header's `length` and `nparams`.
- **`Init`** is lines 70-73: the header and offsets are zeroed, and `len`
  is aligned.
- **`ConstStep`** is lines 79-97.
- **`ParamAbsent`** is a Param with no `ParamListInfo`, or an id out of
  range. It writes nothing, so the offset stays the memset's 0.
- **`ParamFound`** is lines 106-145. It covers:
  - the hook, which may fill an untyped entry when `paramFetch` is set;
  - an untyped entry, stored as null and the loop continued;
  - the type-mismatch ERROR;
  - a null value;
  - the `typlen == 0` ERROR;
  - the copy of the value.
- **`OtherNode`** is the "unexpected node" ERROR.
- **`Finish`** fills in the header.
- **Values copied.** A value of fixed length is copied from the Datum
  itself, which is `"pointer"` for a by-reference type. A varlena copies
  the `VARSIZE` bytes the Datum points to.
- **No passing run.** What the buffer must hold, `ParamsReadBack`, is
  violated by the code, so `ParamBuf` has only its violation run.
- **Left out.** `constlen = -2` (cstring), whose `VARSIZE` reads a string
  as if it had a varlena header, is not among the inputs.

## Runs

| Run | cfg | Expect | Properties | What it shows |
|---|---|---|---|---|
| `sort_local_sizes` | `BitonicSortLocalSizes.cfg` | pass | `TypeOK`, `NoRace`, `ResultsArePermutation`, `PointersTranslatedOnce`, `SortRefinement` | See below. |
| `sort_odd` | `BitonicSortOdd.cfg` | violation | `SortRefinement` | With 3 rows, `gpusort_main` reports success on an unsorted array (finding 1). |
| `proj_loads` | `GpuProjectionLoads.cfg` | pass | `TypeOK`, `RowsCopiedOnce`, `NoSilentLeftover` | See below. |
| `proj_stray` | `GpuProjectionStray.cfg` | violation | `ResultsReferToLoadedRows` | A tuple-less thread's store at line 180 replaces another block's result entry with a slot row that does not exist (finding 7). |
| `proj_overlap` | `GpuProjectionOverlap.cfg` | violation | `SlotRegionsDisjoint` | Two blocks both pass their confirmation with overlapping regions (finding 3). |
| `param_offsets` | `ParamBufParamOffset.cfg` | violation | `ParamsReadBack` | A non-null bound Param keeps offset 0 and reads back as NULL (finding 6). |
| `ds_mixed` | `DataStoreMixed.cfg` | pass | `TypeOK`, `DoubleEnded`, `LoadedExactlyVisible`, `TupleRowsRoundTrip` | See below. |
| `device_parse` | `DeviceInfoParse.cfg` | pass | `TypeOK`, `CompactionInvariant`, `SrfListsEveryAttribute`, `AccessorAgreesWithListing`, `WildOnlyOnBadListing`, `DeviceTableRefinement` | See below. |
| `workgroup_calls` | `WorkgroupSizeCalls.cfg` | pass | `TypeOK`, `LargestIsReference` | See below. |
| `chunk_api` | `ChunkLifecycleApi.cfg` | pass | `RegistryIsLive`, `NoLeakedFile`, `ColmetaMatchesDeform` | See below. |
| `chunk_row_mmap` | `ChunkRowMmap.cfg` | violation | `MappingsIntact` | A file-backed row chunk's mapping is shorter than `kds->length` or runs past the file (finding 5). |
| `ds_block_overrun` | `DataStoreBlockOverrun.cfg` | violation | `FetchRoundTrip` | The first tuple that `insert_block` loads into an empty chunk already ends past `kds->length` (finding 2). |

- **`sort_local_sizes`** covers 0, 1, 2, 4, 5, 6, 8 and 9 rows, with every 0/1 key
  assignment, every fixup block size from 1 to 4 and a launch failure
  possible at every launch. It shows four things:
  - no two threads of one round touch the same entry;
  - `results` stays a permutation;
  - every slot row's pointers are translated at most once, and exactly once
    when the pipeline ends without an error;
  - the pipeline refines `GpuSortSpec`.
- **`proj_loads`** covers every interleaving of two blocks, over fresh
  launches and retries that find some blocks' rows already claimed. It
  shows two things:
  - every row the launch claims is in exactly one slot row, no two rows
    share a slot row, and a row claimed before the launch is never copied
    again;
  - a valid row left unclaimed at the end always comes with a NoSpace
    status.

  It does not check the result entries, which finding 7 shows are wrong.
- **`ds_mixed`** interleaves `insert_block` over two pages with up to six
  `insert_tuple` calls, for every page content and both kinds of snapshot.
  The chunk fills up and further calls are refused. It shows three things:
  - the accounted layout stays within the chunk;
  - whole blocks are loaded, and exactly their visible tuples;
  - while no block has been loaded, every stored row fetches back as it was
    inserted (`TupleRowsRoundTrip`). With a block loaded it does not
    (finding 2).

- **`device_parse`** covers 187 outputs of gpuinfo:
  - every listing of one or two devices with CC 5.x to 7.x and 512 or 1024
    threads, including one where device 0 has no lines;
  - one listing per error path;
  - listings cut off after the PLATFORM lines;
  - a device count raised after the first DEVICE line.

  It shows five things. The compaction keeps its loop invariant. Whatever
  is published is what the output describes. `pgstrom_device_info` lists
  each attribute of each published device once. The scalar accessors answer
  for exactly those devices. The truncated and late-count listings reach
  `wild`, and no other listing does (`WildOnlyOnBadListing`). This run does
  not check `MemorySafe`, which those listings violate.
- **`workgroup_calls`** covers both functions over 288 calls. There are
  kernels that fit, kernels that must shrink, and kernels where not one warp
  fits. Item counts fall below and above what 127 blocks can hold. It shows
  that `largest_workgroup_size` picks the reference block size.
- **`chunk_api`** covers every sequence of calls over three descriptors and
  two names. That includes row and slot chunks in memory and in files, a
  slot chunk chained to a file-backed toast chunk, worker mappings, caller
  releases, an ERROR at each system call, and teardown in every order. The
  unset `kds_length` is taken to hold the computed length. The run shows
  that `pds_list` holds exactly the context's allocated chunks, through the
  release cascade and the half-built chunks an ERROR leaves. It also shows
  that no temporary file outlives the chunks that name it, and that every
  chunk's column metadata agrees with the deform walk. Teardown reaches
  `wild` in some orders; this run does not check `ReleaseSafe`.

### Properties

- **`NoRace`.** The pairs compared in one round are distinct and pairwise
  disjoint. Otherwise the result would depend on the order in which warps
  run.
- **`PointersTranslatedOnce`.** No slot row has its pointers translated
  twice, and a run that ends with `kerror` clear has translated every row.
  It needs the sort kernels to leave a permutation, the fixup grid to cover
  `nitems`, the `gid < nitems` check (lines 444-445), and every failure
  before the fixup to reach `kerror`. The fixup grid of 5 rows in blocks of
  2 has a sixth thread, which the check keeps from reading a stale entry.
- **`SortRefinement`.** The pipeline implements the abstract sort. Each
  behaviour ends either sorted and a permutation, or with an error.
- **`DoubleEnded`.** Spec section 8: `index end + usage <= length`.
- **`FetchRoundTrip`.** Spec section 8: fetching returns the stored length
  and row identity. With the code's `insert_block` it fails at once
  (finding 2), so `ds_mixed` checks it only for chunks without blocks
  (`TupleRowsRoundTrip`).
- **`LoadedExactlyVisible`.** The rows a chunk holds from blocks are exactly
  the visible tuples of the blocks it loaded. Loading is all or nothing,
  filtered by the snapshot, and no tuple appears twice.

- **`RowsCopiedOnce`, `NoSilentLeftover`.** Spec 4.5 and the claim-bit
  comment at `cuda_gpusort.h:106`. Each block gets a slot-row range of its
  own, a row is claimed only after it has been copied, and a failed block
  leaves its rows for the next segment with a NoSpace status.
- **`ResultsReferToLoadedRows`.** After the launch, no entry was stored at
  or past `nrooms`. Every entry below `kresults->nitems` refers to a slot
  row the launch filled, and each filled slot row is referred to once.
- **`SlotRegionsDisjoint`.** Among blocks that passed the confirmation, no
  block's slot rows reach into another block's extra area.
- **`ResultsWritten`.** At the end of the launch, every entry below
  `kresults->nitems` has been written.
- **`BlockBailsTogether`.** No block diverges at the quick bailout.
- **`CompactionInvariant`.** The loop invariant of the in-place compaction.
  The first `j` entries are the supported devices among the first `i`
  parsed ones, in order. The entries from `i` on are still the parsed ones,
  not yet overwritten by a `memcpy`.
- **`DeviceTableRefinement`.** Discovery implements `DeviceTable`. The
  published devices, their order, their attributes (the last line wins), and
  the baselines as minima over the kept devices only.
- **`SrfListsEveryAttribute`.** `pgstrom_device_info` returns exactly
  `numDevAttrs * (lengthof(DevAttrCatalog) + 3)` rows. They are all the
  (device, attribute) pairs, and none comes from an entry past
  `numDevAttrs`.
- **`AccessorAgreesWithListing`.** A scalar accessor called with index `d`
  answers only when `pgstrom_device_info` lists id `d`. Its answer is the
  attribute of the `d`-th supported device of the gpuinfo listing. The
  entries past `numDevAttrs` still hold stale copies left by the
  compaction, and only the bounds check keeps them out.
- **`MemorySafe`.** Every access to `devAttrs` lies inside its allocation.
- **`WildOnlyOnBadListing`.** Discovery leaves the allocation only for two
  kinds of gpuinfo output. One has no DEVICE line, so `devAttrs` stays
  NULL. The other has a `NUMBER_OF_DEVICES` line after a DEVICE line. Every
  other listing, well-formed or rejected, stays inside the allocation. The
  index check at line 140 is what keeps a DEVICE line with too large an
  index from writing past the end.
- **`LargestIsReference`.** The closed form of lines 400-413 equals the
  largest block size that both fits shared memory and is either the kernel's
  limit or a whole number of warps. It fails exactly when there is none.
- **`RegistryIsLive`.** `pds_list` holds each allocated chunk of the
  context once, and nothing else.
- **`NoLeakedFile`.** Every name still in the directory is named by a live
  chunk of the context.
- **`ReleaseSafe`.** No release reads a freed pds or unlinks a worker's
  chain.
- **`ColmetaMatchesDeform`.** Every initialised chunk's header agrees with
  the heap deform of its tuple descriptor. The cached offsets of the
  fixed-length prefix are exact, and -1 comes after it. In an
  internal-format slot chunk, NUMERIC columns count as 8-byte values.
- **`UnlinkOnce`.** No name is unlinked twice, which would be a WARNING at
  line 257.
- **`MappingsIntact`.** Every live chunk's storage holds `kds->length`
  bytes. A file-backed chunk's region lies inside its file and has not been
  cut by a later `ftruncate`.
- **`ParamsReadBack`.** When the buffer is finished, every parameter the
  spec calls null has offset 0. Every other parameter has a non-zero
  offset, and the bytes there are its value, at its length.

### Findings

1. **`cuda_gpusort.h:287`.** The local kernel runs its stages only while
   `blockSize <= part_size`, so it skips the final merge of a last partition
   whose size is not a power of two.
   - With `nitems = 3` and `B = 2`, `nhalf = 2 <= B`, so no step or merge
     kernel runs either.
   - Keys `<<0, 1, 0>>` come back in the same order, with `kerror` still ok.
   - 7 rows fail the same way.
   - 5 and 6 rows pass, because their last partition (1 or 2 entries) is a
     power of two.
2. **`datastore.c:623`.** `insert_block` reserves `LONGALIGN(t_len)` for each
   tuple but writes the 12-byte `kern_tupitem` header as well.
   `insert_tuple` reserves `LONGALIGN(12 + t_len)`.

3. **`cuda_gpusort.h:149-157`.** The two `atomicAdd`s are not one atomic
   reservation, and each block confirms only its own pair of bases.
   - The failing order: block 0 adds usage (no extra bytes), then block 1
     adds usage (8 extra bytes), then block 1 adds nitems (1 row), then
     block 0 adds nitems (2 rows).
   - Each check passes: 64 <= 64 and 40 <= 64.
   - Block 0's slot row 2 (bytes 48-63) overlaps block 1's extra area (bytes
     56-63).
4. **`cuda_gpusort.h:173-179`.** `kresults->nitems` is advanced before the
   `nrooms` check and never given back. The MEMO at lines 490-491 says the
   segment is still sorted after a NoSpace error, so the sort reads entries
   nobody wrote. `GpuProjectionUnwritten.cfg` reproduces it; it is no longer
   among the runs (see below).
5. **`datastore.c:380`.** `create_row` truncates the file to
   `pds->kds_length` but maps the local `kds_length`, which is never
   assigned. `init_kern_data_store` then writes a header that claims
   `pds->kds_length` bytes. `create_slot` reads a `kds_length` it does not
   declare, at lines 426, 447 and 462.
6. **`datastore.c:129-144`.** For a bound, non-null Param, the value is
   appended but `kpbuf->poffset[index]` is never set. The Const branch sets
   it at line 89. The offset keeps the memset's 0, so the kernel reads the
   parameter as NULL. The shortest trace is `<<int4 Const, Param 1>>`: the
   Param's value lands at offset 24, and `poffset[1]` is still 0.
7. **`cuda_gpusort.h:180`.** Every thread of a block that passed the
   `nrooms` check stores `results[kresults_base + nrows_ofs] = kds_index`,
   including threads with no tuple. A thread with no tuple after the
   block's last row stores `nrows_base + nrows_sum` at
   `results[kresults_base + nrows_sum]`. A block whose rows are all claimed
   already stores `nrows_base` at `results[kresults_base]`.
   - With 3 rows and no error: block 0 reserves slot rows 0-1 before block
     1 reserves slot row 2. Block 1 reserves result entry 0 before block 0
     reserves entries 1-2. Block 1's tuple-less thread then stores 3 at
     `results[1]` after block 0 stored 0 there. The sort reads slot row 3,
     which holds nothing, and never sees slot row 0.
   - On a retry where block 1's only row is already claimed, block 1 stores
     at `results[nrooms]`, past the array, with `kerror` still ok.
   - The store should be guarded by `tupitem != NULL`, as the copy after it
     is.
### Violations outside the runs

The model shows seven more violations. Each one has its own cfg beside the
runs, and checking that cfg against its MC module gives the trace. They are
not among the runs, which are held to twelve and keep, per component, the
violation runs of its most serious findings. The hazards in `PROJECT.json` point to them.

- **`GpuProjectionDiverge.cfg`, `BlockBailsTogether`** (`cuda_gpusort.h:138-152`).
  A warp that runs the quick bailout after its own block's lid 0 has done
  the `atomicAdd`s counts the block's rows twice and bails. Lid 0 goes on,
  so `__syncthreads` is reached by part of the block.
- **`DeviceInfoTruncated.cfg`, `MemorySafe`** (`gpu_device.c:170-176`).
  `devAttrs` is allocated only by the first `DEVICE` line, but the
  compaction loop runs for `i < num_devices` whatever came, and
  `ClosePipeStream`'s exit status is not checked. A gpuinfo that prints
  `NUMBER_OF_DEVICES=1` and then fails makes line 176 read through NULL.
- **`ChunkWorkerTruncate.cfg`, `MappingsIntact`** (`datastore.c:495`).
  `pgstrom_file_mmap_data_store` calls `ftruncate(offset + length)`, which
  also shrinks a longer file. A worker that maps the toast chunk of a file
  with a chained slot chunk cuts the slot region off. Mapping the slot chunk
  by its `pds->kds_offset`, which `create_slot` leaves 0, does the same.
- **`ChunkTeardown.cfg`, `ReleaseSafe`** (`datastore.c:246`, a gap in the
  spec). The toast chunk is on `pds_list`, and it is also released through
  its slot chunk's `ktoast`. The spec requires teardown to release every
  chunk on the registry. It does not say to skip owned toast chunks, or to
  release in reverse order. Front-to-back teardown frees the toast, then
  frees it again.
- **`GpuProjectionUnwritten.cfg`, `ResultsWritten`** (`cuda_gpusort.h:175`),
  finding 4. It was a run until `param_offsets` took its place.
- **`ParamBufByRef.cfg`, `ParamsReadBack`** (`datastore.c:90`). This cfg
  has Consts only. A `uuid` Const (fixed length 16, by reference) is copied
  from `&con->constvalue`. That Datum holds a pointer, so the buffer gets
  the pointer's bytes and whatever follows the Datum field. Line 138 does
  the same for a Param.
- **`ChunkDoubleUnlink.cfg`, `UnlinkOnce`** (`datastore.c:256`). A chained
  slot chunk shares its toast's file name. Its release unlinks the file
  through the toast, then again itself. The second unlink fails and logs a
  WARNING, every time.

### Bounds

- **Sort.**
  - `B = 2` is the smallest block size that still has several partitions,
    several blocks per partition and inter-block step kernels.
  - With 4, 5 and 6 rows, `nhalf = 4`, so one outer pass (`i = 2`) runs:
    a reversing step launch (`j = 4`), then the merge.
  - With 8 and 9 rows, `nhalf = 8`, so a second outer pass (`i = 4`) runs:
    a reversing step launch (`j = 8`), then the only non-reversing one
    (`j = 4`), then the merge. 9 rows also give a third partition, of
    one entry.
  - 5, 6 and 9 rows give a short last partition.
  - 1 row gives an empty local schedule.
  - 0 rows gives a local grid of zero blocks, which `cudaLaunchDevice`
    rejects, so only a launch failure follows. The `nhalf` of the undefined
    shift at line 524 is never read.
  - Fixup block sizes 1 to 4: 5 rows in blocks of 2 or 4, and 6 rows in
    blocks of 4, give fixup threads past `nitems`.
- **Data store.**
  - A 256-byte chunk with a 32-byte header holds five or six slot tuples of
    24 or 32 bytes, so `insert_tuple`'s full-chunk return is reached within 6
    calls.
  - The block is scaled to 128 bytes, with up to 2 line pointers per page.
    Once a block and a tuple, or two tuples, are in the chunk, a further
    block fails the pre-check.

- **Projection.**
  - Two blocks are the fewest in which reservations interleave.
  - Two warps per block are the fewest in which the quick-bailout reads can
    disagree.
  - A 64-byte segment with 16-byte rows holds 3 rows without extra bytes, or
    2 rows with extra bytes.
  - `nrooms = 2`.
  - With 3 or 4 input rows, each check (quick bailout, confirmation,
    `nrooms`) passes in some behaviours and fails in others.

- **Devices.**
  - Two devices are the fewest in which the compaction moves an entry down
    (device 0 older than CC 6, device 1 not) and in which the baselines take
    a minimum.
  - CC majors 5, 6 and 7 cover skipped and kept devices and both `CORES_PER_MPU`
    arms that kept devices take (6.0 versus 6.1).
  - Ten catalog attributes: the ones the code reads by name (the two
    compute-capability fields, `MAX_THREADS_PER_BLOCK` and
    `MULTIPROCESSOR_COUNT`) and the ones the scalar accessors return (warp
    size, shared memory, registers, the three PCI ids). The listings print
    the first four, the warp size and the PCI bus. Device `d` has `2 + d`
    multiprocessors and sits on bus `1 + d`, so a stale entry and a kept
    one never look alike.
  - `UINT_MAX` is 65535: larger than every attribute value in the inputs,
    which is all the code relies on.
- **Work-group sizes.**
  - `cl_int` has 8 bits, so `INT_MAX = 127`, and `nitems = 5000` needs more
    than 127 blocks of 32 threads.
  - `shmemSizeTotal` stays below `INT_MAX` in every call, as it does at 32
    bits for any realistic per-thread size (the 32-bit sum exceeds
    `INT_MAX` only at 2 MiB per thread). So the truncation is modelled but
    never bites in this run.
  - A shared-memory limit of 20 bytes with a warp of 8 gives shrinking
    (2 bytes per thread) and failure (16 static bytes plus 1 byte per
    thread).

- **Chunks.**
  - Three descriptors are enough for a toast chunk, its slot chunk and one
    worker mapping, or for three independent chunks.
  - Two file names give two file-backed chunks, or a chained pair and one
    more file.
  - The header is 8 bytes plus 8 per column. With one column, a 20-byte row
    length and one-room slots give a 40-byte toast region and a 32-byte
    slot region at offset 64, so the `BLCKSZ` rounding matters.
  - The four tuple descriptors are:
    - `int4`;
    - `bool, int8` with oids, which shows the oid header and an alignment
      step from 1 to 8;
    - `text, int4`, a varlena first column;
    - `int2, numeric, int4`, where only the internal format keeps the later
      offsets cached.
  - `StaleDeltas` of -8, 0 and 8 make the unset length one word short,
    exact, or one word long.

- **Parameter buffer.**
  - Lists of up to three nodes let a Param follow a Const, and let two
    Params share an id, so the second one sees what the hook left.
  - Param ids 0 to 3 against two entries cover both ends of the range
    check.
  - The entries are typed or untyped, with and without `paramFetch`. The
    hook may leave the entry untyped, or fill it with a matching type, a
    mismatching type, or a null.

### Fairness

`gpusort_main` is a single device thread that runs its launches one after
another. `Spec` therefore assumes weak fairness of `Next`: the pipeline does
not stop while a launch is enabled. Only `SortRefinement` uses fairness,
through the abstract spec's `WF`. It requires the pipeline to end.

The data-store operations are called by one backend, and nothing forces any
call to happen. `DataStoreRow` therefore has no fairness and no liveness
property. `GpuProjection` has no liveness property either, so it assumes no
fairness.

Every run sets `CHECK_DEADLOCK FALSE`, for a different reason in each model:

- a chunk's filling ends when the caller stops calling;
- a projection launch ends when every block has left the kernel;
- in the sort, `done` is final;
- device discovery runs once, at postmaster start, and ends in `done`,
  `error` or `wild`, and the SQL function ends when it says it is done;
- a sizing call returns once;
- the parameter buffer is built once, ending in `done` or `error`.

- a context stops once teardown has emptied `pds_list`, or once a release
  went `wild`.

`DeviceInfo`, `WorkgroupSize` and `ChunkLifecycle` have no liveness property
and no fairness.
Both procedures are straight-line code over finite input, so they end by
construction.

## Not modelled (yet), and the order of the next modules

1. **The host loop.** It relaunches `gpusort_projection` against fresh
   segments until every row is claimed, then runs `BitonicSort` on each
   segment. The host code is not in `src/`. `GpuProjection` models one
   launch, and what it leaves behind is what the next launch starts from.
2. **The slot branch of fetch.** `kern_fetch_data_store` points a slot
   into the chunk (`datastore.c:216`) without copying. Whether a slot
   outlives its chunk depends on executor code that is not in `src/`.

These are left out for good:

- which pages an oversized `munmap` in `file_unmap` (line 522) would
  remove: the model tracks mapped lengths, not the address space;
- the scalar kds header fields that `init_kern_data_store` writes other
  than `kds->length` (nothing modelled reads them), and the chunks' column
  values;

- `pgstrom_dump_data_store` (logging). Reading it shows that a
  fixed-length column aligns `curr` (line 783) but never advances it by
  `attlen`. Every fixed-length column after the first is therefore printed
  from the previous one's offset. This is wrong output in an INFO dump and
  changes no state;
- the GUC setup;
- the value formatting of `pgstrom_device_info` (pure I/O);
- the `i < 2048` bound on the merge kernel's load loop
  (`cuda_gpusort.h:395`). A CUDA block has at most 1024 threads, so
  `part_size = 2 * block size` never exceeds 2048 and the bound never cuts
  a load short;
- `gpuOptimalBlockSize`, which only forwards the occupancy calculator's
  answer;
- the failure returns of the CUDA attribute queries, which are plain ERRORs;
- the use of the sizing result by `gpusort_main`, which goes through the
  device-side `pgstrom_largest_workgroup_size`, defined outside `src/`.
  `BitonicSort` takes that result as the constant `KernelMaxThreads`.
