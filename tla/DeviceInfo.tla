---------------------------- MODULE DeviceInfo -----------------------------
(***************************************************************************)
(* pgstrom_collect_gpu_device (src/src/gpu_device.c:69-266): the parse of *)
(* the output of `gpuinfo -md`, one action per branch of the fgets loop,   *)
(* followed by the compaction loop that drops the devices older than CC    *)
(* 6.0, one action per iteration.  An access to devAttrs outside the      *)
(* allocation (a NULL pointer, or an index past what MemoryContextAllocZero *)
(* allocated) is undefined behaviour; the model stops there in the state   *)
(* "wild".  ERROR (elog) ends the procedure in "error".                    *)
(***************************************************************************)
EXTENDS DeviceLines, FiniteSets

CONSTANTS
    Inputs,       \* the possible outputs of gpuinfo, sequences of lines
    MaxDevices    \* the largest NUMBER_OF_DEVICES in Inputs

ASSUME \A in \in Inputs : \A k \in DOMAIN in :
          in[k].tag = "PLATFORM" /\ in[k].attr = "NUMBER_OF_DEVICES"
              => in[k].val <= MaxDevices

VARIABLES
    input,        \* what the pipe from gpuinfo delivers
    pos,          \* the next line fgets returns
    cudaVer,      \* cuda_runtime_version # NULL
    drvVer,       \* nvidia_driver_version # NULL
    numDevices,   \* num_devices
    alloc,        \* number of entries allocated to devAttrs; -1 is NULL
    devAttrs,     \* devAttrs[0 .. alloc-1]
    i, j,         \* the compaction loop's indexes
    devCC,        \* devComputeCapability
    devMaxTPB,    \* devBaselineMaxThreadsPerBlock
    numDevAttrs,
    pc,           \* "read", "compact", "done", "error" or "wild"
    parsed,       \* history: devAttrs when the compaction loop starts
    callCntr,     \* funcctx->call_cntr of pgstrom_device_info
    srfRows,      \* the <<id, attribute index>> of each row it returned
    srfDone,      \* it returned SRF_RETURN_DONE
    answer        \* the last answer of a scalar accessor such as pgstrom_gpu_cc_major

vars == <<input, pos, cudaVer, drvVer, numDevices, alloc, devAttrs,
          i, j, devCC, devMaxTPB, numDevAttrs, pc, parsed,
          callCntr, srfRows, srfDone, answer>>

discovery == <<input, pos, cudaVer, drvVer, numDevices, alloc, devAttrs,
               i, j, devCC, devMaxTPB, numDevAttrs, pc, parsed>>

srf == <<callCntr, srfRows, srfDone, answer>>

DevIds == 0..MaxDevices - 1

\* The indexes a query passes: one below and one past every table.
QueryIdx == -1..MaxDevices

NoAnswer == [fn |-> "none", dindex |-> 0, status |-> "none", val |-> 0]

Line == input[pos]

Init ==
    /\ input \in Inputs
    /\ pos = 1
    /\ cudaVer = FALSE
    /\ drvVer = FALSE
    /\ numDevices = -1
    /\ alloc = -1
    /\ devAttrs = [d \in DevIds |-> ZeroDev]
    /\ i = 0
    /\ j = 0
    /\ devCC = UIntMax
    /\ devMaxTPB = UIntMax
    /\ numDevAttrs = 0
    /\ pc = "read"
    /\ parsed = devAttrs
    /\ callCntr = 0
    /\ srfRows = <<>>
    /\ srfDone = FALSE
    /\ answer = NoAnswer

Reading == pc = "read" /\ pos <= Len(input)

Fail == pc' = "error" /\ UNCHANGED <<input, pos, cudaVer, drvVer, numDevices,
                     alloc, devAttrs, i, j, devCC, devMaxTPB, numDevAttrs, parsed>>

\* Lines 91-97: a line that is empty once trailing white space is trimmed.
SkipEmpty ==
    /\ Reading
    /\ Line.tag = "EMPTY"
    /\ pos' = pos + 1
    /\ UNCHANGED <<input, cudaVer, drvVer, numDevices, alloc, devAttrs,
                   i, j, devCC, devMaxTPB, numDevAttrs, pc, parsed>>
    /\ UNCHANGED srf

\* Lines 99-107 and 165-166: no ':', no '=', or a prefix that is neither
\* PLATFORM nor DEVICE.
Unparsable ==
    /\ Reading
    /\ Line.tag \in {"NOCOLON", "NOEQUAL", "OTHER"}
    /\ Fail
    /\ UNCHANGED srf

\* Mutant: the negative-count check at line 118 dropped.
PlatformNoNegCheck ==
    LET l == Line IN
    /\ Reading
    /\ l.tag = "PLATFORM"
    /\ \/ /\ l.attr = "CUDA_RUNTIME_VERSION"
          /\ cudaVer' = TRUE
          /\ pos' = pos + 1
          /\ UNCHANGED <<drvVer, numDevices>>
       \/ /\ l.attr = "NVIDIA_DRIVER_VERSION"
          /\ drvVer' = TRUE
          /\ pos' = pos + 1
          /\ UNCHANGED <<cudaVer, numDevices>>
       \/ /\ l.attr = "NUMBER_OF_DEVICES"
          /\ numDevices' = l.val
          /\ pos' = pos + 1
          /\ UNCHANGED <<cudaVer, drvVer>>
    /\ UNCHANGED <<input, alloc, devAttrs, i, j, devCC, devMaxTPB,
                   numDevAttrs, pc, parsed>>
    /\ UNCHANGED srf

\* Lines 109-123.
Platform ==
    LET l == Line IN
    /\ Reading
    /\ l.tag = "PLATFORM"
    /\ \/ /\ l.attr = "CUDA_RUNTIME_VERSION"
          /\ cudaVer' = TRUE
          /\ pos' = pos + 1
          /\ UNCHANGED <<drvVer, numDevices>>
       \/ /\ l.attr = "NVIDIA_DRIVER_VERSION"
          /\ drvVer' = TRUE
          /\ pos' = pos + 1
          /\ UNCHANGED <<cudaVer, numDevices>>
       \/ /\ l.attr = "NUMBER_OF_DEVICES"
          /\ l.val >= 0
          /\ numDevices' = l.val
          /\ pos' = pos + 1
          /\ UNCHANGED <<cudaVer, drvVer>>
    /\ UNCHANGED <<input, alloc, devAttrs, i, j, devCC, devMaxTPB,
                   numDevAttrs, pc, parsed>>
    /\ UNCHANGED srf

\* Lines 118-122: a negative device count or an unknown PLATFORM attribute.
PlatformFails ==
    /\ Reading
    /\ Line.tag = "PLATFORM"
    /\ \/ Line.attr \notin PlatformAttrs
       \/ Line.attr = "NUMBER_OF_DEVICES" /\ Line.val < 0
    /\ Fail
    /\ UNCHANGED srf

\* Lines 128-138: the first DEVICE line allocates devAttrs, zero-filled,
\* with num_devices entries.  Assert(num_devices > 0) is compiled out of a
\* release build, so a count of zero allocates zero entries.
Allocated == IF alloc = -1 THEN numDevices ELSE alloc
AllocatedAttrs == IF alloc = -1 THEN [d \in DevIds |-> ZeroDev] ELSE devAttrs
MayAllocate == alloc = -1 => cudaVer /\ drvVer /\ numDevices >= 0

\* Mutant: the upper bound of the index check at line 140 dropped.
DeviceNoUpperCheck ==
    LET l == Line
        d == l.dev
    IN
    /\ Reading
    /\ l.tag = "DEVICE"
    /\ MayAllocate
    /\ 0 <= d
    /\ l.attr \in DeviceAttrs
    /\ l.attr = "DEVICE_ID" => l.val = d
    /\ alloc' = Allocated
    /\ IF d < alloc'
         THEN /\ devAttrs' = [AllocatedAttrs EXCEPT ![d][FieldOf[l.attr]] =
                                 IF l.attr = "DEVICE_ID" THEN d ELSE l.val]
              /\ pos' = pos + 1
              /\ UNCHANGED pc
         ELSE /\ pc' = "wild"
              /\ UNCHANGED <<devAttrs, pos>>
    /\ UNCHANGED <<input, cudaVer, drvVer, numDevices, i, j, devCC,
                   devMaxTPB, numDevAttrs, parsed>>
    /\ UNCHANGED srf

\* Lines 124-164: a DEVICE line that passes every check stores its value in
\* devAttrs[dindex]: DEVICE_ID stores dindex, every other attribute its
\* value.  The store is out of bounds when the count grew after the
\* allocation.
Device ==
    LET l == Line
        d == l.dev
    IN
    /\ Reading
    /\ l.tag = "DEVICE"
    /\ MayAllocate
    /\ 0 <= d /\ d < numDevices
    /\ l.attr \in DeviceAttrs
    /\ l.attr = "DEVICE_ID" => l.val = d
    /\ alloc' = Allocated
    /\ IF d < alloc'
         THEN /\ devAttrs' = [AllocatedAttrs EXCEPT ![d][FieldOf[l.attr]] =
                                 IF l.attr = "DEVICE_ID" THEN d ELSE l.val]
              /\ pos' = pos + 1
              /\ UNCHANGED pc
         ELSE /\ pc' = "wild"
              /\ UNCHANGED <<devAttrs, pos>>
    /\ UNCHANGED <<input, cudaVer, drvVer, numDevices, i, j, devCC,
                   devMaxTPB, numDevAttrs, parsed>>
    /\ UNCHANGED srf

\* The ERROR exits of a DEVICE line: missing platform lines (130-133), the
\* index out of range (140-141), a DEVICE_ID that disagrees with the index
\* (149-150) and an unknown attribute (161-162).  The allocation at 135 has
\* happened by the time the later checks fail, but nothing reads it after
\* an ERROR.
DeviceFails ==
    LET l == Line IN
    /\ Reading
    /\ l.tag = "DEVICE"
    /\ \/ ~MayAllocate
       \/ /\ MayAllocate
          /\ \/ l.dev < 0 \/ l.dev >= numDevices
             \/ l.attr = "DEVICE_ID" /\ l.val # l.dev
             \/ l.attr \notin DeviceAttrs
    /\ Fail
    /\ UNCHANGED srf

\* Line 168: the pipe is closed and its exit status is not looked at.
EndOfInput ==
    /\ pc = "read"
    /\ pos > Len(input)
    /\ pc' = "compact"
    /\ parsed' = devAttrs
    /\ UNCHANGED <<input, pos, cudaVer, drvVer, numDevices, alloc, devAttrs,
                   i, j, devCC, devMaxTPB, numDevAttrs>>
    /\ UNCHANGED srf

\* CORES_PER_MPU by compute capability, lines 195-220.
CoresPerMPU(major, minor) ==
    CASE major = 1 -> 8
      [] major = 2 -> (CASE minor = 0 -> 32 [] minor = 1 -> 48 [] OTHER -> -1)
      [] major = 3 -> 192
      [] major = 5 -> 128
      [] major = 6 -> IF minor = 0 THEN 64 ELSE 128
      [] major = 7 -> 64
      [] OTHER -> 0

Iterating == pc = "compact" /\ i < numDevices

\* Line 172/176 read devAttrs[i] for every i < num_devices; the pointer is
\* NULL when no DEVICE line came, and the entry is past the allocation when
\* the count grew after it.
CompactWild ==
    /\ Iterating
    /\ i >= alloc
    /\ pc' = "wild"
    /\ UNCHANGED <<input, pos, cudaVer, drvVer, numDevices, alloc, devAttrs,
                   i, j, devCC, devMaxTPB, numDevAttrs, parsed>>
    /\ UNCHANGED srf

\* Mutant: the baselines updated before the CC check, as if lines 186-192
\* stood above line 176.
CompactSkipBaselineFirst ==
    /\ Iterating
    /\ i < alloc
    /\ ~Supported(devAttrs[i])
    /\ devCC' = MinOf(devCC, ComputeCapability(devAttrs[i]))
    /\ devMaxTPB' = MinOf(devMaxTPB, devAttrs[i]["MAX_THREADS_PER_BLOCK"])
    /\ i' = i + 1
    /\ UNCHANGED <<input, pos, cudaVer, drvVer, numDevices, alloc, devAttrs,
                   j, numDevAttrs, pc, parsed>>
    /\ UNCHANGED srf

\* Lines 176-184: an unsupported device is skipped.
CompactSkip ==
    /\ Iterating
    /\ i < alloc
    /\ ~Supported(devAttrs[i])
    /\ i' = i + 1
    /\ UNCHANGED <<input, pos, cudaVer, drvVer, numDevices, alloc, devAttrs,
                   j, devCC, devMaxTPB, numDevAttrs, pc, parsed>>
    /\ UNCHANGED srf

\* Mutant: the memcpy at line 258 left out.
CompactKeepNoMove ==
    LET da   == devAttrs[i]
        kept == [da EXCEPT !["CORES_PER_MPU"] =
                    CoresPerMPU(da["COMPUTE_CAPABILITY_MAJOR"],
                                da["COMPUTE_CAPABILITY_MINOR"])]
    IN
    /\ Iterating
    /\ i < alloc
    /\ Supported(da)
    /\ devCC' = MinOf(devCC, ComputeCapability(da))
    /\ devMaxTPB' = MinOf(devMaxTPB, da["MAX_THREADS_PER_BLOCK"])
    /\ devAttrs' = [devAttrs EXCEPT ![i] = kept]
    /\ i' = i + 1
    /\ j' = j + 1
    /\ UNCHANGED <<input, pos, cudaVer, drvVer, numDevices, alloc,
                   numDevAttrs, pc, parsed>>
    /\ UNCHANGED srf

\* Lines 186-260: a supported device updates the baselines, gets its
\* CORES_PER_MPU, and is moved down to devAttrs[j].
CompactKeep ==
    LET da   == devAttrs[i]
        kept == [da EXCEPT !["CORES_PER_MPU"] =
                    CoresPerMPU(da["COMPUTE_CAPABILITY_MAJOR"],
                                da["COMPUTE_CAPABILITY_MINOR"])]
    IN
    /\ Iterating
    /\ i < alloc
    /\ Supported(da)
    /\ devCC' = MinOf(devCC, ComputeCapability(da))
    /\ devMaxTPB' = MinOf(devMaxTPB, da["MAX_THREADS_PER_BLOCK"])
    /\ devAttrs' = [devAttrs EXCEPT ![i] = kept, ![j] = kept]
    /\ i' = i + 1
    /\ j' = j + 1
    /\ UNCHANGED <<input, pos, cudaVer, drvVer, numDevices, alloc,
                   numDevAttrs, pc, parsed>>
    /\ UNCHANGED srf

\* Lines 262-265.
CompactDone ==
    /\ pc = "compact"
    /\ i >= numDevices
    /\ numDevAttrs' = j
    /\ pc' = IF j = 0 THEN "error" ELSE "done"
    /\ UNCHANGED <<input, pos, cudaVer, drvVer, numDevices, alloc, devAttrs,
                   i, j, devCC, devMaxTPB, parsed>>
    /\ UNCHANGED srf

\* The rows of pgstrom_device_info per device: id, name, memory size and
\* one per DevAttrCatalog entry.
RowsPerDevice == Cardinality(CatalogAttrs) + 3

\* Mutant: the end test of line 505 off by one.
DeviceInfoCallPastEnd ==
    LET dindex == callCntr \div RowsPerDevice
        aindex == callCntr % RowsPerDevice
    IN
    /\ pc = "done"
    /\ ~srfDone
    /\ \/ /\ dindex > numDevAttrs
          /\ srfDone' = TRUE
          /\ UNCHANGED <<callCntr, srfRows>>
       \/ /\ dindex <= numDevAttrs
          /\ srfRows' = Append(srfRows, <<dindex, aindex>>)
          /\ callCntr' = callCntr + 1
          /\ UNCHANGED srfDone
    /\ UNCHANGED <<discovery, answer>>

\* Lines 503-508 and 585-593: one call of the set-returning function, in a
\* backend after discovery succeeded.  The formatting of the value
\* (lines 510-584) is left out.
DeviceInfoCall ==
    LET dindex == callCntr \div RowsPerDevice
        aindex == callCntr % RowsPerDevice
    IN
    /\ pc = "done"
    /\ ~srfDone
    /\ \/ /\ dindex >= numDevAttrs
          /\ srfDone' = TRUE
          /\ UNCHANGED <<callCntr, srfRows>>
       \/ /\ dindex < numDevAttrs
          /\ srfRows' = Append(srfRows, <<dindex, aindex>>)
          /\ callCntr' = callCntr + 1
          /\ UNCHANGED srfDone
    /\ UNCHANGED <<discovery, answer>>

\* The scalar accessors that return one field, and the field (lines
\* 597-737).
AccessorField == [gpu_device_name |-> "DEV_NAME",
                  gpu_global_memsize |-> "DEV_TOTAL_MEMSZ",
                  gpu_max_blocksize |-> "MAX_THREADS_PER_BLOCK",
                  gpu_warp_size |-> "WARP_SIZE",
                  gpu_max_shared_memory_perblock |-> "MAX_SHARED_MEMORY_PER_BLOCK",
                  gpu_num_registers_perblock |-> "MAX_REGISTERS_PER_BLOCK",
                  gpu_num_multiptocessors |-> "MULTIPROCESSOR_COUNT",
                  gpu_cc_major |-> "COMPUTE_CAPABILITY_MAJOR",
                  gpu_cc_minor |-> "COMPUTE_CAPABILITY_MINOR"]

\* The fields pgstrom_gpu_pci_id formats as "%04d:%02d:%02d" (lines
\* 749-752).  The text is kept as the triple: the ':' separators make the
\* formatting one-to-one, and nothing below looks inside the text.
PciFields == <<"PCI_DOMAIN_ID", "PCI_BUS_ID", "PCI_DEVICE_ID">>

ASSUME Range(AccessorField) \cup Range(PciFields) \subseteq Fields

Accessors == DOMAIN AccessorField \cup {"gpu_num_cuda_cores", "gpu_pci_id"}

\* What accessor fn returns for the entry da (lines 705-707: the cores are
\* CORES_PER_MPU * MULTIPROCESSOR_COUNT).
AccessorValue(fn, da) ==
    CASE fn = "gpu_num_cuda_cores" ->
           da["CORES_PER_MPU"] * da["MULTIPROCESSOR_COUNT"]
      [] fn = "gpu_pci_id" -> [k \in 1..3 |-> da[PciFields[k]]]
      [] OTHER -> da[AccessorField[fn]]

\* Mutant: the upper bound of the index check off by one.
GpuAttrCallPastEnd ==
    /\ pc = "done"
    /\ \E fn \in Accessors, d \in QueryIdx :
         answer' = IF d < 0 \/ d > numDevAttrs
                     THEN [fn |-> fn, dindex |-> d, status |-> "error", val |-> 0]
                     ELSE [fn |-> fn, dindex |-> d, status |-> "ok",
                           val |-> AccessorValue(fn, devAttrs[d])]
    /\ UNCHANGED <<discovery, callCntr, srfRows, srfDone>>

\* Lines 597-755: one call of a scalar accessor with index d, in a backend
\* after discovery succeeded: an ERROR outside 0..numDevAttrs - 1, else
\* the field of devAttrs[d].
GpuAttrCall ==
    /\ pc = "done"
    /\ \E fn \in Accessors, d \in QueryIdx :
         answer' = IF d < 0 \/ d >= numDevAttrs
                     THEN [fn |-> fn, dindex |-> d, status |-> "error", val |-> 0]
                     ELSE [fn |-> fn, dindex |-> d, status |-> "ok",
                           val |-> AccessorValue(fn, devAttrs[d])]
    /\ UNCHANGED <<discovery, callCntr, srfRows, srfDone>>

Discovery ==
    \/ SkipEmpty \/ Unparsable \/ Platform \/ PlatformFails
    \/ Device \/ DeviceFails \/ EndOfInput
    \/ CompactWild \/ CompactSkip \/ CompactKeep \/ CompactDone

Next == Discovery \/ DeviceInfoCall \/ GpuAttrCall

Spec == Init /\ [][Next]_vars

-----------------------------------------------------------------------------
(* Properties *)

TypeOK ==
    /\ input \in Inputs
    /\ pos \in 1..Len(input) + 1
    /\ cudaVer \in BOOLEAN /\ drvVer \in BOOLEAN
    /\ numDevices \in -1..MaxDevices
    /\ alloc \in -1..MaxDevices
    /\ devAttrs \in [DevIds -> [Fields -> Int]]
    /\ i \in 0..MaxDevices /\ j \in 0..i
    /\ devCC \in Int /\ devMaxTPB \in Int
    /\ numDevAttrs \in 0..MaxDevices
    /\ pc \in {"read", "compact", "done", "error", "wild"}
    /\ callCntr \in Nat /\ srfRows \in Seq(DevIds \X Nat) /\ srfDone \in BOOLEAN
    /\ answer.fn \in Accessors \cup {"none"} /\ answer.dindex \in QueryIdx
    /\ answer.status \in {"ok", "error", "none"}
    /\ IF answer.fn = "gpu_pci_id" /\ answer.status = "ok"
         THEN answer.val \in [1..3 -> Int] ELSE answer.val \in Int

\* Every access the parse and the compaction loop make to devAttrs lies
\* inside what MemoryContextAllocZero allocated (lines 135, 145, 172).
MemorySafe == pc # "wild"

\* The gpuinfo listings on which the parse or the compaction may leave the
\* allocation: no DEVICE line at all, so devAttrs stays NULL, or a
\* NUMBER_OF_DEVICES line after a DEVICE line, which may raise the count
\* past the entries allocated at the first DEVICE line.
NoDeviceLine(in) == \A k \in DOMAIN in : in[k].tag # "DEVICE"

CountAfterDevice(in) ==
    \E k1, k2 \in DOMAIN in :
        /\ k1 < k2
        /\ in[k1].tag = "DEVICE"
        /\ in[k2].tag = "PLATFORM" /\ in[k2].attr = "NUMBER_OF_DEVICES"

\* Discovery touches memory outside devAttrs (lines 145, 172, 176) only
\* for those two kinds of listing: every other output, well-formed or
\* rejected with an ERROR, is parsed and compacted inside the allocation.
\* The index check at line 140 and the MayAllocate checks are what keep
\* the other listings safe.
WildOnlyOnBadListing ==
    pc = "wild" => NoDeviceLine(input) \/ CountAfterDevice(input)

\* The in-place compaction (lines 170-261) keeps its loop invariant: the
\* first j entries are the supported devices among the first i parsed
\* ones, in order and with CORES_PER_MPU filled in, and the entries from i
\* on are still the parsed ones, not yet overwritten by a memcpy.
ParsedPrefix == [k \in 1..i |-> parsed[k - 1]]

CompactionInvariant ==
    pc \in {"compact", "done"} /\ i <= alloc =>
        LET kept == SelectSeq(ParsedPrefix, Supported) IN
        /\ j = Len(kept)
        /\ \A k \in 0..j - 1 :
              [f \in Fields \ {"CORES_PER_MPU"} |-> devAttrs[k][f]]
                = [f \in Fields \ {"CORES_PER_MPU"} |-> kept[k + 1][f]]
        /\ \A k \in 0..j - 1 : Supported(devAttrs[k])
        /\ \A k \in i..alloc - 1 : devAttrs[k] = parsed[k]

\* pgstrom_device_info returns every attribute of every published device
\* exactly once, device by device, and no row of an entry past
\* numDevAttrs, before it says it is done.
SrfListsEveryAttribute ==
    /\ \A k \in DOMAIN srfRows : srfRows[k][1] < numDevAttrs
    /\ srfDone =>
         /\ Len(srfRows) = numDevAttrs * RowsPerDevice
         /\ {srfRows[k] : k \in DOMAIN srfRows}
              = (0..numDevAttrs - 1) \X (0..RowsPerDevice - 1)

\* devAttrs[k], keyed by the attribute name of the line that sets it.
Entry(k) == [a \in DeviceAttrs |-> devAttrs[k][FieldOf[a]]]

Abs == INSTANCE DeviceTable WITH
    status  <- CASE pc \in {"read", "compact", "wild"} -> "probing"
                 [] pc = "done"  -> "ready"
                 [] pc = "error" -> "failed",
    table   <- IF pc = "done" THEN [k \in 1..numDevAttrs |-> Entry(k - 1)]
                              ELSE <<>>,
    baseCC  <- IF pc = "done" THEN devCC ELSE UIntMax,
    baseTPB <- IF pc = "done" THEN devMaxTPB ELSE UIntMax

\* Whatever the parse and the compaction publish in devAttrs,
\* numDevAttrs, devComputeCapability and devBaselineMaxThreadsPerBlock is
\* what the gpuinfo output describes: its supported devices in index
\* order and the minima over them.
DeviceTableRefinement == Abs!Spec

\* The supported devices of the gpuinfo listing, in index order, with the
\* CORES_PER_MPU their compute capability gives.
ListedSupported ==
    LET kept == SelectSeq([k \in 1..alloc |-> parsed[k - 1]], Supported)
    IN  [k \in DOMAIN kept |->
           [kept[k] EXCEPT !["CORES_PER_MPU"] =
               CoresPerMPU(kept[k]["COMPUTE_CAPABILITY_MAJOR"],
                           kept[k]["COMPUTE_CAPABILITY_MINOR"])]]

\* A scalar accessor such as pgstrom_gpu_cc_major(d) answers exactly for
\* the ids pgstrom_device_info lists, and with the attribute of the d-th
\* supported device of the gpuinfo listing, after the parse, the in-place
\* compaction and the bounds check of lines 603-605.
AccessorAgreesWithListing ==
    answer.status # "none" =>
        IF answer.dindex \in 0..Len(ListedSupported) - 1
          THEN /\ answer.status = "ok"
               /\ answer.val = AccessorValue(answer.fn, ListedSupported[answer.dindex + 1])
          ELSE answer.status = "error"
=============================================================================
