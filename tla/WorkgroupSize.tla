--------------------------- MODULE WorkgroupSize ---------------------------
(***************************************************************************)
(* The launch geometry of src/src/gpu_device.c:297-462.                    *)
(*                                                                         *)
(* largest_workgroup_size takes the kernel's own thread limit and shrinks *)
(* it, in warp units, until the shared memory it needs fits the device;   *)
(* optimal_workgroup_size takes the block size the CUDA occupancy         *)
(* calculator proposes.  Both refuse an item count that would need more   *)
(* than INT_MAX blocks and return ceil(nitems / block) blocks.             *)
(*                                                                         *)
(* One call is one step.  The arguments of a call, and the attributes the *)
(* driver reports for the function and the device, are a record drawn     *)
(* from Calls.  cl_int has IntBits bits: shmemSizeTotal (line 400) is a   *)
(* size_t sum stored in a cl_int, modelled by its truncation.  The choice *)
(* cuOccupancyMaxPotentialBlockSize makes is nondeterministic among the   *)
(* block sizes whose shared memory, as blocksize_to_shmemsize_helper      *)
(* computes it, fits; it reports 0 when none does.                        *)
(***************************************************************************)
EXTENDS Integers, FiniteSetsExt

CONSTANTS
    IntBits,   \* width of cl_int and int
    Calls      \* the possible calls, records described by CallFields

ASSUME IntBits \in 4..16

IntMax == 2^(IntBits - 1) - 1

\* The value a C int holds after a wider value is stored in it.
ToCInt(x) == LET m == x % 2^IntBits IN IF m > IntMax THEN m - 2^IntBits ELSE m

\* kind: which function; nitems, perBlock, perThread: its arguments;
\* maxBlock: CU_FUNC_ATTRIBUTE_MAX_THREADS_PER_BLOCK; static:
\* CU_FUNC_ATTRIBUTE_SHARED_SIZE_BYTES; warp: CU_DEVICE_ATTRIBUTE_WARP_SIZE;
\* maxShmem: CU_DEVICE_ATTRIBUTE_SHARED_MEMORY_PER_BLOCK.
CallFields == {"kind", "nitems", "perBlock", "perThread", "maxBlock",
               "static", "warp", "maxShmem"}

ASSUME \A c \in Calls : DOMAIN c = CallFields /\ c.warp > 0

VARIABLES call, result

vars == <<call, result>>

Results == [status : {"ok", "error", "fault"}, block : 0..IntMax, grid : 0..IntMax]
Pending == [status |-> "pending", block |-> 0, grid |-> 0]
Err == [status |-> "error", block |-> 0, grid |-> 0]

\* ceil(nitems / block), as lines 349 and 429 compute it.
GridSize(nitems, block) == (nitems + block - 1) \div block

\* Mutant: the INT_MAX check of lines 344 and 424 left out.
GeometryUnchecked(nitems, block) ==
    CASE block = 0 -> [status |-> "fault", block |-> 0, grid |-> 0]
      [] OTHER -> [status |-> "ok", block |-> block,
                   grid |-> GridSize(nitems, block)]

\* Lines 344-349 and 424-429: the INT_MAX check, then the geometry.  A
\* block size of 0 passes the check only when nitems is 0, and then the
\* division faults.
Geometry(nitems, block) ==
    CASE block * IntMax < nitems -> Err
      [] block = 0 -> [status |-> "fault", block |-> 0, grid |-> 0]
      [] OTHER -> [status |-> "ok", block |-> block,
                   grid |-> GridSize(nitems, block)]

\* blocksize_to_shmemsize_helper, lines 305-309, with the static part the
\* occupancy calculator adds to it.
ShmemOf(c, b) == c.static + c.perBlock + c.perThread * b

\* Lines 400-403: shmemSizeTotal and whether the kernel's own limit fits.
ShmemSizeTotal(c) == ToCInt(c.static + c.perBlock + c.perThread * c.maxBlock)

LimitFits(c) == ShmemSizeTotal(c) <= c.maxShmem

\* Lines 405-408, in size_t arithmetic: at least one warp fits.
CanShrink(c) == c.perThread > 0 /\ ShmemOf(c, c.warp) <= c.maxShmem

\* Mutant: line 413, the rounding down to a multiple of the warp size,
\* left out.
ShrunkBlockUnrounded(c) ==
    (c.maxShmem - c.static - c.perBlock) \div c.perThread

\* Lines 410-413: the largest multiple of the warp size that fits.
ShrunkBlock(c) ==
    (((c.maxShmem - c.static - c.perBlock) \div c.perThread) \div c.warp) * c.warp

\* Lines 355-430.
LargestWorkgroupSize ==
    /\ call.kind = "largest"
    /\ result = Pending
    /\ result' = CASE LimitFits(call) -> Geometry(call.nitems, call.maxBlock)
                    [] CanShrink(call) -> Geometry(call.nitems, ShrunkBlock(call))
                    [] OTHER           -> Err
    /\ UNCHANGED call

\* What cuOccupancyMaxPotentialBlockSize may return with the blockSizeLimit
\* of line 338.
OccupancyChoices(c) ==
    LET lim  == Min({c.nitems, IntMax})
        cap  == IF lim = 0 THEN c.maxBlock ELSE Min({lim, c.maxBlock})
        fits == {b \in 1..cap : ShmemOf(c, b) <= c.maxShmem}
    IN  IF fits = {} THEN {0} ELSE fits

\* Lines 311-350.
OptimalWorkgroupSize ==
    /\ call.kind = "optimal"
    /\ result = Pending
    /\ \E b \in OccupancyChoices(call) : result' = Geometry(call.nitems, b)
    /\ UNCHANGED call

Init ==
    /\ call \in Calls
    /\ result = Pending

Next == LargestWorkgroupSize \/ OptimalWorkgroupSize

Spec == Init /\ [][Next]_vars

-----------------------------------------------------------------------------
(* Properties *)

TypeOK ==
    /\ call \in Calls
    /\ result \in Results \cup {Pending}

\* The block sizes largest_workgroup_size means to choose among: at most
\* the kernel's limit, fitting the device's shared memory, and either the
\* kernel's limit itself or a whole number of warps.
LargestCandidates(c) ==
    {b \in 1..c.maxBlock : /\ ShmemOf(c, b) <= c.maxShmem
                          /\ (b = c.maxBlock \/ b % c.warp = 0)}

\* The closed form of lines 400-413 picks the largest candidate, and fails
\* exactly when there is none.
LargestIsReference ==
    call.kind = "largest" /\ result # Pending =>
        IF LargestCandidates(call) = {}
          THEN result = Err
          ELSE result = Geometry(call.nitems, Max(LargestCandidates(call)))
=============================================================================
