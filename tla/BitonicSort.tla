---------------------------- MODULE BitonicSort ----------------------------
(***************************************************************************)
(* The GpuSort bitonic pipeline of src/src/cuda_gpusort.h: the control     *)
(* kernel gpusort_main, which picks a common power-of-two block size and   *)
(* launches gpusort_bitonic_local, then for each outer pass a series of    *)
(* gpusort_bitonic_step launches and one gpusort_bitonic_merge, then       *)
(* gpusort_fixup_pointers, synchronising the device after every launch.    *)
(*                                                                         *)
(* One launch is one atomic step of the model: gpusort_main waits with     *)
(* cudaDeviceSynchronize() for each launch to finish before the next.      *)
(* Inside a launch the threads of a round run in parallel between two      *)
(* __syncthreads() (or, for the step kernel, within the whole launch); a   *)
(* round is therefore applied as one simultaneous set of compare-and-swap  *)
(* operations, and NoRace checks that the set really is race free.         *)
(*                                                                         *)
(* The data are abstracted to what the comparator sees: the result array   *)
(* holds slot-row numbers, each slot row carries a key from Keys.  With    *)
(* Keys = {0, 1} the 0-1 principle of comparator networks makes "sorts     *)
(* every 0/1 input" equivalent to "sorts every input".                     *)
(***************************************************************************)
EXTENDS Naturals, SequencesExt

CONSTANTS
  NItems,            \* possible kresults->nitems of a segment
  Keys,              \* sort-key values
  KernelMaxThreads,  \* max threads per block of <<local, step, merge>>
  FixupMaxThreads    \* max threads per block of gpusort_fixup_pointers

ASSUME NItems \subseteq Nat
ASSUME KernelMaxThreads \in [1 .. 3 -> Nat \ {0}]
ASSUME FixupMaxThreads \in Nat \ {0}

VARIABLES
  nitems,    \* kresults->nitems
  key,       \* key[r]: what gpusort_keycomp compares for slot row r
  results,   \* kresults->results[0 .. nitems-1]
  pc,        \* next launch of gpusort_main
  i, j,      \* the loop variables of gpusort_main's inter-block loops
  round,     \* the barrier round the running kernel is in (1-based)
  kerror,    \* kresults->kerror
  translated \* translated[r]: times slot row r's pointers were made host ones

vars == <<nitems, key, results, pc, i, j, round, kerror, translated>>

Pos == 0 .. nitems - 1

(***************************************************************************)
(* get_next_log2(v): the least k with 2^k >= v (cuda_common.h, outside    *)
(* src/; this is the meaning both its uses in gpusort_main rely on).       *)
(***************************************************************************)
NextLog2(v) == CHOOSE k \in 0 .. 31 : 2^k >= v /\ (k = 0 \/ 2^(k - 1) < v)

(* The common block size: the least of the three kernels' maxima, each    *)
(* rounded down to a power of two.                                         *)
BlockSize == Min({2^(NextLog2(KernelMaxThreads[f] + 1) - 1) : f \in 1 .. 3})

B == BlockSize

(* nhalf = 1 << (get_next_log2(nitems + 1) - 1).  For nitems = 0 the      *)
(* shift count is -1, undefined behaviour; 0 stands for whatever it gives. *)
NHalf == IF nitems = 0 THEN 0 ELSE 2^(NextLog2(nitems + 1) - 1)

(* gpusort_keycomp: the generated three-way comparison of two slot rows.  *)
KeyComp(x, y) ==
  IF key[x] > key[y] THEN 1 ELSE IF key[x] < key[y] THEN -1 ELSE 0

(* Variant of Partner with the reversing branch lost: every unit compares *)
(* idx0 with idx0 + unitSize/2, the classic half-cleaner only.             *)
PartnerNoReverse(idx0, unitSize, reversing) == idx0 + unitSize \div 2

(* The partner of idx0 in a unit of unitSize elements: the mirrored index *)
(* (idx0 & ~unitMask) | (~idx0 & unitMask) when reversing, else the one   *)
(* half a unit ahead.  For a power-of-two unit the bit formula equals the  *)
(* arithmetic one below.                                                   *)
Partner(idx0, unitSize, reversing) ==
  IF reversing THEN (idx0 \div unitSize) * unitSize
                    + (unitSize - 1 - (idx0 % unitSize))
               ELSE idx0 + unitSize \div 2

(* The first index a thread compares: idx0 of the three kernels.          *)
FirstIndex(tid, unitSize) ==
  (tid \div (unitSize \div 2)) * unitSize + (tid % (unitSize \div 2))

(***************************************************************************)
(* Partitions of the local and merge kernels: ((nitems+1)/2 + B-1)/B       *)
(* blocks of B threads; block p owns 2*B entries from p*2*B, the last one  *)
(* cut to what is left of nitems.                                          *)
(***************************************************************************)
NumBlocks == ((nitems + 1) \div 2 + B - 1) \div B

PartBase(p) == p * 2 * B

PartSize(p) ==
  IF PartBase(p) + 2 * B > nitems THEN nitems - PartBase(p) ELSE 2 * B

(* Variant of Swapped with a copy-and-paste slip: the swap stores pos1    *)
(* into both localIdx[idx0] and localIdx[idx1].                            *)
SwappedDup(arr, pr) ==
  IF KeyComp(arr[pr[1]], arr[pr[2]]) > 0
    THEN <<arr[pr[2]], arr[pr[2]]>>
    ELSE <<arr[pr[1]], arr[pr[2]]>>

(* The compare-and-swap of one thread: the pair of values it leaves at    *)
(* idx0 and idx1.                                                          *)
Swapped(arr, pr) ==
  IF KeyComp(arr[pr[1]], arr[pr[2]]) > 0
    THEN <<arr[pr[2]], arr[pr[1]]>>
    ELSE <<arr[pr[1]], arr[pr[2]]>>

(* All threads of one round compare-and-swap at once.                     *)
ApplyRound(arr, pairs) ==
  [k \in DOMAIN arr |->
     IF \E pr \in pairs : pr[1] = k
       THEN Swapped(arr, CHOOSE pr \in pairs : pr[1] = k)[1]
     ELSE IF \E pr \in pairs : pr[2] = k
       THEN Swapped(arr, CHOOSE pr \in pairs : pr[2] = k)[2]
     ELSE arr[k]]

(***************************************************************************)
(* gpusort_bitonic_local: in every partition, for blockSize = 2, 4, ...    *)
(* while blockSize <= part_size, for unitSize = blockSize down to 2, each  *)
(* thread compares idx0 with its partner (reversing when unitSize =        *)
(* blockSize) if idx1 < part_size.  The rounds are listed for the largest  *)
(* partition; a partition takes part in a round only while blockSize <=    *)
(* its own part_size.                                                      *)
(***************************************************************************)
RECURSIVE LocalSchedule(_)
LocalSchedule(blockSize) ==
  IF blockSize > 2 * B THEN <<>>
  ELSE [k \in 1 .. NextLog2(blockSize) |-> <<blockSize, blockSize \div 2^(k - 1)>>]
         \o LocalSchedule(2 * blockSize)

LocalPairs(sched) ==
  LET blockSize == sched[1]
      unitSize  == sched[2]
  IN UNION {{<<PartBase(p) + FirstIndex(lid, unitSize),
               PartBase(p) + Partner(FirstIndex(lid, unitSize), unitSize,
                                     unitSize = blockSize)>> :
              lid \in {t \in 0 .. B - 1 :
                         Partner(FirstIndex(t, unitSize), unitSize,
                                 unitSize = blockSize) < PartSize(p)}} :
            p \in {q \in 0 .. NumBlocks - 1 : blockSize <= PartSize(q)}}

LocalRounds == [r \in DOMAIN LocalSchedule(2) |-> LocalPairs(LocalSchedule(2)[r])]

(***************************************************************************)
(* gpusort_bitonic_step(unitsz, reversing): work_size threads over the     *)
(* whole array, grid rounded up to whole blocks; a thread whose idx1 >=    *)
(* nitems does nothing.                                                    *)
(***************************************************************************)
StepPairs(unitsz, reversing) ==
  LET workSize == (((nitems + unitsz - 1) \div unitsz) * unitsz) \div 2
      nthreads == ((workSize + B - 1) \div B) * B
  IN {<<FirstIndex(g, unitsz), Partner(FirstIndex(g, unitsz), unitsz, reversing)>> :
        g \in {t \in 0 .. nthreads - 1 :
                 Partner(FirstIndex(t, unitsz), unitsz, reversing) < nitems}}

(***************************************************************************)
(* gpusort_bitonic_merge: in every partition, unitSize = 2*B down to 2,    *)
(* never reversing, compare if idx1 < part_size.                           *)
(***************************************************************************)
(* Variant of MergePairs without the "idx1 < part_size" check.           *)
MergePairsUnguarded(unitSize) ==
  UNION {{<<PartBase(p) + FirstIndex(lid, unitSize),
            PartBase(p) + Partner(FirstIndex(lid, unitSize), unitSize, FALSE)>> :
           lid \in 0 .. B - 1} :
         p \in 0 .. NumBlocks - 1}

MergePairs(unitSize) ==
  UNION {{<<PartBase(p) + FirstIndex(lid, unitSize),
            PartBase(p) + Partner(FirstIndex(lid, unitSize), unitSize, FALSE)>> :
           lid \in {t \in 0 .. B - 1 :
                      Partner(FirstIndex(t, unitSize), unitSize, FALSE)
                        < PartSize(p)}} :
         p \in 0 .. NumBlocks - 1}

MergeRounds ==
  [k \in 1 .. NextLog2(2 * B) |-> MergePairs((2 * B) \div 2^(k - 1))]

(***************************************************************************)
(* gpusort_main's control flow.  After the local kernel, i = B; while      *)
(* i < nhalf: j = 2*i, step launches while j > B (unitsz = 2*j, reversing  *)
(* iff j = 2*i), then one merge, then i *= 2.  Then the fixup kernel.      *)
(***************************************************************************)
AfterOuterPass(newI) ==
  IF newI < NHalf
    THEN pc' = "step" /\ i' = newI /\ j' = 2 * newI
    ELSE pc' = "fixup" /\ i' = newI /\ j' = j

(* A keycomp failure inside a sort kernel is written to kresults->kerror  *)
(* when the kernel ends; gpusort_main only looks at the CUDA status, so it *)
(* carries on.                                                             *)
KernelStatus(err) == kerror' = IF err THEN "error" ELSE kerror

(* Variant of KernelRound that does not reset the round counter when a   *)
(* kernel ends.                                                            *)
KernelRoundNoReset(rounds, after) ==
  /\ results' = ApplyRound(results, rounds[round])
  /\ IF round = Len(rounds)
       THEN /\ after
            /\ round' = round + 1
            /\ \E err \in BOOLEAN : KernelStatus(err)
       ELSE /\ round' = round + 1
            /\ UNCHANGED <<pc, i, j, kerror>>
  /\ UNCHANGED <<nitems, key, translated>>

(* One barrier round of a kernel whose rounds are `rounds`; after the last *)
(* one the kernel ends, writes back its status and gpusort_main continues  *)
(* as `after` says.                                                        *)
KernelRound(rounds, after) ==
  /\ results' = ApplyRound(results, rounds[round])
  /\ IF round = Len(rounds)
       THEN /\ after
            /\ round' = 1
            /\ \E err \in BOOLEAN : KernelStatus(err)
       ELSE /\ round' = round + 1
            /\ UNCHANGED <<pc, i, j, kerror>>
  /\ UNCHANGED <<nitems, key, translated>>

(* The local launch; a grid of zero blocks (nitems = 0) is rejected by     *)
(* cudaLaunchDevice, so only LaunchFails can follow.                       *)
LocalRound ==
  /\ pc = "local"
  /\ NumBlocks > 0
  /\ KernelRound(LocalRounds, AfterOuterPass(B))

(* gpusort_bitonic_step has no barrier: the whole launch is one round.    *)
StepRound ==
  /\ pc = "step"
  /\ KernelRound(<<StepPairs(2 * j, j = 2 * i)>>,
                 /\ j' = j \div 2
                 /\ pc' = IF j \div 2 > B THEN "step" ELSE "merge"
                 /\ UNCHANGED i)

MergeRound ==
  /\ pc = "merge"
  /\ KernelRound(MergeRounds, AfterOuterPass(2 * i))

(* The threads of the fixup launch: pgstrom_optimal_workgroup_size      *)
(* (cuda_common.h, outside src/) is taken to do what its host twin         *)
(* optimal_workgroup_size does: a block of b threads, b at most the        *)
(* kernel's limit and nitems, and ceil(nitems / b) blocks.                 *)
FixupThreads(b) == 0 .. ((nitems + b - 1) \div b) * b - 1

(* Variant of FixupKernel without the gid < kresults->nitems check: a      *)
(* thread past the end reads a stale results entry, some slot row.         *)
FixupKernelUnguarded(gids) ==
  \E stale \in [gids \ Pos -> Pos] :
    translated' = [r \in Pos |->
                    translated[r]
                    + Cardinality({g \in gids \cap Pos : results[g] = r})
                    + Cardinality({g \in gids \ Pos : stale[g] = r})]

(* gpusort_fixup_pointers: each thread gid < nitems rewrites the           *)
(* by-reference, non-null values of slot row results[gid] from device to   *)
(* host addresses.  The threads share nothing, so the launch is one step.  *)
FixupKernel(gids) ==
  translated' = [r \in Pos |->
                  translated[r]
                  + Cardinality({g \in gids : g < nitems /\ results[g] = r})]

(* The fixup launch and cudaDeviceSynchronize.  The kernel's own status    *)
(* goes to kgpusort->kerror; kresults->kerror only hears of a failed sync. *)
LaunchFixup ==
  /\ pc = "fixup"
  /\ \E b \in 1 .. Min({nitems, FixupMaxThreads}) : FixupKernel(FixupThreads(b))
  /\ pc' = "done"
  /\ \E syncFails \in BOOLEAN : kerror' = IF syncFails THEN "error" ELSE kerror
  /\ UNCHANGED <<nitems, key, results, i, j, round>>

(* A failed cudaGetParameterBuffer, cudaLaunchDevice or                   *)
(* cudaDeviceSynchronize between two launches (or a failed block-size     *)
(* query before the first): goto out, the error goes to kresults->kerror.  *)
LaunchFails ==
  /\ pc \in {"local", "step", "merge", "fixup"}
  /\ round = 1
  /\ pc' = "done"
  /\ kerror' = "error"
  /\ UNCHANGED <<nitems, key, results, i, j, round, translated>>

Init ==
  /\ nitems \in NItems
  /\ key \in [0 .. nitems - 1 -> Keys]
  /\ results = [k \in 0 .. nitems - 1 |-> k]
  /\ pc = "local"
  /\ round = 1
  /\ i = 0
  /\ j = 0
  /\ kerror = "ok"
  /\ translated = [k \in 0 .. nitems - 1 |-> 0]

Next ==
  \/ LocalRound
  \/ StepRound
  \/ MergeRound
  \/ LaunchFixup
  \/ LaunchFails

(* gpusort_main is one device thread that runs its launches to the end.  *)
Spec == Init /\ [][Next]_vars /\ WF_vars(Next)

(***************************************************************************)
(* Properties                                                              *)
(***************************************************************************)
TypeOK ==
  /\ nitems \in NItems
  /\ key \in [Pos -> Keys]
  /\ results \in [Pos -> Pos]
  /\ pc \in {"local", "step", "merge", "fixup", "done"}
  /\ i \in 0 .. 2 * Max(NItems) + 2 * B
  /\ j \in 0 .. 4 * Max(NItems) + 4 * B
  /\ round \in 1 .. Len(LocalRounds)
  /\ kerror \in {"ok", "error"}
  /\ translated \in [Pos -> Nat]

(* The compare-and-swap pairs of the round about to run.                 *)
CurrentPairs ==
  CASE pc = "local" -> LocalRounds[round]
    [] pc = "step"  -> StepPairs(2 * j, j = 2 * i)
    [] pc = "merge" -> MergeRounds[round]
    [] OTHER        -> {}

(* No data race in any kernel: in every barrier round, the threads of all *)
(* blocks compare-and-swap pairwise disjoint pairs of distinct positions   *)
(* inside 0 .. nitems-1, so no two threads read or write the same          *)
(* kresults->results / localIdx entry between two barriers (the index      *)
(* formulas of gpusort_bitonic_local/step/merge; spec section 5).          *)
NoRace ==
  /\ \A pr \in CurrentPairs : pr[1] \in Pos /\ pr[2] \in Pos /\ pr[1] # pr[2]
  /\ \A p1, p2 \in CurrentPairs :
       p1 # p2 => {p1[1], p1[2]} \cap {p2[1], p2[2]} = {}

(* The result array never loses or duplicates a row: after every launch   *)
(* of the sort kernels it is a permutation of the segment's slot rows.    *)
ResultsArePermutation == Range(results) = Pos

(* Every slot row's pointers are rewritten to host addresses at most once, *)
(* and when gpusort_main ends with kresults->kerror clear, exactly once:   *)
(* the host then follows the host pointers of every row it reads back.     *)
(* It takes the sort kernels to leave a permutation, the fixup grid to     *)
(* cover nitems, the gid < nitems check of gpusort_fixup_pointers and      *)
(* every failure before the fixup to reach kerror.                         *)
PointersTranslatedOnce ==
  /\ \A r \in Pos : translated[r] <= 1
  /\ pc = "done" /\ kerror = "ok" => \A r \in Pos : translated[r] = 1

(* gpusort_main implements the promise of a sort segment: it terminates, *)
(* and when it ends with kresults->kerror clear the result array is the   *)
(* segment's rows ordered by gpusort_keycomp (spec 8, sort correctness).  *)
Abs == INSTANCE GpuSortSpec
         WITH order  <- IF pc = "done" /\ kerror = "ok"
                          THEN results ELSE [k \in Pos |-> k],
              status <- IF pc # "done" THEN "running"
                        ELSE IF kerror = "ok" THEN "sorted" ELSE "error"

SortRefinement == Abs!Spec

=============================================================================
