--------------------------- MODULE MCBitonicSort ---------------------------
(* Model-checking instance of BitonicSort.                                *)
EXTENDS BitonicSort

(* Max threads per block of the local, step and merge kernels: common    *)
(* block size 2, so segments of up to 8 rows span several partitions.     *)
MCKernelMaxThreads == <<3, 2, 4>>

============================================================================
