-------------------------- MODULE MCWorkgroupSize --------------------------
(***************************************************************************)
(* Calls of both sizing functions with a scaled-down cl_int of 8 bits     *)
(* (INT_MAX = 127): kernels that fit with their own thread limit, kernels *)
(* that must shrink to fewer warps, kernels where not one warp fits, and *)
(* item counts below and above what 127 blocks can hold.  No call here    *)
(* makes the sum of line 400 exceed INT_MAX.                              *)
(***************************************************************************)
EXTENDS WorkgroupSize

MCCalls ==
    [kind : {"largest", "optimal"}, nitems : {1, 100, 5000},
     perBlock : {0, 8}, perThread : {0, 1, 2}, maxBlock : {24, 32},
     static : {0, 16}, warp : {8}, maxShmem : {20, 64}]
=============================================================================
