---------------------------- MODULE DeviceLines ----------------------------
(***************************************************************************)
(* The output format of `gpuinfo -md`, as pgstrom_collect_gpu_device       *)
(* (src/src/gpu_device.c) reads it.  A line is abstracted to a record:     *)
(*                                                                         *)
(*   tag  : what the tokenizer at lines 91-124 makes of it: an empty line, *)
(*          one without ':' or without '=', a PLATFORM line, a DEVICE<n>   *)
(*          line, or any other prefix;                                     *)
(*   dev  : atoi() of the text after "DEVICE" (line 126);                  *)
(*   attr : the text between ':' and '=';                                  *)
(*   val  : atoi() of the text after '='.                                  *)
(*                                                                         *)
(* DEVICE_NAME is a string in the code and a number here: nothing below    *)
(* tells names apart other than by equality.                               *)
(***************************************************************************)
EXTENDS Integers, Sequences, FiniteSetsExt, Functions, TLC

CONSTANTS
    CatalogAttrs,   \* the DEV_ATTR labels of device_attrs.h that are modelled
    UIntMax         \* UINT_MAX, larger than every attribute value in the inputs

ASSUME {"COMPUTE_CAPABILITY_MAJOR", "COMPUTE_CAPABILITY_MINOR",
        "MAX_THREADS_PER_BLOCK"} \subseteq CatalogAttrs

Tags == {"EMPTY", "NOCOLON", "NOEQUAL", "PLATFORM", "DEVICE", "OTHER"}

PlatformAttrs == {"CUDA_RUNTIME_VERSION", "NVIDIA_DRIVER_VERSION",
                  "NUMBER_OF_DEVICES"}

\* The attribute names a DEVICE line may carry and the DevAttributes field
\* each one is stored in (lines 147-160: three named cases and one
\* DEV_ATTR case per catalog entry, stored under its own label).
FieldOf == [DEVICE_ID |-> "DEV_ID", DEVICE_NAME |-> "DEV_NAME",
            GLOBAL_MEMORY_SIZE |-> "DEV_TOTAL_MEMSZ"]
           @@ [a \in CatalogAttrs |-> a]

DeviceAttrs == DOMAIN FieldOf

\* The fields of DevAttributes that the model keeps.
Fields == Range(FieldOf) \cup {"CORES_PER_MPU"}

\* MemoryContextAllocZero (line 135) leaves every field zero.
ZeroDev == [f \in Fields |-> 0]

\* The filter of the compaction loop (line 176): Pascal (CC 6.x) or later.
Supported(da) == da["COMPUTE_CAPABILITY_MAJOR"] >= 6

\* compute_capability at lines 187-188.
ComputeCapability(da) ==
    da["COMPUTE_CAPABILITY_MAJOR"] * 10 + da["COMPUTE_CAPABILITY_MINOR"]

\* Min() of c.h, as used at lines 189-192.
MinOf(a, b) == IF a < b THEN a ELSE b
=============================================================================
