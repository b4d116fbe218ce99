\* gpuinfo output that ends after the PLATFORM lines: the device count is
\* positive but no DEVICE line allocated devAttrs, and the exit status of
\* the pipe is not checked.  Checks that the compaction loop stays inside
\* the allocation.  The procedure stops in "done", "error" or "wild".
CONSTANTS
    Inputs <- Truncated
    MaxDevices = 2
    UIntMax = 65535
    CatalogAttrs = {"COMPUTE_CAPABILITY_MAJOR", "COMPUTE_CAPABILITY_MINOR", "MAX_THREADS_PER_BLOCK", "MULTIPROCESSOR_COUNT",
                    "WARP_SIZE", "MAX_SHARED_MEMORY_PER_BLOCK", "MAX_REGISTERS_PER_BLOCK",
                    "PCI_DOMAIN_ID", "PCI_BUS_ID", "PCI_DEVICE_ID"}
SPECIFICATION Spec
CHECK_DEADLOCK FALSE
INVARIANTS
    MemorySafe
