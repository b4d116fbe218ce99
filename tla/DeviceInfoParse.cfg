\* Device discovery over every modelled gpuinfo output: well-formed
\* listings, one listing per error path, truncated listings and a late
\* device count.  The procedure runs once and stops in "done", "error" or
\* "wild", so a state with no successor is its end, not a deadlock.
CONSTANTS
    Inputs <- MCInputs
    MaxDevices = 2
    UIntMax = 65535
    CatalogAttrs = {"COMPUTE_CAPABILITY_MAJOR", "COMPUTE_CAPABILITY_MINOR", "MAX_THREADS_PER_BLOCK", "MULTIPROCESSOR_COUNT",
                    "WARP_SIZE", "MAX_SHARED_MEMORY_PER_BLOCK", "MAX_REGISTERS_PER_BLOCK",
                    "PCI_DOMAIN_ID", "PCI_BUS_ID", "PCI_DEVICE_ID"}
SPECIFICATION Spec
CHECK_DEADLOCK FALSE
INVARIANTS
    TypeOK
    CompactionInvariant
    SrfListsEveryAttribute
    AccessorAgreesWithListing
    WildOnlyOnBadListing
PROPERTIES
    DeviceTableRefinement
