\* A segment of 3 rows: one partition of part_size 3 < 2 * block size.
CONSTANTS
  NItems = {3}
  Keys = {0, 1}
  KernelMaxThreads <- MCKernelMaxThreads
  FixupMaxThreads = 4
SPECIFICATION Spec
CHECK_DEADLOCK FALSE
PROPERTIES
  SortRefinement
