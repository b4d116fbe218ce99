\* Segments of 0, 1, 2, 4, 5, 6, 8 and 9 rows, 0/1 keys, common block size
\* 2: up to three partitions of four entries; for 5, 6 and 9 rows the last
\* one is cut to 1 or 2 entries, still a power of two, which the local
\* kernel sorts.  8 and 9 rows give nhalf = 8 and a second outer pass,
\* whose second step launch (j = 4, i = 4) is the only non-reversing one.
CONSTANTS
  NItems = {0, 1, 2, 4, 5, 6, 8, 9}
  Keys = {0, 1}
  KernelMaxThreads <- MCKernelMaxThreads
  FixupMaxThreads = 4
SPECIFICATION Spec
CHECK_DEADLOCK FALSE
INVARIANTS
  TypeOK
  NoRace
  ResultsArePermutation
  PointersTranslatedOnce
 
PROPERTIES
  SortRefinement
