\* Both sizing functions over every call of MCCalls.  A call is one step,
\* after which the procedure has returned, so the final states have no
\* successor by design.
CONSTANTS
    IntBits = 8
    Calls <- MCCalls
SPECIFICATION Spec
CHECK_DEADLOCK FALSE
INVARIANTS
    TypeOK
    LargestIsReference
