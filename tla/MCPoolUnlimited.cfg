\* An unlimited pool: every element comes from malloc.
SPECIFICATION Spec
CONSTANTS
    Size = 0
    Prealloc = 2
    Heap <- HeapApart
INVARIANTS
    CleanupOnce
CHECK_DEADLOCK FALSE
