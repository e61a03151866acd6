\* A bounded pool that is not fully preallocated, so that it also grows.
SPECIFICATION Spec
CONSTANTS
    Size = 4
    Prealloc = 2
    Heap <- HeapApart
INVARIANTS
    TypeOK
    NoAliasing
    CountersExact
    LimitExact
    CleanupOnce
    PoolFreeFreesAll
PROPERTIES
    RefinesPoolAbs
CHECK_DEADLOCK FALSE
