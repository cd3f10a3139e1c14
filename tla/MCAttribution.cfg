SPECIFICATION Spec
CONSTANTS
    Images <- MCImages
    Heap <- MCHeap
    Sizes = {1, 3}
    MaxMallocs = 4
    MaxLoads = 3
INVARIANTS
    TypeOK
    RoutineReported
    NthMalloc
    UnfinishedTags
CHECK_DEADLOCK FALSE
