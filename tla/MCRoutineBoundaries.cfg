SPECIFICATION Spec
CONSTANTS
    Images <- MCImages
    Heap <- MCHeap
    Sizes = {1, 3}
    MaxMallocs = 2
    MaxLoads = 2
INVARIANTS
    RoutineAttributed
CHECK_DEADLOCK FALSE
