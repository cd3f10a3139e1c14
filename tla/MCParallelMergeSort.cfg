SPECIFICATION Spec
CONSTANTS
    Threads <- MCThreads
    N = 7
    Values = {1, 2}
    THRESHOLD = 3
    INSERTION_THRESHOLD = 2
    TILE_ELEMS = 2
    Junk = {0}
INVARIANTS
    NoConflict
    MergesSortedRuns
    ElementsConserved
PROPERTIES
    Sorts
CHECK_DEADLOCK FALSE
