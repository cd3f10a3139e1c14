SPECIFICATION Spec
CONSTANTS
    Threads <- MCThreads
    Master = "t1"
    Lengths = {0, 1, 2, 3, 4, 5}
    Values = {1, 2, 3}
    OMP_THRESHOLD = 4
    Junk = {0}
INVARIANTS
    NoConflict
    RunsSorted
    RunsConserved
PROPERTIES
    Sorts
CHECK_DEADLOCK FALSE
