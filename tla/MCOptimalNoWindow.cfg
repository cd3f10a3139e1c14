SPECIFICATION HSpec
CONSTANTS
    LineSize = 1
    NumSets = 2
    Kilo = 1024
    InitialRows = 8
    Uint32 = 1024
    NumWays = 2
    Knobs <- MCNoWindow
    KMax = 100
    Addrs <- MCAddrs
    Insts <- MCInsts
    MaxRefs = 6
INVARIANTS
    MissesAreOptimal
CHECK_DEADLOCK FALSE
