SPECIFICATION Spec
CONSTANTS
    LineSize = 1
    Kilo = 3
    InitialRows = 1
    Uint32 = 1024
    Uint64 = 100000
    KnobDL1 = TRUE
    KnobIL1 = TRUE
    KnobUL2 = TRUE
    DL1NumSets = 2
    DL1NumWays = 1
    IL1NumSets = 1
    IL1NumWays = 1
    UL2NumSets = 1
    UL2NumWays = 2
    InitialMruIds <- MCInitialMruIds
    KnobLookaheadDistance = 1
    KnobProcessWindow = 1
    KMax = 100
    Addrs <- MCAddrs
    Insts <- MCInsts
    MaxRefs = 5
INVARIANTS
    OnlyDataByAddress
CHECK_DEADLOCK FALSE
