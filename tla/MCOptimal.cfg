SPECIFICATION HSpec
CONSTANTS
    LineSize = 1
    NumSets = 2
    Kilo = 3
    InitialRows = 1
    Uint32 = 4
    NumWays = 2
    Knobs <- MCKnobs
    KMax = 100
    Addrs <- MCAddrs
    Insts <- MCInsts
    MaxRefs = 6
INVARIANTS
    TypeOK
    TraceLinked
    StackFits
    KnownUntilNextUse
    EveryReferenceCounted
    RepairsSeeLastUse
    MissesAreOptimal
CHECK_DEADLOCK FALSE
