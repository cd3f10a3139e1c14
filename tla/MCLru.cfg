SPECIFICATION HSpec
CONSTANTS
    LineSize = 2
    NumSets = 2
    Kilo = 3
    InitialRows = 1
    Uint32 = 4
    NumWays = 2
    WriteAllocate = TRUE
    InitialMruIds <- MCInitialMruIds
    Addrs <- MCAddrs
    Insts <- MCInsts
    Sizes <- MCSizes
    MaxRefs = 5
INVARIANTS
    TypeOK
    StructuresAgree
    RecencyOrder
    MruIsFront
    LifeTimesAddUp
    AccessIntervalsTelescope
    ProfilesAgree
    RowsCoverIndices
    ResidentIsRecent
PROPERTIES
    EvictsLeastRecent
    ImplementsLru
CHECK_DEADLOCK FALSE
