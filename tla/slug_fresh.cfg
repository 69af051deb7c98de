SPECIFICATION FairSpec
CONSTANTS
    Addr <- MCAddr
    InitSize = 5
    MaxTable = 25
    SIZE_T = 1048576
    MaxEntries = 4
    Reuse = FALSE
    MallocFails = FALSE
INVARIANTS ValidFreeAccepted
PROPERTIES LoopsEnd Refinement
