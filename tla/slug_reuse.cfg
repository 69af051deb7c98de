SPECIFICATION Spec
CONSTANTS
    Addr <- MCAddr
    InitSize = 5
    MaxTable = 25
    SIZE_T = 1048576
    MaxEntries = 3
    Reuse = TRUE
    MallocFails = FALSE
INVARIANT ValidFreeAccepted
