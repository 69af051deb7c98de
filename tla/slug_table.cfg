SPECIFICATION Spec
CONSTANTS
    Addr <- MCAddr
    InitSize = 5
    MaxTable = 625
    SIZE_T = 1048576
    MaxEntries = 6
    Reuse = TRUE
    MallocFails = TRUE
INVARIANTS TypeOK LookupComplete NoNestedGrowth HeapAccounted
