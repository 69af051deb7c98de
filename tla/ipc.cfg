SPECIFICATION FairSpec
CONSTANTS
    Procs = {"a", "b", "c"}
    Unborn = {"c"}
    Mortal = {"c"}
    Uid <- Users
    NewOwners = {"bob"}
    Root = "root"
    SemKeys = {"private"}
    ShmKeys = {"k", "private"}
    IPC_PRIVATE = "private"
    Modes <- MCModes
    Sizes = {2}
    SemOps <- MCSemOps
    SetVals = {1}
    SetAlls <- MCSetAlls
    SEMMNI = 2
    SEMMSL = 3
    SEMOPM = 2
    SEMVMX = 2
    MAX_SHM_NR = 2
    U8 = 256
    USHRT = 65536
    MaxId = 3
    BusyIds = {2}
    Mixed = FALSE
    MaxValue = 1
    MaxAttach = 1
INVARIANTS TypeOK SemaphoresOK SegmentsOK
PROPERTIES SignalledReturns
CHECK_DEADLOCK FALSE
