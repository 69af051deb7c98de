SPECIFICATION Spec
CONSTANTS
    Procs = {1, 2, 3, 4, 5}
    System = {1, 2, 3}
    Calls <- ExitCalls
    Tables <- NoTables
    SCHED = 1
    PM = 2
    Scheduled = {4}
    Prio <- ExitPrio
    Slow = {}
    Drivers = {2, 3}
    Mortal = {3}
    Signalled = {}
    NR_PROCS = 5
    NR_SCHED_QUEUES = 2
    BITCHUNK_BITS = 16
INVARIANTS NeverPanics
VIEW MCView
