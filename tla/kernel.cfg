SPECIFICATION Spec
CONSTANTS
    Procs = {1, 2, 3, 4}
    System = {1, 2, 3}
    Calls <- MCCalls
    Tables <- MCTables
    SCHED = 1
    PM = 2
    Scheduled = {4}
    Prio <- MCPrio
    Slow = {4}
    Drivers = {3}
    Mortal = {4}
    Signalled = {4}
    NR_PROCS = 4
    NR_SCHED_QUEUES = 2
    BITCHUNK_BITS = 16
INVARIANTS TypeOK RunQueuesOK SendersOK NeverPanics NothingForgotten BestRuns
PROPERTY SendsDelivered
VIEW MCView
