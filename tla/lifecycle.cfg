SPECIFICATION Spec
CONSTANTS
    NR_PROCS = 3
    NR_SCHED_QUEUES = 3
    MAX_USER_Q = 1
    USER_QUANTUM = 1
    START_TICKETS = 1
    MAX_TICKETS = 4
    NICE_DIVISOR = 2
    UMOD = 65536
    MaxUnderflow = 1
    BootWithinTimeout = FALSE
    Nices <- NoNices
    MaxGen = 2
    TicketBound = 4
INVARIANTS TypeOK EntriesCurrent LeakOnlyByUnderflow AliveWhileScheduling
CHECK_DEADLOCK FALSE
