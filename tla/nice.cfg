SPECIFICATION FairSpec
CONSTANTS
    NR_PROCS = 2
    NR_SCHED_QUEUES = 3
    MAX_USER_Q = 1
    USER_QUANTUM = 1
    START_TICKETS = 1
    MAX_TICKETS = 2
    NICE_DIVISOR = 2
    UMOD = 65536
    MaxUnderflow = 1
    BootWithinTimeout = TRUE
    Nices <- SomeNices
    MaxGen = 2
    TicketBound = 1
INVARIANTS QueueInRange PriorityAgrees NoLostQuantum
PROPERTIES CallsAnswered OutOfQuantumServed
CHECK_DEADLOCK FALSE
