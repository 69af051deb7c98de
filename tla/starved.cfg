SPECIFICATION LotterySpec
CONSTANTS
    NR_PROCS = 2
    NR_SCHED_QUEUES = 3
    MAX_USER_Q = 1
    USER_QUANTUM = 1
    START_TICKETS = 2
    MAX_TICKETS = 6
    NICE_DIVISOR = 2
    UMOD = 65536
    MaxUnderflow = 1
    BootWithinTimeout = TRUE
    MaxGen = 1
    TicketBound = 4
    Nices <- UpNice
PROPERTIES PulledBackUp
CHECK_DEADLOCK FALSE
