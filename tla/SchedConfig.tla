---------------------------- MODULE SchedConfig ----------------------------
(***************************************************************************)
(* The compile-time parameters of the lottery scheduler, the arithmetic on *)
(* them, and the vocabulary the kernel, SCHED and PM share.                *)
(*                                                                         *)
(* The queue layout, the ticket constants and the width of an unsigned are *)
(* parameters so that TLC can use a small instance; the repository builds  *)
(* with NR_SCHED_QUEUES = 18, MAX_USER_Q = 16, START_TICKETS = 20,         *)
(* MAX_TICKETS = 100, NICE_DIVISOR = 20 and UMOD = 2^32.                   *)
(***************************************************************************)
EXTENDS Integers, FiniteSets

CONSTANTS
    NR_PROCS,         \* size of the process tables (user slots only)
    NR_SCHED_QUEUES,  \* number of kernel run queues
    MAX_USER_Q,       \* highest priority (lowest number) of a user process
    USER_QUANTUM,     \* quantum that PM gives init, inherited by all others
    START_TICKETS,    \* tickets of a process started by SCHEDULING_START
    MAX_TICKETS,      \* cap of the tickets that a positive nice can give
    NICE_DIVISOR,     \* do_nice's divisor
    UMOD              \* 2^w for a w-bit unsigned

ASSUME ConfigAssumption ==
    /\ NR_PROCS \in Nat \ {0}
    /\ NR_SCHED_QUEUES \in Nat \ {0}
    /\ MAX_USER_Q \in 0 .. NR_SCHED_QUEUES - 1
    /\ USER_QUANTUM \in Nat \ {0}
    /\ START_TICKETS \in Nat \ {0}
    /\ MAX_TICKETS \in Nat
    /\ START_TICKETS <= MAX_TICKETS
    /\ NICE_DIVISOR \in Nat \ {0}
    /\ UMOD \in Nat
    /\ UMOD > 2 * (NR_SCHED_QUEUES + 1)

TASK_Q == 0
MIN_USER_Q == NR_SCHED_QUEUES - 1
USER_Q == (MIN_USER_Q - MAX_USER_Q) \div 2 + MAX_USER_Q
PRIO_MIN == -20
PRIO_MAX == 20

(* User slots; init is the first of them.  System processes (the slots     *)
(* before init) are scheduled by the kernel and have no slot here.         *)
Slots == 1 .. NR_PROCS
INIT_PROC_NR == 1
PM_PROC_NR == 0

(* An endpoint is a slot and a generation; the tables are indexed by slot  *)
(* and store the generation.                                               *)
Endpoint(s, gen) == [slot |-> s, gen |-> gen]

(* The quotient of C's integer division, which truncates towards zero.     *)
CDiv(a, b) == IF a >= 0 THEN a \div b ELSE -((-a) \div b)

(* Conversions between int and unsigned.                                   *)
ToUnsigned(i) == i % UMOD
ToSigned(u) == IF u >= UMOD \div 2 THEN u - UMOD ELSE u

(* PM's map of a nice level to a queue.  The range check of the original   *)
(* is commented out, so an unsigned result that wrapped is clamped to      *)
(* MIN_USER_Q.                                                             *)
nice_to_priority(nice) ==
    LET q == ToUnsigned(MAX_USER_Q + CDiv((nice - PRIO_MIN)
                            * (MIN_USER_Q - MAX_USER_Q + 1),
                            PRIO_MAX - PRIO_MIN + 1))
    IN  IF q < MAX_USER_Q THEN MAX_USER_Q
        ELSE IF q > MIN_USER_Q THEN MIN_USER_Q ELSE q

(* (nice / divisor) * 100 stored in an unsigned.  Converting a negative    *)
(* double is undefined: the value may wrap, saturate at 0 or be the        *)
(* processor's "integer indefinite".                                       *)
tickets_to_add(nice) ==
    LET d == CDiv(nice * MAX_TICKETS, NICE_DIVISOR)
    IN  IF d >= 0 THEN {d} ELSE {ToUnsigned(d), 0, UMOD \div 2}

(* The tickets of a process with `tickets' after do_nice's arithmetic.     *)
NewTickets(tickets, nice, add) ==
    IF nice > 0
    THEN LET t == ToSigned(ToUnsigned(tickets + add))
         IN  IF t >= MAX_TICKETS THEN MAX_TICKETS ELSE t
    ELSE LET t == ToSigned(ToUnsigned(tickets - add))
         IN  IF t < 1 THEN 1 ELSE t
=============================================================================
