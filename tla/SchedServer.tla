---------------------------- MODULE SchedServer ----------------------------
(***************************************************************************)
(* The SCHED server with the lottery policy: its table, its ticket total,  *)
(* the handler of each message, and the balance_queues timer.  SCHED is a  *)
(* single-threaded server: it receives one message, runs the handler with  *)
(* the kernel calls it makes, and replies.                                 *)
(*                                                                         *)
(* Its only modelled client is PM, which is blocked in _taskcall from the  *)
(* moment it sends a request until it has consumed the answer; `call' is   *)
(* that exchange.  Its field caller is the process PM works for, and core  *)
(* tells a coredump exit apart.                                            *)
(***************************************************************************)
EXTENDS KernelSched

CONSTANTS
    MaxUnderflow,       \* bound: how far below zero a priority may wrap
    BootWithinTimeout   \* init is started before balance_queues first runs

(* UMOD - MaxUnderflow further wins would take a wrapped priority back     *)
(* into the kernel's range; at one lottery every five seconds, 2^32 of     *)
(* them are out of reach.                                                  *)
ASSUME UnderflowAssumption ==
    /\ MaxUnderflow \in Nat \ {0}
    /\ UMOD - MaxUnderflow > NR_SCHED_QUEUES + 1
    /\ BootWithinTimeout \in BOOLEAN

VARIABLES
    schedproc,      \* SCHED's table, one entry per slot
    total_tickets,  \* sum of the tickets handed out by do_start_scheduling
    sched_up,       \* FALSE once SCHED died in an arithmetic exception
    call            \* PM's request to SCHED, NoCall when there is none

schedVars == <<schedproc, total_tickets, sched_up>>

SchedProc == [flags : SUBSET {"IN_USE"}, endpoint : Nat, max_priority : Nat,
              priority : Nat, time_slice : Nat, tickets : Int]

CallTypes == {"START", "INHERIT", "STOP", "SET_NICE"}
Results == {"PENDING", "OK", "EINVAL", "EPERM", "EBADEPT", "EDEADEPT"}
NoCall == [type |-> "NONE"]

InUse(s) == "IN_USE" \in schedproc[s].flags

(* A priority that went through zero: no kernel call accepts it.           *)
Wrapped(priority) == priority > NR_SCHED_QUEUES

sched_isokendpt(ep) == schedproc[ep.slot].endpoint = ep.gen /\ InUse(ep.slot)
sched_isemtyendpt(ep) == ~InUse(ep.slot)

(* A definition named Mut_... is the one after it with a plausible bug in  *)
(* it, for checking that the properties notice the bug.                    *)

(* sys_schedule on behalf of entry e of SCHED's table.                     *)
schedule_process_rv(k, s, e) ==
    do_schedule_rv(k, Endpoint(s, e.endpoint), e.priority, e.time_slice)
schedule_process(k, s, e) ==
    do_schedule(k, Endpoint(s, e.endpoint), e.priority, e.time_slice)

-----------------------------------------------------------------------------
init_scheduling ==
    /\ schedproc = [s \in Slots |->
                      [flags |-> {}, endpoint |-> 0, max_priority |-> 0,
                       priority |-> 0, time_slice |-> 0, tickets |-> 0]]
    /\ total_tickets = 0
    /\ sched_up = TRUE

(* SCHED receives the out-of-quantum message at the head of its queue,     *)
(* which ends the sender's send, and lowers the sender's priority.         *)
Mut_do_noquantum_limit(s) ==
    LET e == [schedproc[s] EXCEPT
                !.priority = IF @ <= MIN_USER_Q THEN @ + 1 ELSE @]
    IN  /\ schedproc' = [schedproc EXCEPT ![s] = e]
        /\ kproc' = schedule_process(RtsUnset(kproc, s, "SENDING"), s, e)
Mut_do_noquantum_order(s) ==
    /\ schedproc' = [schedproc EXCEPT ![s].priority =
                        IF @ < MIN_USER_Q THEN @ + 1 ELSE @]
    /\ kproc' = schedule_process(RtsUnset(kproc, s, "SENDING"), s, schedproc[s])
Mut_do_noquantum_lowest(s) ==
    LET k == RtsUnset(kproc, s, "SENDING")
        e == [schedproc[s] EXCEPT !.priority = @ + 1]
    IN  IF schedproc[s].priority < MIN_USER_Q
        THEN /\ schedproc' = [schedproc EXCEPT ![s] = e]
             /\ kproc' = schedule_process(k, s, e)
        ELSE kproc' = k /\ UNCHANGED schedproc
do_noquantum(s) ==
    LET ep == EndpointOf(s)
        k == RtsUnset(kproc, s, "SENDING")
        e == [schedproc[s] EXCEPT
                !.priority = IF @ < MIN_USER_Q THEN @ + 1 ELSE @]
    IN  IF sched_isokendpt(ep)
        THEN /\ schedproc' = [schedproc EXCEPT ![s] = e]
             /\ kproc' = schedule_process(k, s, e)
        ELSE /\ kproc' = k
             /\ UNCHANGED schedproc

Mut_do_stop_scheduling(m) ==
    /\ call' = [m EXCEPT !.rv = "OK"]
    /\ UNCHANGED <<schedproc, kproc, total_tickets>>
do_stop_scheduling(m) ==
    /\ IF sched_isokendpt(m.endpoint)
       THEN /\ schedproc' = [schedproc EXCEPT ![m.endpoint.slot].flags = {}]
            /\ call' = [m EXCEPT !.rv = "OK"]
       ELSE /\ call' = [m EXCEPT !.rv = "EBADEPT"]
            /\ UNCHANGED schedproc
    /\ UNCHANGED <<kproc, total_tickets>>

(* The entry as it is filled in before the maximum priority is checked.    *)
Populate(e, m) == [e EXCEPT !.endpoint = m.endpoint.gen,
                            !.max_priority = m.maxprio]

Mut_StartEntry(e, m) ==   \* the first process gets no tickets
    IF m.type = "START"
    THEN [e EXCEPT !.priority = m.maxprio, !.time_slice = USER_QUANTUM]
    ELSE LET par == schedproc[m.parent.slot]
         IN  [e EXCEPT !.priority = par.priority, !.tickets = par.tickets,
                       !.time_slice = par.time_slice]
StartEntry(e, m) ==
    IF m.type = "START"
    THEN [e EXCEPT !.priority = m.maxprio, !.tickets = START_TICKETS,
                   !.time_slice = USER_QUANTUM]
    ELSE LET par == schedproc[m.parent.slot]
         IN  [e EXCEPT !.priority = par.priority, !.tickets = par.tickets,
                       !.time_slice = par.time_slice]

do_start_scheduling(m) ==
    LET s == m.endpoint.slot
        e0 == Populate(schedproc[s], m)
        e == StartEntry(e0, m)
        k == do_schedctl(kproc, m.endpoint)
        Return(rv) == call' = [m EXCEPT !.rv = rv]
    IN  \/ /\ ~sched_isemtyendpt(m.endpoint)
           /\ Return("EDEADEPT")
           /\ UNCHANGED <<schedproc, kproc, total_tickets>>
        \/ /\ sched_isemtyendpt(m.endpoint)
           /\ m.maxprio >= NR_SCHED_QUEUES
           /\ schedproc' = [schedproc EXCEPT ![s] = e0]
           /\ Return("EINVAL")
           /\ UNCHANGED <<kproc, total_tickets>>
        \/ /\ sched_isemtyendpt(m.endpoint)
           /\ m.maxprio < NR_SCHED_QUEUES
           /\ m.type = "INHERIT" /\ ~sched_isokendpt(m.parent)
           /\ schedproc' = [schedproc EXCEPT ![s] = e0]
           /\ Return("EDEADEPT")
           /\ UNCHANGED <<kproc, total_tickets>>
        \/ /\ sched_isemtyendpt(m.endpoint)
           /\ m.maxprio < NR_SCHED_QUEUES
           /\ m.type = "INHERIT" => sched_isokendpt(m.parent)
           /\ total_tickets' = ToUnsigned(total_tickets + e.tickets)
           /\ IF do_schedctl_rv(kproc, m.endpoint) # "OK"
              THEN /\ schedproc' = [schedproc EXCEPT ![s] = e]
                   /\ Return(do_schedctl_rv(kproc, m.endpoint))
                   /\ UNCHANGED kproc
              ELSE /\ schedproc' = [schedproc EXCEPT
                                      ![s] = [e EXCEPT !.flags = {"IN_USE"}]]
                   /\ kproc' = schedule_process(k, s, e)
                   /\ Return(schedule_process_rv(k, s, e))

do_nice(m) ==
    LET s == m.endpoint.slot
        nice == m.maxprio
        Return(rv) == call' = [m EXCEPT !.rv = rv]
    IN  /\ \/ /\ ~sched_isokendpt(m.endpoint)
              /\ Return("EBADEPT")
              /\ UNCHANGED <<schedproc, kproc>>
           \/ /\ sched_isokendpt(m.endpoint)
              /\ nice >= NR_SCHED_QUEUES
              /\ Return("EINVAL")
              /\ UNCHANGED <<schedproc, kproc>>
           \/ /\ sched_isokendpt(m.endpoint)
              /\ nice < NR_SCHED_QUEUES
              /\ \E add \in tickets_to_add(nice) :
                   LET e == [schedproc[s] EXCEPT
                               !.tickets = NewTickets(@, nice, add)]
                       new == [e EXCEPT !.priority = ToUnsigned(nice),
                                        !.max_priority = ToUnsigned(nice)]
                       rv == schedule_process_rv(kproc, s, new)
                   IN  /\ schedproc' = [schedproc EXCEPT
                                          ![s] = IF rv = "OK" THEN new ELSE e]
                       /\ kproc' = schedule_process(kproc, s, new)
                       /\ Return(rv)
        /\ UNCHANGED total_tickets

-----------------------------------------------------------------------------
(* The running total the lottery compares with the lucky number, in slot   *)
(* order: the tickets of the entries in use up to and including slot s.    *)
calculate_winner ==
    LET c[s \in 0 .. NR_PROCS] ==
          IF s = 0 THEN 0
          ELSE c[s - 1] + (IF InUse(s) THEN schedproc[s].tickets ELSE 0)
    IN  c

Mut_Wins(s, lucky) ==
    /\ s < NR_PROCS
    /\ InUse(s)
    /\ calculate_winner[s] > lucky
    /\ \A t \in 1 .. s - 1 : InUse(t) => calculate_winner[t] <= lucky
Wins(s, lucky) ==
    /\ InUse(s)
    /\ calculate_winner[s] > lucky
    /\ \A t \in 1 .. s - 1 : InUse(t) => calculate_winner[t] <= lucky

(* One draw.  The winner's priority is decremented in unsigned arithmetic  *)
(* and the answer of the kernel is ignored; a draw may have no winner.     *)
Mut_do_lottery ==
    \E s \in Slots :
      /\ InUse(s)
      /\ schedproc[s].priority >= 0
      /\ schedproc' = [schedproc EXCEPT ![s].priority = @ - 1]
      /\ kproc' = schedule_process(kproc, s, schedproc'[s])
do_lottery ==
    \E lucky \in 1 .. total_tickets :
      IF \E s \in Slots : Wins(s, lucky)
      THEN \E s \in Slots :
             LET e == [schedproc[s] EXCEPT !.priority = ToUnsigned(@ - 1)]
             IN  /\ Wins(s, lucky)
                 /\ Wrapped(e.priority) => e.priority >= UMOD - MaxUnderflow
                 /\ schedproc' = [schedproc EXCEPT ![s] = e]
                 /\ kproc' = schedule_process(kproc, s, e)
      ELSE UNCHANGED <<schedproc, kproc>>

(* The timer callback.  With no ticket handed out yet, rand() % 0 raises   *)
(* an arithmetic exception and SCHED is gone.                              *)
balance_queues ==
    /\ sched_up
    /\ BootWithinTimeout => total_tickets > 0
    /\ IF total_tickets = 0
       THEN /\ sched_up' = FALSE
            /\ UNCHANGED <<schedproc, kproc>>
       ELSE /\ do_lottery
            /\ UNCHANGED sched_up
    /\ UNCHANGED <<total_tickets, caller_q, call>>

(* SCHED's main loop: take the first message and dispatch on its type.     *)
Mut_main_first(Preferred(_)) ==
    /\ sched_up
    /\ caller_q # << >>
    /\ LET pref == {i \in DOMAIN caller_q : Preferred(caller_q[i])}
           i == CHOOSE j \in IF pref = {} THEN DOMAIN caller_q ELSE pref :
                  \A l \in IF pref = {} THEN DOMAIN caller_q ELSE pref : j <= l
           who == caller_q[i]
       IN  /\ caller_q' = clear_ipc(caller_q, who)
           /\ \/ who # PM_PROC_NR /\ do_noquantum(who)
                 /\ UNCHANGED <<total_tickets, call>>
              \/ who = PM_PROC_NR /\ call.type \in {"START", "INHERIT"}
                 /\ do_start_scheduling(call)
              \/ who = PM_PROC_NR /\ call.type = "STOP" /\ do_stop_scheduling(call)
              \/ who = PM_PROC_NR /\ call.type = "SET_NICE" /\ do_nice(call)
    /\ UNCHANGED sched_up
Mut_main_processes == Mut_main_first(LAMBDA x : x # PM_PROC_NR)
Mut_main_pm == Mut_main_first(LAMBDA x : x = PM_PROC_NR)
main ==
    /\ sched_up
    /\ caller_q # << >>
    /\ caller_q' = Tail(caller_q)
    /\ LET who == Head(caller_q)
       IN  \/ /\ who # PM_PROC_NR
              /\ do_noquantum(who)
              /\ UNCHANGED <<total_tickets, call>>
           \/ /\ who = PM_PROC_NR
              /\ \/ /\ call.type \in {"START", "INHERIT"}
                    /\ do_start_scheduling(call)
                 \/ call.type = "STOP" /\ do_stop_scheduling(call)
                 \/ call.type = "SET_NICE" /\ do_nice(call)
    /\ UNCHANGED sched_up
=============================================================================
