---------------------------- MODULE KernelSched ----------------------------
(***************************************************************************)
(* The part of the kernel's process table that scheduling reads and        *)
(* writes, and the kernel calls SCHED, PM and VM make on it.  The table    *)
(* operators take the table as an argument and return the new one, since a *)
(* server's handler may make several kernel calls in a row.                *)
(***************************************************************************)
EXTENDS SchedConfig, Sequences

VARIABLES
    kproc,      \* proc[]: generation, RTS flags, queue and scheduler per slot
    caller_q    \* SCHED's p_caller_q: the senders blocked on it, in order

kernelVars == <<kproc, caller_q>>

RtsFlags == {"SLOT_FREE", "NO_QUANTUM", "SENDING", "RECEIVING", "PROC_STOP"}

KProc == [gen : Nat, rts : SUBSET RtsFlags,
          priority : Nat, scheduler : {"NULL", "SCHED"}]

EndpointOf(s) == Endpoint(s, kproc[s].gen)

proc_is_runnable(k, s) == k[s].rts = {}

isokendpt(k, ep) ==
    /\ k[ep.slot].gen = ep.gen
    /\ "SLOT_FREE" \notin k[ep.slot].rts

RtsSet(k, s, f) == [k EXCEPT ![s].rts = @ \cup {f}]
RtsUnset(k, s, f) == [k EXCEPT ![s].rts = @ \ {f}]

(* The check of sched_proc lets priority = NR_SCHED_QUEUES through, one    *)
(* more than the last run queue.                                           *)
SchedProcAccepts(priority, quantum) ==
    /\ priority >= TASK_Q
    /\ priority <= NR_SCHED_QUEUES
    /\ quantum > 0

sched_proc(k, s, priority) ==
    [k EXCEPT ![s].priority = priority, ![s].rts = @ \ {"NO_QUANTUM"}]

(* SYS_SCHEDULE from SCHED: the result, and the table afterwards.          *)
do_schedule_rv(k, ep, priority, quantum) ==
    IF ~isokendpt(k, ep) THEN "EINVAL"
    ELSE IF k[ep.slot].scheduler # "SCHED" THEN "EPERM"
    ELSE IF ~SchedProcAccepts(priority, quantum) THEN "EINVAL"
    ELSE "OK"

do_schedule(k, ep, priority, quantum) ==
    IF do_schedule_rv(k, ep, priority, quantum) = "OK"
    THEN sched_proc(k, ep.slot, priority) ELSE k

(* SYS_SCHEDCTL from SCHED with no flags: the caller becomes the scheduler.*)
do_schedctl_rv(k, ep) == IF isokendpt(k, ep) THEN "OK" ELSE "EINVAL"

do_schedctl(k, ep) ==
    IF isokendpt(k, ep) THEN [k EXCEPT ![ep.slot].scheduler = "SCHED"] ELSE k

(* SYS_FORK from VM: the child's slot is a copy of the parent's, with the  *)
(* next generation, and has no quantum until it is scheduled.              *)
sys_fork(k, p, c) ==
    [k EXCEPT ![c] = [k[p] EXCEPT !.gen = k[c].gen + 1,
                                  !.rts = @ \cup {"NO_QUANTUM"}]]

(* SYS_CLEAR from PM.  The slot's flags become exactly SLOT_FREE, and a    *)
(* message the process was still sending leaves the receiver's queue.      *)
sys_clear(k, s) == [k EXCEPT ![s].rts = {"SLOT_FREE"}]
clear_ipc(q, s) ==
    IF \E i \in DOMAIN q : q[i] = s
    THEN LET i == CHOOSE j \in DOMAIN q : q[j] = s
         IN  SubSeq(q, 1, i - 1) \o SubSeq(q, i + 1, Len(q))
    ELSE q

(* The reply PM sends with sendnb ends the receiver's blocked call.        *)
sendnb(k, s) == RtsUnset(k, s, "RECEIVING")

(* A running process uses up its quantum: it loses the processor, and the  *)
(* kernel sends the out-of-quantum message to its scheduler on its behalf. *)
(* The process is blocked in that send until SCHED receives the message.   *)
notify_scheduler(s) ==
    /\ proc_is_runnable(kproc, s)
    /\ kproc[s].scheduler = "SCHED"
    /\ kproc' = RtsSet(RtsSet(kproc, s, "NO_QUANTUM"), s, "SENDING")
    /\ caller_q' = Append(caller_q, s)
=============================================================================
