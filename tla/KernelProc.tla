----------------------------- MODULE KernelProc -----------------------------
(***************************************************************************)
(* Message passing and the run queues of the kernel (kernel/proc.c), with  *)
(* the kernel calls that touch them.  The lists are the linked lists of    *)
(* the code: p_caller_q and p_q_link hold the senders blocked on a         *)
(* process, rdy_head, rdy_tail and p_nextready the run queues.             *)
(*                                                                         *)
(* The kernel runs to completion: a trap or an interrupt is one step, and  *)
(* switch_to_user, which follows it, one step per turn of its loop.  The   *)
(* functions of the kernel are operators on a record k of the kernel's     *)
(* state.  A slot is used once, so an endpoint is a slot.                  *)
(***************************************************************************)
EXTENDS Integers, FiniteSets, FiniteSetsExt, SequencesExt

CONSTANTS
    Procs,            \* slots, which are also the privilege ids
    System,           \* processes with a privilege structure of their own
    Calls,            \* <<call, caller, other>>: what programs ask and may ask
    Tables,           \* tables given to senda, by caller
    SCHED, PM,        \* the scheduler, and the process that may clear others
    Scheduled,        \* processes whose scheduler is SCHED
    Prio,             \* the queue of each process at the start
    Slow,             \* processes that may use up a quantum
    Drivers,          \* processes that get hardware interrupts
    Mortal,           \* processes that may exit
    Signalled,        \* processes that PM stops, and that get signals
    NR_PROCS,         \* slots of the process table
    NR_SCHED_QUEUES, BITCHUNK_BITS

NULL == 0             \* also the slot of IDLE and the endpoint NONE
ANY  == -1
HARDWARE == 0         \* as a source of notifications; SYSTEM is not told apart

Queues == 0 .. NR_SCHED_QUEUES - 1

ASSUME KernelAssumption ==
    /\ NR_PROCS \in Nat /\ Procs \subseteq 1 .. NR_PROCS
    /\ {SCHED, PM} \subseteq System /\ System \subseteq Procs
    /\ Scheduled \cup Slow \cup Drivers \cup Mortal \cup Signalled \subseteq Procs
    /\ Drivers \subseteq System
    /\ SCHED \notin Scheduled \cup Mortal /\ PM \notin Mortal \cup Signalled
    /\ Prio \in [Procs -> Queues]
    /\ NR_SCHED_QUEUES \in Nat \ {0} /\ BITCHUNK_BITS \in Nat \ {0}
    /\ Calls \subseteq {"SEND", "SENDNB", "SENDREC", "RECEIVE", "NOTIFY"} \X Procs \X
                      (Procs \cup {ANY})
    /\ \A c \in Calls : c[3] = ANY => c[1] = "RECEIVE"
    /\ \A p \in System : \A t \in Tables[p] :
          t \in Seq([dst : Procs, noreply : BOOLEAN, done : BOOLEAN])

VARIABLES
    proc,             \* the process table
    rdy_head, rdy_tail,
    priv,             \* s_notify_pending and the table of senda, per process
    proc_ptr,         \* the current process, or NULL for IDLE
    mode,             \* user, idle, or switch: inside switch_to_user
    panic             \* an assertion of the kernel failed

vars == <<proc, rdy_head, rdy_tail, priv, proc_ptr, mode, panic>>

Message(src, type) == [src |-> src, type |-> type]
NoMessage == Message(NULL, "NONE")

K == [proc |-> proc, head |-> rdy_head, tail |-> rdy_tail, priv |-> priv,
      cur |-> proc_ptr, panic |-> panic]

Become(k) ==
    /\ proc' = k.proc /\ rdy_head' = k.head /\ rdy_tail' = k.tail
    /\ priv' = k.priv /\ proc_ptr' = k.cur /\ panic' = k.panic

assert(k, condition) == [k EXCEPT !.panic = @ \/ ~condition]

Flag(k, p, f) == f \in k.proc[p].rts
Misc(k, p, f) == f \in k.proc[p].misc
isempty(k, p) == Flag(k, p, "SLOT_FREE")
proc_is_runnable(k, p) == k.proc[p].rts = {}
SetMisc(k, p, f)   == [k EXCEPT !.proc[p].misc = @ \cup {f}]
UnsetMisc(k, p, f) == [k EXCEPT !.proc[p].misc = @ \ {f}]

(* The list that starts at h, cut off should it be circular.               *)
Chain(h, next) ==
    LET c[n \in 0 .. NR_PROCS] == [p \in Procs \cup {NULL} |->
            IF n = 0 \/ p = NULL THEN <<>> ELSE <<p>> \o c[n - 1][next[p]]]
    IN  c[NR_PROCS][h]

Ready(k, q)   == Chain(k.head[q], [p \in Procs |-> k.proc[p].nextready])
Callers(k, p) == Chain(k.proc[p].caller_q, [s \in Procs |-> k.proc[s].q_link])

-----------------------------------------------------------------------------
(* Run queues.                                                             *)

dequeue(k, p) ==
    LET q == k.proc[p].priority
        i == SelectInSeq(Ready(k, q), LAMBDA x : x = p)
        prev == IF i = 1 THEN NULL ELSE Ready(k, q)[i - 1]
        next == k.proc[p].nextready
        unlinked == IF prev = NULL THEN [k EXCEPT !.head[q] = next]
                                   ELSE [k EXCEPT !.proc[prev].nextready = next]
    IN  IF i = 0 THEN k
        ELSE [unlinked EXCEPT !.tail[q] = IF @ = p THEN prev ELSE @]

RTS_SET(k, p, flags) ==
    LET set == [k EXCEPT !.proc[p].rts = @ \cup flags]
    IN  IF proc_is_runnable(k, p) THEN dequeue(set, p) ELSE set

Mut_Preempt(k, p) ==            \* compares the wrong way round
    IF k.cur # NULL /\ k.proc[k.cur].priority < k.proc[p].priority
      THEN RTS_SET(k, k.cur, {"PREEMPTED"})
      ELSE k
Preempt(k, p) ==
    IF k.cur # NULL /\ k.proc[k.cur].priority > k.proc[p].priority
      THEN RTS_SET(k, k.cur, {"PREEMPTED"})
      ELSE k

enqueue(k, p) ==
    LET q == k.proc[p].priority
        last == k.tail[q]
        linked == IF k.head[q] = NULL THEN [k EXCEPT !.head[q] = p]
                                      ELSE [k EXCEPT !.proc[last].nextready = p]
    IN  Preempt([linked EXCEPT !.tail[q] = p, !.proc[p].nextready = NULL], p)

enqueue_head(k, p) ==
    LET q == k.proc[p].priority
    IN  IF k.head[q] = NULL
          THEN [k EXCEPT !.head[q] = p, !.tail[q] = p, !.proc[p].nextready = NULL]
          ELSE [k EXCEPT !.head[q] = p, !.proc[p].nextready = k.head[q]]

RTS_UNSET(k, p, flags) ==
    LET unset == [k EXCEPT !.proc[p].rts = @ \ flags]
    IN  IF ~proc_is_runnable(k, p) /\ proc_is_runnable(unset, p)
          THEN enqueue(unset, p) ELSE unset

pick_proc(k) ==
    LET busy == {q \in Queues : k.head[q] # NULL}
    IN  IF busy = {} THEN NULL ELSE k.head[Min(busy)]

-----------------------------------------------------------------------------
(* Messages.                                                               *)

WILLRECEIVE(k, d, src) ==
    /\ Flag(k, d, "RECEIVING") /\ ~Flag(k, d, "SENDING")
    /\ k.proc[d].getfrom \in {ANY, src}

P_BLOCKEDON(k, p) ==
    IF Flag(k, p, "SENDING") THEN k.proc[p].sendto
    ELSE IF Flag(k, p, "RECEIVING") THEN k.proc[p].getfrom ELSE NULL

(* Does the chain of processes that starts at e lead back to cp?           *)
Mut_deadlock(k, call, cp, e) == \* looks at groups of two only
    /\ e # ANY /\ P_BLOCKEDON(k, e) = cp
    /\ Flag(k, e, "SENDING") = (call = "SEND")
deadlock(k, call, cp, e) ==
    LET on == [p \in Procs |-> P_BLOCKEDON(k, p)]
        group == Chain(e, [p \in Procs |-> IF on[p] \in {ANY, cp} THEN NULL ELSE on[p]])
        xp == Last(group)
    IN  /\ e # ANY
        /\ on[xp] = cp
        /\ ~ (Len(group) = 1 /\ Flag(k, xp, "SENDING") # (call = "SEND"))

Deliver(k, d, m) ==
    [assert(k, ~Misc(k, d, "DELIVERMSG")) EXCEPT
        !.proc[d].delivermsg = m, !.proc[d].misc = @ \cup {"DELIVERMSG"}]

mini_send(k, caller, d, type, nonblocking) ==
    LET given == UnsetMisc(Deliver(k, d, Message(caller, type)), d, "REPLY_PEND")
        blocked == [RTS_SET(assert(k, k.proc[caller].q_link = NULL), caller, {"SENDING"}) EXCEPT
                       !.proc[caller].sendmsg = type, !.proc[caller].sendto = d]
        queue == Callers(k, d)
    IN  IF isempty(k, d) THEN [k |-> k, r |-> "EDEADSRCDST"]
        ELSE IF WILLRECEIVE(k, d, caller)
               THEN [k |-> RTS_UNSET(given, d, {"RECEIVING"}), r |-> "OK"]
        ELSE IF nonblocking THEN [k |-> k, r |-> "ENOTREADY"]
        ELSE IF deadlock(k, "SEND", caller, d) THEN [k |-> k, r |-> "ELOCKED"]
        ELSE [k |-> IF queue = <<>> THEN [blocked EXCEPT !.proc[d].caller_q = caller]
                    ELSE [blocked EXCEPT !.proc[Last(queue)].q_link = caller],
              r |-> "OK"]

(* The notification mini_receive finds: of each chunk of the map it looks  *)
(* at the lowest bit only.                                                 *)
PendingNotes(k, p, src) ==
    LET map == k.priv[p].notify_pending
        lowest == {Min({i \in map : i \div BITCHUNK_BITS = j \div BITCHUNK_BITS}) :
                     j \in map}
    IN  {i \in lowest : src \in {ANY, i}}

(* Entries of the table src gave to senda.                                 *)
Undone(k, src, d) ==
    {i \in DOMAIN k.priv[src].asyntab :
        ~k.priv[src].asyntab[i].done /\ k.priv[src].asyntab[i].dst = d}
Postponed(k, src, d) ==
    {i \in Undone(k, src, d) : k.priv[src].asyntab[i].noreply /\ Misc(k, d, "REPLY_PEND")}
Deliverable(k, src, d) == Undone(k, src, d) \ Postponed(k, src, d)

try_one(k, src, d) ==
    LET i == Min(Deliverable(k, src, d))
    IN  CASE Deliverable(k, src, d) # {} ->
               [Deliver(k, d, Message(src, "ASYN")) EXCEPT
                   !.priv[src].asyntab[i].done = TRUE]
          [] \A j \in DOMAIN k.priv[src].asyntab : k.priv[src].asyntab[j].done ->
               [k EXCEPT !.priv[src].asyntab = <<>>]
          [] OTHER -> k

Mut_try_async(k, d) ==          \* clears the flag after one message
    LET found == {s \in System : ~isempty(k, s) /\ Deliverable(k, s, d) # {}}
    IN  UnsetMisc(IF found = {} THEN k ELSE try_one(k, Min(found), d), d, "ASYNMSG")
try_async(k, d) ==
    LET live == {s \in System : ~isempty(k, s)}
        found == {s \in live : Deliverable(k, s, d) # {}}
        tried == IF found = {} THEN live ELSE {s \in live : s <= Min(found)}
        after[s \in 0 .. NR_PROCS] ==
            IF s = 0 THEN k
            ELSE IF s \in tried THEN try_one(after[s - 1], s, d) ELSE after[s - 1]
    IN  IF found = {} /\ \A s \in live : Postponed(k, s, d) = {}
          THEN UnsetMisc(after[NR_PROCS], d, "ASYNMSG") ELSE after[NR_PROCS]

AsynMessages(k, caller, src) ==
    /\ Misc(k, caller, "ASYNMSG")
    /\ \E s \in System : /\ src \in {ANY, s} /\ ~isempty(k, s)
                         /\ Deliverable(k, s, caller) # {}

mini_notify(k, src, d) ==
    IF WILLRECEIVE(k, d, src) /\ ~Misc(k, d, "REPLY_PEND")
      THEN RTS_UNSET(Deliver(k, d, Message(src, "NOTIFY")), d, {"RECEIVING"})
      ELSE [k EXCEPT !.priv[d].notify_pending = @ \cup {src}]

(* The signal goes to PM, which is told by a notification.                 *)
cause_sig(k, p) ==
    IF Flag(k, p, "SIGNALED") THEN k
    ELSE mini_notify(RTS_SET(k, p, {"SIGNALED", "SIG_PENDING"}), HARDWARE, PM)

sig_delay_done(k, p) == cause_sig(UnsetMisc(k, p, "SIG_DELAY"), p)

(* The i-th process on the queue of d leaves it; its own link stays.       *)
RemoveCaller(k, d, i) ==
    LET queue == Callers(k, d)
        next == k.proc[queue[i]].q_link
    IN  IF i = 1 THEN [k EXCEPT !.proc[d].caller_q = next]
                 ELSE [k EXCEPT !.proc[queue[i - 1]].q_link = next]

Mut_Unlink(k, d, i) == RemoveCaller(k, d, i)
Unlink(k, d, i) == [RemoveCaller(k, d, i) EXCEPT !.proc[Callers(k, d)[i]].q_link = NULL]

Mut_ReceiveQueued(k, caller, i) ==   \* releases the first sender
    LET sender == Callers(k, caller)[i]
        given == Deliver(k, caller, Message(sender, k.proc[sender].sendmsg))
    IN  Unlink(RTS_UNSET(given, Callers(k, caller)[1], {"SENDING"}), caller, i)
ReceiveQueued(k, caller, i) ==
    LET sender == Callers(k, caller)[i]
        given == RTS_UNSET(Deliver(k, caller, Message(sender, k.proc[sender].sendmsg)),
                           sender, {"SENDING"})
        told == IF Misc(k, sender, "SIG_DELAY") THEN sig_delay_done(given, sender) ELSE given
    IN  Unlink(told, caller, i)

mini_receive(k, caller, src) ==
    LET free  == ~Flag(k, caller, "SENDING")
        notes == IF Misc(k, caller, "REPLY_PEND") THEN {} ELSE PendingNotes(k, caller, src)
        tried == IF Misc(k, caller, "ASYNMSG") /\ free /\ notes = {}
                   THEN IF src = ANY THEN try_async(k, caller) ELSE try_one(k, src, caller)
                   ELSE k
        first == SelectInSeq(Callers(k, caller), LAMBDA s : src \in {ANY, s})
        done(k2) == UnsetMisc(k2, caller, "REPLY_PEND")
    IN  CASE free /\ notes # {} ->
               done([Deliver(k, caller, Message(Min(notes), "NOTIFY")) EXCEPT
                        !.priv[caller].notify_pending = @ \ {Min(notes)}])
          [] free /\ notes = {} /\ AsynMessages(k, caller, src) -> done(tried)
          [] free /\ notes = {} /\ ~AsynMessages(k, caller, src) /\ first # 0 ->
               done(ReceiveQueued(tried, caller, first))
          [] OTHER ->
               IF deadlock(k, "RECEIVE", caller, src) THEN tried
               ELSE RTS_SET([tried EXCEPT !.proc[caller].getfrom = src],
                            caller, {"RECEIVING"})

SendaEntry(caller, k, i) ==
    LET e == k.priv[caller].asyntab[i]
        finish(k2) == [k2 EXCEPT !.priv[caller].asyntab[i].done = TRUE]
    IN  CASE isempty(k, e.dst) -> finish(k)
          [] ~isempty(k, e.dst) /\ WILLRECEIVE(k, e.dst, caller)
                                /\ ~ (e.noreply /\ Misc(k, e.dst, "REPLY_PEND")) ->
               finish(RTS_UNSET(Deliver(k, e.dst, Message(caller, "ASYN")),
                                e.dst, {"RECEIVING"}))
          [] OTHER -> SetMisc(k, e.dst, "ASYNMSG")

mini_senda(k, caller, table) ==
    LET after[i \in 0 .. Len(table)] ==
            IF i = 0 THEN [k EXCEPT !.priv[caller].asyntab = table]
            ELSE SendaEntry(caller, after[i - 1], i)
        sent == after[Len(table)]
    IN  IF \A i \in DOMAIN table : sent.priv[caller].asyntab[i].done
          THEN [sent EXCEPT !.priv[caller].asyntab = <<>>] ELSE sent

do_sync_ipc(k, caller, call, other) ==
    LET send(k2, nb) == mini_send(k2, caller, other, "MSG", nb)
        receive(k2) == mini_receive(k2, caller, other)
        asked == SetMisc(k, caller, "REPLY_PEND")
    IN  IF other # ANY /\ isempty(k, other) THEN k
        ELSE CASE call = "SEND"    -> send(k, FALSE).k
               [] call = "SENDNB"  -> send(k, TRUE).k
               [] call = "SENDREC" -> IF send(asked, FALSE).r = "OK"
                                        THEN receive(send(asked, FALSE).k)
                                        ELSE send(asked, FALSE).k
               [] call = "RECEIVE" -> receive(UnsetMisc(k, caller, "REPLY_PEND"))
               [] call = "NOTIFY"  -> mini_notify(k, caller, other)

-----------------------------------------------------------------------------
(* The end of a quantum.                                                   *)

notify_scheduler(k, p) ==
    LET sent == mini_send(RTS_SET(k, p, {"NO_QUANTUM"}), p, SCHED, "NO_QUANTUM", FALSE)
    IN  assert(sent.k, sent.r = "OK")

proc_no_time(k, p) ==
    IF p \in Scheduled THEN notify_scheduler(k, p)
                       ELSE [k EXCEPT !.proc[p].time_left = 1]

Mut_sched_range(k, p, priority) ==    \* one queue too low
    [k EXCEPT !.proc[p].priority = priority + 1]
Mut_sched_proc(k, p, priority) ==     \* a runnable process keeps its place
    RTS_UNSET([k EXCEPT !.proc[p].priority = priority, !.proc[p].time_left = 1],
              p, {"NO_QUANTUM"})
sched_proc(k, p, priority) ==
    LET off == IF proc_is_runnable(k, p) THEN RTS_SET(k, p, {"NO_QUANTUM"}) ELSE k
    IN  RTS_UNSET([off EXCEPT !.proc[p].priority = priority, !.proc[p].time_left = 1],
                  p, {"NO_QUANTUM"})

-----------------------------------------------------------------------------
(* The exit of a process.                                                  *)

clear_ipc(k, rc) ==
    LET d == k.proc[rc].sendto
        i == SelectInSeq(Callers(k, d), LAMBDA s : s = rc)
        unlinked == IF ~Flag(k, rc, "SENDING") THEN k
                    ELSE IF i = 0 THEN k ELSE RemoveCaller(k, d, i)
    IN  [unlinked EXCEPT !.proc[rc].rts = @ \ {"SENDING", "RECEIVING"}]

clear_ipc_refs(k, rc) ==
    LET clear(k2, rp) ==
            LET k3 == [k2 EXCEPT !.priv[rp].notify_pending = @ \ ({rc} \cap System)]
            IN  IF P_BLOCKEDON(k3, rp) = rc
                  THEN RTS_UNSET(k3, rp, {"RECEIVING", "SENDING"}) ELSE k3
        after[p \in 0 .. NR_PROCS] ==
            IF p = 0 THEN k
            ELSE IF p \in {q \in Procs : ~isempty(k, q)} THEN clear(after[p - 1], p)
            ELSE after[p - 1]
    IN  after[NR_PROCS]

do_clear(k, rc) ==
    LET off == RTS_SET(k, rc, {"NO_ENDPOINT"})
        silent == [off EXCEPT !.priv[rc].asyntab = <<>>]
    IN  [clear_ipc_refs(clear_ipc(silent, rc), rc) EXCEPT !.proc[rc].rts = {"SLOT_FREE"}]

-----------------------------------------------------------------------------
Init ==
    /\ proc = [p \in Procs |->
                 [rts |-> {"RECEIVING"}, misc |-> {}, priority |-> Prio[p], time_left |-> 1,
                  getfrom |-> ANY, sendto |-> NULL, caller_q |-> NULL, q_link |-> NULL,
                  nextready |-> NULL, sendmsg |-> "NONE", delivermsg |-> NoMessage]]
    /\ rdy_head = [q \in Queues |-> NULL] /\ rdy_tail = [q \in Queues |-> NULL]
    /\ priv = [p \in Procs |-> [notify_pending |-> {}, asyntab |-> <<>>]]
    /\ proc_ptr = NULL /\ mode = "idle" /\ panic = FALSE

(* A trap or interrupt that took process p out of user mode, possibly at   *)
(* the end of its quantum.                                                 *)
Enter(p, Handler(_)) ==
    /\ mode = "user" /\ proc_ptr = p /\ ~panic
    /\ \E left \in {proc[p].time_left} \cup (IF p \in Slow THEN {0} ELSE {}) :
          Become(Handler([K EXCEPT !.proc[p].time_left = left]))
    /\ mode' = "switch"

do_ipc(p) ==
    \E c \in Calls :
        c[2] = p /\ Enter(p, LAMBDA k : do_sync_ipc(k, p, c[1], c[3]))

senda(p) ==
    p \in System /\ \E t \in Tables[p] : Enter(p, LAMBDA k : mini_senda(k, p, t))

schedule(p, target, priority) ==
    /\ p = SCHED /\ ~isempty(K, target)
    /\ Enter(p, LAMBDA k : sched_proc(k, target, priority))

clear(p, target) ==
    /\ p = PM /\ ~isempty(K, target)
    /\ Enter(p, LAMBDA k : do_clear(k, target))

kill(p, target) ==
    /\ p \in System /\ ~isempty(K, target)
    /\ Enter(p, LAMBDA k : cause_sig(k, target))

getksig(p) ==
    LET signalled == {t \in Procs : Flag(K, t, "SIGNALED")}
    IN  /\ p = PM /\ signalled # {}
        /\ Enter(p, LAMBDA k : RTS_UNSET(k, Min(signalled), {"SIGNALED"}))

endksig(p, target) ==
    /\ p = PM /\ Flag(K, target, "SIG_PENDING") /\ ~Flag(K, target, "SIGNALED")
    /\ Enter(p, LAMBDA k : RTS_UNSET(k, target, {"SIG_PENDING"}))

runctl_stop(p, target) ==
    /\ p = PM /\ ~isempty(K, target)
    /\ Enter(p, LAMBDA k :
          IF Flag(k, target, "SENDING") \/ Misc(k, target, "SIG_DELAY")
            THEN SetMisc(k, target, "SIG_DELAY")
            ELSE RTS_SET(k, target, {"PROC_STOP"}))

runctl_resume(p, target) ==
    /\ p = PM /\ ~isempty(K, target)
    /\ Enter(p, LAMBDA k : RTS_UNSET(k, target, {"PROC_STOP"}))

clock_tick(p) == Enter(p, LAMBDA k : k)

interrupt(d) ==
    /\ ~panic /\ ~isempty(K, d)
    /\ \/ mode = "idle" /\ Become(mini_notify(K, HARDWARE, d)) /\ mode' = "switch"
       \/ \E p \in Procs : Enter(p, LAMBDA k : mini_notify(k, HARDWARE, d))

CurRunnable == IF proc_ptr = NULL THEN FALSE ELSE proc_is_runnable(K, proc_ptr)

(* switch_to_user: the current process is not runnable.                    *)
pick_new ==
    /\ mode = "switch" /\ ~panic
    /\ ~CurRunnable
    /\ LET p == proc_ptr
           back == IF p = NULL THEN K ELSE [K EXCEPT !.proc[p].rts = @ \ {"PREEMPTED"}]
           queued == IF p = NULL \/ ~Flag(K, p, "PREEMPTED") \/ ~proc_is_runnable(back, p)
                       THEN back
                     ELSE IF back.proc[p].time_left # 0 THEN enqueue_head(back, p)
                     ELSE enqueue(back, p)
           next == pick_proc(queued)
       IN  /\ Become([queued EXCEPT !.cur = next])
           /\ mode' = IF next = NULL THEN "idle" ELSE "switch"

(* switch_to_user: the misc flags and the quantum of a runnable process.   *)
check_misc_flags ==
    /\ mode = "switch" /\ ~panic
    /\ CurRunnable
    /\ LET p == proc_ptr
           delivered == [UnsetMisc(K, p, "DELIVERMSG") EXCEPT !.proc[p].delivermsg = NoMessage]
           timed == IF proc[p].time_left = 0 THEN proc_no_time(delivered, p) ELSE delivered
       IN  /\ Become(timed)
           /\ mode' = IF proc_is_runnable(timed, p) THEN "user" ELSE "switch"

Next ==
    \/ \E p \in Procs : \/ do_ipc(p) \/ senda(p) \/ getksig(p) \/ clock_tick(p)
    \/ \E target \in Scheduled, priority \in Queues : schedule(SCHED, target, priority)
    \/ \E target \in Mortal : clear(PM, target)
    \/ \E target \in Signalled : \/ \E p \in System : kill(p, target)
                                 \/ endksig(PM, target)
                                 \/ runctl_stop(PM, target) \/ runctl_resume(PM, target)
    \/ \E d \in Drivers : interrupt(d)
    \/ pick_new \/ check_misc_flags

Spec == Init /\ [][Next]_vars

-----------------------------------------------------------------------------
Flags == {"SLOT_FREE", "PROC_STOP", "SENDING", "RECEIVING", "SIGNALED", "SIG_PENDING",
          "NO_ENDPOINT", "PREEMPTED", "NO_QUANTUM"}
MiscFlags == {"REPLY_PEND", "ASYNMSG", "DELIVERMSG", "SIG_DELAY"}
Pointers == Procs \cup {NULL}

(* Every flag is one of proc.h, every queue number has a queue, and the    *)
(* links between processes lead to processes.                              *)
TypeOK ==
    /\ \A p \in Procs :
          /\ proc[p].rts \subseteq Flags /\ proc[p].misc \subseteq MiscFlags
          /\ proc[p].priority \in Queues /\ proc[p].time_left \in {0, 1}
          /\ {proc[p].sendto, proc[p].caller_q, proc[p].q_link, proc[p].nextready}
                \subseteq Pointers
          /\ proc[p].getfrom \in Pointers \cup {ANY}
          /\ priv[p].notify_pending \subseteq Pointers
    /\ rdy_head \in [Queues -> Pointers] /\ rdy_tail \in [Queues -> Pointers]
    /\ proc_ptr \in Pointers /\ mode \in {"user", "idle", "switch"}

Alive == {p \in Procs : ~isempty(K, p)}

(* What runqueues_ok() of debug.c checks: every queue is a list without    *)
(* repetition that ends at its tail, and the queues together hold exactly  *)
(* the runnable processes, each on the queue of its priority.              *)
RunQueuesOK ==
    \A q \in Queues :
        LET ready == Ready(K, q)
        IN  /\ IsInjective(ready)
            /\ ToSet(ready) = {p \in Alive : proc_is_runnable(K, p) /\ proc[p].priority = q}
            /\ rdy_tail[q] = IF ready = <<>> THEN NULL ELSE Last(ready)
            /\ ready # <<>> => proc[Last(ready)].nextready = NULL

(* The senders on the queue of a process are exactly those blocked on      *)
(* sending to it, each once, and only they have links: with a stale link   *)
(* the next blocking send would splice two queues together.                *)
CallerQueuesOK ==
    /\ \A d \in Alive :
          /\ IsInjective(Callers(K, d))
          /\ ToSet(Callers(K, d)) =
                {s \in Alive : Flag(K, s, "SENDING") /\ proc[s].sendto = d}
    /\ \A s \in Alive : proc[s].q_link # NULL => Flag(K, s, "SENDING")

(* No assertion of the kernel fails: no message is delivered over another  *)
(* one, the link of a process that blocks is clear, and the message about  *)
(* the end of a quantum can always be sent.                                *)
NeverPanics == ~panic

(* deadlock() lets no circle of blocked processes close, so that the loop  *)
(* that follows the chain, in deadlock() itself, always ends.              *)
NoCircle ==
    LET on == [p \in Procs |-> P_BLOCKEDON(K, p)]
        next == [p \in Procs |-> IF on[p] = ANY THEN NULL ELSE on[p]]
    IN  \A p \in Alive : LET c == Chain(p, next)
                         IN  next[Last(c)] = NULL

(* Blocked senders wait where the receiver looks for them, and not for     *)
(* each other.                                                             *)
SendersOK == CallerQueuesOK /\ NoCircle

(* A process that waits for anything is not kept waiting when there is     *)
(* something: a sender on its queue, a notification or an asynchronous     *)
(* message (flag MF_ASYNMSG may be cleared only when there is none).       *)
NothingMissed ==
    \A p \in Alive :
        /\ Flag(K, p, "RECEIVING") /\ ~Flag(K, p, "SENDING")
        /\ proc[p].getfrom = ANY
        => /\ Callers(K, p) = <<>> /\ priv[p].notify_pending = {}
           /\ \A s \in System \cap Alive : Undone(K, s, p) = {}

(* PM's stop of a sending process is delayed, and ends when the message is *)
(* taken: the delay never outlives the sending, or PM would wait for ever. *)
DelayEnds == \A p \in Alive : Misc(K, p, "SIG_DELAY") => Flag(K, p, "SENDING")

(* Neither a receiver nor PM waits for what has already happened.          *)
NothingForgotten == NothingMissed /\ DelayEnds

(* A process in user mode is one with the best priority: enqueue preempts, *)
(* and the preempted process is put back, whatever happened to it in the   *)
(* same trap.                                                              *)
BestRuns ==
    mode \in {"user", "idle"} =>
        /\ \A p \in Alive : ~Flag(K, p, "PREEMPTED")
        /\ \A p \in Alive : proc_is_runnable(K, p) =>
              proc_ptr # NULL /\ proc[proc_ptr].priority <= proc[p].priority

(* A blocked sender is released by the receiver that takes its message, in *)
(* the order of the queue as far as the receiver asked for it, or because  *)
(* one of the two dies: no message is lost, and none is taken twice.       *)
SendsDelivered ==
    [][\A s \in Alive :
          Flag(K, s, "SENDING") /\ "SENDING" \notin proc'[s].rts
          => LET d == proc[s].sendto
             IN  \/ "SLOT_FREE" \in proc'[s].rts \cup proc'[d].rts
                 \/ /\ proc'[d].delivermsg = Message(s, proc[s].sendmsg)
                    /\ "DELIVERMSG" \notin proc[d].misc /\ "DELIVERMSG" \in proc'[d].misc
                    /\ proc_ptr = d
      ]_vars

-----------------------------------------------------------------------------
(* Rules under which no use of message passing fails: at most one process  *)
(* makes blocking sends to one that may exit, and it is none that is       *)
(* signalled; nobody calls itself; and the scheduler, with those it may    *)
(* wait for, never waits for a process that it schedules.                  *)
Waiting == {"SEND", "SENDREC"}

OneSender ==
    \A c1, c2 \in Calls :
        c1[1] \in Waiting /\ c2[1] \in Waiting /\ c1[3] = c2[3] /\ c1[3] \in Mortal
        => c1[2] = c2[2]

Undelayed == \A c \in Calls : c[1] \in Waiting /\ c[3] \in Mortal => c[2] \notin Signalled

NoSelf == \A c \in Calls : c[2] # c[3]

Serves(B) ==
    /\ SCHED \in B /\ B \cap Scheduled = {}
    /\ \A c \in Calls : c[2] \in B /\ c[1] \in Waiting \cup {"RECEIVE"} => c[3] \in B \cup {ANY}

Orderly == OneSender /\ Undelayed /\ NoSelf /\ \E B \in SUBSET Procs : Serves(B)
=============================================================================
