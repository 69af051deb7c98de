------------------------------ MODULE PMSched ------------------------------
(***************************************************************************)
(* The whole system around the lottery scheduler: the process manager's    *)
(* fork, exit, wait, kill and setpriority, the requests it sends to SCHED  *)
(* while handling them, VFS's asynchronous answers, and the processes that *)
(* run out of quantum in between.                                          *)
(*                                                                         *)
(* PM is single-threaded.  An action of PM is one iteration of its main    *)
(* loop up to the point where it blocks in a call to SCHED, or the rest of *)
(* that iteration once SCHED has answered.                                 *)
(***************************************************************************)
EXTENDS SchedServer, FiniteSetsExt

CONSTANTS
    Nices,        \* nice levels that processes ask for
    MaxGen,       \* bound: generations per slot
    TicketBound   \* bound: tickets up to which setpriority is still called

ASSUME PMAssumption ==
    /\ Nices \subseteq -(UMOD \div 2) .. UMOD \div 2 - 1
    /\ MaxGen \in Nat
    /\ TicketBound \in Nat

VARIABLES
    mproc,   \* PM's process table
    vfs      \* the request PM has outstanding at VFS for each slot

vars == <<kproc, caller_q, schedproc, total_tickets, sched_up, call, mproc, vfs>>

MpFlags == {"IN_USE", "EXITING", "ZOMBIE", "TOLD_PARENT", "WAITING",
            "VFS_CALL", "PM_SIG_PENDING"}
VfsRequests == {"NONE", "PM_FORK", "PM_EXIT", "PM_DUMPCORE"}

MProc == [flags : SUBSET MpFlags, endpoint : Nat, parent : Slots,
          nice : Int, scheduler : {"NONE", "KERNEL", "SCHED"}]

MpIs(m, s, f) == f \in m[s].flags
MpEndpoint(m, s) == Endpoint(s, m[s].endpoint)

(* A process PM can take a call from or deliver a signal to.               *)
Alive(m, s) == MpIs(m, s, "IN_USE") /\ ~MpIs(m, s, "EXITING")

(* PM is in its receive loop and process s is running, so s can call PM.   *)
Calls(s) == call = NoCall /\ Alive(mproc, s) /\ proc_is_runnable(kproc, s)

-----------------------------------------------------------------------------
(* A definition named Mut_... is the one after it with a plausible bug in  *)
(* it, for checking that the properties notice the bug.                    *)

(* Pieces of PM's handlers.  They take the table of PM and of the kernel   *)
(* as one value st = [m, k] and return the changed value.                  *)

cleanup(st, s) == [m |-> [st.m EXCEPT ![s].flags = {}], k |-> st.k]

(* The parent's wait call ends with the child's status.                    *)
tell_parent(st, s) ==
    LET p == st.m[s].parent
        m == [st.m EXCEPT ![p].flags = @ \ {"WAITING"}]
    IN  [m |-> [m EXCEPT ![s].flags = (@ \ {"ZOMBIE"}) \cup {"TOLD_PARENT"}],
         k |-> IF Alive(st.m, p) THEN sendnb(st.k, p) ELSE st.k]

check_parent(st, s, try_cleanup) ==
    LET p == st.m[s].parent
    IN  IF MpIs(st.m, p, "EXITING") \/ ~MpIs(st.m, p, "WAITING") THEN st
        ELSE LET told == tell_parent(st, s)
             IN  IF try_cleanup /\ ~MpIs(st.m, s, "VFS_CALL")
                 THEN cleanup(told, s) ELSE told

zombify(st, s) ==
    check_parent([m |-> [st.m EXCEPT ![s].flags = @ \cup {"ZOMBIE"}], k |-> st.k],
                 s, FALSE)

(* The children of s become init's, and init is told of the first of them  *)
(* that is a zombie if it is waiting.                                      *)
Mut_disinherit(st, s) == st
disinherit(st, s) ==
    LET m == [c \in Slots |->
                IF MpIs(st.m, c, "IN_USE") /\ st.m[c].parent = s
                THEN [st.m[c] EXCEPT !.parent = INIT_PROC_NR] ELSE st.m[c]]
        zombies == {c \in Slots : /\ MpIs(st.m, c, "ZOMBIE")
                                  /\ st.m[c].parent = s}
        adopted == [m |-> m, k |-> st.k]
    IN  IF zombies = {} THEN adopted
        ELSE check_parent(adopted, Min(zombies), TRUE)

(* exit_proc up to its request to VFS, which is left to the action.        *)
exit_proc(st, s, dump_core) ==
    LET stopped ==
          [m |-> [st.m EXCEPT
                    ![s].flags = (@ \cap {"IN_USE"}) \cup {"VFS_CALL", "EXITING"}],
           k |-> RtsSet(st.k, s, "PROC_STOP")]
    IN  disinherit(IF dump_core THEN stopped ELSE zombify(stopped, s), s)

ExitRequest(dump_core) == IF dump_core THEN "PM_DUMPCORE" ELSE "PM_EXIT"

Tables == [m |-> mproc, k |-> kproc]
SetTables(st) == mproc' = st.m /\ kproc' = st.k

(* _taskcall to SCHED: PM blocks behind the senders already queued there.  *)
taskcall(type, ep, parent, maxprio, caller, core) ==
    /\ call' = [type |-> type, endpoint |-> ep, parent |-> parent,
                maxprio |-> maxprio, caller |-> caller, core |-> core,
                rv |-> "PENDING"]
    /\ caller_q' = Append(caller_q, PM_PROC_NR)

-----------------------------------------------------------------------------
(* PM's start-up: init is the only user process and gets SCHED.            *)
sched_init ==
    /\ call = NoCall
    /\ mproc[INIT_PROC_NR].scheduler = "KERNEL"
    /\ LET e == MpEndpoint(mproc, INIT_PROC_NR)
       IN  taskcall("START", e, e, USER_Q, INIT_PROC_NR, FALSE)
    /\ UNCHANGED <<kproc, schedVars, mproc, vfs>>

sched_init_done ==
    /\ call.type = "START" /\ call.rv # "PENDING"
    /\ mproc' = [mproc EXCEPT ![INIT_PROC_NR].scheduler =
                                IF call.rv = "OK" THEN "SCHED" ELSE @]
    /\ call' = NoCall
    /\ UNCHANGED <<kproc, caller_q, schedVars, vfs>>

(* The first half of fork: the slots are copied, VFS is asked.             *)
do_fork(p) ==
    /\ Calls(p)
    /\ \E c \in Slots :
         /\ ~MpIs(mproc, c, "IN_USE")
         /\ "SLOT_FREE" \in kproc[c].rts
         /\ kproc[c].gen < MaxGen
         /\ kproc' = sys_fork(RtsSet(kproc, p, "RECEIVING"), p, c)
         /\ mproc' = [mproc EXCEPT ![c] =
                       [mproc[p] EXCEPT !.flags = {"IN_USE", "VFS_CALL"},
                                        !.endpoint = kproc'[c].gen,
                                        !.parent = p]]
         /\ vfs' = [vfs EXCEPT ![c] = "PM_FORK"]
    /\ UNCHANGED <<caller_q, schedVars, call>>

(* VFS has answered the fork request: ask SCHED to take the child over.    *)
sched_start_user(c) ==
    /\ call = NoCall
    /\ vfs[c] = "PM_FORK"
    /\ mproc[c].scheduler = "SCHED"
    /\ taskcall("INHERIT", MpEndpoint(mproc, c),
                MpEndpoint(mproc, mproc[c].parent),
                nice_to_priority(mproc[c].nice), c, FALSE)
    /\ mproc' = [mproc EXCEPT ![c].flags = @ \ {"VFS_CALL"}]
    /\ vfs' = [vfs EXCEPT ![c] = "NONE"]
    /\ UNCHANGED <<kproc, schedVars>>

(* SCHED has answered.  Both processes are woken, or the child is torn     *)
(* down; a lethal signal that arrived during the fork is then delivered.   *)
Mut_fork_done_no_failure ==
    /\ call.type = "INHERIT" /\ call.rv = "OK"
    /\ kproc' = sendnb(sendnb(kproc, call.caller), mproc[call.caller].parent)
    /\ call' = NoCall
    /\ UNCHANGED <<caller_q, schedVars, mproc, vfs>>
fork_done ==
    /\ call.type = "INHERIT" /\ call.rv # "PENDING"
    /\ LET c == call.caller
           p == mproc[c].parent
           Wake(k, s) == IF Alive(mproc, s) THEN sendnb(k, s) ELSE k
           failed == exit_proc([m |-> [mproc EXCEPT ![c].scheduler = "NONE"],
                                k |-> kproc], c, FALSE)
       IN  \/ /\ call.rv # "OK"
              /\ mproc' = failed.m
              /\ kproc' = Wake(failed.k, p)
              /\ vfs' = [vfs EXCEPT ![c] = "PM_EXIT"]
           \/ /\ call.rv = "OK"
              /\ ~MpIs(mproc, c, "PM_SIG_PENDING")
              /\ kproc' = Wake(Wake(kproc, c), p)
              /\ UNCHANGED <<mproc, vfs>>
           \/ /\ call.rv = "OK"
              /\ MpIs(mproc, c, "PM_SIG_PENDING")
              /\ \E dump_core \in BOOLEAN :
                   /\ SetTables(exit_proc([m |-> mproc, k |-> Wake(kproc, p)],
                                          c, dump_core))
                   /\ vfs' = [vfs EXCEPT ![c] = ExitRequest(dump_core)]
    /\ call' = NoCall
    /\ UNCHANGED <<caller_q, schedVars>>

(* A process exits by its own call, or is killed by a lethal signal.  A    *)
(* signal for a process that PM has a request for at VFS is kept.          *)
do_exit(s) ==
    /\ Calls(s)
    /\ s # INIT_PROC_NR
    /\ SetTables(exit_proc([m |-> mproc, k |-> RtsSet(kproc, s, "RECEIVING")],
                           s, FALSE))
    /\ vfs' = [vfs EXCEPT ![s] = "PM_EXIT"]
    /\ UNCHANGED <<caller_q, schedVars, call>>

sig_proc(s) ==
    /\ call = NoCall
    /\ Alive(mproc, s)
    /\ s # INIT_PROC_NR
    /\ \/ /\ MpIs(mproc, s, "VFS_CALL")
          /\ ~MpIs(mproc, s, "PM_SIG_PENDING")
          /\ mproc' = [mproc EXCEPT ![s].flags = @ \cup {"PM_SIG_PENDING"}]
          /\ kproc' = RtsSet(kproc, s, "PROC_STOP")
          /\ UNCHANGED vfs
       \/ /\ ~MpIs(mproc, s, "VFS_CALL")
          /\ \E dump_core \in BOOLEAN :
               /\ SetTables(exit_proc(Tables, s, dump_core))
               /\ vfs' = [vfs EXCEPT ![s] = ExitRequest(dump_core)]
    /\ UNCHANGED <<caller_q, schedVars, call>>

(* The second half of exit, after VFS's answer: SCHED lets the process go, *)
(* then the kernel's slot is cleared.                                      *)
Cleared(st, s, core) ==
    LET z == IF core THEN zombify(st, s) ELSE st
        f == [m |-> z.m, k |-> sys_clear(z.k, s)]
    IN  IF MpIs(f.m, s, "TOLD_PARENT") THEN cleanup(f, s) ELSE f

exit_restart(s) ==
    /\ call = NoCall
    /\ vfs[s] \in {"PM_EXIT", "PM_DUMPCORE"}
    /\ vfs' = [vfs EXCEPT ![s] = "NONE"]
    /\ LET idle == [mproc EXCEPT ![s].flags = @ \ {"VFS_CALL"}]
           core == vfs[s] = "PM_DUMPCORE"
           e == MpEndpoint(mproc, s)
       IN  \/ /\ mproc[s].scheduler = "SCHED"
              /\ mproc' = idle
              /\ taskcall("STOP", e, e, 0, s, core)
              /\ UNCHANGED kproc
           \/ /\ mproc[s].scheduler # "SCHED"
              /\ SetTables(Cleared([m |-> [idle EXCEPT ![s].scheduler = "NONE"],
                                    k |-> kproc], s, core))
              /\ caller_q' = clear_ipc(caller_q, s)
              /\ UNCHANGED call
    /\ UNCHANGED schedVars

exit_restart_done ==
    /\ call.type = "STOP" /\ call.rv # "PENDING"
    /\ LET s == call.caller
       IN  /\ SetTables(Cleared([m |-> [mproc EXCEPT ![s].scheduler = "NONE"],
                                 k |-> kproc], s, call.core))
           /\ caller_q' = clear_ipc(caller_q, s)
    /\ call' = NoCall
    /\ UNCHANGED <<schedVars, vfs>>

(* wait() for any child: collect a zombie, or block.                       *)
do_waitpid(p) ==
    /\ Calls(p)
    /\ LET children == {c \in Slots : /\ MpIs(mproc, c, "IN_USE")
                                      /\ ~MpIs(mproc, c, "TOLD_PARENT")
                                      /\ mproc[c].parent = p}
           zombies == {c \in children : MpIs(mproc, c, "ZOMBIE")}
       IN  \/ /\ zombies # {}
              /\ LET c == Min(zombies)
                     told == tell_parent(Tables, c)
                 IN  SetTables(IF MpIs(mproc, c, "VFS_CALL") THEN told
                               ELSE cleanup(told, c))
           \/ /\ zombies = {} /\ children # {}
              /\ mproc' = [mproc EXCEPT ![p].flags = @ \cup {"WAITING"}]
              /\ kproc' = RtsSet(kproc, p, "RECEIVING")
    /\ UNCHANGED <<caller_q, schedVars, call, vfs>>

(* setpriority: PM asks SCHED, and remembers the level if SCHED agreed.    *)
(* User ids are left out: the caller may be the superuser.                 *)
do_getsetpriority(p, s, nice) ==
    /\ Calls(p)
    /\ MpIs(mproc, s, "IN_USE")
    /\ mproc[s].scheduler = "SCHED"
    /\ schedproc[s].tickets <= TicketBound
    /\ taskcall("SET_NICE", MpEndpoint(mproc, s), MpEndpoint(mproc, s),
                nice, p, FALSE)
    /\ kproc' = RtsSet(kproc, p, "RECEIVING")
    /\ UNCHANGED <<schedVars, mproc, vfs>>

setpriority_done ==
    /\ call.type = "SET_NICE" /\ call.rv # "PENDING"
    /\ mproc' = [mproc EXCEPT ![call.endpoint.slot].nice =
                                IF call.rv = "OK" THEN call.maxprio ELSE @]
    /\ kproc' = sendnb(kproc, call.caller)
    /\ call' = NoCall
    /\ UNCHANGED <<caller_q, schedVars, vfs>>

-----------------------------------------------------------------------------
(* The state after SCHED's and PM's own start-up: init is the only user    *)
(* process, and has no quantum until PM finds it a scheduler.              *)
Init ==
    /\ kproc = [s \in Slots |->
                  [gen |-> 0, priority |-> 0, scheduler |-> "NULL",
                   rts |-> IF s = INIT_PROC_NR THEN {"NO_QUANTUM"}
                           ELSE {"SLOT_FREE"}]]
    /\ caller_q = << >>
    /\ init_scheduling
    /\ call = NoCall
    /\ mproc = [s \in Slots |->
                  [flags |-> IF s = INIT_PROC_NR THEN {"IN_USE"} ELSE {},
                   endpoint |-> 0, parent |-> INIT_PROC_NR, nice |-> 0,
                   scheduler |-> IF s = INIT_PROC_NR THEN "KERNEL" ELSE "NONE"]]
    /\ vfs = [s \in Slots |-> "NONE"]

OutOfQuantum(s) ==
    /\ notify_scheduler(s)
    /\ UNCHANGED <<schedVars, call, mproc, vfs>>

SchedMain == main /\ UNCHANGED <<mproc, vfs>>
BalanceQueues == balance_queues /\ UNCHANGED <<mproc, vfs>>

Next ==
    \/ sched_init
    \/ sched_init_done
    \/ fork_done
    \/ exit_restart_done
    \/ setpriority_done
    \/ SchedMain
    \/ BalanceQueues
    \/ \E s \in Slots :
         \/ do_fork(s) \/ sched_start_user(s)
         \/ do_exit(s) \/ sig_proc(s) \/ exit_restart(s)
         \/ do_waitpid(s)
         \/ OutOfQuantum(s)
    \/ \E p, s \in Slots : \E nice \in Nices : do_getsetpriority(p, s, nice)

Spec == Init /\ [][Next]_vars

(* Every server runs its receive loop whenever it has a message: SCHED     *)
(* takes the head of its queue, PM carries on once SCHED has answered, and *)
(* VFS's answers reach PM, which goes back to receiving over and over.     *)
PMContinues == \/ sched_init_done \/ fork_done
               \/ exit_restart_done \/ setpriority_done

Fairness ==
    /\ WF_vars(sched_init)
    /\ WF_vars(PMContinues)
    /\ WF_vars(SchedMain)
    /\ \A s \in Slots : SF_vars(sched_start_user(s)) /\ SF_vars(exit_restart(s))

FairSpec == Spec /\ Fairness

(* rand() draws every number again and again, so a slot that some draws    *)
(* would let win wins in the long run.                                     *)
Winner(s) == BalanceQueues /\ schedproc'[s].priority # schedproc[s].priority

LotterySpec == FairSpec /\ \A s \in Slots : SF_vars(Winner(s))
-----------------------------------------------------------------------------
(* Type invariant.                                                         *)
Calling == [type : CallTypes, endpoint : [slot : Slots, gen : Nat],
            parent : [slot : Slots, gen : Nat], maxprio : Int,
            caller : Slots, core : BOOLEAN, rv : Results]

TypeOK ==
    /\ kproc \in [Slots -> KProc]
    /\ caller_q \in Seq(Slots \cup {PM_PROC_NR})
    /\ schedproc \in [Slots -> SchedProc]
    /\ total_tickets \in Nat
    /\ sched_up \in BOOLEAN
    /\ call \in Calling \cup {NoCall}
    /\ mproc \in [Slots -> MProc]
    /\ vfs \in [Slots -> VfsRequests]

(* SCHED has an entry for the process that now occupies slot s.            *)
Known(s) == "SLOT_FREE" \notin kproc[s].rts /\ sched_isokendpt(EndpointOf(s))

(* The parent named in a SCHEDULING_INHERIT is always one SCHED knows,     *)
(* although the parent may be killed while VFS handles the fork: the       *)
(* assumption do_start_scheduling makes in its comment on INHERIT.         *)
ParentKnown ==
    call.type = "INHERIT" /\ call.rv = "PENDING" => sched_isokendpt(call.parent)

(* SCHED never meets the "invalid endpoint in OOQ msg" case: a process's   *)
(* out-of-quantum message is received before the request that stops its    *)
(* scheduling, because sys_stop precedes SCHEDULING_STOP.                  *)
OutOfQuantumKnown ==
    \A i \in DOMAIN caller_q : caller_q[i] # PM_PROC_NR => Known(caller_q[i])

(* Every queue number the kernel stores has a run queue, although          *)
(* sched_proc itself would accept NR_SCHED_QUEUES.                         *)
QueueInRange == \A s \in Slots : kproc[s].priority < NR_SCHED_QUEUES

(* SCHED's idea of a process's priority is the kernel's, unless the        *)
(* lottery took it below zero.                                             *)
PriorityAgrees ==
    \A s \in Slots : Known(s) =>
        \/ schedproc[s].priority = kproc[s].priority
        \/ Wrapped(schedproc[s].priority)

(* A process SCHED knows is never left without quantum once SCHED has      *)
(* received its out-of-quantum message, unless its priority wrapped.       *)
NoLostQuantum ==
    \A s \in Slots : Known(s) /\ "NO_QUANTUM" \in kproc[s].rts =>
        \/ "SENDING" \in kproc[s].rts
        \/ Wrapped(schedproc[s].priority)

(* Every process PM has finished forking and not begun to tear down has    *)
(* its entry in SCHED, under its current endpoint.                         *)
LiveKnown ==
    \A s \in Slots :
        /\ MpIs(mproc, s, "IN_USE")
        /\ mproc[s].scheduler = "SCHED"
        /\ vfs[s] # "PM_FORK"
        /\ ~(call # NoCall /\ call.type \in {"INHERIT", "STOP"} /\ call.caller = s)
        => Known(s)

(* SCHED has an entry for whoever it is asked about: the parent of a fork, *)
(* the sender of an out-of-quantum message, every process that PM runs.    *)
EntriesCurrent == ParentKnown /\ OutOfQuantumKnown /\ LiveKnown

(* An entry of SCHED outlives its process only after the process could not *)
(* be scheduled because it inherited a wrapped priority: every other exit  *)
(* gives the entry back.                                                   *)
LeakOnlyByUnderflow ==
    \A s \in Slots : InUse(s) =>
        \/ /\ mproc[s].scheduler # "NONE"
           /\ mproc[s].endpoint = schedproc[s].endpoint
        \/ Wrapped(schedproc[s].priority)

(* The inductive invariant behind QueueInRange, PriorityAgrees and         *)
(* NoLostQuantum, slot by slot: the three tables agree on who occupies the *)
(* slot, SCHED's priority is a queue or lies just below zero, and an entry *)
(* in use is one the kernel lets SCHED schedule.                           *)
SlotInv(s) ==
    /\ mproc[s].endpoint = kproc[s].gen
    /\ schedproc[s].endpoint <= kproc[s].gen
    /\ \/ schedproc[s].priority < NR_SCHED_QUEUES
       \/ /\ schedproc[s].priority >= UMOD - MaxUnderflow
          /\ schedproc[s].priority < UMOD
    /\ InUse(s) => schedproc[s].time_slice > 0
    /\ kproc[s].priority < NR_SCHED_QUEUES
    /\ Known(s) =>
         /\ kproc[s].scheduler = "SCHED"
         /\ \/ schedproc[s].priority = kproc[s].priority
            \/ Wrapped(schedproc[s].priority)
         /\ "NO_QUANTUM" \in kproc[s].rts =>
              "SENDING" \in kproc[s].rts \/ Wrapped(schedproc[s].priority)

(* PM's pending request names the process that still occupies the slot.    *)
CallInv ==
    call # NoCall =>
      /\ call.endpoint.gen = kproc[call.endpoint.slot].gen
      /\ call.type \in {"START", "INHERIT"} => call.maxprio \in Nat
      /\ call.type = "SET_NICE" => call.maxprio \in Nices

SlotsInv == \A s \in Slots : SlotInv(s)
IInv == TypeOK /\ CallInv /\ SlotsInv

-----------------------------------------------------------------------------
(* PM is never left waiting for SCHED: its request gets to the head of the *)
(* queue however many processes keep running out of quantum.               *)
CallsAnswered == (call # NoCall) ~> (call = NoCall)

(* An out-of-quantum message is received however often PM calls SCHED.     *)
OutOfQuantumServed ==
    \A s \in Slots : ("SENDING" \in kproc[s].rts) ~> ("SENDING" \notin kproc[s].rts)

(* A fork that reached VFS ends: the child is woken, or is being torn down.*)
ForkCompletes ==
    \A s \in Slots :
        (vfs[s] = "PM_FORK") ~> \/ "RECEIVING" \notin kproc[s].rts
                                \/ MpIs(mproc, s, "EXITING")

(* An exit completes: the kernel's slot is free again, whether SCHED had   *)
(* been asked to schedule the process, had refused, or let it go.          *)
ExitCompletes ==
    \A s \in Slots : MpIs(mproc, s, "EXITING") ~> "SLOT_FREE" \in kproc[s].rts

(* What PM began in a process's life it ends, although every step waits    *)
(* for VFS or SCHED and parent or child may be killed in between.          *)
LifecycleEnds == ForkCompletes /\ ExitCompletes

(* A process that was bumped down is pulled back up by some later lottery. *)
Bumped(s) == /\ Known(s)
             /\ schedproc[s].priority > schedproc[s].max_priority
             /\ ~Wrapped(schedproc[s].priority)

PulledBackUp == \A s \in Slots : Bumped(s) ~> ~Bumped(s)

(* SCHED does not die under a process it schedules: the total the lottery  *)
(* divides by is positive from the first start on, whatever exits.         *)
AliveWhileScheduling == (\E s \in Slots : Known(s)) => sched_up

=============================================================================
