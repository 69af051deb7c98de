--------------------------------- MODULE RS ---------------------------------
(***************************************************************************)
(* The reincarnation server (servers/rs): starts system services, watches  *)
(* them with heartbeats, restarts the ones that die, and updates them      *)
(* while they run.  RS handles one message at a time; between two messages *)
(* services run, die or send.  The functions of RS are operators on a      *)
(* record k of its state and of what PM, the kernel and DS keep for it.    *)
(*                                                                         *)
(* Time is abstracted to which of the clocks RS compares have expired,     *)
(* chosen at each period.  RS itself and the services of the boot image    *)
(* that must not die are left out.                                         *)
(***************************************************************************)
EXTENDS Integers, FiniteSets, FiniteSetsExt

CONSTANTS
    NR_SYS_PROCS,     \* entries of the table rproc
    Endpoints,        \* process slots that srv_fork can hand out
    Labels, Callers,
    Requests,         \* kinds of requests the callers make
    Failures,         \* sets of calls of RS to other servers that fail
    Next_child,       \* where PM's search for a free process may begin
    Options,          \* [script, repl, period]: how services are started
    Rough,            \* what RS does not survive, and may happen nevertheless
    MaxRestarts,      \* bound on the restarts of one instance
    MAX_BACKOFF

NULL == 0
Slots == 1 .. NR_SYS_PROCS

ASSUME RSAssumption ==
    /\ NR_SYS_PROCS \in Nat \ {0}
    /\ Endpoints \subseteq Nat \ {NULL} /\ IsFiniteSet(Endpoints)
    /\ Next_child \subseteq Nat
    /\ Options \subseteq [script : BOOLEAN, repl : BOOLEAN, period : BOOLEAN]
    /\ NULL \notin Callers /\ Rough \subseteq {"overlap", "slow init", "failing update"}
    /\ MaxRestarts \in Nat /\ MAX_BACKOFF \in Nat \ {0}

VARIABLES
    rproc,            \* the table of services
    rproc_ptr,        \* the slot of the service at an endpoint
    rupdate,          \* the slot under update, or NULL
    shutting_down,
    world,            \* the process at each endpoint
    ds,               \* the endpoint DS has for each label
    waiting,          \* callers that wait for an answer of RS
    stray,            \* RS answered a caller that did not wait
    crashed           \* RS followed a null pointer

vars == <<rproc, rproc_ptr, rupdate, shutting_down, world, ds, waiting, stray, crashed>>

K == [rproc |-> rproc, ptr |-> rproc_ptr, upd |-> rupdate, world |-> world, ds |-> ds,
      waiting |-> waiting, stray |-> stray, crashed |-> crashed]

Become(k) ==
    /\ rproc' = k.rproc /\ rproc_ptr' = k.ptr /\ rupdate' = k.upd /\ world' = k.world
    /\ ds' = k.ds /\ waiting' = k.waiting /\ stray' = k.stray /\ crashed' = k.crashed

(* A process is free, held until RS allows it to run, init, run, prepare   *)
(* for an update, or blocked until RS answers; and whether it got a signal *)
(* that ends it.                                                           *)
Process(st) == [st |-> st, killed |-> FALSE]

FreshSlot == [flags |-> {}, label |-> NULL, ep |-> NULL, pid |-> NULL,
              prev |-> NULL, next |-> NULL, old |-> NULL, new |-> NULL,
              restarts |-> 0, backoff |-> 0, stopping |-> FALSE, awaited |-> FALSE,
              caller |-> NULL,
              opt |-> [script |-> FALSE, repl |-> FALSE, period |-> FALSE]]

Has(k, s, f) == f \in k.rproc[s].flags
Set(k, s, fs) == [k EXCEPT !.rproc[s].flags = @ \cup fs]
Unset(k, s, fs) == [k EXCEPT !.rproc[s].flags = @ \ fs]
Done(k, ok) == [k |-> k, ok |-> ok]

lookup_slot_by_label(k, l) ==
    LET found == {s \in Slots : Has(k, s, "ACTIVE") /\ k.rproc[s].label = l}
    IN  IF found = {} THEN NULL ELSE Min(found)

alloc_slot(k) ==
    LET free == {s \in Slots : ~Has(k, s, "IN_USE")}
    IN  IF free = {} THEN NULL ELSE Min(free)

reply(k, c) ==
    IF k.waiting[c] THEN [k EXCEPT !.waiting[c] = FALSE] ELSE [k EXCEPT !.stray = TRUE]

Mut_late_reply(k, s) ==
    IF Has(k, s, "LATEREPLY") THEN reply(k, k.rproc[s].caller) ELSE k
late_reply(k, s) ==
    IF Has(k, s, "LATEREPLY") THEN Unset(reply(k, k.rproc[s].caller), s, {"LATEREPLY"}) ELSE k

-----------------------------------------------------------------------------
(* The life of one instance.                                               *)

free_slot(k, s) ==
    LET e == k.rproc[s].ep
    IN  [late_reply(k, s) EXCEPT
            !.rproc[s].flags = {}, !.rproc[s].pid = NULL,
            !.ptr = [x \in Endpoints |-> IF x = e THEN NULL ELSE @[x]]]

cleanup_service(k, s) ==
    LET p == k.rproc[s].pid
    IN  free_slot(IF p = NULL THEN k ELSE [k EXCEPT !.world[p] = Process("free")], s)

crash_service(k, s) ==
    LET e == k.rproc[s].ep
    IN  IF k.world[e].st = "free" THEN k ELSE [k EXCEPT !.world[e].killed = TRUE]

kill_service(k, s) == crash_service(Set(k, s, {"EXITING"}), s)

(* PM looks for a free process from next_child on, which every fork moves. *)
FreeProcesses(k) == {e \in Endpoints : k.world[e].st = "free"}
srv_fork(k, next_child) ==
    LET free == FreeProcesses(k)
        after == {e \in free : e >= next_child}
    IN  Min(IF after = {} THEN free ELSE after)

(* A process held for the slot s.                                          *)
Fork(k, s, e) ==
    [k EXCEPT !.rproc[s] = [@ EXCEPT !.flags = {"IN_USE"}, !.ep = e, !.pid = e,
                                     !.awaited = FALSE, !.stopping = FALSE, !.backoff = 0],
              !.ptr[e] = s, !.world[e] = Process("held")]

create_service(k, s, out) ==
    LET forked == Fork(k, s, srv_fork(k, out.next))
    IN  IF "fork" \in out.fail \/ FreeProcesses(k) = {} THEN Done(free_slot(k, s), FALSE)
        ELSE IF "exec" \in out.fail THEN Done(cleanup_service(forked, s), FALSE)
        ELSE Done(forked, TRUE)

Mut_clone_slot(k, s, c) ==
    [k EXCEPT !.rproc[c] = [k.rproc[s] EXCEPT
        !.flags = @ \ {"ACTIVE"}, !.pid = NULL, !.ep = NULL]]
clone_slot(k, s, c) ==
    [k EXCEPT !.rproc[c] = [k.rproc[s] EXCEPT
        !.flags = @ \ {"ACTIVE"}, !.pid = NULL, !.ep = NULL,
        !.old = NULL, !.new = NULL, !.prev = NULL, !.next = NULL]]

Link(k, s, lu, c) ==
    IF lu THEN [k EXCEPT !.rproc[s].new = c] ELSE [k EXCEPT !.rproc[s].next = c]

(* A replica, for an update (lu) or for a restart.                         *)
clone_service(k, s, lu, out) ==
    LET c == alloc_slot(k)
        copy == clone_slot(k, s, c)
        to == Link(copy, s, lu, c)
        linked == IF lu THEN [to EXCEPT !.rproc[c].old = s] ELSE [to EXCEPT !.rproc[c].prev = s]
        made == create_service(linked, c, out)
    IN  IF c = NULL THEN Done(k, FALSE)
        ELSE IF ~made.ok THEN Done(Link(made.k, s, lu, NULL), FALSE)
        ELSE made

activate_service(k, s, ex) ==
    Set(IF ex = NULL THEN k ELSE Unset(k, ex, {"ACTIVE"}), s, {"ACTIVE"})

publish_service(k, s, out) ==
    LET r == k.rproc[s]
        known == [k EXCEPT !.ds[r.label] = r.ep]
    IN  IF "ds" \in out.fail THEN Done(kill_service(k, s), FALSE)
        ELSE IF "map" \in out.fail THEN Done(kill_service(known, s), FALSE)
        ELSE Done(known, TRUE)

unpublish_service(k, s) == [k EXCEPT !.ds[k.rproc[s].label] = NULL]

run_service(k, s, out) ==
    LET init == [Set(k, s, {"INITIALIZING"}) EXCEPT !.rproc[s].awaited = TRUE]
    IN  IF "allow" \in out.fail THEN Done(kill_service(k, s), FALSE)
        ELSE IF "init" \in out.fail THEN Done(kill_service(init, s), FALSE)
        ELSE Done([init EXCEPT !.world[k.rproc[s].ep].st = "init"], TRUE)

start_service(k, s, out) ==
    LET made == create_service(k, s, out)
        published == publish_service(activate_service(made.k, s, NULL), s, out)
    IN  IF ~made.ok THEN made
        ELSE IF ~published.ok THEN published
        ELSE run_service(published.k, s, out)

Swapped(x, src, dst) == IF x = src THEN dst ELSE IF x = dst THEN src ELSE x

Moved(r, to, src, dst) ==
    [r EXCEPT !.prev = Swapped(@, src, dst), !.next = Swapped(@, src, dst),
              !.old = Swapped(@, src, dst), !.new = Swapped(@, src, dst),
              !.pid = to.pid, !.ep = to.ep]

(* The instance in slot dst takes the place, the endpoint and the pid of   *)
(* the one in slot src, and the other way round: afterwards the new        *)
(* instance is in slot src and active, the old one in slot dst.            *)
update_service(k, src, dst) ==
    LET a == k.rproc[src]
        b == k.rproc[dst]
        k2 == [k EXCEPT !.rproc[src] = Moved(b, a, src, dst), !.rproc[dst] = Moved(a, b, src, dst),
                        !.world[a.ep] = k.world[b.ep], !.world[b.ep] = k.world[a.ep],
                        !.upd = Swapped(@, src, dst)]
    IN  activate_service([k2 EXCEPT !.ptr[a.ep] = src, !.ptr[b.ep] = dst], src, dst)

(* An instance of a service, if there is such a one, and all of them.      *)
Cleanup(k, x) == IF x = NULL THEN k ELSE cleanup_service(k, x)
CleanupAll(k, s) ==
    LET r == k.rproc[s]
    IN  Cleanup(Cleanup(Cleanup(Cleanup(cleanup_service(k, s), r.prev), r.next), r.old), r.new)

-----------------------------------------------------------------------------
(* Update, restart and termination.                                        *)

(* The answer unblocks a service that waits for RS.                        *)
ReplyService(k, s) ==
    LET e == k.rproc[s].ep
    IN  IF k.world[e].st = "blocked" THEN [k EXCEPT !.world[e].st = "run"] ELSE k

Forget(k, o, n) ==
    [k EXCEPT !.upd = NULL, !.rproc[o].new = NULL, !.rproc[n].old = NULL,
              !.rproc[o].awaited = FALSE]

end_update(k, ok, answer) ==
    LET o == k.upd
        n == k.rproc[o].new
        surviving == IF ok THEN n ELSE o
        exiting == IF ok THEN o ELSE n
        told == Unset(late_reply(Forget(k, o, n), o), surviving, {"UPDATING"})
        replied == IF answer THEN ReplyService(told, surviving) ELSE told
    IN  IF o = NULL THEN [k EXCEPT !.crashed = TRUE]
        ELSE IF n = NULL THEN [k EXCEPT !.crashed = TRUE]
        ELSE CleanupAll(replied, exiting)

restart_service(k, s, script, out) ==
    LET told == late_reply(k, s)
        cloned == IF k.rproc[s].next = NULL THEN clone_service(told, s, FALSE, out)
                                            ELSE Done(told, TRUE)
        dst == cloned.k.rproc[s].next
        ran == run_service(update_service(cloned.k, s, dst), s, out)
    IN  IF script THEN IF "fork" \in out.fail THEN kill_service(told, s) ELSE told
        ELSE IF ~cloned.ok THEN kill_service(cloned.k, s)
        ELSE IF "swap" \in out.fail THEN kill_service(cloned.k, s)
        ELSE IF ~ran.ok THEN kill_service(ran.k, dst)
        ELSE ran.k

(* 1 << restarts                                                           *)
Shifted[n \in 0 .. MaxRestarts] == IF n = 0 THEN 1 ELSE 2 * Shifted[n - 1]

Mut_Backoff_none(restarts) == 0
Mut_Backoff(restarts) == 2 * Shifted[restarts]
Backoff(restarts) ==
    IF Shifted[restarts] < MAX_BACKOFF THEN Shifted[restarts] ELSE MAX_BACKOFF

Mut_EndUpdateOf(k, s) == k
EndUpdateOf(k, s) == IF Has(k, s, "UPDATING") THEN end_update(k, FALSE, FALSE) ELSE k

RollBack(k, s) ==
    LET x == k.rproc[s].old
        rolled == update_service(Unset(k, s, {"INITIALIZING"}), s, x)
    IN  IF x = NULL THEN [k EXCEPT !.crashed = TRUE] ELSE end_update(rolled, FALSE, TRUE)

terminate_service(k, s, out) ==
    LET failed == Has(k, s, "INITIALIZING")
        k2 == IF failed THEN Set(k, s, {"EXITING"}) ELSE k
        gone == unpublish_service(late_reply(k2, s), s)
        alone == EndUpdateOf(k2, s)
    IN  CASE failed /\ Has(k, s, "UPDATING") -> RollBack(k2, s)
          [] ~(failed /\ Has(k, s, "UPDATING")) /\ Has(k2, s, "EXITING") ->
               CleanupAll(gone, s)
          [] ~Has(k2, s, "EXITING") /\ Has(k, s, "REFRESHING") ->
               restart_service(k, s, k.rproc[s].opt.script, out)
          [] OTHER ->
               IF k.rproc[s].restarts > 0
                 THEN [alone EXCEPT !.rproc[s].backoff = Backoff(k.rproc[s].restarts)]
                 ELSE restart_service(alone, s, k.rproc[s].opt.script, out)

-----------------------------------------------------------------------------
Init ==
    /\ rproc = [s \in Slots |-> FreshSlot]
    /\ rproc_ptr = [e \in Endpoints |-> NULL] /\ rupdate = NULL
    /\ shutting_down = FALSE
    /\ world = [e \in Endpoints |-> Process("free")] /\ ds = [l \in Labels |-> NULL]
    /\ waiting = [c \in Callers |-> FALSE] /\ stray = FALSE /\ crashed = FALSE

(* What the other servers make of RS's calls.                              *)
Outcomes == [fail : Failures, next : Next_child]

(* A request: what RS does with it, and whether the caller goes on waiting.*)
Ask(c, type, Handler(_)) ==
    /\ ~waiting[c] /\ ~crashed /\ ~shutting_down /\ type \in Requests
    /\ \E out \in Outcomes :
          LET result == Handler(out)
          IN  Become([result.k EXCEPT !.waiting[c] = ~result.ok])
    /\ shutting_down' = (shutting_down \/ type = "SHUTDOWN")

(* ok is here: the answer is sent at once.                                 *)
Answered(k) == Done(k, TRUE)
Late(k, s, c) == Done([Set(k, s, {"LATEREPLY"}) EXCEPT !.rproc[s].caller = c], FALSE)

check_call_permission(s, type) ==
    /\ ~ \E f \in {"LATEREPLY", "INITIALIZING", "UPDATING"} : Has(K, s, f)
    /\ Has(K, s, "TERMINATED") => type \in {"DOWN", "RESTART"}

init_slot(k, s, l, opt) == [k EXCEPT !.rproc[s] =
    [@ EXCEPT !.label = l, !.opt = opt, !.restarts = 0,
              !.prev = NULL, !.next = NULL, !.old = NULL, !.new = NULL]]

do_up(c, l, opt, noblock) ==
    LET s == alloc_slot(K)
    IN  /\ s # NULL
        /\ Ask(c, "UP", LAMBDA out :
              LET named == init_slot(K, s, l, opt)
                  started == start_service(named, s, out)
              IN  IF lookup_slot_by_label(K, l) # NULL THEN Answered(named)
                  ELSE IF started.ok /\ ~noblock THEN Late(started.k, s, c)
                  ELSE Answered(started.k))

(* The requests about an existing service; one that is refused changes     *)
(* nothing.                                                                *)
On(c, l, type, Handler(_, _)) ==
    LET s == lookup_slot_by_label(K, l)
    IN  /\ s # NULL
        /\ IF s = NULL THEN FALSE ELSE check_call_permission(s, type)
        /\ Ask(c, type, LAMBDA out : Handler(s, out))

Mut_stop_service(k, s, how) == Set(k, s, {how})
stop_service(k, s, how) ==
    [Set(k, s, {how}) EXCEPT !.rproc[s].stopping = TRUE]

do_down(c, l) == On(c, l, "DOWN", LAMBDA s, out :
    IF Has(K, s, "TERMINATED")
      THEN Answered(cleanup_service(unpublish_service(K, s), s))
      ELSE Late(stop_service(K, s, "EXITING"), s, c))

do_restart(c, l) == On(c, l, "RESTART", LAMBDA s, out :
    Answered(IF Has(K, s, "TERMINATED") THEN restart_service(K, s, FALSE, out) ELSE K))

do_clone(c, l) == On(c, l, "CLONE", LAMBDA s, out :
    LET cloned == clone_service([K EXCEPT !.rproc[s].opt.repl = TRUE], s, FALSE, out)
    IN  Answered(IF K.rproc[s].next # NULL THEN K
                 ELSE IF cloned.ok THEN cloned.k
                 ELSE [cloned.k EXCEPT !.rproc[s].opt.repl = FALSE]))

edit_slot(k, s, opt) ==
    LET r == k.rproc[s].opt
    IN  [k EXCEPT !.rproc[s].opt = [opt EXCEPT !.repl = @ \/ r.repl, !.script = @ \/ r.script]]

do_edit(c, l, opt) == On(c, l, "EDIT", LAMBDA s, out :
    LET n == K.rproc[s].next
        edited == edit_slot(K, s, opt)
        alone == IF n = NULL THEN edited
                 ELSE [cleanup_service(edited, n) EXCEPT !.rproc[s].next = NULL]
    IN  Answered(IF edited.rproc[s].opt.repl THEN clone_service(alone, s, FALSE, out).k
                                              ELSE edited))

do_refresh(c, l) == On(c, l, "REFRESH", LAMBDA s, out :
    Answered(stop_service(K, s, "REFRESHING")))

AllExiting(k) == [s \in Slots |->
    [k.rproc[s] EXCEPT !.flags = IF "IN_USE" \in @ THEN @ \cup {"EXITING"} ELSE @]]

do_shutdown(c) == ("overlap" \in Rough \/ rupdate = NULL) /\ Ask(c, "SHUTDOWN", LAMBDA out :
    Answered([K EXCEPT !.rproc = AllExiting(K)]))

(* The failures of an update that RS does not handle happen on demand.     *)
Tame(out) == IF "failing update" \in Rough THEN out ELSE [out EXCEPT !.fail = {}]

(* The new version: a replica (self) or a binary the caller names.         *)
NewVersion(k, s, self, out) ==
    LET n == alloc_slot(k)
        fresh == init_slot(k, n, k.rproc[s].label, k.rproc[s].opt)
        linked == [fresh EXCEPT !.rproc[s].new = n, !.rproc[n].old = s]
    IN  IF self THEN clone_service(k, s, TRUE, out)
        ELSE IF n = NULL THEN Done(k, FALSE)
        ELSE create_service(linked, n, Tame(out))

(* Both versions are marked, and the old one is asked to prepare.          *)
Prepare(k, s) ==
    LET n == k.rproc[s].new
        e == k.rproc[s].ep
    IN  [Set(Set(k, s, {"UPDATING"}), n, {"UPDATING"}) EXCEPT
            !.upd = s, !.world[e].st = IF @ = "run" THEN "prepare" ELSE @]

do_update(c, l, self, noblock) ==
  /\ "overlap" \in Rough \/ \A s \in Slots : ~Has(K, s, "EXITING") /\ ~Has(K, s, "REFRESHING")
  /\ On(c, l, "UPDATE", LAMBDA s, out :
    LET made == NewVersion(K, s, self, out)
        marked == Prepare(made.k, s)
    IN  IF rupdate # NULL \/ ~made.ok THEN Answered(IF rupdate # NULL THEN K ELSE made.k)
        ELSE IF noblock THEN Answered(marked) ELSE Late(marked, s, c))

-----------------------------------------------------------------------------
(* What services send, and the clock.                                      *)

Handle(Handler(_)) ==
    /\ ~crashed
    /\ \E k \in {Handler(out) : out \in Outcomes} : Become(k)
    /\ UNCHANGED shutting_down

Live(e, st) == world[e].st = st /\ ~world[e].killed

(* The instance that s replaces is cleaned up.                             *)
Replace(k, s, p) ==
    LET c == cleanup_service(k, p)
        n == c.rproc[s].restarts
    IN  [c EXCEPT !.rproc[s].prev = NULL,
                  !.rproc[s].restarts = IF n < MaxRestarts THEN n + 1 ELSE n]

(* The initialisation is over, and so is the update or restart it ends.    *)
Initialized(k, s, e) ==
    LET ready == [Unset(k, s, {"INITIALIZING"}) EXCEPT
                     !.rproc[s].awaited = FALSE, !.world[e].st = "run"]
        told == late_reply(ready, s)
        over == IF Has(k, s, "UPDATING") THEN end_update(told, TRUE, FALSE) ELSE told
        p == over.rproc[s].prev
    IN  IF p = NULL THEN over ELSE Replace(over, s, p)

do_init_ready(e, ok) ==
    LET s == rproc_ptr[e]
    IN  /\ Live(e, "init")
        /\ Handle(LAMBDA out :
              LET alone == Initialized(K, s, e)
              IN  IF s = NULL THEN [K EXCEPT !.crashed = TRUE]
                  ELSE IF ~Has(K, s, "INITIALIZING") THEN [K EXCEPT !.world[e].st = "run"]
                  ELSE IF ~ok THEN crash_service(K, s)
                  ELSE IF alone.rproc[s].opt.repl THEN clone_service(alone, s, FALSE, out).k
                  ELSE alone)

do_upd_ready(e, ok) ==
    LET s == rproc_ptr[e]
    IN  /\ Live(e, "prepare")
        /\ Handle(LAMBDA out :
              LET asked == [K EXCEPT !.world[e].st = "blocked"]
                  n == K.rproc[s].new
                  ran == run_service(update_service(asked, s, n), s, Tame(out))
              IN  IF s # rupdate \/ s = NULL THEN [K EXCEPT !.world[e].st = "run"]
                  ELSE IF ~ok \/ "swap" \in out.fail THEN end_update(asked, FALSE, TRUE)
                  ELSE IF ran.ok THEN ran.k
                  ELSE end_update(update_service(ran.k, s, n), TRUE, TRUE))

(* The cancellation of an update reaches the service.                      *)
lu_cancelled(e) ==
    /\ Live(e, "prepare") /\ rproc_ptr[e] # rupdate
    /\ world' = [world EXCEPT ![e].st = "run"]
    /\ UNCHANGED <<rproc, rproc_ptr, rupdate, shutting_down, ds, waiting, stray, crashed>>

heartbeat(e) ==
    LET s == rproc_ptr[e]
    IN  /\ Live(e, "run") /\ s # NULL
        /\ IF s = NULL THEN FALSE ELSE rproc[s].awaited
        /\ rproc' = [rproc EXCEPT ![s].awaited = FALSE]
        /\ UNCHANGED <<rproc_ptr, rupdate, shutting_down, world, ds, waiting, stray, crashed>>

(* A service crashes, exits, or is killed by a user.                       *)
die(e) ==
    /\ world[e].st \notin {"free", "dead"} /\ ~world[e].killed
    /\ world' = [world EXCEPT ![e].killed = TRUE]
    /\ UNCHANGED <<rproc, rproc_ptr, rupdate, shutting_down, ds, waiting, stray, crashed>>

(* The kernel tells RS, the signal manager, of a signal that ends e.       *)
sef_cb_signal_manager(e) ==
    LET s == rproc_ptr[e]
        ignored == [K EXCEPT !.world[e].killed = FALSE]
        dead == [K EXCEPT !.world[e] = Process("dead")]
    IN  /\ world[e].killed
        /\ Handle(LAMBDA out :
              IF s = NULL THEN ignored
              ELSE IF Has(K, s, "TERMINATED") /\ ~Has(K, s, "EXITING") THEN dead
              ELSE IF ~Has(K, s, "ACTIVE") /\ ~Has(K, s, "EXITING") THEN ignored
              ELSE terminate_service(Set(dead, s, {"TERMINATED"}), s, out))

(* One service in the loop of do_period: s is in overdue when the time it  *)
(* had for stopping has run out, and in late when its period has.          *)
CheckService(k, s, late, overdue, out) ==
    LET r == k.rproc[s]
        initializing == \E x \in Slots : Has(k, x, "IN_USE") /\ Has(k, x, "INITIALIZING")
        tick == [k EXCEPT !.rproc[s].backoff = @ - 1]
    IN  CASE ~Has(k, s, "ACTIVE") \/ Has(k, s, "UPDATING") -> k
          [] Has(k, s, "ACTIVE") /\ ~Has(k, s, "UPDATING") /\ r.backoff > 0 ->
               IF r.backoff = 1 THEN restart_service(tick, s, r.opt.script, out) ELSE tick
          [] OTHER ->
               IF r.stopping /\ r.pid # NULL /\ s \in overdue
                 THEN crash_service([k EXCEPT !.rproc[s].stopping = FALSE], s)
               ELSE IF s \notin late THEN k
               ELSE IF ~r.opt.period /\ ~Has(k, s, "INITIALIZING") THEN k
               ELSE IF ~r.awaited THEN [k EXCEPT !.rproc[s].awaited = TRUE]
               ELSE IF r.pid = NULL \/ Has(k, s, "NOPINGREPLY") \/ initializing THEN k
               ELSE crash_service(Set(k, s, {"NOPINGREPLY"}), s)

CheckServices(k, late, overdue, out) ==
    LET checked[s \in 0 .. NR_SYS_PROCS] ==
            IF s = 0 THEN k ELSE CheckService(checked[s - 1], s, late, overdue, out)
    IN  checked[NR_SYS_PROCS]

Active == {s \in Slots : Has(K, s, "ACTIVE")}

(* The alarm; timed_out: the update took too long to prepare.              *)
do_period(late, overdue, timed_out) ==
    /\ timed_out => IF rupdate = NULL THEN FALSE ELSE "slow init" \in Rough \/ Has(K, rupdate, "ACTIVE")
    /\ Handle(LAMBDA out :
          CheckServices(IF timed_out THEN end_update(K, FALSE, FALSE) ELSE K, late, overdue, out))

Next ==
    \/ \E c \in Callers :
          \/ do_shutdown(c)
          \/ \E l \in Labels :
                \/ \E opt \in Options, noblock \in BOOLEAN : do_up(c, l, opt, noblock)
                \/ do_down(c, l) \/ do_restart(c, l) \/ do_clone(c, l) \/ do_refresh(c, l)
                \/ \E opt \in Options : do_edit(c, l, opt)
                \/ \E self, noblock \in BOOLEAN : do_update(c, l, self, noblock)
    \/ \E e \in Endpoints :
          \/ \E ok \in BOOLEAN : do_init_ready(e, ok) \/ do_upd_ready(e, ok)
          \/ lu_cancelled(e) \/ heartbeat(e) \/ die(e) \/ sef_cb_signal_manager(e)
    \/ \E late \in SUBSET Active, overdue \in SUBSET Active, timed_out \in BOOLEAN :
          do_period(late, overdue, timed_out)

Spec == Init /\ [][Next]_vars

(* The kernel delivers the signals; the alarm that do_period sets again    *)
(* each time goes on, so each clock of RS runs out.  This is weak fairness *)
(* with the conditions under which the actions are enabled written out.    *)
(* Nothing is assumed of services: they may hang wherever they are.        *)
Due == \E s \in Active :
          /\ ~Has(K, s, "UPDATING")
          /\ \/ rproc[s].backoff > 0
             \/ rproc[s].stopping /\ rproc[s].pid # NULL
FairSpec ==
    /\ Spec
    /\ \A e \in Endpoints :
          <>[](world[e].killed) => []<><<sef_cb_signal_manager(e)>>_vars
    /\ <>[]Due => []<><<do_period(Active, Active, FALSE)>>_vars
    /\ <>[](rupdate \in Active) => []<><<do_period(Active, Active, TRUE)>>_vars

-----------------------------------------------------------------------------
Flags == {"IN_USE", "EXITING", "REFRESHING", "NOPINGREPLY", "TERMINATED", "LATEREPLY",
          "INITIALIZING", "UPDATING", "ACTIVE"}

(* What every variable ranges over; a slot that names nobody names NULL.   *)
TypeOK ==
    /\ rproc \in [Slots -> [flags : SUBSET Flags, label : Labels \cup {NULL},
                            ep : Endpoints \cup {NULL}, pid : Endpoints \cup {NULL},
                            prev : Slots \cup {NULL}, next : Slots \cup {NULL},
                            old : Slots \cup {NULL}, new : Slots \cup {NULL},
                            restarts : 0 .. MaxRestarts, backoff : 0 .. MAX_BACKOFF,
                            stopping : BOOLEAN, awaited : BOOLEAN,
                            caller : Callers \cup {NULL},
                            opt : [script : BOOLEAN, repl : BOOLEAN, period : BOOLEAN]]]
    /\ rproc_ptr \in [Endpoints -> Slots \cup {NULL}] /\ rupdate \in Slots \cup {NULL}
    /\ shutting_down \in BOOLEAN /\ stray \in BOOLEAN /\ crashed \in BOOLEAN
    /\ world \in [Endpoints -> [st : {"free", "held", "init", "run", "prepare", "blocked", "dead"},
                                killed : BOOLEAN]]
    /\ ds \in [Labels -> Endpoints \cup {NULL}] /\ waiting \in [Callers -> BOOLEAN]

InUse == {s \in Slots : Has(K, s, "IN_USE")}
Linked(s) == {rproc[s].prev, rproc[s].next, rproc[s].old, rproc[s].new} \ {NULL}

(* The table, the map from endpoints to slots and the processes that PM    *)
(* keeps for RS agree: no process without a slot, no slot without one.     *)
(* RSProofs proves it of RS without replicas and failing forks.  With them *)
(* the code breaks it: free_slot after a failed fork clears the pointer at *)
(* the slot's former endpoint, and do_down leaves a replica behind.        *)
ProcessesOwned ==
    /\ \A e \in Endpoints : world[e].st # "free" <=> rproc_ptr[e] # NULL
    /\ \A s \in Slots : s \in InUse <=> \E e \in Endpoints : rproc_ptr[e] = s
    /\ \A s \in InUse : rproc_ptr[rproc[s].ep] = s /\ rproc[s].pid = rproc[s].ep

(* The instances of a service that get_service_instances finds are its     *)
(* own: stopping or updating one service cleans up no slot of another.     *)
InstancesOK ==
    ~shutting_down => \A s \in Active : \A x \in Linked(s) :
                          x \in InUse \ Active /\ rproc[x].label = rproc[s].label

(* One instance of a service is active, and it is the one DS knows.        *)
PublishedOK == ~shutting_down =>
    /\ \A s, t \in Active : rproc[s].label = rproc[t].label => s = t
    /\ \A l \in Labels : ds[l] # NULL <=> \E s \in Active : rproc[s].label = l /\ rproc[s].ep = ds[l]

(* Every service has one active instance, published, and only its own      *)
(* spare ones hang on it.                                                  *)
ServicesOK == InstancesOK /\ PublishedOK

(* Only active instances run; the other ones are held, dead, or wait for   *)
(* RS while their new version initialises.                                 *)
ActiveRuns ==
    \A e \in Endpoints :
        LET s == rproc_ptr[e]
        IN  CASE world[e].st \in {"init", "run", "prepare"} -> s \in Active
              [] world[e].st = "blocked" -> s = rupdate /\ s \notin Active
              [] OTHER -> TRUE

(* rupdate names the old version of an update that goes on.                *)
UpdateOK ==
    LET Old == {s \in InUse : Has(K, s, "UPDATING") /\ rproc[s].new # NULL}
    IN  IF rupdate = NULL THEN \A s \in Slots : ~Has(K, s, "UPDATING") ELSE Old = {rupdate}

(* An update moves a service from one process to another, and at no time   *)
(* runs the wrong one or makes RS follow the pointers of one that is over. *)
UpdateSafe == ActiveRuns /\ UpdateOK /\ ~crashed

(* A caller waits for exactly as long as one slot owes it an answer, and   *)
(* nobody else gets one.                                                   *)
AnswerPending ==
    /\ ~stray
    /\ \A c \in Callers :
          Cardinality({s \in Slots : Has(K, s, "LATEREPLY") /\ rproc[s].caller = c})
            = IF waiting[c] THEN 1 ELSE 0

(* Who waits for RS to start, stop or update a service is answered, also   *)
(* when the service ignores RS, dies on the way or never gets ready for    *)
(* the update, provided that no service hangs in its initialisation: RS    *)
(* gives one that does a free pass for ever (request.c:793), because       *)
(* somebody is initialising, and so its caller waits for ever.             *)
InitsEnd == \A e \in Endpoints : []<>~Live(e, "init")
CallersAnswered == InitsEnd => \A c \in Callers : waiting[c] ~> ~waiting[c]

(* RS never loses a service: it frees no process that runs, and gives a    *)
(* service up only when it was told to stop it, when the service is dead   *)
(* already, or when its first or restarted instance fails to initialise;   *)
(* an update that fails, at whatever point, leaves the service active.     *)
GivenUpFor(s) ==
    \/ Has(K, s, "EXITING") \/ Has(K, s, "TERMINATED")
    \/ Has(K, s, "INITIALIZING") /\ ~Has(K, s, "UPDATING")

(* A service that died does not stay so: RS restarts it, at once or after  *)
(* its backoff, or gives it up and frees its slot.                         *)
Dead(l) == \E s \in Active : rproc[s].label = l /\ Has(K, s, "TERMINATED")
Revived == \A l \in Labels : Dead(l) ~> ~Dead(l)

=============================================================================
