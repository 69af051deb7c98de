-------------------------------- MODULE IPC --------------------------------
(***************************************************************************)
(* The System V IPC server: semaphore sets (servers/ipc/sem.c) and shared  *)
(* memory segments (servers/ipc/shm.c), with PM's and VM's notification    *)
(* that a process waiting in semop was signalled or is exiting             *)
(* (servers/pm/signal.c, servers/vm/queryexit.c).                          *)
(*                                                                         *)
(* The server handles one message at a time, so a call is one step.  The   *)
(* exception is the notification from VM: it is a loop of questions to VM, *)
(* and PM may report further processes between two of them.                *)
(*                                                                         *)
(* A caller sends and then receives, so an answer sent without blocking    *)
(* arrives exactly when the process still waits for one.                   *)
(***************************************************************************)
EXTENDS Naturals, Integers, FiniteSets, FiniteSetsExt, SequencesExt

CONSTANTS
    Procs,      \* endpoints of the clients
    Unborn,     \* the clients that a fork creates
    Mortal,     \* the clients that exit
    Uid,        \* the user of each client
    NewOwners,  \* users that objects are given to
    Root,       \* the super-user
    SemKeys,    \* keys that clients use for semaphore sets ...
    ShmKeys,    \* ... and for segments; IPC_PRIVATE may be one of them
    IPC_PRIVATE,
    Modes,      \* permissions a creator or owner asks for: <<own, other>>
    Sizes,      \* numbers of semaphores asked for
    SemOps,     \* arrays of operations: Seq([num, op, nowait])
    SetVals,    \* values given to SETVAL
    SetAlls,    \* arrays given to SETALL
    SEMMNI, SEMMSL, SEMOPM, SEMVMX,
    MAX_SHM_NR,
    U8,         \* 2^8, the range of VM's reference counts
    USHRT,      \* 2^16, the range of a semaphore's value
    MaxId,      \* bound: identifiers handed out
    BusyIds,    \* bound: the sets whose values are used
    Mixed,      \* bound: whether sets and segments exist at the same time
    MaxValue,   \* bound: the value of a semaphore when it is increased
    MaxAttach   \* bound: attachments of a segment in one process

ASSUME Widths == U8 \in Nat \ {0} /\ USHRT \in Nat \ {0} /\ SEMVMX \in 0..USHRT - 1

ASSUME IPCAssumption ==
    /\ IsFiniteSet(Procs) /\ Unborn \cup Mortal \subseteq Procs /\ DOMAIN Uid = Procs
    /\ Modes \subseteq (SUBSET {"r", "w"}) \X (SUBSET {"r", "w"})
    /\ \A n \in {SEMMNI, SEMMSL, SEMOPM, MAX_SHM_NR, MaxId, MaxValue, MaxAttach} : n \in Nat
    /\ Sizes \cup SetVals \subseteq Nat /\ MaxId > 0 /\ BusyIds \subseteq 1..MaxId
    /\ \A buf \in SetAlls : buf \in Seq(Nat) /\ Len(buf) >= SEMMSL - 1
    /\ \A sops \in SemOps : sops \in Seq([num : Nat \ {0}, op : Int, nowait : BOOLEAN])

VARIABLES
    sem_list,   \* semaphore sets in the order of the table
    shm_list,   \* segments in the order of the table
    identifier, \* the next id of either kind
    client,     \* clients: running, waiting in semop, exiting, gone
    mapped,     \* VM: how often a process has a segment's page mapped
    array,      \* VM: processes to report to IPC
    notified,   \* the kernel's pending notification from VM to IPC
    querying,   \* IPC is in the loop of sem_process_vm_notify
    ledger,     \* the values according to the answers clients got (history)
    crashed     \* IPC copied from beyond its list of waiting processes

vars == <<sem_list, shm_list, identifier, client, mapped, array, notified,
          querying, ledger, crashed>>

Ids == 1..MaxId

(* What a handler reads and writes.                                        *)
K == [sem |-> sem_list, shm |-> shm_list, ident |-> identifier, client |-> client,
      mapped |-> mapped, ledger |-> ledger, crashed |-> crashed]

Become(k) ==
    /\ sem_list' = k.sem /\ shm_list' = k.shm /\ identifier' = k.ident
    /\ client' = k.client /\ mapped' = k.mapped /\ ledger' = k.ledger
    /\ crashed' = k.crashed

NoCall == [id |-> 0, num |-> 0, op |-> 0]
Client(st) == [st |-> st, call |-> NoCall]
NewSemaphore == [semval |-> 0, zlist |-> <<>>, nlist |-> <<>>, zalloc |-> FALSE]

-----------------------------------------------------------------------------
(* utility.c.  The group counts as other.                                  *)
Owns(perm, p) == Uid[p] \in {perm.uid, perm.cuid}

check_perm(perm, p, want) ==
    \/ Uid[p] = Root
    \/ want # {} /\ want \subseteq (IF Owns(perm, p) THEN perm.own ELSE perm.other)

NewPerm(p, mode) == [cuid |-> Uid[p], uid |-> Uid[p], own |-> mode[1], other |-> mode[2]]

MayChange(perm, p) == Owns(perm, p) \/ Uid[p] = Root

(* Positions in a table; 0 is not found.                                   *)
find_key(list, key) ==
    IF key = IPC_PRIVATE THEN 0 ELSE SelectInSeq(list, LAMBDA e : e.key = key)
find_id(list, id) == SelectInSeq(list, LAMBDA e : e.id = id)

-----------------------------------------------------------------------------
(* sem.c: waking up.                                                       *)

(* An answer to the processes whos; a process that died does not hear it.  *)
send_message_to_process(k, whos) ==
    [k EXCEPT !.client = [p \in Procs |->
        IF p \in whos /\ @[p].st = "wait" THEN Client("run") ELSE @[p]]]

Whos(s) == {e.who : e \in ToSet(s.zlist) \cup ToSet(s.nlist)}
AllWhos(sem) == UNION {Whos(s) : s \in ToSet(sem.sems)}

remove_semaphore(list, i) ==
    IF i = Len(list) THEN Front(list) ELSE Front([list EXCEPT ![i] = Last(list)])

(* IPC_RMID: everybody waiting is told.                                    *)
RemoveSet(k, i) ==
    [send_message_to_process(k, AllWhos(k.sem[i])) EXCEPT
        !.sem = remove_semaphore(@, i), !.ledger[k.sem[i].id] = [n \in 1..SEMMSL |-> 0]]

(* The first waiting process that the value suffices for; 0 if none.       *)
FirstServed(s) == SelectInSeq(s.nlist, LAMBDA e : e.val <= s.semval)

(* The list of those waiting for zero is taken to be non-empty once it was *)
(* allocated.                                                              *)
ZeroServed(s) == s.zalloc /\ s.semval = 0
Overrun(s) == ZeroServed(s) /\ s.zlist = <<>>

WokenBy(s) ==
    (IF ZeroServed(s) THEN {Head(s.zlist).who} ELSE {}) \cup
    (IF FirstServed(s) = 0 THEN {} ELSE {s.nlist[FirstServed(s)].who})

Mut_update_one(s) ==
    LET j == FirstServed(s)
    IN  [s EXCEPT !.zlist = IF ZeroServed(s) THEN Tail(@) ELSE @,
                  !.nlist = IF j = 0 THEN @ ELSE RemoveAt(@, j)]
update_one(s) ==
    LET j == FirstServed(s)
    IN  [s EXCEPT !.zlist = IF ZeroServed(s) THEN Tail(@) ELSE @,
                  !.nlist = IF j = 0 THEN @ ELSE RemoveAt(@, j),
                  !.semval = IF j = 0 THEN @ ELSE @ - s.nlist[j].val]

update_set(sem) == [sem EXCEPT !.sems = [n \in DOMAIN @ |-> update_one(@[n])]]

(* The history: a process that is told OK has had its operation done.      *)
Booked(k, whos) ==
    LET told == {p \in whos : k.client[p].st = "wait"}
        on(id, n) == {p \in told : k.client[p].call.id = id /\ k.client[p].call.num = n}
    IN  [k EXCEPT !.ledger = [id \in Ids |-> [n \in 1..SEMMSL |->
            @[id][n] + MapThenSumSet(LAMBDA p : k.client[p].call.op, on(id, n))]]]

update_semaphores(k) ==
    LET all == UNION {ToSet(k.sem[i].sems) : i \in 1..Len(k.sem)}
        woken == UNION {WokenBy(s) : s \in all}
        served == [k EXCEPT !.sem = [i \in DOMAIN @ |-> update_set(@[i])]]
    IN  IF \E s \in all : Overrun(s) THEN [k EXCEPT !.crashed = TRUE]
        ELSE send_message_to_process(Booked(served, woken), woken)

(* VM reported p: it leaves every list, and hears EINTR if it waits.       *)
Without(list, p) ==
    LET j == SelectInSeq(list, LAMBDA e : e.who = p)
    IN  IF j = 0 THEN list ELSE RemoveAt(list, j)

LeaveSet(sem, p) ==
    LET leave(s) == [s EXCEPT !.zlist = Without(@, p), !.nlist = Without(@, p)]
    IN  [sem EXCEPT !.sems = [n \in DOMAIN @ |-> leave(@[n])]]

Mut_remove_process(k, p) ==
    LET listed == \E i \in DOMAIN k.sem : p \in AllWhos(k.sem[i])
        out == [k EXCEPT !.sem = [i \in DOMAIN @ |-> [@[i] EXCEPT !.sems = [n \in DOMAIN @ |->
                  [@[n] EXCEPT !.zlist = Without(@, p)]]]]]
    IN  IF listed THEN out ELSE k
remove_process(k, p) ==
    LET listed == \E i \in DOMAIN k.sem : p \in AllWhos(k.sem[i])
        out == [k EXCEPT !.sem = [i \in DOMAIN @ |-> LeaveSet(@[i], p)]]
    IN  IF listed THEN send_message_to_process(out, {p}) ELSE k

-----------------------------------------------------------------------------
(* sem.c: the calls.                                                       *)

do_semget(k, p, key, nsems, mode) ==
    LET new == [key |-> key, id |-> k.ident, perm |-> NewPerm(p, mode),
                sems |-> [n \in 1..nsems |-> NewSemaphore]]
    IN  IF find_key(k.sem, key) # 0 \/ nsems >= SEMMSL \/ Len(k.sem) = SEMMNI THEN k
        ELSE [k EXCEPT !.sem = Append(@, new), !.ident = @ + 1]

Holding(s, val) == [s EXCEPT !.semval = val]

(* SETVAL and SETALL: the values up to the first that is out of range.     *)
Assign(k, i, n, val) ==
    [k EXCEPT !.sem[i].sems[n].semval = val, !.ledger[k.sem[i].id][n] = val]

setval(k, p, id, n, val) ==
    LET i == find_id(k.sem, id)
    IN  IF i = 0 THEN k
        ELSE IF \/ ~check_perm(k.sem[i].perm, p, {"r"}) \/ ~check_perm(k.sem[i].perm, p, {"w"})
                \/ n > Len(k.sem[i].sems) \/ val > SEMVMX THEN k
        ELSE update_semaphores(Assign(k, i, n, val))

setall(k, p, id, buf) ==
    LET i == find_id(k.sem, id)
        nr == Len(k.sem[i].sems)
        good == {n \in 1..nr : \A m \in 1..n : buf[m] <= SEMVMX}
        new(n, old) == IF n \in good THEN buf[n] ELSE old
    IN  IF i = 0 THEN k
        ELSE IF ~check_perm(k.sem[i].perm, p, {"r"}) THEN k
        ELSE update_semaphores([k EXCEPT
            !.sem[i].sems = [n \in DOMAIN @ |-> Holding(@[n], new(n, @[n].semval))],
            !.ledger[k.sem[i].id] = [n \in DOMAIN @ |-> new(n, @[n])]])

ipc_set(k, p, id, uid, mode) ==
    LET i == find_id(k.sem, id)
    IN  IF i = 0 THEN k
        ELSE IF ~MayChange(k.sem[i].perm, p) THEN k
        ELSE [k EXCEPT !.sem[i].perm = [@ EXCEPT !.uid = uid, !.own = mode[1], !.other = mode[2]]]

ipc_rmid(k, p, id) ==
    LET i == find_id(k.sem, id)
    IN  IF i = 0 THEN k ELSE IF ~MayChange(k.sem[i].perm, p) THEN k ELSE RemoveSet(k, i)

(* An operation that the value does not allow now.                         *)
Blocks(s, op) == IF op.op = 0 THEN s.semval # 0 ELSE s.semval + op.op < 0

Apply(s, p, op) ==
    IF ~Blocks(s, op) THEN [s EXCEPT !.semval = (@ + op.op) % USHRT]
    ELSE IF op.op = 0
           THEN [s EXCEPT !.zlist = Append(@, [who |-> p, val |-> 0]), !.zalloc = TRUE]
           ELSE [s EXCEPT !.nlist = Append(@, [who |-> p, val |-> -op.op])]

RefusedOps(sem, p, sops) ==
    \/ ~(Len(sops) \in 1..SEMOPM)
    \/ ~check_perm(sem.perm, p, {"r"})
    \/ \E a \in DOMAIN sops : sops[a].num > Len(sem.sems)
    \/ \E a, b \in DOMAIN sops : a # b /\ sops[a].num = sops[b].num
    \/ \E a \in DOMAIN sops : sops[a].nowait /\ Blocks(sem.sems[sops[a].num], sops[a])

(* Without permission to alter, the operations before the first that       *)
(* alters have been done.                                                  *)
Allowed(sem, p, sops) ==
    LET alters == SelectInSeq(sops, LAMBDA o : o.op # 0)
    IN  IF alters = 0 \/ check_perm(sem.perm, p, {"w"}) THEN sops
        ELSE SubSeq(sops, 1, alters - 1)

do_semop(k, p, id, sops) ==
    LET i == find_id(k.sem, id)
        sem == k.sem[i]
        done == Allowed(sem, p, sops)
        asleep == SelectInSeq(done, LAMBDA o : Blocks(sem.sems[o.num], o))
        applied == [k EXCEPT !.sem[i].sems = [n \in DOMAIN @ |->
                      LET a == SelectInSeq(done, LAMBDA o : o.num = n)
                      IN  IF a = 0 THEN @[n] ELSE Apply(@[n], p, done[a])]]
        call == [id |-> id, num |-> done[asleep].num, op |-> done[asleep].op]
        booked == [k.ledger EXCEPT ![id] = [n \in DOMAIN @ |->
                      LET a == SelectInSeq(done, LAMBDA o : o.num = n)
                      IN  IF a = 0 THEN @[n] ELSE @[n] + done[a].op]]
    IN  update_semaphores(
          IF i = 0 THEN k
          ELSE IF RefusedOps(sem, p, sops) THEN k
          ELSE IF asleep # 0 /\ done = sops
                 THEN [applied EXCEPT !.client[p] = [st |-> "wait", call |-> call]]
          ELSE [applied EXCEPT !.ledger = booked])

-----------------------------------------------------------------------------
(* shm.c.                                                                  *)

Mut_do_shmget(k, p, key, mode) ==
    LET new == [key |-> key, id |-> k.ident, perm |-> NewPerm(p, mode), dest |-> FALSE]
    IN  IF find_key(k.shm, key) # 0 \/ Len(k.shm) = MAX_SHM_NR THEN k
        ELSE [k EXCEPT !.shm = Append(@, new)]
do_shmget(k, p, key, mode) ==
    LET new == [key |-> key, id |-> k.ident, perm |-> NewPerm(p, mode), dest |-> FALSE]
    IN  IF find_key(k.shm, key) # 0 \/ Len(k.shm) = MAX_SHM_NR THEN k
        ELSE [k EXCEPT !.shm = Append(@, new), !.ident = @ + 1]

do_shmat(k, p, id, want) ==
    LET i == find_id(k.shm, id)
    IN  IF i = 0 THEN k
        ELSE IF ~check_perm(k.shm[i].perm, p, want) THEN k
        ELSE [k EXCEPT !.mapped[p][id] = @ + 1]

do_shmdt(k, p, page) ==
    IF k.mapped[p][page] = 0 \/ find_id(k.shm, page) = 0 THEN k
    ELSE [k EXCEPT !.mapped[p][page] = @ - 1]

shm_set(k, p, id, uid, mode) ==
    LET i == find_id(k.shm, id)
    IN  IF i = 0 THEN k
        ELSE IF ~MayChange(k.shm[i].perm, p) THEN k
        ELSE [k EXCEPT !.shm[i].perm = [@ EXCEPT !.uid = uid, !.own = mode[1], !.other = mode[2]]]

shm_rmid(k, p, id) ==
    LET i == find_id(k.shm, id)
    IN  IF i = 0 THEN k ELSE IF ~MayChange(k.shm[i].perm, p) THEN k
        ELSE [k EXCEPT !.shm[i].dest = TRUE]

(* VM's count of a segment's page: IPC's own mapping and the clients'.     *)
vm_getrefcount(k, id) == (1 + MapThenSumSet(LAMBDA p : k.mapped[p][id], Procs)) % U8

(* The entries that stay move up; a count that looks like VM's error drops *)
(* the entry.                                                              *)
Mut_update_refcount_and_destroy(k) ==
    [k EXCEPT !.shm = SelectSeq(@, LAMBDA e : ~e.dest)]
update_refcount_and_destroy(k) ==
    LET keep(e) == LET rc == vm_getrefcount(k, e.id)
                   IN  rc # U8 - 1 /\ (rc # 1 \/ ~e.dest)
        kept[i \in 0..Len(k.shm)] ==
            IF i = 0 THEN <<>>
            ELSE IF keep(k.shm[i]) THEN Append(kept[i - 1], k.shm[i]) ELSE kept[i - 1]
    IN  [k EXCEPT !.shm = kept[Len(k.shm)]]

-----------------------------------------------------------------------------
Init ==
    /\ sem_list = <<>> /\ shm_list = <<>> /\ identifier = 1
    /\ client = [p \in Procs |-> Client(IF p \in Unborn THEN "unborn" ELSE "run")]
    /\ mapped = [p \in Procs |-> [id \in Ids |-> 0]]
    /\ array = {} /\ notified = FALSE /\ querying = FALSE
    /\ ledger = [id \in Ids |-> [n \in 1..SEMMSL |-> 0]] /\ crashed = FALSE

(* main: a call of p; the segments are looked at after every call.         *)
main(p, k) ==
    /\ client[p].st = "run" /\ ~querying /\ ~crashed
    /\ Become(IF k.crashed THEN k ELSE update_refcount_and_destroy(k))
    /\ UNCHANGED <<array, notified, querying>>

semget(p) == \E key \in SemKeys, nsems \in Sizes, mode \in Modes :
    identifier < MaxId /\ (Mixed \/ shm_list = <<>>) /\ main(p, do_semget(K, p, key, nsems, mode))

semctl(p) ==
    \/ \E id \in BusyIds, n \in 1..SEMMSL, val \in SetVals : main(p, setval(K, p, id, n, val))
    \/ \E id \in BusyIds, buf \in SetAlls : main(p, setall(K, p, id, buf))
    \/ \E id \in BusyIds, uid \in NewOwners, mode \in Modes : main(p, ipc_set(K, p, id, uid, mode))
    \/ \E id \in Ids : main(p, ipc_rmid(K, p, id))

semop(p) == \E id \in BusyIds, sops \in SemOps :
    /\ \A sem \in ToSet(sem_list), o \in ToSet(sops) :
          o.op > 0 /\ sem.id = id /\ o.num <= Len(sem.sems) => sem.sems[o.num].semval < MaxValue
    /\ main(p, do_semop(K, p, id, sops))

shmget(p) == \E key \in ShmKeys, mode \in Modes :
    identifier < MaxId /\ (Mixed \/ sem_list = <<>>) /\ main(p, do_shmget(K, p, key, mode))

shmat(p) == \E id \in Ids, want \in {{"r"}, {"r", "w"}} :
    mapped[p][id] < MaxAttach /\ main(p, do_shmat(K, p, id, want))

shmdt(p) == \E page \in Ids : main(p, do_shmdt(K, p, page))

shmctl(p) == \E id \in Ids :
    \/ \E uid \in NewOwners, mode \in Modes : main(p, shm_set(K, p, id, uid, mode))
    \/ main(p, shm_rmid(K, p, id))

(* A question: nothing but the look at the segments.                       *)
stat(p) == main(p, K)

-----------------------------------------------------------------------------
(* PM and VM.                                                              *)

(* PM tells VM of a process that is signalled or exits; VM notifies IPC.   *)
do_notify_sig(p) == array' = array \cup {p} /\ notified' = TRUE

(* (Bound: without semaphore sets IPC ignores the report.)                 *)
unpause(p) ==
    /\ Mixed \/ sem_list # <<>>
    /\ client[p].st \in {"run", "wait"} /\ ~crashed /\ do_notify_sig(p)
    /\ UNCHANGED <<sem_list, shm_list, identifier, client, mapped, querying, ledger, crashed>>

exit_proc(p) ==
    /\ p \in Mortal
    /\ client[p].st \in {"run", "wait"} /\ ~crashed /\ do_notify_sig(p)
    /\ client' = [client EXCEPT ![p] = Client("exiting")]
    /\ UNCHANGED <<sem_list, shm_list, identifier, mapped, querying, ledger, crashed>>

vm_exit(p) ==
    /\ client[p].st = "exiting" /\ ~crashed
    /\ client' = [client EXCEPT ![p] = Client("gone")]
    /\ mapped' = [mapped EXCEPT ![p] = [id \in Ids |-> 0]]
    /\ UNCHANGED <<sem_list, shm_list, identifier, array, notified, querying, ledger, crashed>>

(* A child has its parent's mappings.                                      *)
vm_fork(p, c) ==
    /\ client[p].st = "run" /\ client[c].st = "unborn" /\ ~crashed
    /\ client' = [client EXCEPT ![c] = Client("run")]
    /\ mapped' = [mapped EXCEPT ![c] = mapped[p]]
    /\ UNCHANGED <<sem_list, shm_list, identifier, array, notified, querying, ledger, crashed>>

sem_process_vm_notify ==
    /\ notified /\ ~querying /\ ~crashed
    /\ notified' = FALSE /\ querying' = TRUE
    /\ UNCHANGED <<sem_list, shm_list, identifier, client, mapped, array, ledger, crashed>>

(* One turn of the loop.  Asked when it has nothing to report, VM answers  *)
(* with a variable it has not set: any process.                            *)
vm_query_exit ==
    /\ querying
    /\ \E p \in IF array = {} THEN Procs ELSE array :
          /\ array' = array \ {p} /\ querying' = (array \ {p} # {})
          /\ Become(remove_process(K, p))
    /\ UNCHANGED notified

Next ==
    \/ \E p \in Procs :
          \/ semget(p) \/ semctl(p) \/ semop(p)
          \/ shmget(p) \/ shmat(p) \/ shmdt(p) \/ shmctl(p) \/ stat(p)
          \/ unpause(p) \/ exit_proc(p) \/ vm_exit(p)
          \/ \E c \in Procs : vm_fork(p, c)
    \/ sem_process_vm_notify
    \/ vm_query_exit

Spec == Init /\ [][Next]_vars

(* The kernel delivers a notification before queued messages, and VM       *)
(* answers.  (Weak fairness, with the enabling conditions written out.)    *)
FairSpec ==
    /\ Spec
    /\ <>[](notified /\ ~querying /\ ~crashed) => []<><<sem_process_vm_notify>>_vars
    /\ <>[]querying => []<><<vm_query_exit>>_vars
-----------------------------------------------------------------------------
Perms == [cuid : Range(Uid), uid : Range(Uid) \cup NewOwners,
          own : SUBSET {"r", "w"}, other : SUBSET {"r", "w"}]

(* The tables hold what they have room for, values fit their widths, and   *)
(* ids of either kind are unique.                                          *)
TypeOK ==
    /\ Len(sem_list) <= SEMMNI /\ Len(shm_list) <= MAX_SHM_NR
    /\ \A sem \in ToSet(sem_list) :
          /\ sem.key \in SemKeys /\ sem.id \in Ids /\ sem.perm \in Perms
          /\ Len(sem.sems) < SEMMSL
          /\ \A s \in ToSet(sem.sems) : s.semval \in 0..USHRT - 1
    /\ \A shm \in ToSet(shm_list) :
          shm.key \in ShmKeys /\ shm.id \in Ids /\ shm.perm \in Perms /\ shm.dest \in BOOLEAN
    /\ identifier \in Ids /\ array \subseteq Procs
    /\ notified \in BOOLEAN /\ querying \in BOOLEAN /\ crashed \in BOOLEAN
    /\ \A a, b \in DOMAIN (sem_list \o shm_list) :
          a # b => (sem_list \o shm_list)[a].id # (sem_list \o shm_list)[b].id

(* Who waits where: set, number, list and place.                           *)
Entries == UNION {UNION {
    {<<i, n, "z", j>> : j \in DOMAIN sem_list[i].sems[n].zlist} \cup
    {<<i, n, "n", j>> : j \in DOMAIN sem_list[i].sems[n].nlist} :
        n \in DOMAIN sem_list[i].sems} : i \in DOMAIN sem_list}
Entry(e) == LET s == sem_list[e[1]].sems[e[2]]
            IN  IF e[3] = "z" THEN s.zlist[e[4]] ELSE s.nlist[e[4]]

(* A process waits in semop exactly as long as it is on one list, the one  *)
(* of its call; a list names no other process, except one that died and    *)
(* that VM has yet to report.                                              *)
WaitersOK ==
    /\ \A p \in Procs : client[p].st = "wait" =>
          \E e \in Entries :
              /\ Entry(e).who = p /\ \A f \in Entries : Entry(f).who = p => f = e
              /\ sem_list[e[1]].id = client[p].call.id /\ e[2] = client[p].call.num
              /\ Entry(e).val = -client[p].call.op /\ (e[3] = "z") = (client[p].call.op = 0)
    /\ \A e \in Entries :
          \/ client[Entry(e).who].st = "wait"
          \/ client[Entry(e).who].st \in {"exiting", "gone"} /\ Entry(e).who \in array
    /\ array # {} => notified \/ querying

(* Every unit of a semaphore is accounted for: the value is what was set   *)
(* and what callers were told OK for.  Only a process that dies while it   *)
(* waits can take units with it.                                           *)
UnitsKept ==
    \A sem \in ToSet(sem_list) : \A n \in DOMAIN sem.sems :
        /\ sem.sems[n].semval <= ledger[sem.id][n]
        /\ (\A p \in Procs : client[p].st \in {"run", "wait", "unborn"}) =>
               sem.sems[n].semval = ledger[sem.id][n]

(* Semaphores block and release the right processes, whatever is           *)
(* interrupted, removed or reset in between.                               *)
SemaphoresOK == WaitersOK /\ UnitsKept

(* A segment lives as long as somebody has it mapped, through forks, exits *)
(* and removal, so that its page is not given away under a user; and no    *)
(* two segments answer to one key.                                         *)
SegmentsOK ==
    /\ \A p \in Procs, id \in Ids :
          mapped[p][id] > 0 => \E shm \in ToSet(shm_list) : shm.id = id
    /\ \A a, b \in DOMAIN shm_list :
          a # b /\ shm_list[a].key = shm_list[b].key => shm_list[a].key = IPC_PRIVATE

(* A process that is signalled while it waits in semop returns from it,    *)
(* so that its handler can run, unless IPC is kept busy by ever new        *)
(* reports: VM hands out the report in its first slot, which is also the   *)
(* first to be filled again.                                               *)
SignalledReturns ==
    <>[][array' \subseteq array]_vars =>
        \A p \in Procs :
            (client[p].st = "wait" /\ p \in array) ~> (client[p].st # "wait" \/ crashed)

=============================================================================
