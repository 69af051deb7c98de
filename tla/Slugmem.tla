------------------------------ MODULE Slugmem ------------------------------
(***************************************************************************)
(* slugmem, the leak-detecting replacement of malloc and free: the hash    *)
(* table of allocations with linear probing, its growth, and the two       *)
(* handlers that run when the program exits.                               *)
(*                                                                         *)
(* The table is a function on its occupied positions: a position outside   *)
(* its domain holds NULL.  Entries keep the address and the active flag;   *)
(* size, time and place of an allocation are only printed.  Growing is     *)
(* recursive in the code (insert calls double, which calls insert), so     *)
(* its activations are an explicit stack, and every other action waits     *)
(* until the stack is empty.                                               *)
(***************************************************************************)
EXTENDS Integers, Sequences, FiniteSets, FiniteSetsExt

CONSTANTS
    Addr,         \* the addresses malloc may return
    InitSize,     \* positions of the first table, 2049 in the code
    MaxTable,     \* positions of the largest table calloc can provide
    SIZE_T,       \* how many values a size_t has
    MaxEntries,   \* bound: the allocations recorded
    Reuse,        \* may malloc return an address that was freed?
    MallocFails   \* may malloc return NULL?

NULL == 0

ASSUME AddrAssumption == Addr \subseteq Nat \ {NULL}
ASSUME SizeAssumption ==
    /\ InitSize \in Nat /\ InitSize >= 5
    /\ MaxTable \in Nat /\ MaxTable >= InitSize
    /\ SIZE_T \in Nat /\ MaxTable * MaxTable < SIZE_T
ASSUME SwitchAssumption ==
    MaxEntries \in Nat /\ Reuse \in BOOLEAN /\ MallocFails \in BOOLEAN

VARIABLES
    ht,           \* the table: state NULL, LIVE or FREED (a dangling pointer)
    frames,       \* the activations of double_hashtable, innermost last
    heap,         \* the client's blocks malloc considers allocated
    phase,        \* running, the exit handler to run next, or how it ended
    EXIT_STATUS,
    stderr,       \* the errors written, with the address they are about
    report        \* the last verdict slug_memstats printed

vars == <<ht, frames, heap, phase, EXIT_STATUS, stderr, report>>

Entry == [loc : Addr \cup {NULL}, active : BOOLEAN]
Handlers == {"leak_detection", "slug_memstats"}
Ended == {"done", "crashed", "undefined"}
Errors == [kind : {"over 128MB", "not allocated", "already freed", "leak"},
           addr : Nat]
Reports == {"none", "no allocations", "problems", "no problems"}

IsTable(t, size) == DOMAIN t \subseteq 0 .. size - 1 /\ \A p \in DOMAIN t : t[p] \in Entry

NoEntries == [p \in {} |-> NULL]

init_hashtable ==
    [state |-> "LIVE", size |-> InitSize, load |-> 0, table |-> NoEntries]

Init ==
    /\ ht = [state |-> "NULL", size |-> 0, load |-> 0, table |-> NoEntries]
    /\ frames = <<>>
    /\ heap = {}
    /\ phase = "running"
    /\ EXIT_STATUS = 0
    /\ stderr = {}
    /\ report = "none"

Ready == phase = "running" /\ frames = <<>>   \* the client is running

----------------------------------------------------------------------------
(* The hash table.                                                         *)

(* The position looked at after d collisions.                              *)
Mut_Pos(h, loc, d) == (loc % h.size) + d   \* probing does not wrap around
Pos(h, loc, d) == (loc + d) % h.size

(* The numbers of collisions after which the probe would find a NULL; the  *)
(* loop ends at the least, and with none it spins for ever.                *)
FreeSteps(h, loc) == {d \in 0 .. h.size - 1 : Pos(h, loc, d) \notin DOMAIN h.table}

FreePos(h, loc) == Pos(h, loc, Min(FreeSteps(h, loc)))

StoreAt(h, a, p) ==
    [h EXCEPT !.table = [q \in DOMAIN h.table \cup {p} |->
                            IF q = p THEN a ELSE h.table[q]],
              !.load = @ + 1]

(* The second half of insert_into_hashtable.  A full table makes its loop  *)
(* spin for ever: no step.                                                 *)
Store(h, a, below) ==
    /\ FreeSteps(h, a.loc) # {}
    /\ ht' = StoreAt(h, a, FreePos(h, a.loc))
    /\ frames' = below
    /\ UNCHANGED phase

(* The size is squared, and calloc returns NULL for a table it cannot      *)
(* provide, which the first entry copied then writes to.  The load is not  *)
(* reset, so the entries copied are counted again.                         *)
Mut_GrownSize(h) == (2 * h.size) % SIZE_T   \* doubled, as the comment says
GrownSize(h) == (h.size * h.size) % SIZE_T

double_hashtable(h, a, below) ==
    /\ ht' = [h EXCEPT !.size = GrownSize(h), !.table = NoEntries]
    /\ frames' = Append(below, [a |-> a, old |-> h.table, oldsize |-> h.size])
    /\ phase' = IF GrownSize(h) <= MaxTable THEN phase ELSE "crashed"

MustGrow(h) == h.load * 4 > h.size

insert_into_hashtable(h, a, below) ==
    \/ MustGrow(h) /\ double_hashtable(h, a, below)
    \/ ~MustGrow(h) /\ Store(h, a, below)

(* What is_in_hashtable finds: the first entry for loc before a NULL, as   *)
(* a set of at most one position.                                          *)
is_in_hashtable(h, loc) ==
    LET stops == {d \in 0 .. h.size - 1 :
                    Pos(h, loc, d) \in DOMAIN h.table =>
                        h.table[Pos(h, loc, d)].loc = loc}
    IN  {Pos(h, loc, Min(stops))} \cap DOMAIN h.table

Top == frames[Len(frames)]
Below == SubSeq(frames, 1, Len(frames) - 1)

(* One turn of the copying loop of double_hashtable that finds an entry.   *)
Mut_CopyEntry_last ==   \* the loop stops before the last position
    /\ phase = "running" /\ frames # <<>>
    /\ DOMAIN Top.old # {}
    /\ LET i == Min(DOMAIN Top.old)
           rest == [p \in DOMAIN Top.old \ {i, Top.oldsize - 1} |-> Top.old[p]]
       IN  insert_into_hashtable(ht, Top.old[i],
               Append(Below, [Top EXCEPT !.old = rest]))
    /\ UNCHANGED <<heap, EXIT_STATUS, stderr, report>>
CopyEntry ==
    /\ phase = "running" /\ frames # <<>>
    /\ DOMAIN Top.old # {}
    /\ LET i == Min(DOMAIN Top.old)
           rest == [p \in DOMAIN Top.old \ {i} |-> Top.old[p]]
       IN  insert_into_hashtable(ht, Top.old[i],
               Append(Below, [Top EXCEPT !.old = rest]))
    /\ UNCHANGED <<heap, EXIT_STATUS, stderr, report>>

(* double_hashtable returns, and the insert that called it goes on.        *)
CopyDone ==
    /\ phase = "running" /\ frames # <<>>
    /\ DOMAIN Top.old = {}
    /\ Store(ht, Top.a, Below)
    /\ UNCHANGED <<heap, EXIT_STATUS, stderr, report>>

----------------------------------------------------------------------------
(* The operations of the client.                                           *)

(* Any use of the table after slug_memstats destroyed it.                  *)
Dangling ==
    /\ ht.state = "FREED"
    /\ phase' = "undefined"
    /\ UNCHANGED <<ht, frames, heap, EXIT_STATUS, stderr, report>>

(* exit() runs the handlers init_hashtable registered, last one first.     *)
Mut_exit(h) ==   \* leak_detection is not registered
    phase' = IF h.state = "NULL" THEN "done" ELSE "slug_memstats"
exit(h) == phase' = IF h.state = "NULL" THEN "done" ELSE "leak_detection"

Fail(h, kind, addr) ==
    /\ stderr' = stderr \cup {[kind |-> kind, addr |-> addr]}
    /\ EXIT_STATUS' = 1
    /\ exit(h)
    /\ ht' = h
    /\ UNCHANGED <<frames, heap, report>>

Recorded(h) == {h.table[p].loc : p \in DOMAIN h.table}

malloc(h) ==
    (IF Reuse THEN Addr \ heap ELSE Addr \ Recorded(h))
        \cup (IF MallocFails THEN {NULL} ELSE {})

TableForMalloc == IF ht.state = "NULL" THEN init_hashtable ELSE ht

slug_malloc_huge ==
    /\ Ready
    /\ \/ Dangling
       \/ ht.state # "FREED" /\ Fail(TableForMalloc, "over 128MB", NULL)

slug_malloc ==
    /\ Ready
    /\ Cardinality(DOMAIN ht.table) < MaxEntries
    /\ \/ Dangling
       \/ /\ ht.state # "FREED"
          /\ \E loc \in malloc(TableForMalloc) :
                /\ heap' = heap \cup ({loc} \ {NULL})
                /\ insert_into_hashtable(TableForMalloc,
                       [loc |-> loc, active |-> TRUE], <<>>)
          /\ UNCHANGED <<EXIT_STATUS, stderr, report>>

Mut_MarkFreed_removes(h, p) ==   \* the entry is taken out of the table
    [h EXCEPT !.table = [q \in DOMAIN @ \ {p} |-> h.table[q]]]
Mut_MarkFreed_active(h, p) == h   \* the entry stays active
MarkFreed(h, p) == [h EXCEPT !.table[p].active = FALSE]

slug_free(addr) ==
    /\ Ready
    /\ \/ Dangling
       \/ ht.state = "NULL" /\ Fail(ht, "not allocated", addr)
       \/ /\ ht.state = "LIVE"
          /\ is_in_hashtable(ht, addr) = {}
          /\ Fail(ht, "not allocated", addr)
       \/ /\ ht.state = "LIVE"
          /\ \E p \in is_in_hashtable(ht, addr) :
                \/ ~ht.table[p].active /\ Fail(ht, "already freed", addr)
                \/ /\ ht.table[p].active
                   /\ ht' = MarkFreed(ht, p)
                   /\ heap' = heap \ {addr}
                   /\ UNCHANGED <<frames, phase, EXIT_STATUS, stderr, report>>

(* main returns.                                                           *)
ClientExit ==
    /\ Ready
    /\ exit(ht)
    /\ UNCHANGED <<ht, frames, heap, EXIT_STATUS, stderr, report>>

----------------------------------------------------------------------------
(* The report, and the end of the program.                                 *)

(* The exit() in this handler goes on with the handlers left.              *)
Leaks(h) == {p \in DOMAIN h.table : h.table[p].active}

Mut_leak_detection ==   \* its exit runs the handlers from the start
    /\ phase = "leak_detection"
    /\ phase' = IF Leaks(ht) # {} THEN "leak_detection" ELSE "slug_memstats"
    /\ EXIT_STATUS' = IF Leaks(ht) # {} THEN 1 ELSE EXIT_STATUS
    /\ UNCHANGED <<ht, frames, heap, stderr, report>>
leak_detection ==
    /\ phase = "leak_detection"
    /\ \/ Dangling
       \/ /\ ht.state # "FREED"
          /\ IF Leaks(ht) # {}
             THEN /\ EXIT_STATUS' = 1
                  /\ stderr' = stderr \cup {[kind |-> "leak",
                                  addr |-> ht.table[Max(Leaks(ht))].loc]}
             ELSE UNCHANGED <<EXIT_STATUS, stderr>>
          /\ phase' = "slug_memstats"
          /\ UNCHANGED <<ht, frames, heap, report>>

destroy_hashtable ==
    [state |-> "FREED", size |-> 0, load |-> 0, table |-> NoEntries]

(* Called by the client, or as a handler.  The mean of no sizes divides    *)
(* by zero.                                                                *)
slug_memstats ==
    /\ Ready \/ phase = "slug_memstats"
    /\ \/ Dangling
       \/ /\ ht.state = "NULL"
          /\ report' = "no allocations"
          /\ exit(ht)
          /\ UNCHANGED <<ht, frames, heap, EXIT_STATUS, stderr>>
       \/ /\ ht.state = "LIVE" /\ DOMAIN ht.table = {}
          /\ phase' = "crashed"
          /\ UNCHANGED <<ht, frames, heap, EXIT_STATUS, stderr, report>>
       \/ /\ ht.state = "LIVE" /\ DOMAIN ht.table # {}
          /\ report' = IF EXIT_STATUS = 1 THEN "problems" ELSE "no problems"
          /\ ht' = destroy_hashtable
          /\ phase' = IF phase = "running" THEN "running" ELSE "done"
          /\ UNCHANGED <<frames, heap, EXIT_STATUS, stderr>>

Terminated == phase \in Ended /\ UNCHANGED vars

Next ==
    \/ slug_malloc
    \/ slug_malloc_huge
    \/ \E addr \in Addr \cup {NULL} : slug_free(addr)
    \/ CopyEntry
    \/ CopyDone
    \/ ClientExit
    \/ leak_detection
    \/ slug_memstats
    \/ Terminated

Spec == Init /\ [][Next]_vars

(* The program runs on: loops go round and exit runs its handlers.         *)
FairSpec ==
    /\ Spec
    /\ WF_vars(CopyEntry)
    /\ WF_vars(CopyDone)
    /\ WF_vars(leak_detection)
    /\ WF_vars(phase = "slug_memstats" /\ slug_memstats)
----------------------------------------------------------------------------
(* Properties.                                                             *)

(* Type invariant: the fields of ht, the stack of double_hashtable and the *)
(* globals of slugmem.c.                                                   *)
TypeOK ==
    /\ ht.state \in {"NULL", "LIVE", "FREED"}
    /\ ht.size \in Nat /\ ht.load \in Nat
    /\ IsTable(ht.table, ht.size)
    /\ \A k \in 1 .. Len(frames) :
          /\ frames[k].a \in Entry
          /\ IsTable(frames[k].old, frames[k].oldsize)
    /\ heap \subseteq Addr
    /\ phase \in {"running"} \cup Handlers \cup Ended
    /\ EXIT_STATUS \in {0, 1}
    /\ stderr \subseteq Errors
    /\ report \in Reports

(* Every entry is found again by is_in_hashtable, collisions, wrap-around  *)
(* and a half-copied table included: no NULL breaks a probe chain.         *)
LookupComplete ==
    ht.state = "LIVE" =>
        \A loc \in Recorded(ht) : is_in_hashtable(ht, loc) # {}

(* The load test keeps the table at most a quarter full and one entry, so  *)
(* the probing loops of insert_into_hashtable and is_in_hashtable end.     *)
QuarterFull ==
    ht.state = "LIVE" => 4 * Cardinality(DOMAIN ht.table) <= ht.size + 4

(* insert_into_hashtable never grows the table from inside the copying     *)
(* loop of double_hashtable, though the load counts copied entries twice.  *)
NoNestedGrowth == Len(frames) <= 1

(* Between two calls of the client, every block it holds has exactly one   *)
(* active entry, and every active entry with an address is a held block.   *)
HeapTracked ==
    Ready /\ ht.state = "LIVE" =>
        /\ \A addr \in heap :
              Cardinality({p \in DOMAIN ht.table :
                  ht.table[p].active /\ ht.table[p].loc = addr}) = 1
        /\ \A p \in DOMAIN ht.table :
              ht.table[p].active => ht.table[p].loc \in heap \cup {NULL}

(* A program that ends by its handlers with a block still held says so:    *)
(* leak_detection runs before slug_memstats prints the verdict.            *)
LeakReported ==
    phase = "done" /\ heap # {} => EXIT_STATUS = 1 /\ report = "problems"

(* The table accounts for the client's blocks, while it runs and at its    *)
(* end.                                                                    *)
HeapAccounted == HeapTracked /\ LeakReported

(* slugmem.h: an address that is the start of an allocated block is freed; *)
(* slug_free reports an error only for an address the client does not hold.*)
ValidFreeAccepted ==
    \A m \in stderr :
        m.kind \in {"not allocated", "already freed"} => m.addr \notin heap

(* Copying the table comes to an end, and so does every exit.              *)
GrowthEnds == frames # <<>> ~> frames = <<>>
ExitEnds == phase \in Handlers ~> phase \in Ended

(* No call of the client and no exit handler goes on for ever, though each *)
(* goes through a table of which load and size change under its loops.     *)
LoopsEnd == GrowthEnds /\ ExitEnds

(* The allocator is a tracked heap: what the client asks, the verdict the  *)
(* errors and the blocks held add up to.                                   *)
Tracker == INSTANCE TrackedHeap WITH
    refused <- {m \in stderr : m.kind # "leak"},
    verdict <- IF phase # "done" THEN "none"
               ELSE IF EXIT_STATUS = 1 THEN "problems" ELSE "no problems"
Refinement == Tracker!Spec
=============================================================================
