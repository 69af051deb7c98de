------------------------------ MODULE RSProofs ------------------------------
(***************************************************************************)
(* TLAPS proofs about RS, for any number of slots, processes, labels and   *)
(* callers: types, the agreement of RS's table with PM's processes and     *)
(* with DS, updates, and the answers that callers wait for.                *)
(*                                                                         *)
(* Every function of RS takes a state that satisfies Inv to one that does  *)
(* (Keeps): Inv is Good, the structure of table, processes, DS and pending *)
(* answers, and Settled, what the flags of each slot say.  A function that *)
(* takes instances apart and puts them together goes through states where  *)
(* Good holds except for the slots of a set D.                             *)
(***************************************************************************)
EXTENDS RS, FiniteSetTheorems, NaturalsInduction, WellFoundedInduction, TLAPS

-----------------------------------------------------------------------------
(* Induction over natural numbers: a set of them has a least element.      *)
LEMMA LeastNat ==
    ASSUME NEW S \in SUBSET Nat, S # {}
    PROVE  \E x \in S : \A y \in S : x <= y
<1> DEFINE R == {ss \in Nat \X Nat : ss[1] < ss[2]}
<1>1. IsWellFoundedOn(R, Nat)
  BY NatLessThanWellFounded, Zenon DEF OpToRel
<1> HIDE DEF R
<1>2. PICK x \in S : \A y \in S : ~ (<<y, x>> \in R)
  BY <1>1, WFMin
<1>3. ASSUME NEW y \in S PROVE x <= y
  <2>1. ~ (<<y, x>> \in Nat \X Nat /\ y < x)
    BY <1>2, Zenon DEF R
  <2> QED
    BY <2>1
<1> QED
  BY <1>3

(* The least element of a set of numbers.                                  *)
LEMMA MinIn ==
    ASSUME NEW S \in SUBSET Nat, S # {}
    PROVE  Min(S) \in S /\ \A y \in S : Min(S) <= y
BY LeastNat DEF Min

(* A loop whose turns stay in a set: step[i] is what turn i does.          *)
Loop(n, x, step, f) ==
    f = [i \in 0 .. n |-> IF i = 0 THEN x ELSE step[i][f[i - 1]]]

(* There is such a loop, for any number of turns.                          *)
LEMMA LoopExists ==
    ASSUME NEW n \in Nat, NEW x, NEW step
    PROVE  \E f : Loop(n, x, step, f)
<1> DEFINE T == {m \in Nat : ~ \E g : Loop(m, x, step, g)}
<1> SUFFICES ASSUME T # {} PROVE FALSE
  OBVIOUS
<1>0. T \in SUBSET Nat
  OBVIOUS
<1> HIDE DEF T
<1>1. PICK m \in T : \A y \in T : m <= y
  BY <1>0, LeastNat
<1>2. m \in Nat /\ ~ \E g : Loop(m, x, step, g)
  BY DEF T
<1>3. CASE m = 0
  <2>1. PICK g : g = [i \in 0 .. 0 |-> x]
    OBVIOUS
  <2>2. Loop(0, x, step, g)
    BY <2>1 DEF Loop
  <2> QED
    BY <1>2, <1>3, <2>2
<1>4. CASE m # 0
  <2>1. m - 1 \in Nat /\ m - 1 \notin T
    BY <1>1, <1>2, <1>4
  <2>2. PICK g : Loop(m - 1, x, step, g)
    BY <2>1 DEF T
  <2>3. PICK h : h = [i \in 0 .. m |-> IF i = 0 THEN x ELSE step[i][g[i - 1]]]
    OBVIOUS
  <2>4. \A i \in 0 .. m - 1 : h[i] = g[i]
    <3>1. \A i \in 0 .. m - 1 : g[i] = IF i = 0 THEN x ELSE step[i][g[i - 1]]
      BY <2>2 DEF Loop
    <3> QED
      BY <1>2, <2>3, <3>1
  <2>5. ASSUME NEW i \in 0 .. m PROVE h[i] = IF i = 0 THEN x ELSE step[i][h[i - 1]]
    <3>1. CASE i = 0
      BY <1>2, <2>3, <3>1
    <3>2. CASE i # 0
      <4>1. h[i - 1] = g[i - 1]
        BY <1>2, <2>4, <3>2
      <4> QED
        BY <2>3, <3>2, <4>1
    <3> QED
      BY <3>1, <3>2
  <2>6. Loop(m, x, step, h)
    BY <2>3, <2>5 DEF Loop
  <2> QED
    BY <1>2, <2>6
<1> QED
  BY <1>3, <1>4

(* What every turn keeps holds after all of them.                          *)
LEMMA StaysIn ==
    ASSUME NEW n \in Nat, NEW S, NEW f, f[0] \in S,
           \A i \in 1 .. n : f[i - 1] \in S => f[i] \in S
    PROVE  \A i \in 0 .. n : f[i] \in S
<1> DEFINE T == {i \in 0 .. n : f[i] \notin S}
<1> SUFFICES ASSUME T # {} PROVE FALSE
  OBVIOUS
<1>0. T \in SUBSET Nat
  OBVIOUS
<1> HIDE DEF T
<1>1. PICK i \in T : \A y \in T : i <= y
  BY <1>0, LeastNat
<1>2. i \in 0 .. n /\ f[i] \notin S
  BY DEF T
<1>3. i # 0
  BY <1>2
<1>4. i \in 1 .. n /\ i - 1 \in 0 .. n /\ ~ (i <= i - 1)
  BY <1>2, <1>3
<1>5. i - 1 \notin T
  BY <1>1, <1>4
<1>6. f[i - 1] \in S
  BY <1>4, <1>5 DEF T
<1> QED
  BY <1>2, <1>4, <1>6

-----------------------------------------------------------------------------
(* What the record K of the state and its parts range over.                *)
Slot == [flags : SUBSET Flags, label : Labels \cup {NULL},
         ep : Endpoints \cup {NULL}, pid : Endpoints \cup {NULL},
         prev : Slots \cup {NULL}, next : Slots \cup {NULL},
         old : Slots \cup {NULL}, new : Slots \cup {NULL},
         restarts : 0 .. MaxRestarts, backoff : 0 .. MAX_BACKOFF,
         stopping : BOOLEAN, awaited : BOOLEAN,
         caller : Callers \cup {NULL},
         opt : [script : BOOLEAN, repl : BOOLEAN, period : BOOLEAN]]
Processes == [st : {"free", "held", "init", "run", "prepare", "blocked", "dead"},
              killed : BOOLEAN]
States == [rproc : [Slots -> Slot], ptr : [Endpoints -> Slots \cup {NULL}],
           upd : Slots \cup {NULL}, world : [Endpoints -> Processes],
           ds : [Labels -> Endpoints \cup {NULL}], waiting : [Callers -> BOOLEAN],
           stray : BOOLEAN, crashed : BOOLEAN]

(* The flags that Good, below, is about.                                   *)
Bits == {"IN_USE", "ACTIVE", "LATEREPLY"}

(* Everything but the table is the same.                                   *)
OnlyTable(k, r) ==
    /\ r.ptr = k.ptr /\ r.upd = k.upd /\ r.world = k.world /\ r.ds = k.ds
    /\ r.waiting = k.waiting /\ r.stray = k.stray /\ r.crashed = k.crashed

(* The fields of a state have their types.                                 *)
LEMMA StateFields ==
    ASSUME NEW k \in States
    PROVE  /\ k.rproc \in [Slots -> Slot] /\ k.ptr \in [Endpoints -> Slots \cup {NULL}]
           /\ k.upd \in Slots \cup {NULL} /\ k.world \in [Endpoints -> Processes]
           /\ k.ds \in [Labels -> Endpoints \cup {NULL}] /\ k.waiting \in [Callers -> BOOLEAN]
           /\ k.stray \in BOOLEAN /\ k.crashed \in BOOLEAN
BY DEF States

(* One slot of the table is overwritten.                                   *)
Edit(k, s, q) == [k EXCEPT !.rproc[s] = q]

(* The other slots and everything outside the table are untouched.         *)
LEMMA Edited ==
    ASSUME NEW k \in States, NEW s \in Slots, NEW q \in Slot
    PROVE  /\ Edit(k, s, q) \in States /\ OnlyTable(k, Edit(k, s, q))
           /\ Edit(k, s, q).rproc[s] = q
           /\ \A t \in Slots \ {s} : Edit(k, s, q).rproc[t] = k.rproc[t]
<1>1. Edit(k, s, q).rproc = [k.rproc EXCEPT ![s] = q] /\ OnlyTable(k, Edit(k, s, q))
  BY DEF States, OnlyTable, Edit
<1>2. Edit(k, s, q) \in States
  BY DEF States, Edit
<1> QED
  BY <1>1, <1>2, StateFields

(* The slot s becomes q, and nothing else changes.                         *)
Turns(k, r, s, q) ==
    /\ r \in States /\ OnlyTable(k, r) /\ r.rproc[s] = q
    /\ \A t \in Slots \ {s} : r.rproc[t] = k.rproc[t]

(* Edit does just that.                                                    *)
LEMMA Turned ==
    ASSUME NEW k \in States, NEW s \in Slots, NEW q \in Slot
    PROVE  Turns(k, Edit(k, s, q), s, q)
BY Edited DEF Turns

(* Setting and clearing flags are such edits.                              *)
LEMMA SetIs ==
    ASSUME NEW k \in States, NEW s \in Slots, NEW fs \in SUBSET Flags
    PROVE  Turns(k, Set(k, s, fs), s, [k.rproc[s] EXCEPT !.flags = @ \cup fs])
<1>1. PICK q : q = [k.rproc[s] EXCEPT !.flags = @ \cup fs]
  OBVIOUS
<1>2. Set(k, s, fs) = Edit(k, s, q)
  BY <1>1 DEF Set, Edit
<1>3. q \in Slot
  BY <1>1, StateFields DEF Slot
<1> QED
  BY <1>1, <1>2, <1>3, Turned

LEMMA UnsetIs ==
    ASSUME NEW k \in States, NEW s \in Slots, NEW fs
    PROVE  Turns(k, Unset(k, s, fs), s, [k.rproc[s] EXCEPT !.flags = @ \ fs])
<1>1. PICK q : q = [k.rproc[s] EXCEPT !.flags = @ \ fs]
  OBVIOUS
<1>2. Unset(k, s, fs) = Edit(k, s, q)
  BY <1>1 DEF Unset, Edit
<1>3. q \in Slot
  BY <1>1, StateFields DEF Slot
<1> QED
  BY <1>1, <1>2, <1>3, Turned

-----------------------------------------------------------------------------
(* A slot is in use, is the active instance; the state of its process.     *)
Used(k, s) == "IN_USE" \in k.rproc[s].flags
Main(k, s) == "ACTIVE" \in k.rproc[s].flags
St(k, s) == k.world[k.rproc[s].ep].st

(* Slots in use and processes that are not free correspond one to one.     *)
Owned(k) ==
    /\ \A s \in Slots : Used(k, s) =>
          /\ k.rproc[s].ep \in Endpoints /\ k.rproc[s].pid = k.rproc[s].ep
          /\ k.ptr[k.rproc[s].ep] = s /\ k.rproc[s].label \in Labels
    /\ \A s \in Slots : ~Used(k, s) => k.rproc[s].flags = {}
    /\ \A e \in Endpoints : k.ptr[e] # NULL =>
          Used(k, k.ptr[e]) /\ k.rproc[k.ptr[e]].ep = e
    /\ \A e \in Endpoints : k.world[e].st # "free" <=> k.ptr[e] # NULL

(* How slots hang together: alone and active, or in couples of one active  *)
(* and one spare instance, each of which points to the other, to nobody    *)
(* else.  D: slots that a function has taken apart for a while.            *)
Linking(r, a, b, c, d) == r.prev = a /\ r.next = b /\ r.old = c /\ r.new = d
Alone(r) == Linking(r, NULL, NULL, NULL, NULL)
Tied(a, s, b, x) ==
    \/ Linking(a, x, NULL, NULL, NULL) /\ Linking(b, NULL, s, NULL, NULL)
    \/ Linking(a, NULL, x, NULL, NULL) /\ Linking(b, s, NULL, NULL, NULL)
    \/ Linking(a, NULL, NULL, x, NULL) /\ Linking(b, NULL, NULL, NULL, s)
    \/ Linking(a, NULL, NULL, NULL, x) /\ Linking(b, NULL, NULL, s, NULL)
Couple(k, s, x) ==
    /\ x # s /\ Used(k, s) /\ Used(k, x) /\ Tied(k.rproc[s], s, k.rproc[x], x)
    /\ k.rproc[x].label = k.rproc[s].label /\ (Main(k, s) <=> ~Main(k, x))
Shape(k, D) == \A s \in Slots \ D : Used(k, s) =>
    \/ Alone(k.rproc[s]) /\ Main(k, s)
    \/ \E x \in Slots \ D : Couple(k, s, x)

(* DS knows active instances only, and no label has two.                   *)
Published(k) ==
    /\ \A s, t \in Slots :
          Main(k, s) /\ Main(k, t) /\ k.rproc[s].label = k.rproc[t].label => s = t
    /\ \A l \in Labels : k.ds[l] # NULL =>
          \E s \in Slots : Main(k, s) /\ k.rproc[s].label = l /\ k.rproc[s].ep = k.ds[l]

(* An update under way has a new version.                                  *)
Updating(k, D) ==
    k.upd # NULL => k.upd \in Slots \ D /\ Used(k, k.upd) /\ k.rproc[k.upd].new # NULL

(* A slot owes its caller an answer: who waits is owed one, by one slot.   *)
Owes(k, s) == "LATEREPLY" \in k.rproc[s].flags
Owing(k) ==
    /\ ~k.stray
    /\ \A s \in Slots : Owes(k, s) =>
          k.rproc[s].caller \in Callers /\ k.waiting[k.rproc[s].caller]
    /\ \A s, t \in Slots :
          Owes(k, s) /\ Owes(k, t) /\ k.rproc[s].caller = k.rproc[t].caller => s = t
    /\ \A c \in Callers : k.waiting[c] =>
          \E s \in Slots : Owes(k, s) /\ k.rproc[s].caller = c

(* The structure that every function of RS keeps.                          *)
Good(k, D) ==
    /\ k \in States /\ Owned(k) /\ Shape(k, D) /\ Published(k) /\ Updating(k, D)
    /\ Owing(k) /\ ~k.crashed

(* The process of a slot outside X, and the slot itself, are as before.    *)
Others(k, r, X) == \A t \in Slots \ X :
    /\ r.rproc[t] = k.rproc[t]
    /\ Used(k, t) => r.world[k.rproc[t].ep] = k.world[k.rproc[t].ep]

(* Two steps that leave the others alone.                                  *)
LEMMA OthersTwice ==
    ASSUME NEW k, NEW r, NEW q, NEW X, NEW Y, NEW Z, X \subseteq Z, Y \subseteq Z,
           Others(k, r, X), Others(r, q, Y)
    PROVE  Others(k, q, Z)
BY DEF Others, Used

-----------------------------------------------------------------------------
(* Nothing changes but the flags of one slot that do not matter here.      *)
SameFields(a, b) ==
    /\ b.ep = a.ep /\ b.pid = a.pid /\ b.label = a.label /\ b.caller = a.caller
    /\ b.prev = a.prev /\ b.next = a.next /\ b.old = a.old /\ b.new = a.new
SameBits(a, b) == \A f \in Bits : f \in b.flags <=> f \in a.flags

(* A step of one slot that the structure does not notice.                  *)
Quietly(k, r, s) ==
    /\ r \in States /\ Others(k, r, {s})
    /\ SameFields(k.rproc[s], r.rproc[s]) /\ SameBits(k.rproc[s], r.rproc[s])
    /\ \A e \in Endpoints : r.world[e].st = "free" <=> k.world[e].st = "free"
    /\ r.ptr = k.ptr /\ r.upd = k.upd /\ r.ds = k.ds
    /\ r.waiting = k.waiting /\ r.stray = k.stray /\ r.crashed = k.crashed

(* Where the structure is the same.                                        *)
Steady(k, r) ==
    /\ \A s \in Slots : Used(r, s) <=> Used(k, s)
    /\ \A s \in Slots : Used(k, s) =>
          SameFields(k.rproc[s], r.rproc[s]) /\ (Main(r, s) <=> Main(k, s))
    /\ \A s \in Slots : ~Used(k, s) => r.rproc[s].flags = {}
    /\ \A e \in Endpoints : r.world[e].st = "free" <=> k.world[e].st = "free"
    /\ r.ptr = k.ptr /\ r.upd = k.upd /\ r.ds = k.ds /\ r.crashed = k.crashed

(* Active and owing slots are in use.                                      *)
LEMMA MainUsed ==
    ASSUME NEW k, Owned(k), NEW s \in Slots, Main(k, s) \/ Owes(k, s)
    PROVE  Used(k, s)
BY DEF Owned, Used, Main, Owes

(* Good depends on the structure only.                                     *)
LEMMA SteadyGood ==
    ASSUME NEW k, NEW D, Good(k, D), NEW r \in States, Steady(k, r), Owing(r)
    PROVE  Good(r, D)
<1>1. k \in States /\ Owned(k) /\ Shape(k, D) /\ Published(k) /\ Updating(k, D) /\ ~k.crashed
  BY DEF Good
<1>2. \A s \in Slots : Main(r, s) => Main(k, s) /\ Used(k, s)
  <2> SUFFICES ASSUME NEW s \in Slots, Main(r, s) PROVE Main(k, s) /\ Used(k, s)
    OBVIOUS
  <2>1. Used(k, s)
    BY DEF Steady, Main
  <2> QED
    BY <2>1 DEF Steady
<1>3. \A s \in Slots : Main(k, s) => Main(r, s) /\ Used(k, s)
  BY <1>1, MainUsed DEF Steady
<1>4. Owned(r)
  <2>1. ASSUME NEW s \in Slots, Used(r, s)
        PROVE  /\ r.rproc[s].ep \in Endpoints /\ r.rproc[s].pid = r.rproc[s].ep
               /\ r.ptr[r.rproc[s].ep] = s /\ r.rproc[s].label \in Labels
    BY <1>1, <2>1 DEF Owned, Steady, SameFields
  <2>2. ASSUME NEW s \in Slots, ~Used(r, s) PROVE r.rproc[s].flags = {}
    BY <2>2 DEF Steady
  <2>3. ASSUME NEW e \in Endpoints, r.ptr[e] # NULL
        PROVE  Used(r, r.ptr[e]) /\ r.rproc[r.ptr[e]].ep = e
    <3>1. r.ptr[e] \in Slots /\ r.ptr[e] = k.ptr[e]
      BY <1>1, <2>3, StateFields DEF Steady
    <3> QED
      BY <1>1, <2>3, <3>1 DEF Owned, Steady, SameFields
  <2>4. \A e \in Endpoints : r.world[e].st # "free" <=> r.ptr[e] # NULL
    BY <1>1 DEF Owned, Steady
  <2> QED
    BY <2>1, <2>2, <2>3, <2>4 DEF Owned
<1>5. Shape(r, D)
  <2> SUFFICES ASSUME NEW s \in Slots \ D, Used(r, s)
               PROVE  \/ Alone(r.rproc[s]) /\ Main(r, s)
                      \/ \E x \in Slots \ D : Couple(r, s, x)
    BY DEF Shape
  <2>1. Used(k, s) /\ SameFields(k.rproc[s], r.rproc[s]) /\ (Main(r, s) <=> Main(k, s))
    BY DEF Steady
  <2>2. CASE Alone(k.rproc[s]) /\ Main(k, s)
    BY <2>1, <2>2 DEF Alone, Linking, SameFields
  <2>3. ASSUME NEW x \in Slots \ D, Couple(k, s, x) PROVE Couple(r, s, x)
    <3>1. Used(k, x) /\ SameFields(k.rproc[x], r.rproc[x]) /\ (Main(r, x) <=> Main(k, x))
      BY <2>3 DEF Steady, Couple
    <3>2. Used(r, s) /\ Used(r, x)
      BY <2>1, <3>1 DEF Steady
    <3> QED
      BY <2>1, <2>3, <3>1, <3>2 DEF Couple, Tied, Linking, SameFields
  <2> QED
    BY <1>1, <2>1, <2>2, <2>3 DEF Shape
<1>6. Published(r)
  BY <1>1, <1>2, <1>3 DEF Published, Steady, SameFields
<1>7. Updating(r, D)
  BY <1>1 DEF Updating, Steady, SameFields
<1> QED
  BY <1>1, <1>4, <1>5, <1>6, <1>7 DEF Good, Steady

(* A quiet step keeps it.                                                  *)
LEMMA QuietlyGood ==
    ASSUME NEW k, NEW D, Good(k, D), NEW s \in Slots, Used(k, s),
           NEW r, Quietly(k, r, s)
    PROVE  Good(r, D)
<1>1. \A t \in Slots : SameFields(k.rproc[t], r.rproc[t]) /\ SameBits(k.rproc[t], r.rproc[t])
  <2>1. \A t \in Slots \ {s} : r.rproc[t] = k.rproc[t]
    BY DEF Quietly, Others
  <2> QED
    BY <2>1 DEF Quietly, SameFields, SameBits
<1>2. \A t \in Slots : /\ Used(r, t) <=> Used(k, t)
                       /\ Main(r, t) <=> Main(k, t)
                       /\ Owes(r, t) <=> Owes(k, t)
  BY <1>1 DEF SameBits, Bits, Used, Main, Owes
<1>3. Owing(r)
  BY <1>1, <1>2 DEF Good, Owing, Quietly, SameFields
<1>4. Steady(k, r)
  <2>1. ASSUME NEW t \in Slots, ~Used(k, t) PROVE r.rproc[t].flags = {}
    <3>1. k.rproc[t].flags = {} /\ t # s
      BY <2>1 DEF Good, Owned
    <3> QED
      BY <3>1 DEF Quietly, Others
  <2> QED
    BY <1>1, <1>2, <2>1 DEF Steady, Quietly
<1> QED
  BY <1>3, <1>4, SteadyGood DEF Quietly

(* The other fields of a slot that the invariants speak of.                *)
SameData(a, b) == SameFields(a, b) /\ b.backoff = a.backoff /\ b.opt = a.opt

(* Two quiet steps are one.                                                *)
LEMMA QuietlyTwice ==
    ASSUME NEW k, NEW s, NEW r, Quietly(k, r, s), NEW q, Quietly(r, q, s)
    PROVE  Quietly(k, q, s)
<1>1. Others(k, q, {s})
  BY OthersTwice DEF Quietly
<1>2. SameFields(k.rproc[s], q.rproc[s]) /\ SameBits(k.rproc[s], q.rproc[s])
  BY DEF Quietly, SameFields, SameBits
<1> QED
  BY <1>1, <1>2 DEF Quietly

LEMMA SameTwice ==
    ASSUME NEW a, NEW b, NEW c, SameData(a, b), SameData(b, c)
    PROVE  SameData(a, c)
BY DEF SameData, SameFields

(* An edit that keeps the links and the bits is quiet.                     *)
LEMMA TurnsQuietly ==
    ASSUME NEW k \in States, NEW s \in Slots, NEW q, NEW r, Turns(k, r, s, q),
           SameFields(k.rproc[s], q), SameBits(k.rproc[s], q)
    PROVE  Quietly(k, r, s)
BY DEF Turns, Quietly, OnlyTable, Others

(* What the assumptions say of the constants.                              *)
LEMMA Constants ==
    /\ NULL \notin Slots /\ Slots \subseteq Nat /\ NULL \notin Endpoints /\ Endpoints \subseteq Nat
    /\ NR_SYS_PROCS \in Nat /\ IsFiniteSet(Slots) /\ IsFiniteSet(Endpoints)
    /\ MAX_BACKOFF \in Nat \ {0} /\ MaxRestarts \in Nat
<1>1. NR_SYS_PROCS \in Nat /\ Endpoints \subseteq Nat \ {NULL} /\ IsFiniteSet(Endpoints)
      /\ MAX_BACKOFF \in Nat \ {0} /\ MaxRestarts \in Nat
  BY RSAssumption
<1>2. IsFiniteSet(Slots)
  BY <1>1, FS_Interval DEF Slots
<1> QED
  BY <1>1, <1>2 DEF Slots, NULL

(* A slot in use has a process, and is found at its endpoint.              *)
LEMMA OwnEp ==
    ASSUME NEW k \in States, Owned(k), NEW s \in Slots, Used(k, s)
    PROVE  /\ k.rproc[s].ep \in Endpoints /\ k.rproc[s].pid = k.rproc[s].ep
           /\ k.ptr[k.rproc[s].ep] = s /\ k.rproc[s].label \in Labels
           /\ k.world[k.rproc[s].ep] \in Processes /\ k.world[k.rproc[s].ep].st # "free"
           /\ k.rproc[s] \in Slot
<1>1. /\ k.rproc[s].ep \in Endpoints /\ k.rproc[s].pid = k.rproc[s].ep
      /\ k.ptr[k.rproc[s].ep] = s /\ k.rproc[s].label \in Labels
  BY DEF Owned
<1>2. s # NULL
  BY Constants
<1> QED
  BY <1>1, <1>2, StateFields DEF Owned

(* Two slots have two processes.                                           *)
LEMMA EpApart ==
    ASSUME NEW k, Owned(k), NEW s \in Slots, Used(k, s), NEW t \in Slots, Used(k, t), t # s
    PROVE  k.rproc[t].ep # k.rproc[s].ep
BY DEF Owned

(* The process of a slot changes.                                          *)
Run(k, s, w) == [k EXCEPT !.world[k.rproc[s].ep] = w]

LEMMA RunIs ==
    ASSUME NEW k \in States, Owned(k), NEW s \in Slots, Used(k, s),
           NEW w \in Processes, w.st # "free"
    PROVE  /\ Quietly(k, Run(k, s, w), s) /\ Run(k, s, w).rproc = k.rproc
           /\ Run(k, s, w).world[k.rproc[s].ep] = w
<1>1. PICK r : r = Run(k, s, w)
  OBVIOUS
<1>2. PICK e \in Endpoints : e = k.rproc[s].ep
  BY OwnEp
<1>3. k.world \in [Endpoints -> Processes] /\ k.world[e].st # "free"
  BY <1>2, StateFields, OwnEp
<1>4. /\ r.world = [k.world EXCEPT ![e] = w] /\ r.rproc = k.rproc /\ r.ptr = k.ptr
      /\ r.upd = k.upd /\ r.ds = k.ds /\ r.waiting = k.waiting /\ r.stray = k.stray
      /\ r.crashed = k.crashed
  BY <1>1, <1>2 DEF Run, States
<1>5. r \in States
  BY <1>1, <1>2 DEF Run, States
<1>6. r.world[e] = w /\ \A d \in Endpoints \ {e} : r.world[d] = k.world[d]
  BY <1>3, <1>4
<1>7. Others(k, r, {s})
  <2>1. ASSUME NEW t \in Slots \ {s}, Used(k, t)
        PROVE  k.rproc[t].ep \in Endpoints \ {e}
    BY <1>2, <2>1, EpApart DEF Owned
  <2> QED
    BY <1>4, <1>6, <2>1 DEF Others
<1>8. \A d \in Endpoints : r.world[d].st = "free" <=> k.world[d].st = "free"
  BY <1>3, <1>6
<1> QED
  BY <1>1, <1>2, <1>4, <1>5, <1>6, <1>7, <1>8 DEF Quietly, SameFields, SameBits

(* crash_service, Set and Unset are quiet.                                 *)
LEMMA CrashQuietly ==
    ASSUME NEW k \in States, Owned(k), NEW s \in Slots, Used(k, s)
    PROVE  /\ Quietly(k, crash_service(k, s), s)
           /\ crash_service(k, s).rproc = k.rproc
           /\ St(crash_service(k, s), s) = St(k, s)
<1>1. PICK w : w = [k.world[k.rproc[s].ep] EXCEPT !.killed = TRUE]
  OBVIOUS
<1>2. k.rproc[s].ep \in Endpoints /\ k.world[k.rproc[s].ep].st # "free"
  BY OwnEp
<1>3. k.world[k.rproc[s].ep] \in Processes
  BY <1>2, StateFields
<1>4. w \in Processes /\ w.st = k.world[k.rproc[s].ep].st
  BY <1>1, <1>3 DEF Processes
<1>5. crash_service(k, s) = Run(k, s, w)
  BY <1>1, <1>2 DEF crash_service, Run
<1>6. /\ Quietly(k, Run(k, s, w), s) /\ Run(k, s, w).rproc = k.rproc
      /\ Run(k, s, w).world[k.rproc[s].ep] = w
  BY <1>2, <1>4, RunIs
<1> QED
  BY <1>4, <1>5, <1>6 DEF St

LEMMA SetQuietly ==
    ASSUME NEW k \in States, NEW s \in Slots, NEW fs \in SUBSET Flags, fs \cap Bits = {}
    PROVE  /\ Quietly(k, Set(k, s, fs), s)
           /\ SameData(k.rproc[s], Set(k, s, fs).rproc[s])
           /\ Set(k, s, fs).rproc[s].flags = k.rproc[s].flags \cup fs
           /\ St(Set(k, s, fs), s) = St(k, s)
<1>1. PICK r : r = Set(k, s, fs)
  OBVIOUS
<1>2. k.rproc[s] \in Slot
  BY StateFields
<1>3. PICK q : q = [k.rproc[s] EXCEPT !.flags = @ \cup fs]
  OBVIOUS
<1>4. Turns(k, r, s, q)
  BY <1>1, <1>3, SetIs
<1>5. SameData(k.rproc[s], q) /\ q.flags = k.rproc[s].flags \cup fs
  BY <1>2, <1>3 DEF Slot, SameData, SameFields
<1>6. SameBits(k.rproc[s], q)
  BY <1>5 DEF SameBits
<1>7. Quietly(k, r, s)
  BY <1>4, <1>5, <1>6, TurnsQuietly DEF SameData
<1>8. St(r, s) = St(k, s)
  BY <1>4, <1>5 DEF Turns, OnlyTable, St, SameData, SameFields
<1> QED
  BY <1>1, <1>4, <1>5, <1>7, <1>8 DEF Turns

LEMMA UnsetQuietly ==
    ASSUME NEW k \in States, NEW s \in Slots, NEW fs, fs \cap Bits = {}
    PROVE  /\ Quietly(k, Unset(k, s, fs), s)
           /\ SameData(k.rproc[s], Unset(k, s, fs).rproc[s])
           /\ Unset(k, s, fs).rproc[s].flags = k.rproc[s].flags \ fs
           /\ St(Unset(k, s, fs), s) = St(k, s)
<1>1. PICK r : r = Unset(k, s, fs)
  OBVIOUS
<1>2. k.rproc[s] \in Slot
  BY StateFields
<1>3. PICK q : q = [k.rproc[s] EXCEPT !.flags = @ \ fs]
  OBVIOUS
<1>4. Turns(k, r, s, q)
  BY <1>1, <1>3, UnsetIs
<1>5. SameData(k.rproc[s], q) /\ q.flags = k.rproc[s].flags \ fs
  BY <1>2, <1>3 DEF Slot, SameData, SameFields
<1>6. SameBits(k.rproc[s], q)
  BY <1>5 DEF SameBits
<1>7. Quietly(k, r, s)
  BY <1>4, <1>5, <1>6, TurnsQuietly DEF SameData
<1>8. St(r, s) = St(k, s)
  BY <1>4, <1>5 DEF Turns, OnlyTable, St, SameData, SameFields
<1> QED
  BY <1>1, <1>4, <1>5, <1>7, <1>8 DEF Turns

(* The effect of an operation on the slot s, besides Quietly.              *)
Marks(k, r, s, flags, st) ==
    /\ Quietly(k, r, s) /\ SameData(k.rproc[s], r.rproc[s])
    /\ r.rproc[s].flags = flags /\ St(r, s) = st

(* What follows from the last two together.                                *)
LEMMA QuietlyOwned ==
    ASSUME NEW k, NEW D, Good(k, D), NEW s \in Slots, Used(k, s), NEW r, Quietly(k, r, s)
    PROVE  Good(r, D) /\ Used(r, s)
BY QuietlyGood DEF Quietly, SameBits, Bits, Used

(* Two steps of this kind, and the steps that are of it.                   *)
LEMMA MarksTwice ==
    ASSUME NEW k, NEW s, NEW r, NEW f, NEW x, Marks(k, r, s, f, x),
           NEW q, NEW g, NEW y, Marks(r, q, s, g, y)
    PROVE  Marks(k, q, s, g, y)
BY QuietlyTwice, SameTwice DEF Marks

LEMMA SetMarks ==
    ASSUME NEW k \in States, NEW s \in Slots, NEW fs \in SUBSET Flags, fs \cap Bits = {}
    PROVE  Marks(k, Set(k, s, fs), s, k.rproc[s].flags \cup fs, St(k, s))
BY SetQuietly DEF Marks

LEMMA UnsetMarks ==
    ASSUME NEW k \in States, NEW s \in Slots, NEW fs, fs \cap Bits = {}
    PROVE  Marks(k, Unset(k, s, fs), s, k.rproc[s].flags \ fs, St(k, s))
BY UnsetQuietly DEF Marks

LEMMA SameSelf ==
    ASSUME NEW a
    PROVE  SameData(a, a) /\ SameFields(a, a)
BY DEF SameData, SameFields

LEMMA RunMarks ==
    ASSUME NEW k \in States, Owned(k), NEW s \in Slots, Used(k, s),
           NEW w \in Processes, w.st # "free"
    PROVE  Marks(k, Run(k, s, w), s, k.rproc[s].flags, w.st)
BY RunIs, SameSelf DEF Marks, St

LEMMA CrashMarks ==
    ASSUME NEW k \in States, Owned(k), NEW s \in Slots, Used(k, s)
    PROVE  Marks(k, crash_service(k, s), s, k.rproc[s].flags, St(k, s))
BY CrashQuietly, SameSelf DEF Marks

LEMMA KillMarks ==
    ASSUME NEW k, NEW D, Good(k, D), NEW s \in Slots, Used(k, s)
    PROVE  Marks(k, kill_service(k, s), s, k.rproc[s].flags \cup {"EXITING"}, St(k, s))
<1>1. PICK r : r = Set(k, s, {"EXITING"})
  OBVIOUS
<1>2. k \in States /\ {"EXITING"} \in SUBSET Flags /\ {"EXITING"} \cap Bits = {}
  BY DEF Good, Flags, Bits
<1>3. Marks(k, r, s, k.rproc[s].flags \cup {"EXITING"}, St(k, s))
  BY <1>1, <1>2, SetMarks
<1>4. Good(r, D) /\ Used(r, s)
  BY <1>3, QuietlyOwned DEF Marks
<1>5. Marks(r, crash_service(r, s), s, r.rproc[s].flags, St(r, s))
  BY <1>4, CrashMarks DEF Good
<1>6. r.rproc[s].flags = k.rproc[s].flags \cup {"EXITING"} /\ St(r, s) = St(k, s)
  BY <1>3 DEF Marks
<1>7. Marks(r, crash_service(r, s), s, k.rproc[s].flags \cup {"EXITING"}, St(k, s))
  BY <1>5, <1>6
<1>8. Marks(k, crash_service(r, s), s, k.rproc[s].flags \cup {"EXITING"}, St(k, s))
  BY <1>3, <1>7, MarksTwice
<1> QED
  BY <1>1, <1>8 DEF kill_service

(* A field that no invariant speaks of.                                    *)
LEMMA EditMarks ==
    ASSUME NEW k \in States, NEW s \in Slots, NEW q \in Slot, SameData(k.rproc[s], q),
           q.flags = k.rproc[s].flags
    PROVE  Marks(k, Edit(k, s, q), s, k.rproc[s].flags, St(k, s))
<1>1. PICK r : r = Edit(k, s, q)
  OBVIOUS
<1>2. Turns(k, r, s, q)
  BY <1>1, Turned
<1>3. Quietly(k, r, s)
  BY <1>2, TurnsQuietly DEF SameData, SameBits
<1>4. St(r, s) = St(k, s)
  BY <1>2 DEF Turns, OnlyTable, St, SameData, SameFields
<1> QED
  BY <1>1, <1>2, <1>3, <1>4 DEF Marks, Turns

(* run_service, whether it succeeds or kills the service.                  *)
LEMMA RunService ==
    ASSUME NEW k, NEW D, Good(k, D), NEW s \in Slots, Used(k, s), NEW out
    PROVE  LET a == k.rproc[s].flags
               q == run_service(k, s, out)
           IN  \/ /\ q.ok /\ Marks(k, q.k, s, a \cup {"INITIALIZING"}, "init")
               \/ /\ ~q.ok /\ out.fail # {}
                  /\ \/ Marks(k, q.k, s, a \cup {"EXITING"}, St(k, s))
                     \/ Marks(k, q.k, s, a \cup {"INITIALIZING", "EXITING"}, St(k, s))
<1> DEFINE a == k.rproc[s].flags
<1>0. k \in States
  BY DEF Good
<1>1. CASE "allow" \in out.fail
  <2>1. run_service(k, s, out) = Done(kill_service(k, s), FALSE)
    BY <1>1 DEF run_service
  <2> QED
    BY <1>1, <2>1, KillMarks DEF Done
<1>2. CASE "allow" \notin out.fail
  <2>1. PICK i : i = Set(k, s, {"INITIALIZING"})
    OBVIOUS
  <2>2. PICK q : q = [i.rproc[s] EXCEPT !.awaited = TRUE]
    OBVIOUS
  <2>3. PICK j : j = Edit(i, s, q)
    OBVIOUS
  <2>4. Marks(k, i, s, a \cup {"INITIALIZING"}, St(k, s))
    <3>1. {"INITIALIZING"} \in SUBSET Flags /\ {"INITIALIZING"} \cap Bits = {}
      BY DEF Flags, Bits
    <3> QED
      BY <1>0, <2>1, <3>1, SetMarks
  <2>5. Good(i, D) /\ Used(i, s) /\ i \in States
    BY <2>4, QuietlyOwned DEF Marks, Good
  <2>6. i.rproc[s] \in Slot
    BY <2>5, StateFields
  <2>7. q \in Slot /\ SameData(i.rproc[s], q) /\ q.flags = i.rproc[s].flags
    BY <2>2, <2>6 DEF Slot, SameData, SameFields
  <2>8. Marks(i, j, s, i.rproc[s].flags, St(i, s))
    BY <2>3, <2>5, <2>7, EditMarks
  <2>9. Marks(k, j, s, a \cup {"INITIALIZING"}, St(k, s))
    BY <2>4, <2>8, MarksTwice DEF Marks
  <2>10. Good(j, D) /\ Used(j, s) /\ j \in States
    BY <2>9, QuietlyOwned DEF Marks, Good
  <2>11. run_service(k, s, out) =
           IF "init" \in out.fail THEN Done(kill_service(j, s), FALSE)
           ELSE Done([j EXCEPT !.world[k.rproc[s].ep].st = "init"], TRUE)
    BY <1>2, <2>1, <2>2, <2>3 DEF run_service, Edit
  <2>12. CASE "init" \in out.fail
    <3>1. Marks(j, kill_service(j, s), s, j.rproc[s].flags \cup {"EXITING"}, St(j, s))
      BY <2>10, KillMarks
    <3>2. j.rproc[s].flags \cup {"EXITING"} = a \cup {"INITIALIZING", "EXITING"}
          /\ St(j, s) = St(k, s)
      BY <2>9 DEF Marks
    <3>3. Marks(k, kill_service(j, s), s, a \cup {"INITIALIZING", "EXITING"}, St(k, s))
      BY <2>9, <3>1, <3>2, MarksTwice
    <3> QED
      BY <2>11, <2>12, <3>3 DEF Done
  <2>13. CASE "init" \notin out.fail
    <3>1. PICK w : w = [j.world[j.rproc[s].ep] EXCEPT !.st = "init"]
      OBVIOUS
    <3>2. j.world[j.rproc[s].ep] \in Processes /\ Owned(j)
      BY <2>10, OwnEp DEF Good
    <3>3. w \in Processes /\ w.st = "init"
      BY <3>1, <3>2 DEF Processes
    <3>4. Marks(j, Run(j, s, w), s, j.rproc[s].flags, "init")
      BY <2>10, <3>2, <3>3, RunMarks
    <3>5. j.rproc[s].flags = a \cup {"INITIALIZING"}
      BY <2>9 DEF Marks
    <3>6. Marks(k, Run(j, s, w), s, a \cup {"INITIALIZING"}, "init")
      BY <2>9, <3>4, <3>5, MarksTwice
    <3>7. j.rproc[s].ep = k.rproc[s].ep
      BY <2>9 DEF Marks, SameData, SameFields
    <3>8. [j EXCEPT !.world[k.rproc[s].ep].st = "init"] = Run(j, s, w)
      BY <3>1, <3>7 DEF Run
    <3> QED
      BY <2>11, <2>13, <3>6, <3>8 DEF Done
  <2> QED
    BY <2>12, <2>13
<1> QED
  BY <1>1, <1>2

-----------------------------------------------------------------------------
(* Nobody waits who did not wait before.                                   *)
Fewer(k, r) == \A c \in Callers : r.waiting[c] => k.waiting[c]

(* The answer to the caller that a slot keeps waiting.                     *)
Answers(k, r, s) ==
    /\ r \in States /\ \A t \in Slots \ {s} : r.rproc[t] = k.rproc[t]
    /\ SameData(k.rproc[s], r.rproc[s])
    /\ r.rproc[s].flags = k.rproc[s].flags \ {"LATEREPLY"}
    /\ r.ptr = k.ptr /\ r.upd = k.upd /\ r.world = k.world /\ r.ds = k.ds
    /\ r.crashed = k.crashed /\ Fewer(k, r)

(* late_reply is one of the two, and keeps the structure.                  *)
LEMMA LateReplyIs ==
    ASSUME NEW k \in States, Owing(k), NEW s \in Slots
    PROVE  /\ Answers(k, late_reply(k, s), s) /\ Owing(late_reply(k, s))
<1> DEFINE r == late_reply(k, s)
<1>0. k.rproc[s] \in Slot
  BY StateFields
<1>1. CASE Owes(k, s)
  <2>1. PICK c \in Callers : c = k.rproc[s].caller /\ k.waiting[c]
    BY <1>1 DEF Owing
  <2>2. PICK q : q = reply(k, c)
    OBVIOUS
  <2>3. q = [k EXCEPT !.waiting[c] = FALSE]
    BY <2>1, <2>2 DEF reply
  <2>4. /\ q \in States /\ q.rproc = k.rproc /\ q.ptr = k.ptr /\ q.upd = k.upd
        /\ q.world = k.world /\ q.ds = k.ds /\ q.crashed = k.crashed /\ q.stray = k.stray
        /\ q.waiting = [k.waiting EXCEPT ![c] = FALSE]
    BY <2>3 DEF States
  <2>5. PICK p : p = [q.rproc[s] EXCEPT !.flags = @ \ {"LATEREPLY"}]
    OBVIOUS
  <2>6. Turns(q, r, s, p)
    BY <1>1, <2>1, <2>2, <2>4, <2>5, UnsetIs DEF late_reply, Owes, Has
  <2>7. SameData(k.rproc[s], p) /\ p.flags = k.rproc[s].flags \ {"LATEREPLY"}
    BY <1>0, <2>4, <2>5 DEF Slot, SameData, SameFields
  <2>8. Answers(k, r, s)
    <3>1. k.waiting \in [Callers -> BOOLEAN] /\ r.waiting = [k.waiting EXCEPT ![c] = FALSE]
      BY <2>4, <2>6, StateFields DEF Turns, OnlyTable
    <3>2. Fewer(k, r)
      BY <3>1 DEF Fewer
    <3> QED
      BY <2>4, <2>6, <2>7, <3>2 DEF Answers, Turns, OnlyTable
  <2>9. Owing(r)
    <3>1. /\ r.stray = k.stray /\ r.waiting = [k.waiting EXCEPT ![c] = FALSE]
          /\ k.waiting \in [Callers -> BOOLEAN]
      BY <2>4, <2>6, StateFields DEF Turns, OnlyTable
    <3>2. ~Owes(r, s)
      BY <2>8 DEF Answers, Owes
    <3>3. \A t \in Slots \ {s} : r.rproc[t] = k.rproc[t] /\ (Owes(r, t) <=> Owes(k, t))
      BY <2>8 DEF Answers, Owes
    <3>4. ASSUME NEW t \in Slots, Owes(r, t)
          PROVE  r.rproc[t].caller \in Callers /\ r.waiting[r.rproc[t].caller]
      <4>1. t # s /\ Owes(k, t) /\ r.rproc[t] = k.rproc[t]
        BY <3>2, <3>3, <3>4
      <4>2. k.rproc[t].caller \in Callers /\ k.waiting[k.rproc[t].caller]
            /\ k.rproc[t].caller # c
        BY <1>1, <2>1, <4>1 DEF Owing
      <4> QED
        BY <3>1, <4>1, <4>2
    <3>5. ASSUME NEW d \in Callers, r.waiting[d]
          PROVE  \E t \in Slots : Owes(r, t) /\ r.rproc[t].caller = d
      <4>1. d # c /\ k.waiting[d]
        BY <3>1, <3>5
      <4>2. PICK t \in Slots : Owes(k, t) /\ k.rproc[t].caller = d
        BY <4>1 DEF Owing
      <4>3. t # s
        BY <2>1, <4>1, <4>2
      <4> QED
        BY <3>3, <4>2, <4>3
    <3>6. \A t, u \in Slots :
             Owes(r, t) /\ Owes(r, u) /\ r.rproc[t].caller = r.rproc[u].caller => t = u
      BY <3>2, <3>3 DEF Owing
    <3> QED
      BY <3>1, <3>4, <3>5, <3>6 DEF Owing
  <2> QED
    BY <2>8, <2>9
<1>2. CASE ~Owes(k, s)
  <2>1. r = k
    BY <1>2 DEF late_reply, Owes, Has
  <2>2. k.rproc[s].flags = k.rproc[s].flags \ {"LATEREPLY"}
    BY <1>2 DEF Owes
  <2>3. Answers(k, k, s)
    BY <2>2, SameSelf DEF Answers, Fewer
  <2> QED
    BY <2>1, <2>3
<1> QED
  BY <1>1, <1>2

LEMMA LateReplyGood ==
    ASSUME NEW k, NEW D, Good(k, D), NEW s \in Slots
    PROVE  Good(late_reply(k, s), D) /\ Answers(k, late_reply(k, s), s)
<1>1. PICK r : r = late_reply(k, s)
  OBVIOUS
<1>2. Answers(k, r, s) /\ Owing(r)
  BY <1>1, LateReplyIs DEF Good
<1>3. \A t \in Slots : /\ SameFields(k.rproc[t], r.rproc[t])
                       /\ r.rproc[t].flags \subseteq k.rproc[t].flags
                       /\ Used(r, t) <=> Used(k, t)
                       /\ Main(r, t) <=> Main(k, t)
  BY <1>2, SameSelf DEF Answers, SameData, Used, Main
<1>4. \A t \in Slots : ~Used(k, t) => r.rproc[t].flags = {}
  <2> SUFFICES ASSUME NEW t \in Slots, ~Used(k, t) PROVE r.rproc[t].flags = {}
    OBVIOUS
  <2>1. k.rproc[t].flags = {}
    BY DEF Good, Owned
  <2> QED
    BY <1>3, <2>1
<1>5. Steady(k, r)
  BY <1>2, <1>3, <1>4 DEF Steady, Answers
<1> QED
  BY <1>1, <1>2, <1>5, SteadyGood DEF Answers

(* The answer to a blocked service.                                        *)
LEMMA ReplyMarks ==
    ASSUME NEW k, NEW D, Good(k, D), NEW s \in Slots, Used(k, s)
    PROVE  Marks(k, ReplyService(k, s), s, k.rproc[s].flags,
                 IF St(k, s) = "blocked" THEN "run" ELSE St(k, s))
<1>0. k \in States /\ Owned(k)
  BY DEF Good
<1>1. CASE St(k, s) = "blocked"
  <2>1. PICK w : w = [k.world[k.rproc[s].ep] EXCEPT !.st = "run"]
    OBVIOUS
  <2>2. k.world[k.rproc[s].ep] \in Processes
    BY <1>0, OwnEp
  <2>3. w \in Processes /\ w.st = "run"
    BY <2>1, <2>2 DEF Processes
  <2>4. ReplyService(k, s) = Run(k, s, w)
    BY <1>1, <2>1 DEF ReplyService, Run, St
  <2>5. Marks(k, Run(k, s, w), s, k.rproc[s].flags, "run")
    BY <1>0, <2>3, RunMarks
  <2> QED
    BY <1>1, <2>4, <2>5
<1>2. CASE St(k, s) # "blocked"
  <2>1. ReplyService(k, s) = k
    BY <1>2 DEF ReplyService, St
  <2>2. Others(k, k, {s}) /\ SameBits(k.rproc[s], k.rproc[s])
    BY DEF Others, SameBits
  <2>3. Marks(k, k, s, k.rproc[s].flags, St(k, s))
    BY <1>0, <2>2, SameSelf DEF Marks, Quietly
  <2> QED
    BY <1>2, <2>1, <2>3
<1> QED
  BY <1>1, <1>2

-----------------------------------------------------------------------------
(* The end of an instance.                                                 *)
LEMMA FreeIs ==
    ASSUME NEW k \in States, Owned(k), Owing(k), NEW s \in Slots, Used(k, s)
    PROVE  LET r == cleanup_service(k, s)
               e == k.rproc[s].ep
           IN  /\ r \in States /\ Owing(r) /\ r.rproc[s].flags = {}
               /\ \A t \in Slots \ {s} : r.rproc[t] = k.rproc[t]
               /\ r.world[e].st = "free" /\ r.ptr[e] = NULL
               /\ \A d \in Endpoints \ {e} : r.world[d] = k.world[d] /\ r.ptr[d] = k.ptr[d]
               /\ r.upd = k.upd /\ r.ds = k.ds /\ r.crashed = k.crashed /\ Fewer(k, r)
<1>1. PICK e \in Endpoints : e = k.rproc[s].ep /\ e = k.rproc[s].pid
  BY OwnEp
<1>2. e # NULL
  BY Constants
<1>3. PICK q : q = [k EXCEPT !.world[e] = Process("free")]
  OBVIOUS
<1>4. Process("free") \in Processes /\ Process("free").st = "free"
  BY DEF Process, Processes
<1>5. /\ q \in States /\ q.rproc = k.rproc /\ q.ptr = k.ptr /\ q.upd = k.upd
      /\ q.ds = k.ds /\ q.crashed = k.crashed /\ q.stray = k.stray /\ q.waiting = k.waiting
      /\ q.world = [k.world EXCEPT ![e] = Process("free")]
  BY <1>3, <1>4 DEF States
<1>6. Owing(q)
  BY <1>5 DEF Owing, Owes
<1>7. PICK p : p = late_reply(q, s)
  OBVIOUS
<1>8. Answers(q, p, s) /\ Owing(p) /\ p \in States
  BY <1>5, <1>6, <1>7, LateReplyIs DEF Answers
<1>9. p.rproc[s].ep = e
  BY <1>1, <1>5, <1>8 DEF Answers, SameData, SameFields
<1>10. PICK r : r = cleanup_service(k, s)
  OBVIOUS
<1>11. r = [p EXCEPT !.rproc[s].flags = {}, !.rproc[s].pid = NULL,
                     !.ptr = [x \in Endpoints |-> IF x = e THEN NULL ELSE p.ptr[x]]]
  <2>1. r = free_slot(q, s)
    BY <1>1, <1>2, <1>3, <1>10 DEF cleanup_service
  <2>2. q.rproc[s].ep = e
    BY <1>1, <1>5
  <2> QED
    BY <1>7, <2>1, <2>2 DEF free_slot
<1>12. PICK u : u = [p.rproc[s] EXCEPT !.flags = {}, !.pid = NULL]
  OBVIOUS
<1>13. p.rproc \in [Slots -> Slot] /\ p.rproc[s] \in Slot
       /\ p.ptr \in [Endpoints -> Slots \cup {NULL}]
  BY <1>8, StateFields
<1>14. u \in Slot /\ u.flags = {}
  BY <1>12, <1>13 DEF Slot
<1>15. r = [p EXCEPT !.rproc = [p.rproc EXCEPT ![s] = u],
                     !.ptr = [x \in Endpoints |-> IF x = e THEN NULL ELSE p.ptr[x]]]
  BY <1>8, <1>11, <1>12, <1>13 DEF States
<1>16. /\ r \in States /\ r.rproc = [p.rproc EXCEPT ![s] = u]
       /\ r.ptr = [x \in Endpoints |-> IF x = e THEN NULL ELSE p.ptr[x]]
       /\ r.upd = p.upd /\ r.ds = p.ds /\ r.crashed = p.crashed /\ r.world = p.world
       /\ r.stray = p.stray /\ r.waiting = p.waiting
  <2>1. [p.rproc EXCEPT ![s] = u] \in [Slots -> Slot]
    BY <1>13, <1>14
  <2>2. [x \in Endpoints |-> IF x = e THEN NULL ELSE p.ptr[x]] \in [Endpoints -> Slots \cup {NULL}]
    BY <1>13
  <2> QED
    BY <1>8, <1>15, <2>1, <2>2 DEF States
<1>17. r.rproc[s] = u /\ \A t \in Slots \ {s} : r.rproc[t] = k.rproc[t] /\ r.rproc[t] = p.rproc[t]
  BY <1>5, <1>8, <1>13, <1>16 DEF Answers
<1>18. Owing(r)
  <2>1. ~Owes(p, s) /\ ~Owes(r, s)
    BY <1>8, <1>14, <1>17 DEF Answers, Owes
  <2>2. \A t \in Slots : Owes(r, t) => Owes(p, t) /\ r.rproc[t] = p.rproc[t]
    BY <1>17, <2>1 DEF Owes
  <2>3. \A t \in Slots : Owes(p, t) => Owes(r, t) /\ r.rproc[t] = p.rproc[t]
    BY <1>17, <2>1 DEF Owes
  <2> QED
    BY <1>8, <1>16, <2>2, <2>3 DEF Owing
<1>19. /\ r.world[e].st = "free" /\ r.ptr[e] = NULL
       /\ \A d \in Endpoints \ {e} : r.world[d] = k.world[d] /\ r.ptr[d] = k.ptr[d]
  <2>1. k.world \in [Endpoints -> Processes]
    BY StateFields
  <2>2. r.world = [k.world EXCEPT ![e] = Process("free")]
    BY <1>5, <1>8, <1>16 DEF Answers
  <2>3. p.ptr = k.ptr
    BY <1>5, <1>8 DEF Answers
  <2> QED
    BY <1>4, <1>16, <2>1, <2>2, <2>3
<1>20. r.upd = k.upd /\ r.ds = k.ds /\ r.crashed = k.crashed /\ Fewer(k, r)
  BY <1>5, <1>8, <1>16 DEF Answers, Fewer
<1> QED
  BY <1>1, <1>10, <1>14, <1>16, <1>17, <1>18, <1>19, <1>20

(* A slot that is apart from the others can be cleaned up.                 *)
LEMMA CleanupGood ==
    ASSUME NEW k, NEW D, Good(k, D), NEW s \in Slots, s \in D, Used(k, s),
           ~Main(k, s) \/ k.ds[k.rproc[s].label] = NULL
    PROVE  LET r == cleanup_service(k, s)
           IN  /\ Good(r, D) /\ ~Used(r, s) /\ Others(k, r, {s}) /\ Fewer(k, r)
               /\ r.upd = k.upd /\ r.ds = k.ds
<1>0. k \in States /\ Owned(k) /\ Owing(k) /\ Shape(k, D) /\ Published(k)
      /\ Updating(k, D) /\ ~k.crashed
  BY DEF Good
<1>1. PICK e \in Endpoints : e = k.rproc[s].ep
  BY <1>0, OwnEp
<1>2. PICK r : r = cleanup_service(k, s)
  OBVIOUS
<1>3. /\ r \in States /\ Owing(r) /\ r.rproc[s].flags = {}
      /\ \A t \in Slots \ {s} : r.rproc[t] = k.rproc[t]
      /\ r.world[e].st = "free" /\ r.ptr[e] = NULL
      /\ \A d \in Endpoints \ {e} : r.world[d] = k.world[d] /\ r.ptr[d] = k.ptr[d]
      /\ r.upd = k.upd /\ r.ds = k.ds /\ r.crashed = k.crashed /\ Fewer(k, r)
  BY <1>0, <1>1, <1>2, FreeIs
<1>4. ~Used(r, s) /\ ~Main(r, s)
  BY <1>3 DEF Used, Main
<1>5. \A t \in Slots : Used(r, t) => t # s /\ Used(k, t) /\ r.rproc[t] = k.rproc[t]
  BY <1>3, <1>4 DEF Used
<1>6. \A t \in Slots \ {s} : Used(k, t) => Used(r, t) /\ k.rproc[t].ep \in Endpoints \ {e}
  BY <1>0, <1>1, <1>3, EpApart DEF Used, Owned
<1>7. Others(k, r, {s})
  BY <1>3, <1>6 DEF Others
<1>8. Owned(r)
  <2>1. ASSUME NEW t \in Slots, Used(r, t)
        PROVE  /\ r.rproc[t].ep \in Endpoints /\ r.rproc[t].pid = r.rproc[t].ep
               /\ r.ptr[r.rproc[t].ep] = t /\ r.rproc[t].label \in Labels
    <3>1. t # s /\ Used(k, t) /\ r.rproc[t] = k.rproc[t] /\ k.rproc[t].ep \in Endpoints \ {e}
      BY <1>5, <1>6, <2>1
    <3> QED
      BY <1>0, <1>3, <3>1 DEF Owned
  <2>2. ASSUME NEW t \in Slots, ~Used(r, t) PROVE r.rproc[t].flags = {}
    BY <1>0, <1>3, <2>2 DEF Owned, Used
  <2>3. ASSUME NEW d \in Endpoints, r.ptr[d] # NULL
        PROVE  Used(r, r.ptr[d]) /\ r.rproc[r.ptr[d]].ep = d
    <3>1. d # e /\ r.ptr[d] = k.ptr[d]
      BY <1>3, <2>3
    <3>2. k.ptr[d] \in Slots /\ Used(k, k.ptr[d]) /\ k.rproc[k.ptr[d]].ep = d
      BY <1>0, <2>3, <3>1, StateFields DEF Owned
    <3>3. k.ptr[d] # s
      BY <1>1, <3>1, <3>2
    <3> QED
      BY <1>3, <1>6, <3>1, <3>2, <3>3
  <2>4. \A d \in Endpoints : r.world[d].st # "free" <=> r.ptr[d] # NULL
    BY <1>0, <1>3 DEF Owned
  <2> QED
    BY <2>1, <2>2, <2>3, <2>4 DEF Owned
<1>9. Shape(r, D)
  <2> SUFFICES ASSUME NEW t \in Slots \ D, Used(r, t)
               PROVE  \/ Alone(r.rproc[t]) /\ Main(r, t)
                      \/ \E x \in Slots \ D : Couple(r, t, x)
    BY DEF Shape
  <2>1. Used(k, t) /\ r.rproc[t] = k.rproc[t]
    BY <1>5
  <2>2. ASSUME NEW x \in Slots \ D, Couple(k, t, x) PROVE Couple(r, t, x)
    <3>1. r.rproc[x] = k.rproc[x] /\ Used(r, x)
      BY <1>3, <1>6, <2>2 DEF Couple
    <3> QED
      BY <2>1, <2>2, <3>1 DEF Couple, Main
  <2> QED
    BY <1>0, <2>1, <2>2 DEF Shape, Main
<1>10. Published(r)
  <2>1. \A t \in Slots : Main(r, t) => Main(k, t) /\ r.rproc[t] = k.rproc[t]
    BY <1>3, <1>4 DEF Main
  <2>2. ASSUME NEW l \in Labels, r.ds[l] # NULL
        PROVE  \E t \in Slots : Main(r, t) /\ r.rproc[t].label = l /\ r.rproc[t].ep = r.ds[l]
    <3>1. PICK t \in Slots : Main(k, t) /\ k.rproc[t].label = l /\ k.rproc[t].ep = k.ds[l]
      BY <1>0, <1>3, <2>2 DEF Published
    <3>2. t # s
      BY <1>3, <2>2, <3>1
    <3> QED
      BY <1>3, <3>1, <3>2 DEF Main
  <2> QED
    BY <1>0, <2>1, <2>2 DEF Published
<1>11. Updating(r, D)
  BY <1>0, <1>3, <1>6 DEF Updating
<1> QED
  BY <1>0, <1>2, <1>3, <1>4, <1>7, <1>8, <1>9, <1>10, <1>11 DEF Good

(* The instances that get_service_instances finds, by shape.               *)
LEMMA CleanupAlone ==
    ASSUME NEW k, NEW s, Alone(k.rproc[s])
    PROVE  CleanupAll(k, s) = cleanup_service(k, s)
BY DEF Alone, Linking, CleanupAll, Cleanup

LEMMA CleanupCouple ==
    ASSUME NEW k, NEW s \in Slots, NEW x \in Slots, Couple(k, s, x)
    PROVE  CleanupAll(k, s) = cleanup_service(cleanup_service(k, s), x)
BY Constants DEF Couple, Tied, Linking, CleanupAll, Cleanup

-----------------------------------------------------------------------------
(* A new process.                                                          *)
(*                                                                         *)
(* The conditions under which all of this holds.  None of them can be left *)
(* out: a failed fork makes free_slot clear the pointer of another         *)
(* service, and a service that has terminated with a replica (from CLONE,  *)
(* an option, or an exchange that failed) leaves it behind when it is      *)
(* stopped.  Rough names what else RS does not survive.                    *)
Plain ==
    /\ Rough = {} /\ "CLONE" \notin Requests
    /\ \A opt \in Options : ~opt.repl
    /\ \A f \in Failures : "fork" \notin f /\ "swap" \notin f
    /\ Cardinality(Slots) <= Cardinality(Endpoints)

(* With a slot free, and enough processes, one of those is free, too.      *)
LEMMA Room ==
    ASSUME Plain, NEW k \in States, Owned(k), NEW s \in Slots, ~Used(k, s)
    PROVE  FreeProcesses(k) # {}
<1> SUFFICES ASSUME \A e \in Endpoints : k.world[e].st # "free" PROVE FALSE
  BY DEF FreeProcesses
<1>1. \A e \in Endpoints : k.ptr[e] # NULL
  BY DEF Owned
<1>2. k.ptr \in [Endpoints -> Slots \ {s}]
  <2>1. ASSUME NEW e \in Endpoints PROVE k.ptr[e] \in Slots \ {s}
    <3>1. Used(k, k.ptr[e]) /\ k.ptr[e] \in Slots
      BY <1>1, StateFields DEF Owned
    <3> QED
      BY <3>1
  <2> QED
    BY <2>1, StateFields
<1>3. IsFiniteSet(Slots \ {s}) /\ Cardinality(Slots \ {s}) = Cardinality(Slots) - 1
  BY Constants, FS_RemoveElement
<1>4. Cardinality(Slots) \in Nat /\ Cardinality(Endpoints) \in Nat
  BY Constants, FS_CardinalityType
<1>5. Cardinality(Slots \ {s}) < Cardinality(Endpoints)
  BY <1>3, <1>4 DEF Plain
<1>6. PICK f \in [Endpoints -> Slots \ {s}] : f = k.ptr
  BY <1>2
<1>7. IsFiniteSet(Endpoints) /\ IsFiniteSet(Slots \ {s})
  BY <1>3, Constants
<1>8. \E x, y \in Endpoints : x # y /\ f[x] = f[y]
  BY <1>5, <1>7, FS_PigeonHole
<1> QED
  BY <1>1, <1>6, <1>8 DEF Owned

(* srv_fork finds a free process.                                          *)
LEMMA ForkFree ==
    ASSUME NEW k, FreeProcesses(k) # {}, NEW n \in Next_child
    PROVE  srv_fork(k, n) \in FreeProcesses(k)
<1> DEFINE free == FreeProcesses(k)
<1>0. free \in SUBSET Endpoints
  BY DEF FreeProcesses
<1> HIDE DEF free
<1>1. free \in SUBSET Nat /\ {e \in free : e >= n} \in SUBSET Nat
  BY <1>0, Constants
<1>2. CASE {e \in free : e >= n} = {}
  BY <1>1, <1>2, MinIn DEF srv_fork, free
<1>3. CASE {e \in free : e >= n} # {}
  BY <1>1, <1>3, MinIn DEF srv_fork, free
<1> QED
  BY <1>2, <1>3

(* k is k0 but for what the free slot s holds, and for links.              *)
Near(k0, k, s) ==
    /\ k \in States /\ OnlyTable(k0, k)
    /\ \A t \in Slots \ {s} :
          /\ k.rproc[t].flags = k0.rproc[t].flags /\ k.rproc[t].ep = k0.rproc[t].ep
          /\ k.rproc[t].pid = k0.rproc[t].pid /\ k.rproc[t].label = k0.rproc[t].label
          /\ k.rproc[t].caller = k0.rproc[t].caller

(* What Fork does.                                                         *)
Forked(k, r, s, e) ==
    /\ r \in States /\ \A t \in Slots \ {s} : r.rproc[t] = k.rproc[t]
    /\ LET a == k.rproc[s]
           b == r.rproc[s]
       IN  /\ b.flags = {"IN_USE"} /\ b.ep = e /\ b.pid = e /\ b.backoff = 0
           /\ b.label = a.label /\ b.caller = a.caller /\ b.opt = a.opt
           /\ b.prev = a.prev /\ b.next = a.next /\ b.old = a.old /\ b.new = a.new
    /\ r.ptr = [k.ptr EXCEPT ![e] = s] /\ r.world = [k.world EXCEPT ![e] = Process("held")]
    /\ r.upd = k.upd /\ r.ds = k.ds /\ r.waiting = k.waiting /\ r.stray = k.stray
    /\ r.crashed = k.crashed

LEMMA ForkIs ==
    ASSUME NEW k \in States, NEW s \in Slots, NEW e \in Endpoints
    PROVE  Forked(k, Fork(k, s, e), s, e)
<1>1. PICK r : r = Fork(k, s, e)
  OBVIOUS
<1>2. PICK q : q = [k.rproc[s] EXCEPT !.flags = {"IN_USE"}, !.ep = e, !.pid = e,
                       !.awaited = FALSE, !.stopping = FALSE, !.backoff = 0]
  OBVIOUS
<1>3. k.rproc \in [Slots -> Slot] /\ k.rproc[s] \in Slot
  BY StateFields
<1>4. r = [k EXCEPT !.rproc = [k.rproc EXCEPT ![s] = q], !.ptr = [k.ptr EXCEPT ![e] = s],
                    !.world = [k.world EXCEPT ![e] = Process("held")]]
  BY <1>1, <1>2, <1>3 DEF Fork, States
<1>5. /\ q \in Slot /\ q.flags = {"IN_USE"} /\ q.ep = e /\ q.pid = e /\ q.backoff = 0
      /\ q.label = k.rproc[s].label /\ q.caller = k.rproc[s].caller /\ q.opt = k.rproc[s].opt
      /\ q.prev = k.rproc[s].prev /\ q.next = k.rproc[s].next /\ q.old = k.rproc[s].old
      /\ q.new = k.rproc[s].new
  <2>1. {"IN_USE"} \in SUBSET Flags /\ 0 \in 0 .. MAX_BACKOFF
    BY Constants DEF Flags
  <2> QED
    BY <1>2, <1>3, <2>1 DEF Slot
<1>6. Process("held") \in Processes
  BY DEF Process, Processes
<1>7. /\ r \in States /\ r.rproc = [k.rproc EXCEPT ![s] = q]
      /\ r.ptr = [k.ptr EXCEPT ![e] = s] /\ r.world = [k.world EXCEPT ![e] = Process("held")]
      /\ r.upd = k.upd /\ r.ds = k.ds /\ r.waiting = k.waiting /\ r.stray = k.stray
      /\ r.crashed = k.crashed
  BY <1>4, <1>5, <1>6 DEF States
<1> QED
  BY <1>1, <1>3, <1>5, <1>7 DEF Forked

(* The new process belongs to the new slot, and to no other one.           *)
LEMMA ForkedOwned ==
    ASSUME NEW k0 \in States, Owned(k0), Owing(k0), NEW s \in Slots, ~Used(k0, s),
           NEW k, Near(k0, k, s), k.rproc[s].label \in Labels,
           NEW e \in Endpoints, k0.ptr[e] = NULL, NEW r, Forked(k, r, s, e)
    PROVE  Owned(r) /\ Owing(r)
<1>1. /\ r.rproc[s].ep = e /\ r.rproc[s].pid = e /\ r.rproc[s].flags = {"IN_USE"}
      /\ r.rproc[s].label \in Labels
  BY DEF Forked
<1>2. r.ptr = [k0.ptr EXCEPT ![e] = s] /\ k0.ptr \in [Endpoints -> Slots \cup {NULL}]
  BY StateFields DEF Forked, Near, OnlyTable
<1>3. r.world = [k0.world EXCEPT ![e] = Process("held")] /\ k0.world \in [Endpoints -> Processes]
  BY StateFields DEF Forked, Near, OnlyTable
<1>4. \A t \in Slots \ {s} :
         /\ r.rproc[t].flags = k0.rproc[t].flags /\ r.rproc[t].ep = k0.rproc[t].ep
         /\ r.rproc[t].pid = k0.rproc[t].pid /\ r.rproc[t].label = k0.rproc[t].label
         /\ r.rproc[t].caller = k0.rproc[t].caller
  BY DEF Forked, Near
<1>5. s # NULL /\ Process("held").st = "held"
  BY Constants DEF Process
<1>6. Owned(r)
  <2>1. ASSUME NEW t \in Slots, Used(r, t)
        PROVE  /\ r.rproc[t].ep \in Endpoints /\ r.rproc[t].pid = r.rproc[t].ep
               /\ r.ptr[r.rproc[t].ep] = t /\ r.rproc[t].label \in Labels
    <3>1. CASE t = s
      BY <1>1, <1>2, <3>1
    <3>2. CASE t # s
      <4>1. Used(k0, t)
        BY <1>4, <2>1, <3>2 DEF Used
      <4>2. /\ k0.rproc[t].ep \in Endpoints /\ k0.rproc[t].pid = k0.rproc[t].ep
            /\ k0.ptr[k0.rproc[t].ep] = t /\ k0.rproc[t].label \in Labels
        BY <4>1 DEF Owned
      <4>3. k0.rproc[t].ep # e
        BY <4>2, Constants
      <4> QED
        BY <1>2, <1>4, <3>2, <4>2, <4>3
    <3> QED
      BY <3>1, <3>2
  <2>2. ASSUME NEW t \in Slots, ~Used(r, t) PROVE r.rproc[t].flags = {}
    <3>1. t # s
      BY <1>1, <2>2 DEF Used
    <3> QED
      BY <1>4, <2>2, <3>1 DEF Used, Owned
  <2>3. ASSUME NEW d \in Endpoints, r.ptr[d] # NULL
        PROVE  Used(r, r.ptr[d]) /\ r.rproc[r.ptr[d]].ep = d
    <3>1. CASE d = e
      BY <1>1, <1>2, <3>1 DEF Used
    <3>2. CASE d # e
      <4>1. r.ptr[d] = k0.ptr[d] /\ k0.ptr[d] \in Slots
        BY <1>2, <2>3, <3>2
      <4>2. Used(k0, k0.ptr[d]) /\ k0.rproc[k0.ptr[d]].ep = d
        BY <2>3, <4>1 DEF Owned
      <4>3. k0.ptr[d] # s
        BY <4>2
      <4> QED
        BY <1>4, <4>1, <4>2, <4>3 DEF Used
    <3> QED
      BY <3>1, <3>2
  <2>4. \A d \in Endpoints : r.world[d].st # "free" <=> r.ptr[d] # NULL
    BY <1>2, <1>3, <1>5 DEF Owned
  <2> QED
    BY <2>1, <2>2, <2>3, <2>4 DEF Owned
<1>7. Owing(r)
  <2>1. r.stray = k0.stray /\ r.waiting = k0.waiting
    BY DEF Forked, Near, OnlyTable
  <2>2. ~Owes(r, s) /\ ~Owes(k0, s)
    BY <1>1 DEF Owes, Owned
  <2>3. \A t \in Slots : (Owes(r, t) <=> Owes(k0, t))
           /\ (Owes(r, t) => r.rproc[t].caller = k0.rproc[t].caller)
    BY <1>4, <2>2 DEF Owes
  <2> QED
    BY <2>1, <2>3 DEF Owing
<1> QED
  BY <1>6, <1>7

(* A process that did not get its program is gone again.                   *)
Unforked(k, r, s) ==
    /\ r \in States /\ \A t \in Slots \ {s} : r.rproc[t] = k.rproc[t]
    /\ r.rproc[s].flags = {} /\ r.ptr = k.ptr /\ Owing(r) /\ Fewer(k, r)
    /\ \A d \in Endpoints : k.ptr[d] # NULL => r.world[d] = k.world[d]
    /\ \A d \in Endpoints : r.world[d].st = "free" <=> k.world[d].st = "free"
    /\ r.upd = k.upd /\ r.ds = k.ds /\ r.crashed = k.crashed

(* What the calls to other servers bring, under Plain.                     *)
Outcome(out) == out.next \in Next_child /\ "fork" \notin out.fail /\ "swap" \notin out.fail

(* create_service makes a held process, or leaves the slot free.           *)
LEMMA CreateIs ==
    ASSUME Plain, NEW k0 \in States, Owned(k0), Owing(k0), NEW s \in Slots, ~Used(k0, s),
           NEW k, Near(k0, k, s), k.rproc[s].label \in Labels, NEW out, Outcome(out)
    PROVE  LET q == create_service(k, s, out)
           IN  \/ q.ok /\ \E e \in Endpoints : k0.ptr[e] = NULL /\ Forked(k, q.k, s, e)
               \/ ~q.ok /\ out.fail # {} /\ Unforked(k, q.k, s)
<1>0. k \in States /\ k.world = k0.world /\ k.ptr = k0.ptr
  BY DEF Near, OnlyTable
<1>1. FreeProcesses(k) = FreeProcesses(k0)
  BY <1>0 DEF FreeProcesses
<1>2. FreeProcesses(k) # {}
  BY <1>1, Room
<1>3. PICK e : e = srv_fork(k, out.next)
  OBVIOUS
<1>4. e \in FreeProcesses(k)
  BY <1>2, <1>3, ForkFree DEF Outcome
<1>5. e \in Endpoints /\ k.world[e].st = "free" /\ k0.ptr[e] = NULL
  <2>1. e \in Endpoints /\ k0.world[e].st = "free"
    BY <1>0, <1>4 DEF FreeProcesses
  <2> QED
    BY <1>0, <2>1 DEF Owned
<1>6. PICK r : r = Fork(k, s, e)
  OBVIOUS
<1>7. Forked(k, r, s, e) /\ r \in States
  <2>1. Forked(k, r, s, e)
    BY <1>0, <1>5, <1>6, ForkIs
  <2> QED
    BY <2>1 DEF Forked
<1>8. Owned(r) /\ Owing(r)
  BY <1>5, <1>7, ForkedOwned
<1>9. create_service(k, s, out) =
        IF "exec" \in out.fail THEN Done(cleanup_service(r, s), FALSE) ELSE Done(r, TRUE)
  BY <1>2, <1>3, <1>6 DEF create_service, Outcome
<1>10. CASE "exec" \in out.fail
  <2>1. PICK p : p = cleanup_service(r, s)
    OBVIOUS
  <2>2. Used(r, s) /\ r.rproc[s].ep = e
    BY <1>7 DEF Forked, Used
  <2>3. /\ p \in States /\ Owing(p) /\ p.rproc[s].flags = {}
        /\ \A t \in Slots \ {s} : p.rproc[t] = r.rproc[t]
        /\ p.world[e].st = "free" /\ p.ptr[e] = NULL
        /\ \A d \in Endpoints \ {e} : p.world[d] = r.world[d] /\ p.ptr[d] = r.ptr[d]
        /\ p.upd = r.upd /\ p.ds = r.ds /\ p.crashed = r.crashed /\ Fewer(r, p)
    BY <1>7, <1>8, <2>1, <2>2, FreeIs
  <2>4. /\ k.ptr \in [Endpoints -> Slots \cup {NULL}] /\ k.world \in [Endpoints -> Processes]
        /\ p.ptr \in [Endpoints -> Slots \cup {NULL}]
    BY <1>0, <2>3, StateFields
  <2>5. \A d \in Endpoints \ {e} : r.world[d] = k.world[d] /\ r.ptr[d] = k.ptr[d]
    BY <1>5, <1>7, <2>4 DEF Forked
  <2>6. \A d \in Endpoints : p.ptr[d] = k.ptr[d]
    BY <1>0, <1>5, <2>3, <2>5
  <2>7. p.ptr = k.ptr
    BY <2>4, <2>6
  <2>8. /\ \A d \in Endpoints : k.ptr[d] # NULL => p.world[d] = k.world[d]
        /\ \A d \in Endpoints : p.world[d].st = "free" <=> k.world[d].st = "free"
    BY <1>0, <1>5, <2>3, <2>5
  <2>9. Unforked(k, p, s)
    BY <1>7, <2>3, <2>7, <2>8 DEF Unforked, Forked, Fewer
  <2> QED
    BY <1>9, <1>10, <2>1, <2>9 DEF Done
<1>11. CASE "exec" \notin out.fail
  BY <1>5, <1>7, <1>9, <1>11 DEF Done
<1> QED
  BY <1>10, <1>11

-----------------------------------------------------------------------------
(* What holds of a slot between two steps of RS.                           *)
Settled(k, s) ==
    LET r == k.rproc[s]
    IN  /\ "ACTIVE" \in r.flags => r.next = NULL
        /\ "ACTIVE" \in r.flags /\ "TERMINATED" \in r.flags =>
              Alone(r) /\ "INITIALIZING" \notin r.flags
        /\ "ACTIVE" \in r.flags /\ r.prev # NULL =>
              "INITIALIZING" \in r.flags \/ "EXITING" \in r.flags
        /\ "ACTIVE" \in r.flags /\ r.old # NULL => "INITIALIZING" \in r.flags
        /\ ("ACTIVE" \in r.flags \/ r.new # NULL \/ r.old # NULL) /\ r.backoff > 0 =>
              "TERMINATED" \in r.flags
        /\ "UPDATING" \in r.flags <=> r.old # NULL \/ r.new # NULL
        /\ "UPDATING" \in r.flags => "EXITING" \notin r.flags /\ "REFRESHING" \notin r.flags
        /\ r.new # NULL => k.upd = s
        /\ "INITIALIZING" \in r.flags => "ACTIVE" \in r.flags /\ r.new = NULL
        /\ "TERMINATED" \in r.flags => r.old = NULL /\ St(k, s) = "dead"
        /\ St(k, s) \in {"init", "run", "prepare"} => "ACTIVE" \in r.flags
        /\ St(k, s) = "blocked" => "ACTIVE" \notin r.flags /\ r.new # NULL
        /\ ~r.opt.repl

(* The inductive invariant: the structure, and the marks of each slot.     *)
Inv(k) == Good(k, {}) /\ \A s \in Slots : Used(k, s) => Settled(k, s)

(* A step that touches the slots of X only needs them checked.             *)
LEMMA InvKept ==
    ASSUME NEW k, Inv(k), NEW r, Good(r, {}), NEW X, Others(k, r, X),
           r.upd = k.upd \/ k.upd \in X \cup {NULL},
           \A t \in Slots \cap X : Used(r, t) => Settled(r, t)
    PROVE  Inv(r)
<1> SUFFICES ASSUME NEW t \in Slots \ X, Used(r, t) PROVE Settled(r, t)
  BY DEF Inv
<1>1. r.rproc[t] = k.rproc[t] /\ Used(k, t) /\ St(r, t) = St(k, t)
  BY DEF Others, Used, St
<1>2. Settled(k, t)
  BY <1>1 DEF Inv
<1>3. ASSUME r.rproc[t].new # NULL PROVE r.upd = t
  <2>1. k.upd = t
    BY <1>1, <1>2, <1>3 DEF Settled
  <2> QED
    BY <2>1, Constants
<1> QED
  BY <1>1, <1>2, <1>3 DEF Settled

-----------------------------------------------------------------------------
(* Slots to be cleaned up, with those that hang on them.                   *)
LEMMA Coupled ==
    ASSUME NEW k, NEW D, Good(k, D), NEW s \in Slots \ D, Used(k, s), ~Alone(k.rproc[s])
    PROVE  \E x \in Slots \ D : Couple(k, s, x)
BY DEF Good, Shape

(* Couples are symmetric, and nobody is in two.                            *)
LEMMA CoupleBack ==
    ASSUME NEW k, NEW s, NEW x, Couple(k, s, x)
    PROVE  Couple(k, x, s)
BY DEF Couple, Tied

LEMMA OnePartner ==
    ASSUME NEW k, NEW s \in Slots, NEW x \in Slots, NEW y \in Slots,
           Couple(k, s, x), Couple(k, s, y)
    PROVE  y = x
BY Constants DEF Couple, Tied, Linking

LEMMA NotAlone ==
    ASSUME NEW k, NEW s \in Slots, NEW x \in Slots, Couple(k, s, x)
    PROVE  ~Alone(k.rproc[s]) /\ ~Alone(k.rproc[x])
BY Constants DEF Couple, Tied, Linking, Alone

(* A slot that hangs on nobody, or a couple, can be taken apart.           *)
LEMMA LeaveAlone ==
    ASSUME NEW k, Good(k, {}), NEW s \in Slots, Used(k, s) => Alone(k.rproc[s]), k.upd # s
    PROVE  Good(k, {s})
<1>1. Shape(k, {s})
  <2> SUFFICES ASSUME NEW t \in Slots \ {s}, Used(k, t)
               PROVE  \/ Alone(k.rproc[t]) /\ Main(k, t)
                      \/ \E x \in Slots \ {s} : Couple(k, t, x)
    BY DEF Shape
  <2>1. ASSUME NEW x \in Slots, Couple(k, t, x) PROVE x # s
    BY <2>1, NotAlone DEF Couple
  <2> QED
    BY <2>1 DEF Good, Shape
<1> QED
  BY <1>1 DEF Good, Updating

LEMMA LeaveCouple ==
    ASSUME NEW k, Good(k, {}), NEW s \in Slots, NEW x \in Slots, Couple(k, s, x),
           k.upd \notin {s, x}
    PROVE  Good(k, {s, x})
<1>1. Shape(k, {s, x})
  <2> SUFFICES ASSUME NEW t \in Slots \ {s, x}, Used(k, t)
               PROVE  \/ Alone(k.rproc[t]) /\ Main(k, t)
                      \/ \E y \in Slots \ {s, x} : Couple(k, t, y)
    BY DEF Shape
  <2>1. ASSUME NEW y \in Slots, Couple(k, t, y) PROVE y \notin {s, x}
    <3>1. Couple(k, y, t) /\ Couple(k, x, s)
      BY <2>1, CoupleBack
    <3> QED
      BY <3>1, OnePartner
  <2> QED
    BY <2>1 DEF Good, Shape
<1> QED
  BY <1>1 DEF Good, Updating

LEMMA Left ==
    ASSUME NEW k, NEW D, Good(k, D), \A s \in Slots \cap D : ~Used(k, s)
    PROVE  Good(k, {})
<1>1. Shape(k, {})
  <2> SUFFICES ASSUME NEW t \in Slots, Used(k, t)
               PROVE  \/ Alone(k.rproc[t]) /\ Main(k, t)
                      \/ \E x \in Slots : Couple(k, t, x)
    BY DEF Shape
  <2> QED
    BY DEF Good, Shape
<1> QED
  BY <1>1 DEF Good, Updating

(* Nobody starts to wait.                                                  *)
LEMMA FewerTwice ==
    ASSUME NEW k, NEW r, NEW q, Fewer(k, r), Fewer(r, q)
    PROVE  Fewer(k, q)
BY DEF Fewer

(* A step of a handler: it touches no slot outside X.                      *)
Moves(k, r, X) == Good(r, {}) /\ Others(k, r, X) /\ Fewer(k, r)

(* X is free afterwards.                                                   *)
Clears(k, r, X) ==
    /\ Moves(k, r, X) /\ \A t \in Slots \cap X : ~Used(r, t)
    /\ r.upd = k.upd /\ r.ds = k.ds

(* A service without an entry in DS is cleaned up with all its instances.  *)
LEMMA CleanupAllClears ==
    ASSUME NEW k, Good(k, {}), NEW s \in Slots, Used(k, s), k.ds[k.rproc[s].label] = NULL,
           NEW x \in Slots, (Alone(k.rproc[s]) /\ x = s) \/ Couple(k, s, x), k.upd \notin {s, x}
    PROVE  Clears(k, CleanupAll(k, s), {s, x})
<1>1. CASE Alone(k.rproc[s]) /\ x = s
  <2>1. Good(k, {s})
    BY <1>1, LeaveAlone
  <2>2. PICK r : r = cleanup_service(k, s)
    OBVIOUS
  <2>3. /\ Good(r, {s}) /\ ~Used(r, s) /\ Others(k, r, {s}) /\ Fewer(k, r)
        /\ r.upd = k.upd /\ r.ds = k.ds
    BY <2>1, <2>2, CleanupGood
  <2>4. Good(r, {})
    BY <2>3, Left
  <2>5. CleanupAll(k, s) = r
    BY <1>1, <2>2, CleanupAlone
  <2>6. {s, x} = {s}
    BY <1>1
  <2> QED
    BY <2>3, <2>4, <2>5, <2>6 DEF Clears, Moves
<1>2. CASE Couple(k, s, x)
  <2>1. Good(k, {s, x})
    BY <1>2, LeaveCouple
  <2>2. PICK r : r = cleanup_service(k, s)
    OBVIOUS
  <2>3. /\ Good(r, {s, x}) /\ ~Used(r, s) /\ Others(k, r, {s}) /\ Fewer(k, r)
        /\ r.upd = k.upd /\ r.ds = k.ds
    BY <2>1, <2>2, CleanupGood
  <2>4. Used(r, x) /\ r.rproc[x].label = k.rproc[s].label
    BY <1>2, <2>3 DEF Couple, Others, Used
  <2>5. PICK q : q = cleanup_service(r, x)
    OBVIOUS
  <2>6. /\ Good(q, {s, x}) /\ ~Used(q, x) /\ Others(r, q, {x}) /\ Fewer(r, q)
        /\ q.upd = r.upd /\ q.ds = r.ds
    BY <2>3, <2>4, <2>5, CleanupGood
  <2>7. ~Used(q, s)
    BY <1>2, <2>3, <2>6 DEF Couple, Others, Used
  <2>8. Good(q, {})
    BY <2>6, <2>7, Left
  <2>9. Others(k, q, {s, x}) /\ Fewer(k, q)
    BY <2>3, <2>6, OthersTwice, FewerTwice
  <2>10. CleanupAll(k, s) = q
    BY <1>2, <2>2, <2>5, CleanupCouple
  <2> QED
    BY <2>3, <2>6, <2>7, <2>8, <2>9, <2>10 DEF Clears, Moves
<1> QED
  BY <1>1, <1>2

-----------------------------------------------------------------------------
(* What DS is told.                                                        *)
Told(k, r) ==
    /\ Good(r, {}) /\ r.rproc = k.rproc /\ r.world = k.world /\ r.upd = k.upd
    /\ r.waiting = k.waiting

(* DS is told of an endpoint: by publish_service and unpublish_service.    *)
Tell(k, l, e) == [k EXCEPT !.ds[l] = e]

LEMMA TellIs ==
    ASSUME NEW k, Good(k, {}), NEW l \in Labels, NEW e \in Endpoints \cup {NULL},
           \/ e = NULL
           \/ \E s \in Slots : Main(k, s) /\ k.rproc[s].label = l /\ k.rproc[s].ep = e
    PROVE  Told(k, Tell(k, l, e)) /\ Tell(k, l, e).ds[l] = e
<1>1. k \in States /\ Owned(k) /\ Shape(k, {}) /\ Published(k) /\ Updating(k, {})
      /\ Owing(k) /\ ~k.crashed
  BY DEF Good
<1>2. PICK r : r = Tell(k, l, e)
  OBVIOUS
<1>3. /\ r \in States /\ r.rproc = k.rproc /\ r.world = k.world /\ r.upd = k.upd
      /\ r.waiting = k.waiting /\ r.ptr = k.ptr /\ r.stray = k.stray /\ r.crashed = k.crashed
      /\ r.ds = [k.ds EXCEPT ![l] = e]
  BY <1>1, <1>2 DEF Tell, States
<1>4. k.ds \in [Labels -> Endpoints \cup {NULL}]
  BY <1>1, StateFields
<1>5. \A t \in Slots : (Main(r, t) <=> Main(k, t)) /\ (Used(r, t) <=> Used(k, t))
                       /\ (Owes(r, t) <=> Owes(k, t))
  BY <1>3 DEF Main, Used, Owes
<1>6. Owned(r)
  <2>1. \A d \in Endpoints : k.ptr[d] # NULL => k.ptr[d] \in Slots
    BY <1>1, StateFields
  <2> QED
    BY <1>1, <1>3, <1>5, <2>1 DEF Owned
<1>7. Shape(r, {})
  BY <1>1, <1>3, <1>5 DEF Shape, Couple
<1>8. Published(r)
  <2>1. ASSUME NEW m \in Labels, r.ds[m] # NULL
        PROVE  \E t \in Slots : Main(r, t) /\ r.rproc[t].label = m /\ r.rproc[t].ep = r.ds[m]
    <3>1. CASE m = l
      BY <1>3, <1>4, <1>5, <2>1, <3>1
    <3>2. CASE m # l
      <4>1. r.ds[m] = k.ds[m]
        BY <1>3, <1>4, <3>2
      <4> QED
        BY <1>1, <1>3, <1>5, <2>1, <4>1 DEF Published
    <3> QED
      BY <3>1, <3>2
  <2> QED
    BY <1>1, <1>3, <1>5, <2>1 DEF Published
<1>9. Updating(r, {}) /\ Owing(r)
  BY <1>1, <1>3, <1>5 DEF Updating, Owing, Used
<1> QED
  BY <1>1, <1>2, <1>3, <1>4, <1>6, <1>7, <1>8, <1>9 DEF Told, Good

LEMMA UnpublishIs ==
    ASSUME NEW k, Good(k, {}), NEW s \in Slots, Used(k, s)
    PROVE  /\ Told(k, unpublish_service(k, s))
           /\ unpublish_service(k, s).ds[k.rproc[s].label] = NULL
<1>1. k.rproc[s].label \in Labels
  BY OwnEp DEF Good
<1>2. unpublish_service(k, s) = Tell(k, k.rproc[s].label, NULL)
  BY DEF unpublish_service, Tell
<1> QED
  BY <1>1, <1>2, TellIs

LEMMA PublishIs ==
    ASSUME NEW k, Good(k, {}), NEW s \in Slots, Main(k, s), NEW out
    PROVE  LET q == publish_service(k, s, out)
           IN  \/ q.ok /\ Told(k, q.k)
               \/ /\ ~q.ok
                  /\ \E r : Told(k, r) /\ Marks(r, q.k, s, k.rproc[s].flags \cup {"EXITING"}, St(k, s))
<1>1. Used(k, s) /\ k \in States
  BY MainUsed DEF Good
<1>2. k.rproc[s].label \in Labels /\ k.rproc[s].ep \in Endpoints
  BY <1>1, OwnEp DEF Good
<1>3. PICK r : r = Tell(k, k.rproc[s].label, k.rproc[s].ep)
  OBVIOUS
<1>4. Told(k, r)
  BY <1>2, <1>3, TellIs
<1>5. Told(k, k)
  BY DEF Told
<1>6. publish_service(k, s, out) =
        IF "ds" \in out.fail THEN Done(kill_service(k, s), FALSE)
        ELSE IF "map" \in out.fail THEN Done(kill_service(r, s), FALSE)
        ELSE Done(r, TRUE)
  BY <1>3 DEF publish_service, Tell
<1>7. Marks(k, kill_service(k, s), s, k.rproc[s].flags \cup {"EXITING"}, St(k, s))
  BY <1>1, KillMarks
<1>8. Marks(r, kill_service(r, s), s, k.rproc[s].flags \cup {"EXITING"}, St(k, s))
  <2>1. Good(r, {}) /\ Used(r, s) /\ r.rproc[s] = k.rproc[s] /\ St(r, s) = St(k, s)
    BY <1>1, <1>4 DEF Told, Used, St
  <2>2. Marks(r, kill_service(r, s), s, r.rproc[s].flags \cup {"EXITING"}, St(r, s))
    BY <2>1, KillMarks
  <2> QED
    BY <2>1, <2>2
<1>9. CASE "ds" \in out.fail
  BY <1>5, <1>6, <1>7, <1>9 DEF Done
<1>10. CASE "ds" \notin out.fail /\ "map" \in out.fail
  BY <1>4, <1>6, <1>8, <1>10 DEF Done
<1>11. CASE "ds" \notin out.fail /\ "map" \notin out.fail
  BY <1>4, <1>6, <1>11 DEF Done
<1> QED
  BY <1>9, <1>10, <1>11

-----------------------------------------------------------------------------
(* The start of a service.                                                 *)
LEMMA OthersForked ==
    ASSUME NEW k0 \in States, Owned(k0), NEW s \in Slots, ~Used(k0, s), NEW k, Near(k0, k, s),
           NEW X, \A t \in Slots \ X : k.rproc[t] = k0.rproc[t], s \in X,
           NEW e \in Endpoints, k0.ptr[e] = NULL, NEW r, Forked(k, r, s, e)
    PROVE  Others(k0, r, X) /\ r.world[e].st = "held"
           /\ \A t \in Slots : Used(k0, t) => r.world[k0.rproc[t].ep] = k0.world[k0.rproc[t].ep]
<1>1. k0.world \in [Endpoints -> Processes] /\ r.world = [k0.world EXCEPT ![e] = Process("held")]
  BY StateFields DEF Forked, Near, OnlyTable
<1>2. ASSUME NEW t \in Slots, Used(k0, t) PROVE k0.rproc[t].ep \in Endpoints \ {e}
  <2>1. k0.rproc[t].ep \in Endpoints /\ k0.ptr[k0.rproc[t].ep] = t
    BY <1>2 DEF Owned
  <2> QED
    BY <2>1, Constants
<1>3. \A t \in Slots : Used(k0, t) => r.world[k0.rproc[t].ep] = k0.world[k0.rproc[t].ep]
  BY <1>1, <1>2
<1>4. \A t \in Slots \ X : r.rproc[t] = k0.rproc[t]
  BY DEF Forked
<1>5. r.world[e].st = "held"
  BY <1>1 DEF Process
<1> QED
  BY <1>3, <1>4, <1>5 DEF Others

(* A new active instance joins the structure; or it could not be made.     *)
LEMMA Born ==
    ASSUME NEW k0, Good(k0, {}), NEW s \in Slots, ~Used(k0, s), NEW k, Near(k0, k, s),
           \A t \in Slots \ {s} : k.rproc[t] = k0.rproc[t],
           Alone(k.rproc[s]), k.rproc[s].label \in Labels,
           \A t \in Slots : Main(k0, t) => k0.rproc[t].label # k.rproc[s].label,
           NEW e \in Endpoints, k0.ptr[e] = NULL, NEW r, Forked(k, r, s, e)
    PROVE  LET q == activate_service(r, s, NULL)
           IN  /\ Moves(k0, q, {s}) /\ q.rproc[s].flags = {"IN_USE", "ACTIVE"}
               /\ Alone(q.rproc[s]) /\ q.rproc[s].backoff = 0 /\ q.rproc[s].opt = k.rproc[s].opt
               /\ St(q, s) = "held" /\ q.upd = k0.upd
<1>0. k0 \in States /\ Owned(k0) /\ Shape(k0, {}) /\ Published(k0) /\ Updating(k0, {})
      /\ Owing(k0) /\ ~k0.crashed
  BY DEF Good
<1>1. Owned(r) /\ Owing(r) /\ r \in States
  <2>1. r \in States
    BY DEF Forked
  <2>2. Owned(r) /\ Owing(r)
    BY <1>0, ForkedOwned
  <2> QED
    BY <2>1, <2>2
<1>2. PICK q : q = activate_service(r, s, NULL)
  OBVIOUS
<1>3. Turns(r, q, s, [r.rproc[s] EXCEPT !.flags = @ \cup {"ACTIVE"}])
  <2>1. {"ACTIVE"} \in SUBSET Flags
    BY DEF Flags
  <2> QED
    BY <1>1, <1>2, <2>1, SetIs DEF activate_service
<1>4. r.rproc[s] \in Slot
  BY <1>1, StateFields
<1>5. /\ q.rproc[s].flags = {"IN_USE", "ACTIVE"} /\ q.rproc[s].ep = e /\ q.rproc[s].pid = e
      /\ q.rproc[s].backoff = 0 /\ q.rproc[s].label = k.rproc[s].label
      /\ q.rproc[s].opt = k.rproc[s].opt /\ Alone(q.rproc[s])
  BY <1>3, <1>4 DEF Turns, Forked, Slot, Alone, Linking
<1>6. \A t \in Slots \ {s} : /\ q.rproc[t] = k0.rproc[t] /\ q.rproc[t] = r.rproc[t]
                             /\ (Used(q, t) <=> Used(k0, t)) /\ (Main(q, t) <=> Main(k0, t))
  BY <1>3 DEF Turns, Forked, Used, Main
<1>7. OnlyTable(r, q) /\ q \in States
  BY <1>3 DEF Turns
<1>8. q.upd = k0.upd /\ q.ds = k0.ds /\ q.crashed = k0.crashed /\ q.waiting = k0.waiting
  BY <1>7 DEF OnlyTable, Forked, Near
<1>9. Used(q, s) /\ Used(r, s) /\ Main(q, s) /\ ~Owes(q, s) /\ ~Owes(r, s)
  BY <1>5 DEF Used, Main, Owes, Forked
<1>10. Owned(q)
  <2>1. \A t \in Slots : q.rproc[t].ep = r.rproc[t].ep /\ q.rproc[t].pid = r.rproc[t].pid
           /\ q.rproc[t].label = r.rproc[t].label /\ (Used(q, t) <=> Used(r, t))
           /\ (~Used(q, t) => q.rproc[t].flags = r.rproc[t].flags)
    <3>1. q.rproc[s].ep = r.rproc[s].ep /\ q.rproc[s].pid = r.rproc[s].pid
           /\ q.rproc[s].label = r.rproc[s].label
      BY <1>5 DEF Forked
    <3> QED
      BY <1>6, <1>9, <3>1 DEF Used
  <2>2. \A d \in Endpoints : r.ptr[d] # NULL => r.ptr[d] \in Slots
    BY <1>1, StateFields
  <2> QED
    BY <1>1, <1>7, <2>1, <2>2 DEF Owned, OnlyTable
<1>11. Shape(q, {})
  <2>1. ASSUME NEW t \in Slots, Used(q, t), t # s
        PROVE  \/ Alone(q.rproc[t]) /\ Main(q, t)
               \/ \E x \in Slots : Couple(q, t, x)
    <3>1. Used(k0, t)
      BY <1>6, <2>1
    <3>2. ASSUME NEW x \in Slots, Couple(k0, t, x) PROVE Couple(q, t, x)
      <4>1. x # s /\ Used(k0, x)
        BY <3>2 DEF Couple
      <4> QED
        BY <1>6, <2>1, <3>2, <4>1 DEF Couple
    <3> QED
      BY <1>0, <1>6, <2>1, <3>1, <3>2 DEF Shape
  <2> QED
    BY <1>5, <1>9, <2>1 DEF Shape
<1>12. Published(q)
  <2>1. \A t, u \in Slots :
           Main(q, t) /\ Main(q, u) /\ q.rproc[t].label = q.rproc[u].label => t = u
    BY <1>0, <1>5, <1>6 DEF Published
  <2>2. ASSUME NEW m \in Labels, q.ds[m] # NULL
        PROVE  \E t \in Slots : Main(q, t) /\ q.rproc[t].label = m /\ q.rproc[t].ep = q.ds[m]
    <3>1. PICK t \in Slots : Main(k0, t) /\ k0.rproc[t].label = m /\ k0.rproc[t].ep = k0.ds[m]
      BY <1>0, <1>8, <2>2 DEF Published
    <3>2. t # s
      BY <1>0, <3>1, MainUsed
    <3> QED
      BY <1>6, <1>8, <3>1, <3>2
  <2> QED
    BY <2>1, <2>2 DEF Published
<1>13. Updating(q, {})
  <2>1. ASSUME q.upd # NULL
        PROVE  q.upd \in Slots /\ Used(q, q.upd) /\ q.rproc[q.upd].new # NULL
    <3>1. k0.upd \in Slots /\ Used(k0, k0.upd) /\ k0.rproc[k0.upd].new # NULL
      BY <1>0, <1>8, <2>1 DEF Updating
    <3>2. k0.upd # s
      BY <3>1
    <3> QED
      BY <1>6, <1>8, <3>1, <3>2
  <2> QED
    BY <2>1 DEF Updating
<1>14. Owing(q)
  <2>1. \A t \in Slots : (Owes(q, t) <=> Owes(r, t))
           /\ (Owes(q, t) => q.rproc[t] = r.rproc[t])
    BY <1>6, <1>9 DEF Owes
  <2> QED
    BY <1>1, <1>7, <2>1 DEF Owing, OnlyTable
<1>15. Good(q, {})
  BY <1>0, <1>7, <1>8, <1>10, <1>11, <1>12, <1>13, <1>14 DEF Good
<1>16. Others(k0, q, {s}) /\ St(q, s) = "held"
  <2>1. Others(k0, r, {s}) /\ r.world[e].st = "held"
    BY <1>0, OthersForked
  <2> QED
    BY <1>5, <1>6, <1>7, <2>1 DEF Others, OnlyTable, St
<1>17. Fewer(k0, q)
  BY <1>8 DEF Fewer
<1> QED
  BY <1>2, <1>5, <1>8, <1>15, <1>16, <1>17 DEF Moves

LEMMA Stillborn ==
    ASSUME NEW k0, Good(k0, {}), NEW s \in Slots, ~Used(k0, s), NEW k, Near(k0, k, s),
           \A t \in Slots \ {s} : k.rproc[t] = k0.rproc[t],
           NEW r, Unforked(k, r, s)
    PROVE  Moves(k0, r, {s}) /\ ~Used(r, s) /\ r.upd = k0.upd
<1>0. k0 \in States /\ Owned(k0) /\ Shape(k0, {}) /\ Published(k0) /\ Updating(k0, {})
      /\ Owing(k0) /\ ~k0.crashed /\ k0.rproc[s].flags = {}
  BY DEF Good, Owned
<1>1. /\ r \in States /\ r.rproc[s].flags = {} /\ r.ptr = k0.ptr /\ Owing(r)
      /\ r.upd = k0.upd /\ r.ds = k0.ds /\ r.crashed = k0.crashed /\ Fewer(k0, r)
      /\ \A d \in Endpoints : k0.ptr[d] # NULL => r.world[d] = k0.world[d]
      /\ \A d \in Endpoints : r.world[d].st = "free" <=> k0.world[d].st = "free"
  BY DEF Unforked, Near, OnlyTable, Fewer
<1>2. \A t \in Slots \ {s} : r.rproc[t] = k0.rproc[t]
  BY DEF Unforked
<1>3. Steady(k0, r)
  <2>1. ~Used(r, s) /\ ~Used(k0, s)
    BY <1>1 DEF Used
  <2>2. \A t \in Slots \ {s} : (Used(r, t) <=> Used(k0, t)) /\ (Main(r, t) <=> Main(k0, t))
    BY <1>2 DEF Used, Main
  <2>3. \A t \in Slots : ~Used(k0, t) => r.rproc[t].flags = {}
    BY <1>0, <1>1, <1>2 DEF Owned
  <2> QED
    BY <1>1, <1>2, <2>1, <2>2, <2>3, SameSelf DEF Steady
<1>4. Good(r, {})
  BY <1>1, <1>3, SteadyGood
<1>5. Others(k0, r, {s})
  <2>1. ASSUME NEW t \in Slots, Used(k0, t)
        PROVE  r.world[k0.rproc[t].ep] = k0.world[k0.rproc[t].ep]
    <3>1. k0.rproc[t].ep \in Endpoints /\ k0.ptr[k0.rproc[t].ep] = t /\ t # NULL
      BY <1>0, <2>1, Constants DEF Owned
    <3> QED
      BY <1>1, <3>1
  <2> QED
    BY <1>2, <2>1 DEF Others
<1> QED
  BY <1>1, <1>4, <1>5 DEF Moves, Used

(* init_slot prepares a free slot.                                         *)
LEMMA InitSlotIs ==
    ASSUME NEW k \in States, NEW s \in Slots, NEW l \in Labels,
           NEW opt \in [script : BOOLEAN, repl : BOOLEAN, period : BOOLEAN]
    PROVE  LET r == init_slot(k, s, l, opt)
           IN  /\ Near(k, r, s) /\ \A t \in Slots \ {s} : r.rproc[t] = k.rproc[t]
               /\ Alone(r.rproc[s]) /\ r.rproc[s].label = l /\ r.rproc[s].opt = opt
               /\ r.rproc[s].flags = k.rproc[s].flags
<1>1. PICK q : q = [k.rproc[s] EXCEPT !.label = l, !.opt = opt, !.restarts = 0,
                       !.prev = NULL, !.next = NULL, !.old = NULL, !.new = NULL]
  OBVIOUS
<1>2. init_slot(k, s, l, opt) = Edit(k, s, q)
  BY <1>1 DEF init_slot, Edit
<1>3. k.rproc[s] \in Slot /\ 0 \in 0 .. MaxRestarts
  BY StateFields, Constants
<1>4. /\ q \in Slot /\ Alone(q) /\ q.label = l /\ q.opt = opt
      /\ q.flags = k.rproc[s].flags
  BY <1>1, <1>3 DEF Slot, Alone, Linking
<1>5. Turns(k, Edit(k, s, q), s, q)
  BY <1>4, Turned
<1> QED
  BY <1>2, <1>4, <1>5 DEF Turns, Near

(* An instance that has just been started.                                 *)
LEMMA SettledNew ==
    ASSUME NEW r, NEW s, Alone(r.rproc[s]), r.rproc[s].backoff = 0, ~r.rproc[s].opt.repl,
           {"ACTIVE"} \subseteq r.rproc[s].flags,
           r.rproc[s].flags \subseteq {"IN_USE", "ACTIVE", "INITIALIZING", "EXITING"},
           St(r, s) \in {"held", "init"}
    PROVE  Settled(r, s)
<1>1. \A f \in r.rproc[s].flags : f \in {"IN_USE", "ACTIVE", "INITIALIZING", "EXITING"}
  OBVIOUS
<1>2. "ACTIVE" \in r.rproc[s].flags /\ "TERMINATED" \notin r.rproc[s].flags
      /\ "UPDATING" \notin r.rproc[s].flags
  BY <1>1
<1>3. r.rproc[s].prev = NULL /\ r.rproc[s].next = NULL /\ r.rproc[s].old = NULL
      /\ r.rproc[s].new = NULL
  BY DEF Alone, Linking
<1> QED
  BY <1>2, <1>3 DEF Settled

(* Steps that move nothing but the slots of X, one after the other.        *)
LEMMA MarksMoves ==
    ASSUME NEW k, Good(k, {}), NEW s \in Slots, Used(k, s), NEW r, NEW f, NEW x,
           Marks(k, r, s, f, x)
    PROVE  Moves(k, r, {s}) /\ Used(r, s) /\ r.upd = k.upd
<1>1. Good(r, {}) /\ Used(r, s)
  BY QuietlyOwned DEF Marks
<1>2. Others(k, r, {s}) /\ r.waiting = k.waiting /\ r.upd = k.upd
  BY DEF Marks, Quietly
<1> QED
  BY <1>1, <1>2 DEF Moves, Fewer

LEMMA MovesTwice ==
    ASSUME NEW k, NEW r, NEW q, NEW X, NEW Y, NEW Z, X \subseteq Z, Y \subseteq Z,
           Moves(k, r, X), Moves(r, q, Y)
    PROVE  Moves(k, q, Z)
BY OthersTwice, FewerTwice DEF Moves

LEMMA ToldMoves ==
    ASSUME NEW k, NEW r, Told(k, r)
    PROVE  Moves(k, r, {}) /\ r.upd = k.upd
           /\ \A s \in Slots : St(r, s) = St(k, s) /\ (Used(r, s) <=> Used(k, s))
BY DEF Told, Moves, Others, Fewer, St, Used

(* A start keeps what holds between two steps.                             *)
Keeps(k, r) == Inv(r) /\ Fewer(k, r)

(* start_service keeps the invariant, and so does each function below.     *)
LEMMA StartKeeps ==
    ASSUME Plain, NEW k, Inv(k), NEW s \in Slots, ~Used(k, s), NEW l \in Labels,
           \A t \in Slots : Main(k, t) => k.rproc[t].label # l,
           NEW opt \in Options, NEW out, Outcome(out)
    PROVE  LET q == start_service(init_slot(k, s, l, opt), s, out)
           IN  Keeps(k, q.k) /\ (q.ok => Used(q.k, s) /\ ~Owes(q.k, s))
<1>0. Good(k, {}) /\ k \in States /\ Owned(k) /\ Owing(k)
  BY DEF Inv, Good
<1>1. PICK i : i = init_slot(k, s, l, opt)
  OBVIOUS
<1>2. opt \in [script : BOOLEAN, repl : BOOLEAN, period : BOOLEAN] /\ ~opt.repl
  BY RSAssumption DEF Plain
<1>3. /\ Near(k, i, s) /\ \A t \in Slots \ {s} : i.rproc[t] = k.rproc[t]
      /\ Alone(i.rproc[s]) /\ i.rproc[s].label = l /\ i.rproc[s].opt = opt
  BY <1>0, <1>1, <1>2, InitSlotIs
<1>4. PICK made : made = create_service(i, s, out)
  OBVIOUS
<1>5. \/ made.ok /\ \E e \in Endpoints : k.ptr[e] = NULL /\ Forked(i, made.k, s, e)
      \/ ~made.ok /\ Unforked(i, made.k, s)
  BY <1>0, <1>3, <1>4, CreateIs
<1>6. PICK q : q = start_service(i, s, out)
  OBVIOUS
<1>7. CASE ~made.ok
  <2>1. Moves(k, made.k, {s}) /\ ~Used(made.k, s) /\ made.k.upd = k.upd
    BY <1>0, <1>3, <1>5, <1>7, Stillborn
  <2>2. Inv(made.k)
    BY <2>1, InvKept DEF Moves
  <2>3. q = made
    BY <1>4, <1>6, <1>7 DEF start_service
  <2> QED
    BY <1>1, <1>6, <1>7, <2>1, <2>2, <2>3 DEF Keeps, Moves
<1>8. CASE made.ok
  <2>1. PICK e \in Endpoints : k.ptr[e] = NULL /\ Forked(i, made.k, s, e)
    BY <1>5, <1>8
  <2>2. PICK a : a = activate_service(made.k, s, NULL)
    OBVIOUS
  <2>3. /\ Moves(k, a, {s}) /\ a.rproc[s].flags = {"IN_USE", "ACTIVE"}
        /\ Alone(a.rproc[s]) /\ a.rproc[s].backoff = 0 /\ a.rproc[s].opt = opt
        /\ St(a, s) = "held" /\ a.upd = k.upd
    BY <1>0, <1>3, <2>1, <2>2, Born
  <2>4. Good(a, {}) /\ Main(a, s) /\ Used(a, s)
    BY <2>3 DEF Moves, Main, Used
  <2>5. PICK p : p = publish_service(a, s, out)
    OBVIOUS
  <2>6. \/ p.ok /\ Told(a, p.k)
        \/ ~p.ok /\ \E r : Told(a, r) /\ Marks(r, p.k, s, a.rproc[s].flags \cup {"EXITING"}, St(a, s))
    BY <2>4, <2>5, PublishIs
  <2>7. q = IF ~p.ok THEN p ELSE run_service(p.k, s, out)
    BY <1>4, <1>6, <1>8, <2>2, <2>5 DEF start_service
  (* What q.k is, after DS has been told in the state r.                    *)
  <2>8. ASSUME NEW r, Told(a, r), NEW f \in SUBSET {"INITIALIZING", "EXITING"},
               NEW x \in {"held", "init"}, Marks(r, q.k, s, {"IN_USE", "ACTIVE"} \cup f, x)
        PROVE  Keeps(k, q.k) /\ Used(q.k, s) /\ ~Owes(q.k, s)
    <3>1. Good(r, {}) /\ Used(r, s) /\ r.rproc[s] = a.rproc[s]
      BY <2>4, <2>8 DEF Told, Used
    <3>2. Moves(r, q.k, {s}) /\ Used(q.k, s) /\ q.k.upd = r.upd
      BY <2>8, <3>1, MarksMoves
    <3>3. Moves(a, r, {}) /\ r.upd = a.upd
      BY <2>8, ToldMoves
    <3>4. Moves(k, r, {s})
      BY <2>3, <3>3, MovesTwice
    <3>5. Moves(k, q.k, {s})
      BY <3>2, <3>4, MovesTwice
    <3>6. /\ q.k.rproc[s].flags = {"IN_USE", "ACTIVE"} \cup f /\ St(q.k, s) = x
          /\ SameData(a.rproc[s], q.k.rproc[s])
      BY <2>8, <3>1 DEF Marks
    <3>7. Alone(q.k.rproc[s]) /\ q.k.rproc[s].backoff = 0 /\ ~q.k.rproc[s].opt.repl
      BY <1>2, <2>3, <3>6 DEF SameData, SameFields, Alone, Linking
    <3>8. Settled(q.k, s)
      BY <3>6, <3>7, SettledNew
    <3>9. Inv(q.k)
      BY <2>3, <3>2, <3>3, <3>5, <3>8, InvKept DEF Moves
    <3> QED
      BY <3>2, <3>5, <3>6, <3>9 DEF Keeps, Moves, Owes
  <2>9. CASE ~p.ok
    <3>1. PICK r : Told(a, r) /\ Marks(r, q.k, s, {"IN_USE", "ACTIVE"} \cup {"EXITING"}, "held")
      BY <2>3, <2>6, <2>7, <2>9
    <3> QED
      BY <1>1, <1>6, <2>8, <3>1
  <2>10. CASE p.ok
    <3>1. Good(p.k, {}) /\ Used(p.k, s) /\ p.k.rproc[s] = a.rproc[s] /\ St(p.k, s) = "held"
      BY <2>3, <2>4, <2>6, <2>10 DEF Told, Used, St
    <3>2. q = run_service(p.k, s, out)
      BY <2>7, <2>10
    <3>3. \/ Marks(p.k, q.k, s, {"IN_USE", "ACTIVE"} \cup {"INITIALIZING"}, "init")
          \/ Marks(p.k, q.k, s, {"IN_USE", "ACTIVE"} \cup {"EXITING"}, "held")
          \/ Marks(p.k, q.k, s, {"IN_USE", "ACTIVE"} \cup {"INITIALIZING", "EXITING"}, "held")
      <4>1. LET f == p.k.rproc[s].flags
            IN  \/ Marks(p.k, q.k, s, f \cup {"INITIALIZING"}, "init")
                \/ Marks(p.k, q.k, s, f \cup {"EXITING"}, St(p.k, s))
                \/ Marks(p.k, q.k, s, f \cup {"INITIALIZING", "EXITING"}, St(p.k, s))
        BY <3>1, <3>2, RunService
      <4> QED
        BY <2>3, <3>1, <4>1
    <3> QED
      BY <1>1, <1>6, <2>6, <2>8, <2>10, <3>3
  <2> QED
    BY <2>9, <2>10
<1> QED
  BY <1>7, <1>8

-----------------------------------------------------------------------------
(* The end of a request.                                                   *)
LEMMA AnsweredIs ==
    ASSUME NEW k, NEW r, Keeps(k, r), NEW c \in Callers, ~k.waiting[c]
    PROVE  Inv([Answered(r).k EXCEPT !.waiting[c] = ~Answered(r).ok])
<1>1. r \in States /\ ~r.waiting[c]
  BY DEF Keeps, Inv, Good, Fewer
<1>2. r.waiting \in [Callers -> BOOLEAN]
  BY <1>1, StateFields
<1>3. [r.waiting EXCEPT ![c] = FALSE] = r.waiting
  BY <1>1, <1>2
<1>4. [r EXCEPT !.waiting[c] = FALSE] = r
  BY <1>1, <1>3 DEF States
<1>5. Answered(r).k = r /\ Answered(r).ok = TRUE
  BY DEF Answered, Done
<1> QED
  BY <1>4, <1>5 DEF Keeps

(* The answer comes later: the slot owes it.                               *)
Owed(k, s, c) ==
    [Set(k, s, {"LATEREPLY"}) EXCEPT !.rproc[s].caller = c, !.waiting[c] = TRUE]

LEMMA OwedIs ==
    ASSUME NEW k, Inv(k), NEW s \in Slots, Used(k, s), ~Owes(k, s),
           NEW c \in Callers, ~k.waiting[c]
    PROVE  Inv(Owed(k, s, c))
<1>0. Good(k, {}) /\ k \in States /\ k.rproc \in [Slots -> Slot]
      /\ k.waiting \in [Callers -> BOOLEAN] /\ Owing(k)
  BY StateFields DEF Inv, Good
<1>1. PICK p : p = Set(k, s, {"LATEREPLY"})
  OBVIOUS
<1>2. PICK r : r = Owed(k, s, c)
  OBVIOUS
<1>3. Turns(k, p, s, [k.rproc[s] EXCEPT !.flags = @ \cup {"LATEREPLY"}])
  <2>1. {"LATEREPLY"} \in SUBSET Flags
    BY DEF Flags
  <2> QED
    BY <1>0, <1>1, <2>1, SetIs
<1>4. PICK q : q = [p.rproc[s] EXCEPT !.caller = c]
  OBVIOUS
<1>5. p \in States /\ p.rproc[s] \in Slot /\ k.rproc[s] \in Slot
  BY <1>0, <1>3, StateFields DEF Turns
<1>6. /\ q \in Slot /\ q.flags = k.rproc[s].flags \cup {"LATEREPLY"} /\ q.caller = c
      /\ q.ep = k.rproc[s].ep /\ q.pid = k.rproc[s].pid /\ q.label = k.rproc[s].label
      /\ q.prev = k.rproc[s].prev /\ q.next = k.rproc[s].next /\ q.old = k.rproc[s].old
      /\ q.new = k.rproc[s].new /\ q.backoff = k.rproc[s].backoff /\ q.opt = k.rproc[s].opt
  BY <1>3, <1>4, <1>5 DEF Turns, Slot
<1>7. r = [p EXCEPT !.rproc = [p.rproc EXCEPT ![s] = q],
                    !.waiting = [p.waiting EXCEPT ![c] = TRUE]]
  BY <1>1, <1>2, <1>4, <1>5 DEF Owed, States
<1>8. /\ r \in States /\ r.rproc = [p.rproc EXCEPT ![s] = q]
      /\ r.waiting = [k.waiting EXCEPT ![c] = TRUE]
      /\ r.ptr = k.ptr /\ r.upd = k.upd /\ r.world = k.world /\ r.ds = k.ds
      /\ r.stray = k.stray /\ r.crashed = k.crashed
  <2>1. p.rproc \in [Slots -> Slot] /\ p.waiting \in [Callers -> BOOLEAN] /\ OnlyTable(k, p)
    BY <1>3, <1>5, StateFields DEF Turns
  <2>2. [p.rproc EXCEPT ![s] = q] \in [Slots -> Slot]
    BY <1>6, <2>1
  <2> QED
    BY <1>5, <1>7, <2>1, <2>2 DEF OnlyTable, States
<1>9. r.rproc[s] = q /\ \A t \in Slots \ {s} : r.rproc[t] = k.rproc[t]
  <2>1. p.rproc \in [Slots -> Slot]
    BY <1>5, StateFields
  <2> QED
    BY <1>3, <1>8, <2>1 DEF Turns
<1>10. \A t \in Slots : /\ Used(r, t) <=> Used(k, t)
                        /\ Main(r, t) <=> Main(k, t)
  BY <1>6, <1>9 DEF Used, Main
<1>11. Owing(r)
  <2>1. Owes(r, s) /\ r.rproc[s].caller = c
    BY <1>6, <1>9 DEF Owes
  <2>2. \A t \in Slots \ {s} : (Owes(r, t) <=> Owes(k, t)) /\ r.rproc[t] = k.rproc[t]
    BY <1>9 DEF Owes
  <2>3. \A t \in Slots \ {s} : Owes(r, t) => /\ r.rproc[t].caller \in Callers \ {c}
                                              /\ r.waiting[r.rproc[t].caller]
    BY <1>0, <1>8, <2>2 DEF Owing
  <2>4. \A d \in Callers \ {c} : r.waiting[d] <=> k.waiting[d]
    BY <1>0, <1>8
  <2>5. \A t \in Slots : Owes(r, t) =>
           r.rproc[t].caller \in Callers /\ r.waiting[r.rproc[t].caller]
    BY <1>0, <1>8, <2>1, <2>3
  <2>6. \A t, u \in Slots :
           Owes(r, t) /\ Owes(r, u) /\ r.rproc[t].caller = r.rproc[u].caller => t = u
    BY <1>0, <2>1, <2>2, <2>3 DEF Owing
  <2>7. ASSUME NEW d \in Callers, r.waiting[d]
        PROVE  \E t \in Slots : Owes(r, t) /\ r.rproc[t].caller = d
    <3>1. CASE d = c
      BY <2>1, <3>1
    <3>2. CASE d # c
      <4>1. PICK t \in Slots : Owes(k, t) /\ k.rproc[t].caller = d
        BY <1>0, <2>4, <2>7, <3>2 DEF Owing
      <4> QED
        BY <2>2, <4>1
    <3> QED
      BY <3>1, <3>2
  <2> QED
    BY <1>0, <1>8, <2>5, <2>6, <2>7 DEF Owing
<1>12. \A t \in Slots : LET a == k.rproc[t]
                            b == r.rproc[t]
                        IN  /\ b.ep = a.ep /\ b.pid = a.pid /\ b.label = a.label
                            /\ b.prev = a.prev /\ b.next = a.next /\ b.old = a.old /\ b.new = a.new
  BY <1>6, <1>9
<1>13. Owned(r)
  <2>1. \A t \in Slots : ~Used(r, t) => r.rproc[t] = k.rproc[t]
    BY <1>9, <1>10
  <2>2. \A e \in Endpoints : k.ptr[e] # NULL => k.ptr[e] \in Slots
    BY <1>0, StateFields
  <2>3. Owned(k)
    BY <1>0 DEF Good
  <2>4. \A t \in Slots : ~Used(r, t) => r.rproc[t].flags = {}
    BY <1>10, <2>1, <2>3 DEF Owned
  <2>5. \A t \in Slots : Used(r, t) =>
           /\ r.rproc[t].ep \in Endpoints /\ r.rproc[t].pid = r.rproc[t].ep
           /\ r.ptr[r.rproc[t].ep] = t /\ r.rproc[t].label \in Labels
    BY <1>8, <1>10, <1>12, <2>3 DEF Owned
  <2>6. \A e \in Endpoints : r.ptr[e] # NULL =>
           Used(r, r.ptr[e]) /\ r.rproc[r.ptr[e]].ep = e
    BY <1>8, <1>10, <1>12, <2>2, <2>3 DEF Owned
  <2>7. \A e \in Endpoints : r.world[e].st # "free" <=> r.ptr[e] # NULL
    BY <1>8, <2>3 DEF Owned
  <2> QED
    BY <2>4, <2>5, <2>6, <2>7 DEF Owned
<1>14. Shape(r, {})
  <2>1. ASSUME NEW t \in Slots, NEW x \in Slots, Couple(k, t, x) PROVE Couple(r, t, x)
    BY <1>10, <1>12, <2>1 DEF Couple, Tied, Linking
  <2>2. ASSUME NEW t \in Slots, Used(r, t)
        PROVE  \/ Alone(r.rproc[t]) /\ Main(r, t)
               \/ \E x \in Slots : Couple(r, t, x)
    <3>1. \/ Alone(k.rproc[t]) /\ Main(k, t)
          \/ \E x \in Slots : Couple(k, t, x)
      BY <1>0, <1>10, <2>2 DEF Good, Shape
    <3> QED
      BY <1>10, <1>12, <2>1, <3>1 DEF Alone, Linking
  <2> QED
    BY <2>2 DEF Shape
<1>15. Published(r)
  <2>1. Published(k)
    BY <1>0 DEF Good
  <2>2. \A t \in Slots : r.rproc[t].label = k.rproc[t].label /\ r.rproc[t].ep = k.rproc[t].ep
    BY <1>12
  <2> QED
    BY <1>8, <1>10, <2>1, <2>2 DEF Published
<1>16. Updating(r, {})
  BY <1>0, <1>8, <1>10, <1>12 DEF Good, Updating
<1>17. Good(r, {})
  BY <1>0, <1>8, <1>11, <1>13, <1>14, <1>15, <1>16 DEF Good
<1>18. Others(k, r, {s})
  BY <1>8, <1>9 DEF Others
<1>19. Settled(r, s)
  <2>1. Settled(k, s) /\ St(r, s) = St(k, s)
    BY <1>6, <1>8, <1>9 DEF Inv, St
  <2>2. \A f \in Flags \ {"LATEREPLY"} : f \in r.rproc[s].flags <=> f \in k.rproc[s].flags
    BY <1>6, <1>9
  <2>3. /\ \A f \in {"ACTIVE", "TERMINATED", "INITIALIZING", "EXITING", "UPDATING", "REFRESHING"} :
              f \in r.rproc[s].flags <=> f \in k.rproc[s].flags
        /\ r.rproc[s].backoff = k.rproc[s].backoff /\ r.rproc[s].opt = k.rproc[s].opt
    BY <1>6, <1>9, <2>2 DEF Flags
  <2> QED
    BY <1>8, <1>12, <2>1, <2>3 DEF Settled, Alone, Linking
<1> QED
  BY <1>2, <1>8, <1>17, <1>18, <1>19, InvKept

-----------------------------------------------------------------------------
(* Requests.                                                               *)
LEMMA BecomeIs ==
    ASSUME NEW k \in States, Become(k)
    PROVE  K' = k
BY DEF Become, K, States

(* Every outcome is one of Plain.                                          *)
LEMMA OutcomeOf ==
    ASSUME Plain, NEW out \in Outcomes
    PROVE  Outcome(out) /\ Tame(out) = [out EXCEPT !.fail = {}]
<1>1. out.fail \in Failures /\ out.next \in Next_child
  BY DEF Outcomes
<1> QED
  BY <1>1 DEF Plain, Outcome, Tame

(* alloc_slot finds a free slot, lookup_slot_by_label an active one.       *)
LEMMA AllocIs ==
    ASSUME NEW k
    PROVE  \/ alloc_slot(k) = NULL
           \/ alloc_slot(k) \in Slots /\ ~Used(k, alloc_slot(k))
<1> DEFINE free == {s \in Slots : ~Has(k, s, "IN_USE")}
<1>1. free \in SUBSET Nat
  BY Constants
<1>2. CASE free = {}
  BY <1>2 DEF alloc_slot
<1>3. CASE free # {}
  <2>1. Min(free) \in free
    BY <1>1, <1>3, MinIn
  <2>2. alloc_slot(k) = Min(free)
    BY <1>3 DEF alloc_slot
  <2> QED
    BY <2>1, <2>2 DEF Has, Used
<1> QED
  BY <1>2, <1>3

LEMMA LookupIs ==
    ASSUME NEW k, NEW l
    PROVE  LET s == lookup_slot_by_label(k, l)
           IN  \/ s = NULL /\ \A t \in Slots : Main(k, t) => k.rproc[t].label # l
               \/ s \in Slots /\ Main(k, s) /\ k.rproc[s].label = l
<1> DEFINE found == {s \in Slots : Has(k, s, "ACTIVE") /\ k.rproc[s].label = l}
<1>1. found \in SUBSET Nat
  BY Constants
<1>2. CASE found = {}
  BY <1>2 DEF lookup_slot_by_label, Has, Main
<1>3. CASE found # {}
  <2>1. Min(found) \in found
    BY <1>1, <1>3, MinIn
  <2>2. lookup_slot_by_label(k, l) = Min(found)
    BY <1>3 DEF lookup_slot_by_label
  <2> QED
    BY <2>1, <2>2 DEF Has, Main
<1> QED
  BY <1>2, <1>3

(* A handler that ends with Late.                                          *)
LEMMA LateIs ==
    ASSUME NEW k, Inv(k), NEW s \in Slots, Used(k, s), ~Owes(k, s),
           NEW c \in Callers, ~k.waiting[c]
    PROVE  Inv([Late(k, s, c).k EXCEPT !.waiting[c] = ~Late(k, s, c).ok])
<1>1. Late(k, s, c).ok = FALSE
      /\ Late(k, s, c).k = [Set(k, s, {"LATEREPLY"}) EXCEPT !.rproc[s].caller = c]
  BY DEF Late, Done
<1>2. PICK p : p = Set(k, s, {"LATEREPLY"})
  OBVIOUS
<1>3. [[p EXCEPT !.rproc[s].caller = c] EXCEPT !.waiting[c] = TRUE]
        = [p EXCEPT !.rproc[s].caller = c, !.waiting[c] = TRUE]
  OBVIOUS
<1>4. Inv(Owed(k, s, c))
  BY OwedIs
<1> QED
  BY <1>1, <1>2, <1>3, <1>4 DEF Owed

(* What a request turns the state into.                                    *)
LEMMA AskIs ==
    ASSUME NEW c \in Callers, NEW q, Inv([q.k EXCEPT !.waiting[c] = ~q.ok]),
           Become([q.k EXCEPT !.waiting[c] = ~q.ok])
    PROVE  Inv(K')
BY BecomeIs DEF Inv, Good

(* A request to start a service.                                           *)
LEMMA do_upKeeps ==
    ASSUME Plain, Inv(K), NEW c \in Callers, NEW l \in Labels, NEW opt \in Options,
           NEW noblock \in BOOLEAN, do_up(c, l, opt, noblock)
    PROVE  Inv(K')
<1>1. PICK s \in Slots : s = alloc_slot(K) /\ ~Used(K, s)
  BY AllocIs DEF do_up
<1>2. PICK i : i = init_slot(K, s, l, opt)
  OBVIOUS
<1>3. ~K.waiting[c]
  BY <1>1 DEF do_up, Ask, K
<1>4. PICK out \in Outcomes :
        LET q == IF lookup_slot_by_label(K, l) # NULL THEN Answered(i)
                 ELSE IF start_service(i, s, out).ok /\ ~noblock
                   THEN Late(start_service(i, s, out).k, s, c)
                 ELSE Answered(start_service(i, s, out).k)
        IN  Become([q.k EXCEPT !.waiting[c] = ~q.ok])
  BY <1>1, <1>2 DEF do_up, Ask
<1>5. Outcome(out)
  BY OutcomeOf
<1>6. CASE lookup_slot_by_label(K, l) # NULL
  <2>1. K \in States /\ opt \in [script : BOOLEAN, repl : BOOLEAN, period : BOOLEAN]
    BY RSAssumption DEF Inv, Good
  <2>2. /\ Near(K, i, s) /\ \A t \in Slots \ {s} : i.rproc[t] = K.rproc[t]
        /\ i.rproc[s].flags = K.rproc[s].flags
    BY <1>1, <1>2, <2>1, InitSlotIs
  <2>3. ~Used(i, s) /\ Good(K, {})
    BY <1>1, <2>2 DEF Used, Inv
  <2>4. Steady(K, i) /\ Others(K, i, {s}) /\ Owing(i)
    <3>1. \A t \in Slots \ {s} : i.rproc[t] = K.rproc[t] /\ (Used(i, t) <=> Used(K, t))
             /\ (Main(i, t) <=> Main(K, t)) /\ (Owes(i, t) <=> Owes(K, t))
      BY <2>2 DEF Used, Main, Owes
    <3>2. ~Owes(i, s) /\ ~Owes(K, s) /\ i.rproc[s].flags = {}
      BY <1>1, <2>2, <2>3 DEF Good, Owned, Owes
    <3>3. \A t \in Slots : ~Used(K, t) => i.rproc[t].flags = {}
      BY <2>2, <2>3, <3>2 DEF Good, Owned
    <3>4. Owing(i)
      BY <2>2, <2>3, <3>1, <3>2 DEF Good, Owing, Near, OnlyTable
    <3> QED
      BY <1>1, <2>2, <2>3, <3>1, <3>3, <3>4, SameSelf DEF Steady, Others, Near, OnlyTable
  <2>5. Good(i, {})
    BY <2>2, <2>3, <2>4, SteadyGood DEF Near
  <2>6. Keeps(K, i)
    <3>1. i.upd = K.upd /\ i.waiting = K.waiting
      BY <2>2 DEF Near, OnlyTable
    <3> QED
      BY <2>3, <2>4, <2>5, <3>1, InvKept DEF Keeps, Fewer
  <2> QED
    BY <1>3, <1>4, <1>6, <2>6, AnsweredIs, AskIs
<1>7. CASE lookup_slot_by_label(K, l) = NULL
  <2>1. PICK q : q = start_service(i, s, out)
    OBVIOUS
  <2>2. \A t \in Slots : Main(K, t) => K.rproc[t].label # l
    BY <1>7, LookupIs, Constants
  <2>3. Keeps(K, q.k) /\ (q.ok => Used(q.k, s) /\ ~Owes(q.k, s))
    BY <1>1, <1>2, <1>5, <2>1, <2>2, StartKeeps
  <2>4. CASE q.ok /\ ~noblock
    <3>1. ~q.k.waiting[c]
      BY <1>3, <2>3 DEF Keeps, Fewer
    <3>2. Inv([Late(q.k, s, c).k EXCEPT !.waiting[c] = ~Late(q.k, s, c).ok])
      BY <2>3, <2>4, <3>1, LateIs DEF Keeps
    <3> QED
      BY <1>4, <1>7, <2>1, <2>4, <3>2, AskIs
  <2>5. CASE ~(q.ok /\ ~noblock)
    BY <1>3, <1>4, <1>7, <2>1, <2>3, <2>5, AnsweredIs, AskIs
  <2> QED
    BY <2>4, <2>5
<1> QED
  BY <1>6, <1>7

-----------------------------------------------------------------------------
(* A second instance of a service.                                         *)
Fresh(k, n, opt) ==
    /\ k.rproc[n].flags = {"IN_USE"} /\ k.rproc[n].backoff = 0 /\ k.rproc[n].opt = opt
    /\ St(k, n) = "held"

(* k is k0 but that the free slot n waits for a process and hangs on s.    *)
Hung(k0, k, s, n) ==
    /\ n # s /\ ~Used(k0, n) /\ Near(k0, k, n)
    /\ \A t \in Slots \ {s, n} : k.rproc[t] = k0.rproc[t]
    /\ Tied(k.rproc[s], s, k.rproc[n], n) /\ k.rproc[n].label = k0.rproc[s].label

(* It joins the structure as the spare of s.                               *)
LEMMA HungGood ==
    ASSUME NEW k0, Good(k0, {}), NEW s \in Slots, Main(k0, s), Alone(k0.rproc[s]),
           NEW n \in Slots, NEW k, Hung(k0, k, s, n),
           NEW e \in Endpoints, k0.ptr[e] = NULL, NEW r, Forked(k, r, n, e)
    PROVE  /\ Moves(k0, r, {s, n}) /\ Couple(r, s, n) /\ r.rproc[s] = k.rproc[s]
           /\ Fresh(r, n, k.rproc[n].opt) /\ St(r, s) = St(k0, s) /\ r.upd = k0.upd
<1>0. k0 \in States /\ Owned(k0) /\ Shape(k0, {}) /\ Published(k0) /\ Updating(k0, {})
      /\ Owing(k0) /\ ~k0.crashed /\ Near(k0, k, n) /\ ~Used(k0, n) /\ n # s
  BY DEF Good, Hung
<1>1. Used(k0, s) /\ k.rproc[n].label \in Labels
  <2>1. Used(k0, s)
    BY <1>0, MainUsed
  <2> QED
    BY <1>0, <2>1 DEF Owned, Hung
<1>2. r \in States
  BY DEF Forked
<1>3. Owned(r) /\ Owing(r)
  BY <1>0, <1>1, ForkedOwned
<1>4. \A t \in Slots \ {n} : r.rproc[t] = k.rproc[t]
  BY DEF Forked
<1>5. \A t \in Slots \ {s, n} : r.rproc[t] = k0.rproc[t]
  BY <1>4 DEF Hung
<1>6. /\ r.rproc[n].flags = {"IN_USE"} /\ r.rproc[n].ep = e /\ r.rproc[n].backoff = 0
      /\ r.rproc[n].opt = k.rproc[n].opt /\ r.rproc[n].label = k0.rproc[s].label
      /\ Tied(r.rproc[s], s, r.rproc[n], n)
  <2>1. /\ r.rproc[n].flags = {"IN_USE"} /\ r.rproc[n].ep = e /\ r.rproc[n].backoff = 0
        /\ r.rproc[n].opt = k.rproc[n].opt /\ r.rproc[n].label = k.rproc[n].label
        /\ r.rproc[n].prev = k.rproc[n].prev /\ r.rproc[n].next = k.rproc[n].next
        /\ r.rproc[n].old = k.rproc[n].old /\ r.rproc[n].new = k.rproc[n].new
    BY DEF Forked
  <2> QED
    BY <1>0, <1>4, <2>1 DEF Hung, Tied, Linking
<1>7. /\ r.rproc[s].flags = k0.rproc[s].flags /\ r.rproc[s].ep = k0.rproc[s].ep
      /\ r.rproc[s].label = k0.rproc[s].label
  BY <1>0, <1>4 DEF Near
<1>8. r.upd = k0.upd /\ r.ds = k0.ds /\ r.crashed = k0.crashed /\ r.waiting = k0.waiting
  BY <1>0 DEF Forked, Near, OnlyTable
<1>9. /\ \A t \in Slots \ {n} : (Used(r, t) <=> Used(k0, t)) /\ (Main(r, t) <=> Main(k0, t))
                                /\ r.rproc[t].label = k0.rproc[t].label
                                /\ r.rproc[t].ep = k0.rproc[t].ep
      /\ Used(r, n) /\ ~Main(r, n) /\ ~Main(k0, n)
  <2>1. \A t \in Slots \ {n} : r.rproc[t].flags = k0.rproc[t].flags
                               /\ r.rproc[t].label = k0.rproc[t].label
                               /\ r.rproc[t].ep = k0.rproc[t].ep
    BY <1>5, <1>7
  <2>2. ~Main(k0, n)
    BY <1>0, MainUsed
  <2> QED
    BY <1>6, <2>1, <2>2 DEF Used, Main
<1>10. Couple(r, s, n)
  BY <1>0, <1>1, <1>6, <1>7, <1>9 DEF Couple
<1>11. Shape(r, {})
  <2>1. Couple(r, n, s)
    BY <1>10, CoupleBack
  <2>2. ASSUME NEW t \in Slots \ {s, n}, Used(r, t)
        PROVE  \/ Alone(r.rproc[t]) /\ Main(r, t)
               \/ \E x \in Slots : Couple(r, t, x)
    <3>1. Used(k0, t)
      BY <1>9, <2>2
    <3>2. ASSUME NEW x \in Slots, Couple(k0, t, x) PROVE Couple(r, t, x)
      <4>1. x # s /\ x # n
        BY <1>0, <3>2, NotAlone DEF Couple
      <4> QED
        BY <1>5, <1>9, <2>2, <3>2, <4>1 DEF Couple
    <3> QED
      BY <1>0, <1>5, <1>9, <2>2, <3>1, <3>2 DEF Shape
  <2> QED
    BY <1>10, <2>1, <2>2 DEF Shape
<1>12. Published(r)
  <2>1. ASSUME NEW m \in Labels, r.ds[m] # NULL
        PROVE  \E t \in Slots : Main(r, t) /\ r.rproc[t].label = m /\ r.rproc[t].ep = r.ds[m]
    <3>1. PICK t \in Slots : Main(k0, t) /\ k0.rproc[t].label = m /\ k0.rproc[t].ep = k0.ds[m]
      BY <1>0, <1>8, <2>1 DEF Published
    <3> QED
      BY <1>8, <1>9, <3>1
  <2> QED
    BY <1>0, <1>9, <2>1 DEF Published
<1>13. Updating(r, {})
  <2>1. ASSUME r.upd # NULL
        PROVE  r.upd \in Slots /\ Used(r, r.upd) /\ r.rproc[r.upd].new # NULL
    <3>1. k0.upd \in Slots /\ Used(k0, k0.upd) /\ k0.rproc[k0.upd].new # NULL
      BY <1>0, <1>8, <2>1 DEF Updating
    <3>2. k0.upd # s /\ k0.upd # n
      BY <1>0, <3>1 DEF Alone, Linking
    <3> QED
      BY <1>5, <1>8, <1>9, <3>1, <3>2
  <2> QED
    BY <2>1 DEF Updating
<1>14. Good(r, {})
  BY <1>0, <1>2, <1>3, <1>8, <1>11, <1>12, <1>13 DEF Good
<1>15. /\ Others(k0, r, {s, n}) /\ r.world[e].st = "held"
       /\ r.world[k0.rproc[s].ep] = k0.world[k0.rproc[s].ep]
  <2>1. PICK X : X = {s, n}
    OBVIOUS
  <2>2. n \in X /\ \A t \in Slots \ X : k.rproc[t] = k0.rproc[t]
    BY <2>1 DEF Hung
  <2>3. /\ Others(k0, r, X) /\ r.world[e].st = "held"
        /\ \A t \in Slots : Used(k0, t) => r.world[k0.rproc[t].ep] = k0.world[k0.rproc[t].ep]
    BY <1>0, <2>2, OthersForked
  <2> QED
    BY <1>1, <2>1, <2>3
<1>16. Fewer(k0, r)
  BY <1>8 DEF Fewer
<1> QED
  BY <1>4, <1>6, <1>7, <1>8, <1>10, <1>14, <1>15, <1>16, <1>0 DEF Moves, Fresh, St

(* The links of a replica.                                                 *)
Copied(k, s, lu, c) ==
    LET to == Link(clone_slot(k, s, c), s, lu, c)
    IN  IF lu THEN [to EXCEPT !.rproc[c].old = s] ELSE [to EXCEPT !.rproc[c].prev = s]

(* The copy that clone_service makes.                                      *)
LEMMA CopiedIs ==
    ASSUME NEW k, Good(k, {}), NEW s \in Slots, Alone(k.rproc[s]), NEW lu \in BOOLEAN,
           NEW c \in Slots, c # s, ~Used(k, c)
    PROVE  LET r == Copied(k, s, lu, c)
           IN  /\ Hung(k, r, s, c) /\ r.rproc[c].opt = k.rproc[s].opt
               /\ r.rproc[s] = IF lu THEN [k.rproc[s] EXCEPT !.new = c]
                                     ELSE [k.rproc[s] EXCEPT !.next = c]
<1>0. k \in States /\ k.rproc[s] \in Slot
  BY StateFields DEF Good
<1>1. PICK a : a = [k.rproc[s] EXCEPT !.flags = @ \ {"ACTIVE"}, !.pid = NULL, !.ep = NULL,
                       !.old = NULL, !.new = NULL, !.prev = NULL, !.next = NULL]
  OBVIOUS
<1>2. a \in Slot /\ Alone(a) /\ a.label = k.rproc[s].label /\ a.opt = k.rproc[s].opt
  BY <1>0, <1>1 DEF Slot, Alone, Linking
<1>3. PICK p : p = Edit(k, c, a)
  OBVIOUS
<1>4. Turns(k, p, c, a)
  BY <1>0, <1>2, <1>3, Turned
<1>5. p = clone_slot(k, s, c)
  BY <1>1, <1>3 DEF clone_slot, Edit
<1>6. p \in States /\ p.rproc[s] = k.rproc[s] /\ p.rproc[c] = a
  BY <1>4 DEF Turns
<1>7. PICK b : b = IF lu THEN [p.rproc[s] EXCEPT !.new = c] ELSE [p.rproc[s] EXCEPT !.next = c]
  OBVIOUS
<1>8. /\ b \in Slot /\ b.flags = k.rproc[s].flags /\ b.ep = k.rproc[s].ep
      /\ b.pid = k.rproc[s].pid /\ b.label = k.rproc[s].label /\ b.caller = k.rproc[s].caller
      /\ \/ lu /\ Linking(b, NULL, NULL, NULL, c)
         \/ ~lu /\ Linking(b, NULL, c, NULL, NULL)
  BY <1>0, <1>6, <1>7 DEF Slot, Alone, Linking
<1>9. PICK q : q = Edit(p, s, b)
  OBVIOUS
<1>10. Turns(p, q, s, b)
  BY <1>6, <1>8, <1>9, Turned
<1>11. q = Link(p, s, lu, c)
  BY <1>7, <1>9 DEF Link, Edit
<1>12. q \in States /\ q.rproc[s] = b /\ q.rproc[c] = a
  BY <1>6, <1>10 DEF Turns
<1>13. PICK d : d = IF lu THEN [q.rproc[c] EXCEPT !.old = s] ELSE [q.rproc[c] EXCEPT !.prev = s]
  OBVIOUS
<1>14. /\ d \in Slot /\ d.label = k.rproc[s].label /\ d.opt = k.rproc[s].opt
       /\ \/ lu /\ Linking(d, NULL, NULL, s, NULL)
          \/ ~lu /\ Linking(d, s, NULL, NULL, NULL)
  BY <1>2, <1>12, <1>13 DEF Slot, Alone, Linking
<1>15. PICK r : r = Edit(q, c, d)
  OBVIOUS
<1>16. Turns(q, r, c, d)
  BY <1>12, <1>14, <1>15, Turned
<1>17. r = Copied(k, s, lu, c)
  BY <1>5, <1>11, <1>13, <1>15 DEF Copied, Edit
<1>18. r \in States /\ r.rproc[s] = b /\ r.rproc[c] = d
  BY <1>12, <1>16 DEF Turns
<1>19. \A t \in Slots \ {s, c} : r.rproc[t] = k.rproc[t]
  BY <1>4, <1>10, <1>16 DEF Turns
<1>20. OnlyTable(k, r)
  BY <1>4, <1>10, <1>16 DEF Turns, OnlyTable
<1>21. Near(k, r, c)
  BY <1>8, <1>18, <1>19, <1>20 DEF Near
<1>22. Tied(b, s, d, c)
  BY <1>8, <1>14 DEF Tied
<1>23. Hung(k, r, s, c)
  BY <1>14, <1>18, <1>19, <1>21, <1>22 DEF Hung
<1> QED
  BY <1>6, <1>7, <1>14, <1>17, <1>18, <1>23

(* The replica could not be made, and s is as it was.                      *)
LEMMA HungFailed ==
    ASSUME NEW k0, Good(k0, {}), NEW s \in Slots, Alone(k0.rproc[s]), NEW lu \in BOOLEAN,
           NEW n \in Slots, NEW k, Hung(k0, k, s, n),
           k.rproc[s] = IF lu THEN [k0.rproc[s] EXCEPT !.new = n]
                              ELSE [k0.rproc[s] EXCEPT !.next = n],
           NEW r, Unforked(k, r, n)
    PROVE  LET q == Link(r, s, lu, NULL)
           IN  Moves(k0, q, {n}) /\ ~Used(q, n) /\ q.upd = k0.upd
<1>0. k0 \in States /\ k0.rproc[s] \in Slot /\ n # s /\ ~Used(k0, n) /\ Near(k0, k, n)
  BY StateFields DEF Good, Hung
<1>1. r \in States /\ r.rproc[s] = k.rproc[s]
  BY <1>0 DEF Unforked
<1>2. PICK b : b = IF lu THEN [r.rproc[s] EXCEPT !.new = NULL] ELSE [r.rproc[s] EXCEPT !.next = NULL]
  OBVIOUS
<1>3. b = k0.rproc[s]
  BY <1>0, <1>1, <1>2 DEF Slot, Alone, Linking
<1>4. PICK q : q = Edit(r, s, b)
  OBVIOUS
<1>5. q = Link(r, s, lu, NULL)
  BY <1>2, <1>4 DEF Link, Edit
<1>6. Turns(r, q, s, b)
  BY <1>0, <1>1, <1>3, <1>4, Turned
(* The state as it would be, had s never been changed.                     *)
<1>7. PICK i : i = Edit(k, s, b)
  OBVIOUS
<1>8. k \in States /\ OnlyTable(k0, k)
  BY <1>0 DEF Near
<1>9. Turns(k, i, s, b)
  BY <1>0, <1>3, <1>7, <1>8, Turned
<1>10. \A t \in Slots \ {n} : i.rproc[t] = k0.rproc[t]
  BY <1>3, <1>9 DEF Turns, Hung
<1>11. Near(k0, i, n)
  BY <1>8, <1>9, <1>10 DEF Near, Turns, OnlyTable
<1>12. Unforked(i, q, n)
  <2>1. \A t \in Slots \ {n} : q.rproc[t] = i.rproc[t]
    BY <1>6, <1>9 DEF Turns, Unforked
  <2>2. q.rproc[n].flags = {}
    BY <1>0, <1>6 DEF Turns, Unforked
  <2>3. OnlyTable(k, i) /\ OnlyTable(r, q)
    BY <1>6, <1>9 DEF Turns
  <2>4. Owing(q)
    <3>1. \A t \in Slots : (Owes(q, t) <=> Owes(r, t)) /\ q.rproc[t].caller = r.rproc[t].caller
      <4>1. q.rproc[s].flags = r.rproc[s].flags /\ q.rproc[s].caller = r.rproc[s].caller
        BY <1>0, <1>1, <1>3, <1>6 DEF Turns, Slot
      <4> QED
        BY <1>6, <4>1 DEF Turns, Owes
    <3> QED
      BY <2>3, <3>1 DEF Unforked, Owing, OnlyTable
  <2> QED
    BY <1>6, <2>1, <2>2, <2>3, <2>4 DEF Unforked, OnlyTable, Turns, Fewer
<1> QED
  BY <1>0, <1>5, <1>10, <1>11, <1>12, Stillborn

(* A clone was made; or it was not.                                        *)
Cloned(k, r, s, lu) ==
    /\ r.upd = k.upd
    /\ \E n \in Slots \ {s} :
          /\ ~Used(k, n) /\ Moves(k, r, {s, n}) /\ Couple(r, s, n)
          /\ Fresh(r, n, k.rproc[s].opt) /\ St(r, s) = St(k, s)
          /\ r.rproc[s] = IF lu THEN [k.rproc[s] EXCEPT !.new = n]
                                ELSE [k.rproc[s] EXCEPT !.next = n]
Uncloned(k, r, s) ==
    /\ r.upd = k.upd
    /\ \E n \in (Slots \cup {NULL}) \ {s} :
          Moves(k, r, {n}) /\ (n \in Slots => ~Used(r, n))

(* clone_service does one of the two.                                      *)
LEMMA CloneIs ==
    ASSUME Plain, NEW k, Good(k, {}), NEW s \in Slots, Main(k, s), Alone(k.rproc[s]),
           NEW lu \in BOOLEAN, NEW out, Outcome(out)
    PROVE  LET q == clone_service(k, s, lu, out)
           IN  \/ q.ok /\ Cloned(k, q.k, s, lu)
               \/ ~q.ok /\ Uncloned(k, q.k, s)
<1>0. k \in States /\ Owned(k) /\ Owing(k) /\ Used(k, s)
  BY MainUsed DEF Good
<1>1. PICK c : c = alloc_slot(k)
  OBVIOUS
<1>2. PICK q : q = clone_service(k, s, lu, out)
  OBVIOUS
<1>3. CASE c = NULL
  <2>1. q = Done(k, FALSE)
    BY <1>1, <1>2, <1>3 DEF clone_service
  <2>2. q.k = k /\ ~q.ok
    BY <2>1 DEF Done
  <2>3. Moves(k, k, {NULL})
    BY DEF Moves, Others, Fewer
  <2>4. NULL \in (Slots \cup {NULL}) \ {s} /\ NULL \notin Slots
    BY Constants
  <2> QED
    BY <1>2, <2>2, <2>3, <2>4 DEF Uncloned
<1>4. CASE c # NULL
  <2>1. c \in Slots /\ ~Used(k, c) /\ c # s
    BY <1>0, <1>1, <1>4, AllocIs
  <2>2. PICK i : i = Copied(k, s, lu, c)
    OBVIOUS
  <2>3. /\ Hung(k, i, s, c) /\ i.rproc[c].opt = k.rproc[s].opt
        /\ i.rproc[s] = IF lu THEN [k.rproc[s] EXCEPT !.new = c]
                              ELSE [k.rproc[s] EXCEPT !.next = c]
    BY <2>1, <2>2, CopiedIs
  <2>4. PICK made : made = create_service(i, c, out)
    OBVIOUS
  <2>5. q = IF ~made.ok THEN Done(Link(made.k, s, lu, NULL), FALSE) ELSE made
    BY <1>1, <1>2, <1>4, <2>2, <2>4 DEF clone_service, Copied
  <2>6. Near(k, i, c) /\ i.rproc[c].label \in Labels
    BY <1>0, <2>3 DEF Hung, Owned
  <2>7. \/ made.ok /\ \E e \in Endpoints : k.ptr[e] = NULL /\ Forked(i, made.k, c, e)
        \/ ~made.ok /\ Unforked(i, made.k, c)
    BY <1>0, <2>1, <2>4, <2>6, CreateIs
  <2>8. CASE made.ok
    <3>1. /\ Moves(k, made.k, {s, c}) /\ Couple(made.k, s, c) /\ made.k.rproc[s] = i.rproc[s]
          /\ Fresh(made.k, c, i.rproc[c].opt) /\ St(made.k, s) = St(k, s) /\ made.k.upd = k.upd
      <4>1. PICK e \in Endpoints : k.ptr[e] = NULL /\ Forked(i, made.k, c, e)
        BY <2>7, <2>8
      <4>2. Hung(k, i, s, c) /\ c \in Slots
        BY <2>1, <2>3
      <4>3. PICK r : r = made.k
        OBVIOUS
      <4>4. k.ptr[e] = NULL /\ Forked(i, r, c, e)
        BY <4>1, <4>3
      <4>5. /\ Moves(k, r, {s, c}) /\ Couple(r, s, c) /\ r.rproc[s] = i.rproc[s]
            /\ Fresh(r, c, i.rproc[c].opt) /\ St(r, s) = St(k, s) /\ r.upd = k.upd
        <5>1. Good(k, {}) /\ Main(k, s) /\ Alone(k.rproc[s]) /\ s \in Slots /\ e \in Endpoints
          OBVIOUS
        <5> QED
          BY ONLY <4>2, <4>4, <5>1, HungGood
      <4> QED
        BY <4>3, <4>5
    <3> QED
      BY <1>2, <2>1, <2>3, <2>5, <2>8, <3>1 DEF Cloned
  <2>9. CASE ~made.ok
    <3>1. PICK l : l = Link(made.k, s, lu, NULL)
      OBVIOUS
    <3>2. Moves(k, l, {c}) /\ ~Used(l, c) /\ l.upd = k.upd
      BY <2>1, <2>3, <2>7, <2>9, <3>1, HungFailed
    <3>3. q.k = l /\ ~q.ok
      BY <2>5, <2>9, <3>1 DEF Done
    <3> QED
      BY <1>2, <2>1, <3>2, <3>3 DEF Uncloned
  <2> QED
    BY <2>8, <2>9
<1> QED
  BY <1>3, <1>4

-----------------------------------------------------------------------------
(* Two instances change places.                                            *)
Took(q, b, a, s, d) ==
    /\ q.ep = a.ep /\ q.pid = a.pid /\ q.label = b.label /\ q.caller = b.caller
    /\ q.backoff = b.backoff /\ q.opt = b.opt
    /\ q.prev = Swapped(b.prev, s, d) /\ q.next = Swapped(b.next, s, d)
    /\ q.old = Swapped(b.old, s, d) /\ q.new = Swapped(b.new, s, d)

(* What update_service does to the state.                                  *)
Exchanged(k, r, s, d) ==
    /\ r \in States /\ \A t \in Slots \ {s, d} : r.rproc[t] = k.rproc[t]
    /\ LET a == k.rproc[s]
           b == k.rproc[d]
       IN  /\ Took(r.rproc[s], b, a, s, d) /\ r.rproc[s].flags = b.flags \cup {"ACTIVE"}
           /\ Took(r.rproc[d], a, b, s, d) /\ r.rproc[d].flags = a.flags \ {"ACTIVE"}
           /\ r.world[a.ep] = k.world[b.ep] /\ r.world[b.ep] = k.world[a.ep]
           /\ \A e \in Endpoints \ {a.ep, b.ep} : r.world[e] = k.world[e]
    /\ r.ptr = k.ptr /\ r.upd = Swapped(k.upd, s, d) /\ r.ds = k.ds
    /\ r.waiting = k.waiting /\ r.stray = k.stray /\ r.crashed = k.crashed

LEMMA MovedIs ==
    ASSUME NEW a \in Slot, NEW b \in Slot, NEW s \in Slots, NEW d \in Slots
    PROVE  /\ Moved(b, a, s, d) \in Slot /\ Took(Moved(b, a, s, d), b, a, s, d)
           /\ Moved(b, a, s, d).flags = b.flags
<1>1. \A x \in Slots \cup {NULL} : Swapped(x, s, d) \in Slots \cup {NULL}
  BY DEF Swapped
<1>2. PICK p, n, o, w : p = Swapped(b.prev, s, d) /\ n = Swapped(b.next, s, d)
                        /\ o = Swapped(b.old, s, d) /\ w = Swapped(b.new, s, d)
  OBVIOUS
<1>3. {p, n, o, w} \subseteq Slots \cup {NULL}
  BY <1>1, <1>2 DEF Slot
<1>4. PICK q : q = [b EXCEPT !.prev = p, !.next = n, !.old = o, !.new = w,
                             !.pid = a.pid, !.ep = a.ep]
  OBVIOUS
<1>5. Moved(b, a, s, d) = q
  BY <1>2, <1>4 DEF Moved
<1>6. /\ q \in Slot /\ q.flags = b.flags /\ q.ep = a.ep /\ q.pid = a.pid /\ q.label = b.label
      /\ q.caller = b.caller /\ q.backoff = b.backoff /\ q.opt = b.opt
      /\ q.prev = p /\ q.next = n /\ q.old = o /\ q.new = w
  BY <1>3, <1>4 DEF Slot
<1> QED
  BY <1>2, <1>5, <1>6 DEF Took

(* update_service exchanges the two instances.                             *)
LEMMA ExchangeIs ==
    ASSUME NEW k \in States, Owned(k), NEW s \in Slots, NEW d \in Slots, s # d,
           Used(k, s), Used(k, d)
    PROVE  Exchanged(k, update_service(k, s, d), s, d)
<1>1. PICK a, b : a = k.rproc[s] /\ b = k.rproc[d]
  OBVIOUS
<1>2. /\ a \in Slot /\ b \in Slot /\ a.ep \in Endpoints /\ b.ep \in Endpoints /\ a.ep # b.ep
      /\ k.ptr[a.ep] = s /\ k.ptr[b.ep] = d
  BY <1>1, OwnEp, EpApart
<1>3. PICK p, q : p = Moved(b, a, s, d) /\ q = Moved(a, b, s, d)
  OBVIOUS
<1>4. /\ p \in Slot /\ Took(p, b, a, s, d) /\ p.flags = b.flags
      /\ q \in Slot /\ Took(q, a, b, s, d) /\ q.flags = a.flags
  <2>1. p \in Slot /\ Took(p, b, a, s, d) /\ p.flags = b.flags
    <3>1. /\ Moved(b, a, s, d) \in Slot /\ Took(Moved(b, a, s, d), b, a, s, d)
          /\ Moved(b, a, s, d).flags = b.flags
      BY <1>2, MovedIs
    <3> QED
      BY <1>3, <3>1
  <2>2. q \in Slot /\ Took(q, a, b, d, s) /\ q.flags = a.flags
    <3>1. q = Moved(a, b, d, s)
      BY <1>3 DEF Moved, Swapped
    <3>2. /\ Moved(a, b, d, s) \in Slot /\ Took(Moved(a, b, d, s), a, b, d, s)
          /\ Moved(a, b, d, s).flags = a.flags
      BY <1>2, MovedIs
    <3> QED
      BY <3>1, <3>2
  <2>3. Took(q, a, b, s, d)
    BY <2>2 DEF Took, Swapped
  <2> QED
    BY <2>1, <2>2, <2>3
<1>5. k.rproc \in [Slots -> Slot] /\ k.world \in [Endpoints -> Processes]
      /\ k.ptr \in [Endpoints -> Slots \cup {NULL}] /\ k.upd \in Slots \cup {NULL}
  BY StateFields
<1>6. PICK f : f = [k.rproc EXCEPT ![s] = p, ![d] = q]
  OBVIOUS
<1>7. PICK w : w = [k.world EXCEPT ![a.ep] = k.world[b.ep], ![b.ep] = k.world[a.ep]]
  OBVIOUS
<1>8. PICK m : m = [k EXCEPT !.rproc = f, !.world = w, !.upd = Swapped(k.upd, s, d)]
  OBVIOUS
<1>9. f \in [Slots -> Slot] /\ f[s] = p /\ f[d] = q
      /\ \A t \in Slots \ {s, d} : f[t] = k.rproc[t]
  BY <1>4, <1>5, <1>6
<1>10. /\ w \in [Endpoints -> Processes] /\ w[a.ep] = k.world[b.ep] /\ w[b.ep] = k.world[a.ep]
       /\ \A e \in Endpoints \ {a.ep, b.ep} : w[e] = k.world[e]
  BY <1>2, <1>5, <1>7
<1>11. [[k.ptr EXCEPT ![a.ep] = s] EXCEPT ![b.ep] = d] = k.ptr
  BY <1>2, <1>5
<1>12. [[m EXCEPT !.ptr[a.ep] = s] EXCEPT !.ptr[b.ep] = d] = m
  BY <1>8, <1>11 DEF States
<1>13. /\ m \in States /\ m.rproc = f /\ m.world = w /\ m.upd = Swapped(k.upd, s, d)
       /\ m.ptr = k.ptr /\ m.ds = k.ds /\ m.waiting = k.waiting /\ m.stray = k.stray
       /\ m.crashed = k.crashed
  <2>1. Swapped(k.upd, s, d) \in Slots \cup {NULL}
    BY <1>5 DEF Swapped
  <2> QED
    BY <1>8, <1>9, <1>10, <2>1 DEF States
<1>14. update_service(k, s, d) = activate_service(m, s, d)
  <2>1. m = [k EXCEPT !.rproc[s] = p, !.rproc[d] = q,
                      !.world[a.ep] = k.world[b.ep], !.world[b.ep] = k.world[a.ep],
                      !.upd = Swapped(@, s, d)]
    BY <1>6, <1>7, <1>8 DEF States
  <2>2. [m EXCEPT !.ptr[a.ep] = s, !.ptr[b.ep] = d] = m
    BY <1>12
  <2> QED
    BY <1>1, <1>3, <2>1, <2>2 DEF update_service
<1>15. d # NULL
  BY Constants
<1>16. PICK u : u = Unset(m, d, {"ACTIVE"})
  OBVIOUS
<1>17. Turns(m, u, d, [q EXCEPT !.flags = @ \ {"ACTIVE"}])
  BY <1>9, <1>13, <1>16, UnsetIs
<1>18. u \in States /\ u.rproc[s] = p
  BY <1>9, <1>13, <1>17 DEF Turns
<1>19. PICK r : r = Set(u, s, {"ACTIVE"})
  OBVIOUS
<1>20. Turns(u, r, s, [p EXCEPT !.flags = @ \cup {"ACTIVE"}])
  <2>1. {"ACTIVE"} \in SUBSET Flags
    BY DEF Flags
  <2> QED
    BY <1>18, <1>19, <2>1, SetIs
<1>21. update_service(k, s, d) = r
  BY <1>14, <1>15, <1>16, <1>19 DEF activate_service
<1>22. /\ Took(r.rproc[s], b, a, s, d) /\ r.rproc[s].flags = b.flags \cup {"ACTIVE"}
       /\ Took(r.rproc[d], a, b, s, d) /\ r.rproc[d].flags = a.flags \ {"ACTIVE"}
  <2>1. r.rproc[s] = [p EXCEPT !.flags = @ \cup {"ACTIVE"}]
        /\ r.rproc[d] = [q EXCEPT !.flags = @ \ {"ACTIVE"}]
    BY <1>17, <1>20 DEF Turns
  <2> QED
    BY <1>4, <2>1 DEF Took, Slot
<1>23. OnlyTable(m, r) /\ r \in States /\ \A t \in Slots \ {s, d} : r.rproc[t] = k.rproc[t]
  BY <1>9, <1>13, <1>17, <1>20 DEF Turns, OnlyTable
<1> QED
  BY <1>1, <1>10, <1>13, <1>21, <1>22, <1>23 DEF Exchanged, OnlyTable

(* Afterwards the two are a couple as before, with the roles exchanged.    *)
LEMMA ExchangeGood ==
    ASSUME NEW k, Good(k, {}), NEW s \in Slots, NEW d \in Slots, Couple(k, s, d), Main(k, s),
           NEW r, Exchanged(k, r, s, d)
    PROVE  Moves(k, r, {s, d}) /\ Couple(r, s, d) /\ St(r, s) = St(k, d) /\ St(r, d) = St(k, s)
<1>0. k \in States /\ Owned(k) /\ Shape(k, {}) /\ Published(k) /\ Updating(k, {})
      /\ Owing(k) /\ ~k.crashed
  BY DEF Good
<1>1. Used(k, s) /\ Used(k, d) /\ s # d /\ ~Main(k, d) /\ k.rproc[d].label = k.rproc[s].label
      /\ Tied(k.rproc[s], s, k.rproc[d], d)
  BY DEF Couple
<1>2. PICK a, b : a = k.rproc[s] /\ b = k.rproc[d]
  OBVIOUS
<1>3. /\ a.ep \in Endpoints /\ b.ep \in Endpoints /\ a.ep # b.ep /\ a.pid = a.ep
      /\ b.pid = b.ep /\ k.ptr[a.ep] = s /\ k.ptr[b.ep] = d /\ a.label \in Labels
      /\ k.world[a.ep].st # "free" /\ k.world[b.ep].st # "free"
  BY <1>0, <1>1, <1>2, OwnEp, EpApart
<1>4. /\ r \in States /\ \A t \in Slots \ {s, d} : r.rproc[t] = k.rproc[t]
      /\ Took(r.rproc[s], b, a, s, d) /\ r.rproc[s].flags = b.flags \cup {"ACTIVE"}
      /\ Took(r.rproc[d], a, b, s, d) /\ r.rproc[d].flags = a.flags \ {"ACTIVE"}
      /\ r.world[a.ep] = k.world[b.ep] /\ r.world[b.ep] = k.world[a.ep]
      /\ \A e \in Endpoints \ {a.ep, b.ep} : r.world[e] = k.world[e]
      /\ r.ptr = k.ptr /\ r.upd = Swapped(k.upd, s, d) /\ r.ds = k.ds
      /\ r.waiting = k.waiting /\ r.stray = k.stray /\ r.crashed = k.crashed
  BY <1>2 DEF Exchanged
<1>5. /\ r.rproc[s].ep = a.ep /\ r.rproc[d].ep = b.ep /\ r.rproc[s].pid = a.pid
      /\ r.rproc[d].pid = b.pid /\ r.rproc[s].label = a.label /\ r.rproc[d].label = a.label
  BY <1>1, <1>2, <1>4 DEF Took
<1>6. Used(r, s) /\ Used(r, d) /\ Main(r, s) /\ ~Main(r, d)
  BY <1>1, <1>2, <1>4 DEF Used, Main
<1>7. \A t \in Slots \ {s, d} : /\ r.rproc[t] = k.rproc[t]
                                /\ Used(r, t) <=> Used(k, t)
                                /\ Main(r, t) <=> Main(k, t)
                                /\ Owes(r, t) <=> Owes(k, t)
  BY <1>4 DEF Used, Main, Owes
<1>8. \A t \in Slots : /\ r.rproc[t].ep = k.rproc[t].ep /\ r.rproc[t].pid = k.rproc[t].pid
                       /\ r.rproc[t].label = k.rproc[t].label
                       /\ Used(r, t) <=> Used(k, t)
                       /\ Main(r, t) <=> Main(k, t)
  BY <1>1, <1>2, <1>5, <1>6, <1>7
<1>9. Owned(r)
  <2>1. \A t \in Slots : ~Used(r, t) => r.rproc[t].flags = {}
    BY <1>0, <1>6, <1>7 DEF Owned
  <2>2. \A e \in Endpoints : k.ptr[e] # NULL => k.ptr[e] \in Slots
    BY <1>0, StateFields
  <2>3. \A e \in Endpoints : r.world[e].st # "free" <=> k.world[e].st # "free"
    BY <1>3, <1>4
  <2>4. \A e \in Endpoints : r.ptr[e] # NULL =>
           Used(r, r.ptr[e]) /\ r.rproc[r.ptr[e]].ep = e
    BY <1>0, <1>4, <1>8, <2>2 DEF Owned
  <2>5. \A t \in Slots : Used(r, t) =>
           /\ r.rproc[t].ep \in Endpoints /\ r.rproc[t].pid = r.rproc[t].ep
           /\ r.ptr[r.rproc[t].ep] = t /\ r.rproc[t].label \in Labels
    BY <1>0, <1>4, <1>8 DEF Owned
  <2>6. \A e \in Endpoints : r.world[e].st # "free" <=> r.ptr[e] # NULL
    BY <1>0, <1>4, <2>3 DEF Owned
  <2> QED
    BY <2>1, <2>4, <2>5, <2>6 DEF Owned
<1>10. Tied(r.rproc[s], s, r.rproc[d], d)
  <2>1. NULL # s /\ NULL # d
    BY Constants
  <2> QED
    BY <1>1, <1>2, <1>4, <2>1 DEF Tied, Linking, Took, Swapped
<1>11. Couple(r, s, d)
  BY <1>1, <1>5, <1>6, <1>10 DEF Couple
<1>12. Shape(r, {})
  <2>1. Couple(r, d, s)
    BY <1>11, CoupleBack
  <2>2. ASSUME NEW t \in Slots \ {s, d}, Used(r, t)
        PROVE  \/ Alone(r.rproc[t]) /\ Main(r, t)
               \/ \E x \in Slots : Couple(r, t, x)
    <3>1. ASSUME NEW x \in Slots, Couple(k, t, x) PROVE Couple(r, t, x)
      <4>1. Couple(k, x, t) /\ Couple(k, d, s)
        BY <3>1, CoupleBack
      <4>2. x \notin {s, d}
        BY <4>1, OnePartner
      <4> QED
        BY <1>7, <2>2, <3>1, <4>2 DEF Couple
    <3> QED
      BY <1>0, <1>7, <2>2, <3>1 DEF Shape
  <2> QED
    BY <1>11, <2>1, <2>2 DEF Shape
<1>13. Published(r)
  BY <1>0, <1>4, <1>8 DEF Published
<1>14. Updating(r, {})
  <2>1. ASSUME r.upd # NULL
        PROVE  r.upd \in Slots /\ Used(r, r.upd) /\ r.rproc[r.upd].new # NULL
    <3>1. k.upd # NULL
      BY <1>4, <2>1, Constants DEF Swapped
    <3>2. k.upd \in Slots /\ Used(k, k.upd) /\ k.rproc[k.upd].new # NULL
      BY <1>0, <3>1 DEF Updating
    <3>3. CASE k.upd \notin {s, d}
      BY <1>4, <1>7, <3>2, <3>3 DEF Swapped
    <3>4. CASE k.upd = s
      <4>1. r.upd = d /\ r.rproc[d].new = Swapped(a.new, s, d) /\ a.new # NULL
        BY <1>2, <1>4, <3>2, <3>4 DEF Swapped, Took
      <4> QED
        BY <1>6, <4>1, Constants DEF Swapped
    <3>5. CASE k.upd = d
      <4>1. r.upd = s /\ r.rproc[s].new = Swapped(b.new, s, d) /\ b.new # NULL
        BY <1>2, <1>4, <3>2, <3>5 DEF Swapped, Took
      <4> QED
        BY <1>6, <4>1, Constants DEF Swapped
    <3> QED
      BY <3>3, <3>4, <3>5
  <2> QED
    BY <2>1 DEF Updating
(* The answer owed in one slot is owed in the other one.                   *)
<1>15. Owing(r)
  <2>1. PICK g : g = [t \in Slots |-> Swapped(t, s, d)]
    OBVIOUS
  <2>2. \A t \in Slots : g[t] \in Slots /\ g[g[t]] = t
    BY <2>1 DEF Swapped
  <2>3. \A t \in Slots : /\ Owes(r, t) <=> Owes(k, g[t])
                         /\ r.rproc[t].caller = k.rproc[g[t]].caller
    <3>1. /\ Owes(r, s) <=> Owes(k, d)
          /\ r.rproc[s].caller = k.rproc[d].caller
      BY <1>2, <1>4 DEF Owes, Took
    <3>2. /\ Owes(r, d) <=> Owes(k, s)
          /\ r.rproc[d].caller = k.rproc[s].caller
      BY <1>2, <1>4 DEF Owes, Took
    <3>3. g[s] = d /\ g[d] = s /\ \A t \in Slots \ {s, d} : g[t] = t
      BY <2>1 DEF Swapped
    <3> QED
      BY <1>7, <3>1, <3>2, <3>3
  <2>4. \A t \in Slots : Owes(r, t) =>
           r.rproc[t].caller \in Callers /\ r.waiting[r.rproc[t].caller]
    BY <1>0, <1>4, <2>2, <2>3 DEF Owing
  <2>5. \A t, u \in Slots :
           Owes(r, t) /\ Owes(r, u) /\ r.rproc[t].caller = r.rproc[u].caller => t = u
    <3>1. \A t, u \in Slots :
             Owes(r, t) /\ Owes(r, u) /\ r.rproc[t].caller = r.rproc[u].caller => g[t] = g[u]
      BY <1>0, <2>2, <2>3 DEF Owing
    <3> QED
      BY <2>2, <3>1
  <2>6. ASSUME NEW c \in Callers, r.waiting[c]
        PROVE  \E t \in Slots : Owes(r, t) /\ r.rproc[t].caller = c
    <3>1. PICK u \in Slots : Owes(k, u) /\ k.rproc[u].caller = c
      BY <1>0, <1>4, <2>6 DEF Owing
    <3> QED
      BY <2>2, <2>3, <3>1
  <2>7. ~r.stray
    BY <1>0, <1>4 DEF Owing
  <2> QED
    BY <2>4, <2>5, <2>6, <2>7 DEF Owing
<1>16. Good(r, {})
  BY <1>0, <1>4, <1>9, <1>12, <1>13, <1>14, <1>15 DEF Good
<1>17. Others(k, r, {s, d})
  <2>1. ASSUME NEW t \in Slots \ {s, d}, Used(k, t)
        PROVE  k.rproc[t].ep \in Endpoints \ {a.ep, b.ep}
    BY <1>0, <1>1, <1>2, <2>1, EpApart, OwnEp
  <2> QED
    BY <1>4, <2>1 DEF Others
<1>18. Fewer(k, r)
  BY <1>4 DEF Fewer
<1>19. St(r, s) = St(k, d) /\ St(r, d) = St(k, s)
  BY <1>2, <1>4, <1>5 DEF St
<1> QED
  BY <1>11, <1>16, <1>17, <1>18, <1>19 DEF Moves

-----------------------------------------------------------------------------
(* The restart of a service that died.                                     *)
Notes == {"ACTIVE", "TERMINATED", "INITIALIZING", "EXITING", "UPDATING", "REFRESHING"}

(* The marks of a slot when nothing about it has changed.                  *)
LEMMA SettledSame ==
    ASSUME NEW k, NEW s, Settled(k, s), NEW r, SameData(k.rproc[s], r.rproc[s]),
           \A f \in Notes : f \in r.rproc[s].flags <=> f \in k.rproc[s].flags,
           St(r, s) = St(k, s), r.upd = k.upd
    PROVE  Settled(r, s)
<1>1. /\ \A f \in {"ACTIVE", "TERMINATED", "INITIALIZING", "EXITING", "UPDATING", "REFRESHING"} :
            f \in r.rproc[s].flags <=> f \in k.rproc[s].flags
      /\ r.rproc[s].prev = k.rproc[s].prev /\ r.rproc[s].next = k.rproc[s].next
      /\ r.rproc[s].old = k.rproc[s].old /\ r.rproc[s].new = k.rproc[s].new
      /\ r.rproc[s].backoff = k.rproc[s].backoff /\ r.rproc[s].opt = k.rproc[s].opt
  BY DEF SameData, SameFields, Notes
<1> QED
  BY <1>1 DEF Settled, Alone, Linking

(* late_reply moves one slot, and leaves it settled.                       *)
LEMMA AnswersMoves ==
    ASSUME NEW k, Good(k, {}), NEW s \in Slots
    PROVE  LET r == late_reply(k, s)
           IN  /\ Moves(k, r, {s}) /\ Answers(k, r, s) /\ r.upd = k.upd /\ St(r, s) = St(k, s)
               /\ (Used(r, s) <=> Used(k, s)) /\ (Main(r, s) <=> Main(k, s))
               /\ Settled(k, s) => Settled(r, s)
<1>1. PICK r : r = late_reply(k, s)
  OBVIOUS
<1>2. Good(r, {}) /\ Answers(k, r, s)
  BY <1>1, LateReplyGood
<1>3. Others(k, r, {s}) /\ Fewer(k, r) /\ r.upd = k.upd /\ St(r, s) = St(k, s)
  BY <1>2 DEF Answers, Others, St, SameData, SameFields
<1>4. /\ \A f \in Notes : f \in r.rproc[s].flags <=> f \in k.rproc[s].flags
      /\ Used(r, s) <=> Used(k, s)
      /\ Main(r, s) <=> Main(k, s)
  BY <1>2 DEF Answers, Notes, Used, Main
<1>5. Settled(k, s) => Settled(r, s)
  BY <1>2, <1>3, <1>4, SettledSame DEF Answers
<1> QED
  BY <1>1, <1>2, <1>3, <1>4, <1>5 DEF Moves

(* A new instance that has not got ready yet, and the old one beside it.   *)
Rising(fs) ==
    /\ "IN_USE" \in fs /\ "ACTIVE" \in fs /\ ("INITIALIZING" \in fs \/ "EXITING" \in fs)
    /\ \A f \in fs : f \in {"IN_USE", "ACTIVE", "INITIALIZING", "EXITING"}

(* The two instances while the new one gets ready.                         *)
LEMMA SettledBeside ==
    ASSUME NEW r, NEW s, NEW n \in Slots, Linking(r.rproc[s], n, NULL, NULL, NULL),
           r.rproc[s].backoff = 0, ~r.rproc[s].opt.repl,
           Rising(r.rproc[s].flags), St(r, s) \in {"held", "init"}
    PROVE  Settled(r, s)
<1>1. "ACTIVE" \in r.rproc[s].flags /\ "TERMINATED" \notin r.rproc[s].flags
      /\ "UPDATING" \notin r.rproc[s].flags
      /\ ("INITIALIZING" \in r.rproc[s].flags \/ "EXITING" \in r.rproc[s].flags)
  BY DEF Rising
<1> QED
  BY <1>1 DEF Settled, Linking

LEMMA SettledOld ==
    ASSUME NEW r, NEW s, NEW n, Linking(r.rproc[n], NULL, s, NULL, NULL),
           "ACTIVE" \notin r.rproc[n].flags, "INITIALIZING" \notin r.rproc[n].flags,
           "UPDATING" \notin r.rproc[n].flags, St(r, n) = "dead", ~r.rproc[n].opt.repl
    PROVE  Settled(r, n)
BY DEF Settled, Linking

(* An update needs two.                                                    *)
LEMMA AloneNotUnder ==
    ASSUME NEW k, Good(k, {}), NEW s \in Slots, Used(k, s) => Alone(k.rproc[s])
    PROVE  k.upd # s
<1>1. ASSUME k.upd = s PROVE FALSE
  <2>1. s # NULL
    BY Constants
  <2>2. Used(k, s) /\ k.rproc[s].new # NULL
    BY <1>1, <2>1 DEF Good, Updating
  <2> QED
    BY <2>2 DEF Alone, Linking
<1> QED
  BY <1>1

(* restart_service, of a service that has died.                            *)
LEMMA RestartKeeps ==
    ASSUME Plain, NEW k, Inv(k), NEW s \in Slots, Main(k, s), Alone(k.rproc[s]),
           "TERMINATED" \in k.rproc[s].flags, NEW script \in BOOLEAN, NEW out, Outcome(out)
    PROVE  Keeps(k, restart_service(k, s, script, out))
<1>0. Good(k, {}) /\ Used(k, s) /\ Settled(k, s)
  <2>1. Good(k, {}) /\ Owned(k)
    BY DEF Inv, Good
  <2> QED
    BY <2>1, MainUsed DEF Inv
<1>1. PICK t : t = late_reply(k, s)
  OBVIOUS
<1>2. /\ Moves(k, t, {s}) /\ Answers(k, t, s) /\ t.upd = k.upd /\ St(t, s) = St(k, s)
      /\ Used(t, s) /\ Main(t, s) /\ Settled(t, s)
  BY <1>0, <1>1, AnswersMoves
<1>3. Good(t, {}) /\ Alone(t.rproc[s]) /\ t.rproc[s].opt = k.rproc[s].opt
  BY <1>2 DEF Moves, Answers, SameData, SameFields, Alone, Linking
<1>4. St(t, s) = "dead" /\ "TERMINATED" \in t.rproc[s].flags
      /\ "INITIALIZING" \notin t.rproc[s].flags /\ "UPDATING" \notin t.rproc[s].flags
      /\ ~t.rproc[s].opt.repl
  BY <1>0, <1>2, <1>3 DEF Answers, Settled, Alone, Linking
<1>5. CASE script
  <2>1. restart_service(k, s, script, out) = t
    BY <1>1, <1>5 DEF restart_service, Outcome
  <2>2. Inv(t)
    BY <1>2, InvKept DEF Moves
  <2> QED
    BY <1>2, <2>1, <2>2 DEF Keeps, Moves
<1>6. CASE ~script
  <2>1. PICK cloned : cloned = clone_service(t, s, FALSE, out)
    OBVIOUS
  <2>2. PICK c : c = cloned.k
    OBVIOUS
  <2>3. restart_service(k, s, script, out) =
          LET dst == c.rproc[s].next
              ran == run_service(update_service(c, s, dst), s, out)
          IN  IF ~cloned.ok THEN kill_service(c, s)
              ELSE IF ~ran.ok THEN kill_service(ran.k, dst)
              ELSE ran.k
    BY <1>1, <1>6, <2>1, <2>2 DEF restart_service, Outcome, Alone, Linking
  <2>4. CASE ~cloned.ok
    <3>1. PICK n \in (Slots \cup {NULL}) \ {s} :
            Moves(t, c, {n}) /\ (n \in Slots => ~Used(c, n)) /\ c.upd = t.upd
      <4>1. Uncloned(t, c, s)
        BY <1>2, <1>3, <2>1, <2>2, <2>4, CloneIs
      <4> QED
        BY <4>1 DEF Uncloned
    <3>2. Good(c, {}) /\ c.rproc[s] = t.rproc[s] /\ St(c, s) = St(t, s) /\ Used(c, s)
      BY <1>2, <3>1 DEF Moves, Others, St, Used
    <3>3. PICK r : r = kill_service(c, s)
      OBVIOUS
    <3>4. Marks(c, r, s, c.rproc[s].flags \cup {"EXITING"}, St(c, s))
      BY <3>2, <3>3, KillMarks
    <3>5. Moves(c, r, {s}) /\ Used(r, s) /\ r.upd = c.upd
      BY <3>2, <3>4, MarksMoves
    <3>6. Moves(k, c, {s, n})
      BY <1>2, <3>1, MovesTwice
    <3>7. Moves(k, r, {s, n})
      BY <3>5, <3>6, MovesTwice
    <3>8. /\ SameData(t.rproc[s], r.rproc[s]) /\ r.rproc[s].flags = t.rproc[s].flags \cup {"EXITING"}
          /\ St(r, s) = "dead"
      BY <1>4, <3>2, <3>4 DEF Marks
    <3>9. Settled(r, s)
      <4>1. /\ r.rproc[s].prev = NULL /\ r.rproc[s].next = NULL /\ r.rproc[s].old = NULL
            /\ r.rproc[s].new = NULL /\ ~r.rproc[s].opt.repl
        BY <1>3, <1>4, <3>8 DEF SameData, SameFields, Alone, Linking
      <4>2. "TERMINATED" \in r.rproc[s].flags /\ "INITIALIZING" \notin r.rproc[s].flags
            /\ "UPDATING" \notin r.rproc[s].flags /\ "ACTIVE" \in r.rproc[s].flags
        BY <1>2, <1>4, <3>8 DEF Main
      <4> QED
        BY <3>8, <4>1, <4>2 DEF Settled, Alone, Linking
    <3>10. n \in Slots => ~Used(r, n)
      BY <3>1, <3>5 DEF Moves, Others, Used
    <3>11. Inv(r)
      BY <1>2, <3>1, <3>5, <3>7, <3>9, <3>10, InvKept DEF Moves
    <3> QED
      BY <2>3, <2>4, <3>3, <3>7, <3>11 DEF Keeps, Moves
  <2>5. CASE cloned.ok
    <3>1. PICK n \in Slots \ {s} :
            /\ ~Used(t, n) /\ Moves(t, c, {s, n}) /\ Couple(c, s, n)
            /\ Fresh(c, n, t.rproc[s].opt) /\ St(c, s) = St(t, s)
            /\ c.rproc[s] = [t.rproc[s] EXCEPT !.next = n] /\ c.upd = t.upd
      <4>1. Cloned(t, c, s, FALSE)
        BY <1>2, <1>3, <2>1, <2>2, <2>5, CloneIs
      <4> QED
        BY <4>1 DEF Cloned
    <3>2. t.rproc[s] \in Slot /\ Good(c, {})
      BY <1>3, <3>1, StateFields DEF Good, Moves
    <3>3. /\ c.rproc[s].flags = t.rproc[s].flags /\ c.rproc[s].opt = t.rproc[s].opt
          /\ Linking(c.rproc[s], NULL, n, NULL, NULL)
      BY <1>3, <3>1, <3>2 DEF Slot, Alone, Linking
    <3>4. Linking(c.rproc[n], s, NULL, NULL, NULL)
      BY <3>1, <3>3, Constants DEF Couple, Tied, Linking
    <3>5. PICK u : u = update_service(c, s, n)
      OBVIOUS
    <3>6. Main(c, s)
      BY <1>2, <3>3 DEF Main
    <3>7. Exchanged(c, u, s, n)
      BY <3>1, <3>2, <3>5, ExchangeIs DEF Good, Couple
    <3>8. Moves(c, u, {s, n}) /\ Couple(u, s, n) /\ St(u, s) = St(c, n) /\ St(u, n) = St(c, s)
      BY <3>1, <3>2, <3>6, <3>7, ExchangeGood
    <3>9. /\ u.rproc[s].flags = {"IN_USE", "ACTIVE"} /\ u.rproc[s].backoff = 0
          /\ u.rproc[s].opt = t.rproc[s].opt /\ Linking(u.rproc[s], n, NULL, NULL, NULL)
          /\ St(u, s) = "held"
      <4>1. u.rproc[s].flags = c.rproc[n].flags \cup {"ACTIVE"} /\ Took(u.rproc[s], c.rproc[n], c.rproc[s], s, n)
        BY <3>7 DEF Exchanged
      <4>2. Linking(u.rproc[s], n, NULL, NULL, NULL)
        BY <3>4, <4>1, Constants DEF Took, Linking, Swapped
      <4> QED
        BY <3>1, <3>8, <4>1, <4>2 DEF Took, Fresh
    <3>10. /\ u.rproc[n].flags = t.rproc[s].flags \ {"ACTIVE"} /\ u.rproc[n].opt = t.rproc[s].opt
           /\ Linking(u.rproc[n], NULL, s, NULL, NULL) /\ St(u, n) = "dead"
      <4>1. u.rproc[n].flags = c.rproc[s].flags \ {"ACTIVE"} /\ Took(u.rproc[n], c.rproc[s], c.rproc[n], s, n)
        BY <3>7 DEF Exchanged
      <4>2. Linking(u.rproc[n], NULL, s, NULL, NULL)
        BY <3>1, <3>3, <4>1, Constants DEF Took, Linking, Swapped
      <4> QED
        BY <1>4, <3>1, <3>3, <3>8, <4>1, <4>2 DEF Took
    <3>11. u.upd = k.upd
      <4>1. t.upd # s /\ t.upd # n
        BY <1>3, <3>1, AloneNotUnder
      <4> QED
        BY <1>2, <3>1, <3>7, <4>1 DEF Exchanged, Swapped
    <3>12. Moves(k, u, {s, n})
      <4>1. Moves(k, c, {s, n})
        BY <1>2, <3>1, MovesTwice
      <4> QED
        BY <3>8, <4>1, MovesTwice
    <3>13. Good(u, {}) /\ Used(u, s) /\ Used(u, n)
      BY <3>8 DEF Moves, Couple
    <3>14. PICK ran : ran = run_service(u, s, out)
      OBVIOUS
    <3>15. PICK v : v = ran.k
      OBVIOUS
    <3>16. \/ ran.ok /\ Marks(u, v, s, {"IN_USE", "ACTIVE"} \cup {"INITIALIZING"}, "init")
           \/ /\ ~ran.ok
              /\ \/ Marks(u, v, s, {"IN_USE", "ACTIVE"} \cup {"EXITING"}, "held")
                 \/ Marks(u, v, s, {"IN_USE", "ACTIVE"} \cup {"INITIALIZING", "EXITING"}, "held")
      <4>1. LET f == u.rproc[s].flags
            IN  \/ ran.ok /\ Marks(u, v, s, f \cup {"INITIALIZING"}, "init")
                \/ /\ ~ran.ok
                   /\ \/ Marks(u, v, s, f \cup {"EXITING"}, St(u, s))
                      \/ Marks(u, v, s, f \cup {"INITIALIZING", "EXITING"}, St(u, s))
        BY <3>13, <3>14, <3>15, RunService
      <4> QED
        BY <3>9, <4>1
    <3>17. /\ Marks(u, v, s, v.rproc[s].flags, St(v, s)) /\ Rising(v.rproc[s].flags)
           /\ St(v, s) \in {"held", "init"}
      BY <3>16 DEF Marks, Rising
    <3>18. Moves(u, v, {s}) /\ Used(v, s) /\ v.upd = u.upd
      BY <3>13, <3>17, MarksMoves
    <3>19. Settled(v, s)
      <4>1. SameData(u.rproc[s], v.rproc[s])
        BY <3>17 DEF Marks
      <4>2. /\ Linking(v.rproc[s], n, NULL, NULL, NULL) /\ v.rproc[s].backoff = 0
            /\ ~v.rproc[s].opt.repl
        BY <1>4, <3>9, <4>1 DEF SameData, SameFields, Linking
      <4> QED
        BY <3>17, <4>2, SettledBeside
    <3>20. Good(v, {}) /\ v.rproc[n] = u.rproc[n] /\ Used(v, n) /\ St(v, n) = St(u, n)
      BY <3>1, <3>13, <3>18 DEF Moves, Others, Used, St
    <3>21. Moves(k, v, {s, n})
      BY <3>12, <3>18, MovesTwice
    <3>22. CASE ran.ok
      <4>1. Settled(v, n)
        BY <1>4, <3>10, <3>20, SettledOld
      <4>2. Inv(v)
        BY <3>11, <3>18, <3>19, <3>21, <4>1, InvKept DEF Moves
      <4>3. restart_service(k, s, script, out) = v
        BY <2>3, <2>5, <3>3, <3>5, <3>14, <3>15, <3>22 DEF Linking
      <4> QED
        BY <3>21, <4>2, <4>3 DEF Keeps, Moves
    <3>23. CASE ~ran.ok
      <4>1. PICK w : w = kill_service(v, n)
        OBVIOUS
      <4>2. Marks(v, w, n, v.rproc[n].flags \cup {"EXITING"}, St(v, n))
        BY <3>20, <4>1, KillMarks
      <4>3. Moves(v, w, {n}) /\ Used(w, n) /\ w.upd = v.upd
        BY <3>20, <4>2, MarksMoves
      <4>4. Moves(k, w, {s, n})
        BY <3>21, <4>3, MovesTwice
      <4>5. Settled(w, n)
        <5>1. /\ SameData(u.rproc[n], w.rproc[n]) /\ St(w, n) = "dead"
              /\ w.rproc[n].flags = (t.rproc[s].flags \ {"ACTIVE"}) \cup {"EXITING"}
          BY <3>10, <3>20, <4>2 DEF Marks
        <5>2. Linking(w.rproc[n], NULL, s, NULL, NULL) /\ ~w.rproc[n].opt.repl
          BY <1>4, <3>10, <5>1 DEF SameData, SameFields, Linking
        <5> QED
          BY <1>4, <5>1, <5>2, SettledOld
      <4>6. Settled(w, s)
        <5>1. w.rproc[s] = v.rproc[s] /\ St(w, s) = St(v, s)
          BY <3>1, <3>18, <4>3 DEF Moves, Others, St
        <5> QED
          BY <3>19, <4>3, <5>1, SettledSame, SameSelf
      <4>7. Inv(w)
        BY <3>11, <3>18, <4>3, <4>4, <4>5, <4>6, InvKept DEF Moves
      <4>8. restart_service(k, s, script, out) = w
        BY <2>3, <2>5, <3>3, <3>5, <3>14, <3>15, <3>23, <4>1 DEF Linking
      <4> QED
        BY <4>4, <4>7, <4>8 DEF Keeps, Moves
    <3> QED
      BY <3>22, <3>23
  <2> QED
    BY <2>4, <2>5
<1> QED
  BY <1>5, <1>6

-----------------------------------------------------------------------------
(* The end of an update.                                                   *)
SameSlot(a, b) ==
    /\ b.flags = a.flags /\ b.ep = a.ep /\ b.pid = a.pid /\ b.label = a.label
    /\ b.caller = a.caller /\ b.backoff = a.backoff /\ b.opt = a.opt

(* Three ways to edit a slot.                                              *)
LEMMA NoNew ==
    ASSUME NEW a \in Slot
    PROVE  LET b == [a EXCEPT !.new = NULL]
           IN  b \in Slot /\ SameSlot(a, b) /\ Linking(b, a.prev, a.next, a.old, NULL)
BY DEF Slot, SameSlot, Linking

LEMMA NoOld ==
    ASSUME NEW a \in Slot
    PROVE  LET b == [a EXCEPT !.old = NULL]
           IN  b \in Slot /\ SameSlot(a, b) /\ Linking(b, a.prev, a.next, NULL, a.new)
BY DEF Slot, SameSlot, Linking

LEMMA NotAwaited ==
    ASSUME NEW a \in Slot
    PROVE  LET b == [a EXCEPT !.awaited = FALSE]
           IN  b \in Slot /\ SameSlot(a, b) /\ Linking(b, a.prev, a.next, a.old, a.new)
<1>1. PICK b : b = [a EXCEPT !.awaited = FALSE]
  OBVIOUS
<1>2. b \in Slot
  BY <1>1 DEF Slot
<1>3. SameSlot(a, b) /\ Linking(b, a.prev, a.next, a.old, a.new)
  BY <1>1 DEF Slot, SameSlot, Linking
<1> QED
  BY <1>1, <1>2, <1>3

(* The two versions of an update that is over.                             *)
Forgotten(k, f, o, n) ==
    /\ Others(k, f, {o, n}) /\ f.upd = NULL /\ f.waiting = k.waiting
    /\ Alone(f.rproc[o]) /\ Alone(f.rproc[n]) /\ f.world = k.world
    /\ \A t \in {o, n} : /\ f.rproc[t].flags = k.rproc[t].flags
                         /\ f.rproc[t].ep = k.rproc[t].ep
                         /\ f.rproc[t].backoff = k.rproc[t].backoff
                         /\ f.rproc[t].opt = k.rproc[t].opt

LEMMA ForgetIs ==
    ASSUME NEW k, Good(k, {}), NEW o \in Slots, NEW n \in Slots, k.upd = o, Couple(k, o, n),
           k.rproc[o].new = n, NEW m \in {o, n}, Main(k, m), NEW x \in {o, n}, x # m
    PROVE  Good(Forget(k, o, n), {x}) /\ Forgotten(k, Forget(k, o, n), o, n)
<1>0. k \in States /\ Owned(k) /\ Shape(k, {}) /\ Published(k) /\ Updating(k, {})
      /\ Owing(k) /\ ~k.crashed /\ k.rproc \in [Slots -> Slot]
  BY StateFields DEF Good
<1>1. Used(k, o) /\ Used(k, n) /\ o # n /\ (Main(k, o) <=> ~Main(k, n))
      /\ Linking(k.rproc[o], NULL, NULL, NULL, n) /\ Linking(k.rproc[n], NULL, NULL, o, NULL)
  BY Constants DEF Couple, Tied, Linking
<1>2. PICK h : h = [k EXCEPT !.upd = NULL]
  OBVIOUS
<1>3. PICK i : i = Edit(h, o, [h.rproc[o] EXCEPT !.new = NULL])
  OBVIOUS
<1>4. PICK j : j = Edit(i, n, [i.rproc[n] EXCEPT !.old = NULL])
  OBVIOUS
<1>5. PICK f : f = Edit(j, o, [j.rproc[o] EXCEPT !.awaited = FALSE])
  OBVIOUS
<1>6. f = Forget(k, o, n)
  BY <1>2, <1>3, <1>4, <1>5 DEF Forget, Edit
<1>7. /\ h \in States /\ h.rproc = k.rproc /\ h.upd = NULL /\ h.ptr = k.ptr
      /\ h.world = k.world /\ h.ds = k.ds /\ h.waiting = k.waiting /\ h.stray = k.stray
      /\ h.crashed = k.crashed
  BY <1>0, <1>2 DEF States
<1>8. /\ f \in States /\ OnlyTable(h, f)
      /\ \A t \in Slots \ {o, n} : f.rproc[t] = k.rproc[t]
      /\ f.rproc[o] = [[k.rproc[o] EXCEPT !.new = NULL] EXCEPT !.awaited = FALSE]
      /\ f.rproc[n] = [k.rproc[n] EXCEPT !.old = NULL]
  <2>1. k.rproc[o] \in Slot /\ k.rproc[n] \in Slot
    BY <1>0
  <2>2. [k.rproc[o] EXCEPT !.new = NULL] \in Slot /\ [k.rproc[n] EXCEPT !.old = NULL] \in Slot
        /\ [[k.rproc[o] EXCEPT !.new = NULL] EXCEPT !.awaited = FALSE] \in Slot
    BY <2>1, NoNew, NoOld, NotAwaited
  <2>3. Turns(h, i, o, [k.rproc[o] EXCEPT !.new = NULL])
    BY <1>3, <1>7, <2>2, Turned
  <2>4. i \in States /\ i.rproc[n] = k.rproc[n]
    BY <1>1, <1>7, <2>3 DEF Turns
  <2>5. Turns(i, j, n, [k.rproc[n] EXCEPT !.old = NULL])
    BY <1>4, <2>2, <2>4, Turned
  <2>6. j \in States /\ j.rproc[o] = [k.rproc[o] EXCEPT !.new = NULL]
    BY <1>1, <2>3, <2>5 DEF Turns
  <2>7. Turns(j, f, o, [[k.rproc[o] EXCEPT !.new = NULL] EXCEPT !.awaited = FALSE])
    BY <1>5, <2>2, <2>6, Turned
  <2> QED
    BY <1>1, <1>7, <2>3, <2>5, <2>7 DEF Turns, OnlyTable
<1>9. /\ f.upd = NULL /\ f.ptr = k.ptr /\ f.world = k.world /\ f.ds = k.ds
      /\ f.waiting = k.waiting /\ f.stray = k.stray /\ f.crashed = k.crashed
  BY <1>7, <1>8 DEF OnlyTable
<1>10. \A t \in {o, n} :
         LET a == k.rproc[t]
             b == f.rproc[t]
         IN  /\ b.flags = a.flags /\ b.ep = a.ep /\ b.pid = a.pid /\ b.label = a.label
             /\ b.caller = a.caller /\ b.backoff = a.backoff /\ b.opt = a.opt /\ Alone(b)
  <2>1. k.rproc[o] \in Slot /\ k.rproc[n] \in Slot
    BY <1>0
  <2>2. SameSlot(k.rproc[n], f.rproc[n]) /\ Alone(f.rproc[n])
    <3>1. SameSlot(k.rproc[n], f.rproc[n])
          /\ Linking(f.rproc[n], k.rproc[n].prev, k.rproc[n].next, NULL, k.rproc[n].new)
      BY <1>8, <2>1, NoOld
    <3> QED
      BY <1>1, <3>1 DEF Alone, Linking
  <2>3. SameSlot(k.rproc[o], f.rproc[o]) /\ Alone(f.rproc[o])
    <3>1. PICK b : b = [k.rproc[o] EXCEPT !.new = NULL]
      OBVIOUS
    <3>2. b \in Slot /\ SameSlot(k.rproc[o], b)
          /\ Linking(b, k.rproc[o].prev, k.rproc[o].next, k.rproc[o].old, NULL)
      BY <2>1, <3>1, NoNew
    <3>3. SameSlot(b, f.rproc[o]) /\ Linking(f.rproc[o], b.prev, b.next, b.old, b.new)
      <4>1. f.rproc[o] = [b EXCEPT !.awaited = FALSE]
        BY <1>8, <3>1
      <4>2. b \in Slot
        BY <3>2
      <4> QED
        BY ONLY <4>1, <4>2, NotAwaited
    <3> QED
      BY <1>1, <3>2, <3>3 DEF SameSlot, Alone, Linking
  <2> QED
    BY <2>2, <2>3 DEF SameSlot
<1>11. \A t \in Slots : /\ f.rproc[t].ep = k.rproc[t].ep /\ f.rproc[t].pid = k.rproc[t].pid
                        /\ f.rproc[t].label = k.rproc[t].label
                        /\ f.rproc[t].caller = k.rproc[t].caller
                        /\ f.rproc[t].flags = k.rproc[t].flags
  BY <1>8, <1>10
<1>12. \A t \in Slots : /\ Used(f, t) <=> Used(k, t)
                        /\ Main(f, t) <=> Main(k, t)
                        /\ Owes(f, t) <=> Owes(k, t)
  BY <1>11 DEF Used, Main, Owes
<1>13. Owned(f)
  <2>1. \A e \in Endpoints : k.ptr[e] # NULL => k.ptr[e] \in Slots
    BY <1>0, StateFields
  <2> QED
    BY <1>0, <1>9, <1>11, <1>12, <2>1 DEF Owned
<1>14. Published(f)
  BY <1>0, <1>9, <1>11, <1>12 DEF Published
<1>15. Owing(f)
  BY <1>0, <1>9, <1>11, <1>12 DEF Owing
<1>16. Shape(f, {x})
  <2>1. Alone(f.rproc[m]) /\ Main(f, m)
    BY <1>10, <1>12
  <2>2. ASSUME NEW t \in Slots \ {o, n}, Used(f, t)
        PROVE  \/ Alone(f.rproc[t]) /\ Main(f, t)
               \/ \E y \in Slots \ {x} : Couple(f, t, y)
    <3>1. ASSUME NEW y \in Slots, Couple(k, t, y) PROVE y \notin {o, n} /\ Couple(f, t, y)
      <4>1. Couple(k, y, t) /\ Couple(k, n, o)
        BY <3>1, CoupleBack
      <4>2. y \notin {o, n}
        BY <4>1, OnePartner
      <4> QED
        BY <1>8, <1>12, <2>2, <3>1, <4>2 DEF Couple
    <3> QED
      BY <1>0, <1>8, <1>12, <2>2, <3>1 DEF Shape
  <2> QED
    BY <2>1, <2>2 DEF Shape
<1>17. Good(f, {x})
  BY <1>0, <1>8, <1>9, <1>13, <1>14, <1>15, <1>16 DEF Good, Updating
<1>18. Others(k, f, {o, n})
  BY <1>8, <1>9 DEF Others
<1> QED
  BY <1>6, <1>9, <1>10, <1>17, <1>18 DEF Forgotten

(* What is left of an update: one instance of the service.                 *)
Survives(k, r, m, st) ==
    /\ Used(r, m) /\ Main(r, m) /\ Alone(r.rproc[m]) /\ "UPDATING" \notin r.rproc[m].flags
    /\ \A f \in Notes \ {"UPDATING"} : f \in r.rproc[m].flags <=> f \in k.rproc[m].flags
    /\ r.rproc[m].backoff = k.rproc[m].backoff /\ r.rproc[m].opt = k.rproc[m].opt
    /\ St(r, m) = st

(* end_update leaves one version, and answers the caller.                  *)
LEMMA EndUpdateIs ==
    ASSUME NEW k, Good(k, {}), NEW o \in Slots, NEW n \in Slots, k.upd = o, Couple(k, o, n),
           k.rproc[o].new = n, NEW ok \in BOOLEAN, NEW answer \in BOOLEAN,
           Main(k, IF ok THEN n ELSE o)
    PROVE  LET r == end_update(k, ok, answer)
               m == IF ok THEN n ELSE o
               x == IF ok THEN o ELSE n
           IN  /\ Moves(k, r, {o, n}) /\ r.upd = NULL /\ ~Used(r, x)
               /\ Survives(k, r, m, IF answer /\ St(k, m) = "blocked" THEN "run" ELSE St(k, m))
<1>1. PICK m, x : m = (IF ok THEN n ELSE o) /\ x = IF ok THEN o ELSE n
  OBVIOUS
<1>2. m \in {o, n} /\ x \in {o, n} /\ x # m /\ m \in Slots /\ x \in Slots /\ {o, n} = {m, x}
      /\ Used(k, m) /\ Used(k, x) /\ Main(k, m) /\ ~Main(k, x)
  BY <1>1 DEF Couple
<1>3. PICK f : f = Forget(k, o, n)
  OBVIOUS
<1>4. Good(f, {x}) /\ Forgotten(k, f, o, n)
  BY <1>2, <1>3, ForgetIs
<1>5. PICK l : l = late_reply(f, o)
  OBVIOUS
<1>6. Good(l, {x}) /\ Answers(f, l, o)
  BY <1>4, <1>5, LateReplyGood
<1>7. /\ \A t \in {m, x} : /\ Alone(l.rproc[t]) /\ l.rproc[t].ep = k.rproc[t].ep
                           /\ l.rproc[t].backoff = k.rproc[t].backoff
                           /\ l.rproc[t].opt = k.rproc[t].opt
                           /\ \A g \in Notes \cup {"IN_USE"} :
                                 g \in l.rproc[t].flags <=> g \in k.rproc[t].flags
      /\ l.world = k.world /\ l.upd = NULL /\ Fewer(k, l)
      /\ \A t \in Slots \ {m, x} : l.rproc[t] = f.rproc[t]
  <2>1. \A t \in Slots : SameData(f.rproc[t], l.rproc[t])
           /\ \A g \in Notes \cup {"IN_USE"} : g \in l.rproc[t].flags <=> g \in f.rproc[t].flags
    BY <1>6, SameSelf DEF Answers, Notes
  <2>2. \A t \in {m, x} : Alone(f.rproc[t])
    BY <1>2, <1>4 DEF Forgotten
  <2>3. Fewer(k, l)
    BY <1>4, <1>6 DEF Answers, Fewer, Forgotten
  <2> QED
    BY <1>2, <1>4, <1>6, <2>1, <2>2, <2>3 DEF Answers, SameData, SameFields, Alone, Linking, Forgotten
<1>8. Used(l, m) /\ Used(l, x) /\ ~Main(l, x) /\ Main(l, m)
  BY <1>2, <1>7 DEF Used, Main, Notes
<1>9. PICK u : u = Unset(l, m, {"UPDATING"})
  OBVIOUS
<1>10. Marks(l, u, m, l.rproc[m].flags \ {"UPDATING"}, St(l, m))
  <2>1. {"UPDATING"} \cap Bits = {}
    BY DEF Bits
  <2> QED
    BY <1>2, <1>6, <1>9, <2>1, UnsetMarks DEF Good
<1>11. Good(u, {x}) /\ Used(u, m)
  BY <1>2, <1>6, <1>8, <1>10, QuietlyOwned DEF Marks
<1>12. PICK v : v = IF answer THEN ReplyService(u, m) ELSE u
  OBVIOUS
<1>13. Marks(u, v, m, u.rproc[m].flags,
             IF answer /\ St(u, m) = "blocked" THEN "run" ELSE St(u, m))
  <2>1. CASE answer
    BY <1>2, <1>11, <1>12, <2>1, ReplyMarks
  <2>2. CASE ~answer
    <3>1. Marks(u, u, m, u.rproc[m].flags, St(u, m))
      BY <1>11, SameSelf DEF Marks, Quietly, Others, SameBits, Good
    <3> QED
      BY <1>12, <2>2, <3>1
  <2> QED
    BY <2>1, <2>2
<1>14. Good(v, {x}) /\ Used(v, m)
  BY <1>2, <1>11, <1>13, QuietlyOwned DEF Marks
<1>15. St(u, m) = St(k, m)
  <2>1. St(l, m) = St(k, m)
    BY <1>7 DEF St
  <2> QED
    BY <1>10, <2>1 DEF Marks
<1>16. /\ v.rproc[m].flags = l.rproc[m].flags \ {"UPDATING"} /\ SameData(l.rproc[m], v.rproc[m])
       /\ St(v, m) = IF answer /\ St(k, m) = "blocked" THEN "run" ELSE St(k, m)
       /\ v.upd = NULL /\ v.waiting = l.waiting
       /\ \A t \in Slots \ {m} : v.rproc[t] = l.rproc[t]
  BY <1>7, <1>10, <1>13, <1>15, SameTwice DEF Marks, Quietly, Others
<1>17. PICK r : r = cleanup_service(v, x)
  OBVIOUS
<1>18. Used(v, x) /\ ~Main(v, x) /\ Alone(v.rproc[x])
  BY <1>2, <1>7, <1>8, <1>16 DEF Used, Main
<1>19. Good(r, {x}) /\ ~Used(r, x) /\ Others(v, r, {x}) /\ Fewer(v, r) /\ r.upd = NULL
  BY <1>2, <1>14, <1>16, <1>17, <1>18, CleanupGood
<1>20. Good(r, {})
  BY <1>19, Left
<1>21. r.rproc[m] = v.rproc[m] /\ St(r, m) = St(v, m)
  BY <1>2, <1>14, <1>19 DEF Others, St
<1>22. Survives(k, r, m, IF answer /\ St(k, m) = "blocked" THEN "run" ELSE St(k, m))
  <2>1. /\ \A f1 \in Notes \ {"UPDATING"} : f1 \in r.rproc[m].flags <=> f1 \in k.rproc[m].flags
        /\ "UPDATING" \notin r.rproc[m].flags /\ Used(r, m) /\ Main(r, m)
    BY <1>2, <1>7, <1>8, <1>16, <1>21 DEF Used, Main
  <2>2. Alone(r.rproc[m]) /\ r.rproc[m].backoff = k.rproc[m].backoff
        /\ r.rproc[m].opt = k.rproc[m].opt
    BY <1>7, <1>16, <1>21 DEF SameData, SameFields, Alone, Linking
  <2> QED
    BY <1>16, <1>21, <2>1, <2>2 DEF Survives
<1>23. Moves(k, r, {o, n})
  <2>1. Others(k, v, {o, n})
    <3>1. Others(l, u, {m}) /\ Others(u, v, {m})
      BY <1>10, <1>13 DEF Marks, Quietly
    <3>2. Others(k, l, {o, n})
      BY <1>2, <1>4, <1>7 DEF Others, Forgotten
    <3>3. Others(k, u, {o, n})
      BY <1>2, <3>1, <3>2, OthersTwice
    <3> QED
      BY <1>2, <3>1, <3>3, OthersTwice
  <2>2. Others(k, r, {o, n})
    BY <1>2, <1>19, <2>1, OthersTwice
  <2>3. Fewer(k, r)
    BY <1>7, <1>16, <1>19 DEF Fewer
  <2> QED
    BY <1>20, <2>2, <2>3 DEF Moves
<1>24. end_update(k, ok, answer) = r
  <2>1. o # NULL /\ n # NULL
    BY Constants
  <2>2. end_update(k, ok, answer) = CleanupAll(v, x)
    BY <1>1, <1>3, <1>5, <1>9, <1>12, <2>1 DEF end_update
  <2> QED
    BY <1>17, <1>18, <2>2, CleanupAlone
<1> QED
  BY <1>1, <1>19, <1>22, <1>23, <1>24

-----------------------------------------------------------------------------
(* The backoff of a service that has died more than once.                  *)
Doubling == [i \in 1 .. MaxRestarts |-> [x \in Nat |-> 2 * x]]

(* 1 << restarts is a positive number; the backoff is within its bound.    *)
LEMMA ShiftedNat ==
    \A n \in 0 .. MaxRestarts : Shifted[n] \in Nat
<1>0. MaxRestarts \in Nat
  BY Constants
<1>1. PICK f : Loop(MaxRestarts, 1, Doubling, f)
  BY <1>0, LoopExists
<1>2. \A i \in 0 .. MaxRestarts : f[i] = IF i = 0 THEN 1 ELSE Doubling[i][f[i - 1]]
  BY <1>1 DEF Loop
<1>3. f[0] = 1
  BY <1>0, <1>2
<1>4. ASSUME NEW i \in 1 .. MaxRestarts, f[i - 1] \in Nat
      PROVE  f[i] \in Nat /\ f[i] = 2 * f[i - 1]
  <2>1. i \in 0 .. MaxRestarts /\ i # 0
    BY <1>0
  <2>2. PICK x \in Nat : x = f[i - 1]
    BY <1>4
  <2>3. f[i] = Doubling[i][x]
    BY <1>2, <2>1, <2>2
  <2>4. f[i] = 2 * x
    BY <2>3 DEF Doubling
  <2> QED
    BY <2>2, <2>4
<1>5. \A i \in 0 .. MaxRestarts : f[i] \in Nat
  <2>1. f[0] \in Nat
    BY <1>3
  <2>2. \A i \in 1 .. MaxRestarts : f[i - 1] \in Nat => f[i] \in Nat
    BY <1>4
  <2> QED
    BY ONLY <1>0, <2>1, <2>2, StaysIn
<1>6. ASSUME NEW n \in 0 .. MaxRestarts
      PROVE  f[n] = IF n = 0 THEN 1 ELSE 2 * f[n - 1]
  <2>1. CASE n = 0
    BY <1>3, <2>1
  <2>2. CASE n # 0
    <3>1. n \in 1 .. MaxRestarts /\ n - 1 \in 0 .. MaxRestarts
      BY <1>0, <2>2
    <3> QED
      BY <1>4, <1>5, <2>2, <3>1
  <2> QED
    BY <2>1, <2>2
<1>7. f = [n \in 0 .. MaxRestarts |-> f[n]]
  BY <1>1 DEF Loop
<1>8. f = [n \in 0 .. MaxRestarts |-> IF n = 0 THEN 1 ELSE 2 * f[n - 1]]
  BY <1>6, <1>7
<1>9. Shifted = [n \in 0 .. MaxRestarts |-> IF n = 0 THEN 1 ELSE 2 * Shifted[n - 1]]
  BY <1>8 DEF Shifted
<1> DEFINE g == Shifted
<1>10. \A n \in 0 .. MaxRestarts : g[n] = IF n = 0 THEN 1 ELSE 2 * g[n - 1]
  <2> HIDE DEF g
  <2>1. g = [n \in 0 .. MaxRestarts |-> IF n = 0 THEN 1 ELSE 2 * g[n - 1]]
    BY <1>9 DEF g
  <2> QED
    BY <2>1
<1> HIDE DEF g
<1>11. g[0] \in Nat
  <2>1. g[0] = 1
    BY <1>0, <1>10
  <2> QED
    BY <2>1
<1>12. \A n \in 1 .. MaxRestarts : g[n - 1] \in Nat => g[n] \in Nat
  <2> SUFFICES ASSUME NEW n \in 1 .. MaxRestarts, g[n - 1] \in Nat
               PROVE  g[n] \in Nat
    OBVIOUS
  <2>1. n \in 0 .. MaxRestarts /\ n # 0
    BY <1>0
  <2>2. g[n] = 2 * g[n - 1]
    BY <1>10, <2>1
  <2> QED
    BY <2>2
<1>13. \A n \in 0 .. MaxRestarts : g[n] \in Nat
  BY ONLY <1>0, <1>11, <1>12, StaysIn
<1> QED
  BY <1>13 DEF g

LEMMA BackoffIs ==
    ASSUME NEW n \in 0 .. MaxRestarts
    PROVE  Backoff(n) \in 0 .. MAX_BACKOFF
<1>1. n \in 0 .. MaxRestarts
  BY Constants
<1>2. PICK x \in Nat : x = Shifted[n]
  BY <1>1, ShiftedNat
<1>3. Backoff(n) = IF x < MAX_BACKOFF THEN x ELSE MAX_BACKOFF
  BY <1>2 DEF Backoff
<1> QED
  BY <1>2, <1>3, Constants

-----------------------------------------------------------------------------
(* The end of a process, as RS hears of it.                                *)
Ended(h, k, s) == Marks(h, k, s, h.rproc[s].flags \cup {"TERMINATED"}, "dead")

(* The structure does not notice that a process is dead.                   *)
LEMMA EndedIs ==
    ASSUME NEW h, Good(h, {}), NEW s \in Slots, Used(h, s), NEW k, Ended(h, k, s)
    PROVE  /\ Moves(h, k, {s}) /\ Good(k, {}) /\ k \in States /\ Used(k, s) /\ k.upd = h.upd
           /\ SameData(h.rproc[s], k.rproc[s])
           /\ k.rproc[s].flags = h.rproc[s].flags \cup {"TERMINATED"} /\ St(k, s) = "dead"
<1>1. Moves(h, k, {s}) /\ Used(k, s) /\ k.upd = h.upd
  BY MarksMoves DEF Ended
<1> QED
  BY <1>1 DEF Ended, Marks, Moves, Good

(* Links and uses are the same, and with them couples.                     *)
LEMMA CoupleSame ==
    ASSUME NEW k, NEW s \in Slots, NEW x \in Slots, Couple(k, s, x), NEW r,
           \A t \in {s, x} : /\ SameFields(k.rproc[t], r.rproc[t])
                             /\ Used(r, t) /\ (Main(r, t) <=> Main(k, t))
    PROVE  Couple(r, s, x)
<1>1. SameFields(k.rproc[s], r.rproc[s]) /\ SameFields(k.rproc[x], r.rproc[x])
  OBVIOUS
<1>2. Tied(r.rproc[s], s, r.rproc[x], x)
  BY <1>1 DEF Couple, Tied, Linking, SameFields
<1> QED
  BY <1>1, <1>2 DEF Couple, SameFields

(* A couple stays one when its flags change.                               *)
LEMMA CoupleMarks ==
    ASSUME NEW k, NEW s \in Slots, NEW x \in Slots, Couple(k, s, x), NEW r, NEW f, NEW st,
           Marks(k, r, s, f, st)
    PROVE  /\ Couple(r, s, x) /\ r.rproc[x] = k.rproc[x] /\ St(r, x) = St(k, x)
           /\ (Main(r, s) <=> Main(k, s)) /\ (Main(r, x) <=> Main(k, x))
<1>1. x # s /\ Used(k, x) /\ Used(k, s)
  BY DEF Couple
<1>2. Quietly(k, r, s)
  BY DEF Marks
<1>3. r.rproc[x] = k.rproc[x] /\ St(r, x) = St(k, x)
  BY <1>1, <1>2 DEF Quietly, Others, St
<1>4. SameFields(k.rproc[s], r.rproc[s]) /\ SameBits(k.rproc[s], r.rproc[s])
  BY <1>2 DEF Quietly
<1>5. Used(r, s) /\ (Main(r, s) <=> Main(k, s)) /\ Used(r, x) /\ (Main(r, x) <=> Main(k, x))
  BY <1>1, <1>3, <1>4 DEF Used, Main, SameBits, Bits
<1>6. SameFields(k.rproc[x], r.rproc[x])
  BY <1>3 DEF SameFields
<1>7. Couple(r, s, x)
  BY <1>4, <1>5, <1>6, CoupleSame
<1> QED
  BY <1>3, <1>5, <1>7

(* A new version that failed to initialise.                                *)
LEMMA RollbackKeeps ==
    ASSUME NEW h, Inv(h), NEW s \in Slots, Used(h, s), NEW k, Ended(h, k, s),
           "INITIALIZING" \in h.rproc[s].flags, "UPDATING" \in h.rproc[s].flags
    PROVE  Keeps(h, RollBack(Set(k, s, {"EXITING"}), s))
<1>0. Good(h, {}) /\ Settled(h, s)
  BY DEF Inv
<1>1. /\ Moves(h, k, {s}) /\ Good(k, {}) /\ k \in States /\ Used(k, s) /\ k.upd = h.upd
      /\ SameData(h.rproc[s], k.rproc[s])
      /\ k.rproc[s].flags = h.rproc[s].flags \cup {"TERMINATED"} /\ St(k, s) = "dead"
  BY <1>0, EndedIs
<1>2. Main(h, s) /\ h.rproc[s].new = NULL /\ h.rproc[s].old # NULL
  BY <1>0 DEF Settled, Main
<1>3. PICK x \in Slots : Couple(h, s, x)
  <2>1. ~Alone(h.rproc[s]) /\ s \in Slots \ {}
    BY <1>2 DEF Alone, Linking
  <2> QED
    BY <1>0, <2>1, Coupled
<1>4. /\ h.rproc[s].old = x /\ Linking(h.rproc[x], NULL, NULL, NULL, s) /\ x # s /\ Used(h, x)
      /\ ~Main(h, x)
  BY <1>2, <1>3 DEF Couple, Tied, Linking
<1>5. k.rproc[s].old = x /\ x # NULL
  BY <1>1, <1>2, <1>4 DEF SameData, SameFields
<1>51. PICK i : i = Set(k, s, {"EXITING"})
  OBVIOUS
<1>52. Marks(k, i, s, k.rproc[s].flags \cup {"EXITING"}, "dead") /\ i.rproc[s].old = x
  <2>1. {"EXITING"} \in SUBSET Flags /\ {"EXITING"} \cap Bits = {}
    BY DEF Flags, Bits
  <2>2. Marks(k, i, s, k.rproc[s].flags \cup {"EXITING"}, "dead")
    BY <1>1, <1>51, <2>1, SetMarks
  <2> QED
    BY <1>5, <2>2 DEF Marks, SameData, SameFields
<1>6. Settled(h, x) /\ h.upd = x
  <2>1. Settled(h, x)
    BY <1>4 DEF Inv
  <2>2. h.rproc[x].new # NULL
    BY <1>4, Constants DEF Linking
  <2> QED
    BY <2>1, <2>2 DEF Settled
<1>7. PICK j : j = Unset(i, s, {"INITIALIZING"})
  OBVIOUS
<1>8. PICK f : Marks(h, j, s, f, "dead")
  <2>1. {"INITIALIZING"} \cap Bits = {}
    BY DEF Bits
  <2>2. i \in States /\ St(i, s) = "dead"
    BY <1>52 DEF Marks, Quietly
  <2>3. Marks(i, j, s, i.rproc[s].flags \ {"INITIALIZING"}, "dead")
    BY <1>7, <2>1, <2>2, UnsetMarks
  <2>4. Marks(k, j, s, i.rproc[s].flags \ {"INITIALIZING"}, "dead")
    BY <1>52, <2>3, MarksTwice
  <2>5. Marks(h, j, s, i.rproc[s].flags \ {"INITIALIZING"}, "dead")
    BY <2>4, MarksTwice DEF Ended
  <2> QED
    BY <2>5
<1>9. Moves(h, j, {s}) /\ Used(j, s) /\ j.upd = x /\ Good(j, {})
  <2>1. Moves(h, j, {s}) /\ Used(j, s) /\ j.upd = h.upd
    BY <1>0, <1>8, MarksMoves
  <2> QED
    BY <1>6, <2>1 DEF Moves
<1>10. /\ Couple(j, s, x) /\ j.rproc[x] = h.rproc[x] /\ St(j, x) = St(h, x) /\ Main(j, s)
  BY <1>2, <1>3, <1>8, CoupleMarks
<1>11. PICK r : r = update_service(j, s, x)
  OBVIOUS
<1>12. Exchanged(j, r, s, x)
  BY <1>4, <1>9, <1>10, <1>11, ExchangeIs DEF Couple, Good
<1>13. Moves(j, r, {s, x}) /\ Couple(r, s, x) /\ St(r, s) = St(j, x)
  BY <1>9, <1>10, <1>12, ExchangeGood
<1>14. r.upd = s /\ r.rproc[s].new = x /\ Main(r, s)
  <2>1. r.upd = Swapped(j.upd, s, x) /\ Took(r.rproc[s], j.rproc[x], j.rproc[s], s, x)
    BY <1>12 DEF Exchanged
  <2>2. r.rproc[s].flags = j.rproc[x].flags \cup {"ACTIVE"}
    BY <1>12 DEF Exchanged
  <2> QED
    BY <1>4, <1>9, <1>10, <2>1, <2>2 DEF Swapped, Took, Linking, Main
<1>15. PICK q : q = end_update(r, FALSE, TRUE)
  OBVIOUS
<1>16. /\ Moves(r, q, {s, x}) /\ q.upd = NULL /\ ~Used(q, x)
       /\ Survives(r, q, s, IF St(r, s) = "blocked" THEN "run" ELSE St(r, s))
  <2>1. Good(r, {})
    BY <1>13 DEF Moves
  <2> QED
    BY <1>13, <1>14, <1>15, <2>1, EndUpdateIs
<1>17. Moves(h, q, {s, x})
  <2>1. Moves(h, r, {s, x})
    BY <1>9, <1>13, MovesTwice
  <2> QED
    BY <1>16, <2>1, MovesTwice
<1>18. Settled(q, s)
  <2>1. /\ r.rproc[s].flags = h.rproc[x].flags \cup {"ACTIVE"}
        /\ r.rproc[s].backoff = h.rproc[x].backoff /\ r.rproc[s].opt = h.rproc[x].opt
    BY <1>10, <1>12 DEF Exchanged, Took
  <2>2. St(r, s) = St(h, x)
    BY <1>10, <1>13
  <2>3. /\ Alone(q.rproc[s]) /\ "ACTIVE" \in q.rproc[s].flags /\ "UPDATING" \notin q.rproc[s].flags
        /\ \A g \in Notes \ {"UPDATING", "ACTIVE"} :
              g \in q.rproc[s].flags <=> g \in h.rproc[x].flags
        /\ q.rproc[s].backoff = h.rproc[x].backoff /\ q.rproc[s].opt = h.rproc[x].opt
        /\ St(q, s) = IF St(h, x) = "blocked" THEN "run" ELSE St(h, x)
    BY <1>16, <2>1, <2>2 DEF Survives, Main, Notes
  <2>4. /\ "INITIALIZING" \notin h.rproc[x].flags
        /\ h.rproc[x].backoff > 0 => "TERMINATED" \in h.rproc[x].flags
        /\ "TERMINATED" \in h.rproc[x].flags => St(h, x) = "dead"
        /\ ~h.rproc[x].opt.repl
    BY <1>4, <1>6, Constants DEF Settled, Main, Linking
  <2>5. /\ "INITIALIZING" \notin q.rproc[s].flags
        /\ "TERMINATED" \in q.rproc[s].flags <=> "TERMINATED" \in h.rproc[x].flags
    BY <2>3, <2>4 DEF Notes
  <2> QED
    BY <2>3, <2>4, <2>5 DEF Settled, Alone, Linking
<1>19. Inv(q)
  <2>1. Good(q, {}) /\ Others(h, q, {s, x})
    BY <1>17 DEF Moves
  <2>2. h.upd \in {s, x} \cup {NULL}
    BY <1>6
  <2>3. \A t \in Slots \cap {s, x} : Used(q, t) => Settled(q, t)
    BY <1>16, <1>18
  <2> QED
    BY <2>1, <2>2, <2>3, InvKept
<1>20. Keeps(h, q)
  BY <1>17, <1>19 DEF Keeps, Moves
<1>21. RollBack(i, s) = q
  <2>1. PICK y : y = i.rproc[s].old
    OBVIOUS
  <2>2. y = x
    BY <1>52, <2>1
  <2>3. y # NULL
    BY <1>5, <2>2
  <2>4. RollBack(i, s) = end_update(update_service(Unset(i, s, {"INITIALIZING"}), s, y), FALSE, TRUE)
    BY <2>1, <2>3 DEF RollBack
  <2> QED
    BY <1>7, <1>11, <1>15, <2>2, <2>4
<1> QED
  BY <1>20, <1>21, <1>51

(* A service that RS gives up.                                             *)
LEMMA GiveUpKeeps ==
    ASSUME NEW h, Inv(h), NEW s \in Slots, Used(h, s), NEW k2, NEW f,
           Marks(h, k2, s, f, "dead"),
           ~("INITIALIZING" \in h.rproc[s].flags /\ "UPDATING" \in h.rproc[s].flags),
           "INITIALIZING" \in h.rproc[s].flags \/ "EXITING" \in h.rproc[s].flags
    PROVE  Keeps(h, CleanupAll(unpublish_service(late_reply(k2, s), s), s))
<1>0. Good(h, {}) /\ Settled(h, s)
  BY DEF Inv
<1>1. Moves(h, k2, {s}) /\ Used(k2, s) /\ k2.upd = h.upd /\ SameData(h.rproc[s], k2.rproc[s])
  <2>1. Moves(h, k2, {s}) /\ Used(k2, s) /\ k2.upd = h.upd
    BY <1>0, MarksMoves
  <2> QED
    BY <2>1 DEF Marks
<1>2. "UPDATING" \notin h.rproc[s].flags
  BY <1>0 DEF Settled
<1>3. PICK l : l = late_reply(k2, s)
  OBVIOUS
<1>4. Moves(k2, l, {s}) /\ l.upd = k2.upd /\ Used(l, s) /\ SameData(k2.rproc[s], l.rproc[s])
  <2>1. Good(k2, {})
    BY <1>1 DEF Moves
  <2>2. Moves(k2, l, {s}) /\ Answers(k2, l, s) /\ l.upd = k2.upd /\ (Used(l, s) <=> Used(k2, s))
    BY <1>3, <2>1, AnswersMoves
  <2> QED
    BY <1>1, <2>2 DEF Answers
<1>5. PICK u : u = unpublish_service(l, s)
  OBVIOUS
<1>6. Told(l, u) /\ u.ds[l.rproc[s].label] = NULL
  BY <1>4, <1>5, UnpublishIs DEF Moves
<1>7. Good(u, {}) /\ Used(u, s) /\ u.ds[u.rproc[s].label] = NULL /\ u.upd = h.upd
  BY <1>1, <1>4, <1>6 DEF Told, Used
<1>8. SameData(h.rproc[s], u.rproc[s])
  <2>1. SameData(h.rproc[s], l.rproc[s])
    BY <1>1, <1>4, SameTwice
  <2> QED
    BY <1>6, <2>1 DEF Told
<1>9. PICK x \in Slots : (Alone(u.rproc[s]) /\ x = s) \/ Couple(u, s, x)
  <2>1. CASE Alone(u.rproc[s])
    BY <2>1
  <2>2. CASE ~Alone(u.rproc[s])
    BY <1>7, <2>2, Coupled
  <2> QED
    BY <2>1, <2>2
<1>10. u.upd # s
  <2>1. h.rproc[s].new = NULL
    BY <1>0, <1>2, Constants DEF Settled
  <2>2. u.rproc[s].new = NULL
    BY <1>8, <2>1 DEF SameData, SameFields
  <2> QED
    BY <1>7, <2>2, Constants DEF Good, Updating
<1>11. u.upd # x
  <2>1. CASE x = s
    BY <1>10, <2>1
  <2>2. CASE x # s
    <3>1. Couple(u, s, x)
      BY <1>9, <2>2
    <3>2. h.rproc[s].old = NULL
      BY <1>0, <1>2 DEF Settled
    <3>3. u.rproc[s].old = NULL
      BY <1>8, <3>2 DEF SameData, SameFields
    <3>4. u.rproc[x].new = NULL
      BY <3>1, <3>3, Constants DEF Couple, Tied, Linking
    <3> QED
      BY <1>7, <3>4, Constants DEF Good, Updating
  <2> QED
    BY <2>1, <2>2
<1>12. PICK q : q = CleanupAll(u, s)
  OBVIOUS
<1>13. Clears(u, q, {s, x})
  BY <1>7, <1>9, <1>10, <1>11, <1>12, CleanupAllClears
<1>14. Moves(h, q, {s, x}) /\ q.upd = h.upd
  <2>1. Moves(h, l, {s, x})
    BY <1>1, <1>4, MovesTwice
  <2>2. Moves(l, u, {})
    BY <1>6, ToldMoves
  <2>3. Moves(h, u, {s, x})
    BY <2>1, <2>2, MovesTwice
  <2> QED
    BY <1>7, <1>13, <2>3, MovesTwice DEF Clears
<1>15. Inv(q)
  <2>1. Good(q, {}) /\ Others(h, q, {s, x})
    BY <1>14 DEF Moves
  <2>2. \A t \in Slots \cap {s, x} : Used(q, t) => Settled(q, t)
    BY <1>13 DEF Clears
  <2> QED
    BY <1>14, <2>1, <2>2, InvKept
<1> QED
  BY <1>3, <1>5, <1>12, <1>14, <1>15 DEF Keeps, Moves

(* A service that died, and its update with it.                            *)
Fallen(h, a, s) ==
    Keeps(h, a) /\ Main(a, s) /\ Alone(a.rproc[s]) /\ "TERMINATED" \in a.rproc[s].flags

(* EndUpdateOf leaves it alone, and the update is over.                    *)
LEMMA FallenIs ==
    ASSUME NEW h, Inv(h), NEW s \in Slots, Main(h, s), NEW k, Ended(h, k, s),
           "INITIALIZING" \notin h.rproc[s].flags, "EXITING" \notin h.rproc[s].flags
    PROVE  Fallen(h, EndUpdateOf(k, s), s)
<1>0. Good(h, {}) /\ Used(h, s)
  BY MainUsed DEF Inv, Good
<1>1. Settled(h, s)
  BY <1>0 DEF Inv
<1>2. /\ Moves(h, k, {s}) /\ Good(k, {}) /\ k \in States /\ Used(k, s) /\ k.upd = h.upd
      /\ SameData(h.rproc[s], k.rproc[s])
      /\ k.rproc[s].flags = h.rproc[s].flags \cup {"TERMINATED"} /\ St(k, s) = "dead"
  BY <1>0, EndedIs
<1>3. h.rproc[s].prev = NULL /\ h.rproc[s].next = NULL /\ h.rproc[s].old = NULL
  BY <1>1 DEF Settled, Main
<1>4. Main(k, s) /\ (Has(k, s, "UPDATING") <=> "UPDATING" \in h.rproc[s].flags)
  BY <1>2 DEF Main, Has
<1>5. CASE "UPDATING" \notin h.rproc[s].flags
  <2>1. EndUpdateOf(k, s) = k
    BY <1>4, <1>5 DEF EndUpdateOf
  <2>2. Alone(k.rproc[s])
    BY <1>1, <1>2, <1>3, <1>5 DEF Settled, SameData, SameFields, Alone, Linking
  <2>3. Settled(k, s)
    <3>1. /\ "TERMINATED" \in k.rproc[s].flags /\ "INITIALIZING" \notin k.rproc[s].flags
          /\ "UPDATING" \notin k.rproc[s].flags /\ ~k.rproc[s].opt.repl
      BY <1>1, <1>2, <1>5 DEF Settled, SameData
    <3> QED
      BY <1>2, <2>2, <3>1 DEF Settled, Alone, Linking
  <2>4. Inv(k)
    <3>1. Others(h, k, {s})
      BY <1>2 DEF Moves
    <3>2. \A t \in Slots \cap {s} : Used(k, t) => Settled(k, t)
      BY <2>3
    <3> QED
      BY <1>2, <3>1, <3>2, InvKept
  <2> QED
    BY <1>2, <1>4, <2>1, <2>2, <2>4 DEF Fallen, Keeps, Moves
<1>6. CASE "UPDATING" \in h.rproc[s].flags
  <2>1. h.rproc[s].new # NULL /\ h.upd = s
    BY <1>1, <1>3, <1>6 DEF Settled
  <2>2. PICK n \in Slots : Couple(h, s, n)
    <3>1. ~Alone(h.rproc[s]) /\ s \in Slots \ {}
      BY <2>1 DEF Alone, Linking
    <3> QED
      BY <1>0, <3>1, Coupled
  <2>3. h.rproc[s].new = n
    BY <2>1, <2>2 DEF Couple, Tied, Linking
  <2>4. Couple(k, s, n)
    BY <2>2, CoupleMarks DEF Ended
  <2>5. k.rproc[s].new = n
    BY <1>2, <2>3 DEF SameData, SameFields
  <2>6. PICK a : a = end_update(k, FALSE, FALSE)
    OBVIOUS
  <2>7. /\ Moves(k, a, {s, n}) /\ a.upd = NULL /\ ~Used(a, n)
        /\ Survives(k, a, s, "dead")
    BY <1>2, <1>4, <2>1, <2>4, <2>5, <2>6, EndUpdateIs
  <2>8. /\ Main(a, s) /\ Alone(a.rproc[s]) /\ "TERMINATED" \in a.rproc[s].flags
        /\ "INITIALIZING" \notin a.rproc[s].flags /\ "UPDATING" \notin a.rproc[s].flags
        /\ St(a, s) = "dead" /\ ~a.rproc[s].opt.repl
    <3>1. \A g \in Notes \ {"UPDATING"} : g \in a.rproc[s].flags <=> g \in k.rproc[s].flags
      BY <2>7 DEF Survives
    <3>2. "TERMINATED" \in k.rproc[s].flags /\ "INITIALIZING" \notin k.rproc[s].flags
      BY <1>2
    <3>3. ~k.rproc[s].opt.repl
      BY <1>1, <1>2 DEF Settled, SameData
    <3> QED
      BY <2>7, <3>1, <3>2, <3>3 DEF Survives, Notes
  <2>9. Settled(a, s)
    BY <2>8 DEF Settled, Alone, Linking
  <2>10. Moves(h, a, {s, n})
    BY <1>2, <2>7, MovesTwice
  <2>11. Inv(a)
    <3>1. Good(a, {}) /\ Others(h, a, {s, n})
      BY <2>10 DEF Moves
    <3>2. \A t \in Slots \cap {s, n} : Used(a, t) => Settled(a, t)
      BY <2>7, <2>9
    <3>3. h.upd \in {s, n} \cup {NULL}
      BY <2>1
    <3> QED
      BY <3>1, <3>2, <3>3, InvKept
  <2>12. EndUpdateOf(k, s) = a
    BY <1>4, <1>6, <2>6 DEF EndUpdateOf
  <2> QED
    BY <2>8, <2>10, <2>11, <2>12 DEF Fallen, Keeps, Moves
<1> QED
  BY <1>5, <1>6

(* The service waits before it is started again.                           *)
LEMMA BackoffKeeps ==
    ASSUME NEW h, NEW a, NEW s \in Slots, Fallen(h, a, s), NEW n \in 0 .. MAX_BACKOFF
    PROVE  Keeps(h, [a EXCEPT !.rproc[s].backoff = n])
<1>0. Inv(a) /\ Good(a, {}) /\ a \in States /\ Used(a, s) /\ Fewer(h, a)
  BY MainUsed DEF Fallen, Keeps, Inv, Good
<1>1. a.rproc[s] \in Slot /\ a.rproc \in [Slots -> Slot]
  BY <1>0, StateFields
<1>2. PICK q : q = [a.rproc[s] EXCEPT !.backoff = n]
  OBVIOUS
<1>3. q \in Slot /\ SameFields(a.rproc[s], q) /\ SameBits(a.rproc[s], q)
      /\ q.flags = a.rproc[s].flags /\ q.opt = a.rproc[s].opt
  BY <1>1, <1>2 DEF Slot, SameFields, SameBits
<1>4. [a EXCEPT !.rproc[s].backoff = n] = Edit(a, s, q)
  BY <1>0, <1>1, <1>2 DEF Edit, States
<1>5. PICK r : r = Edit(a, s, q)
  OBVIOUS
<1>6. Turns(a, r, s, q)
  BY <1>0, <1>3, <1>5, Turned
<1>7. Quietly(a, r, s) /\ r.rproc[s] = q
  <2>1. Quietly(a, r, s)
    BY <1>0, <1>3, <1>6, TurnsQuietly
  <2> QED
    BY <1>6, <2>1 DEF Turns
<1>8. Good(r, {}) /\ Used(r, s)
  BY <1>0, <1>7, QuietlyOwned
<1>9. St(r, s) = St(a, s)
  <2>1. r.world = a.world /\ q.ep = a.rproc[s].ep
    BY <1>3, <1>6 DEF Turns, OnlyTable, SameFields
  <2> QED
    BY <1>7, <2>1 DEF St
<1>10. Settled(r, s)
  <2>1. Settled(a, s) /\ Main(a, s) /\ Alone(a.rproc[s]) /\ "TERMINATED" \in a.rproc[s].flags
    BY <1>0 DEF Inv, Fallen
  <2>2. Alone(r.rproc[s]) /\ r.rproc[s].flags = a.rproc[s].flags /\ r.rproc[s].opt = a.rproc[s].opt
    BY <1>3, <1>7, <2>1 DEF Alone, Linking, SameFields
  <2>3. r.upd = a.upd
    BY <1>6 DEF Turns, OnlyTable
  <2> QED
    BY <1>9, <2>1, <2>2, <2>3 DEF Settled, Alone, Linking, Main
<1>11. Inv(r)
  <2>1. Others(a, r, {s}) /\ r.upd = a.upd
    BY <1>7 DEF Quietly
  <2>2. \A t \in Slots \cap {s} : Used(r, t) => Settled(r, t)
    BY <1>10
  <2> QED
    BY <1>0, <1>8, <2>1, <2>2, InvKept
<1>12. Fewer(h, r)
  BY <1>0, <1>7 DEF Quietly, Fewer
<1> QED
  BY <1>4, <1>5, <1>11, <1>12 DEF Keeps

(* One function after the other.                                           *)
LEMMA KeepsTwice ==
    ASSUME NEW k, NEW r, NEW q, Keeps(k, r), Keeps(r, q)
    PROVE  Keeps(k, q)
BY FewerTwice DEF Keeps

(* terminate_service: rollback, exit, refresh, or restart with backoff.    *)
LEMMA TerminateKeeps ==
    ASSUME Plain, NEW h, Inv(h), NEW s \in Slots, Used(h, s), NEW k, Ended(h, k, s),
           Main(h, s) \/ "EXITING" \in h.rproc[s].flags, NEW out, Outcome(out)
    PROVE  Keeps(h, terminate_service(k, s, out))
<1>0. Good(h, {}) /\ Settled(h, s)
  BY DEF Inv
<1>1. /\ Good(k, {}) /\ k \in States /\ Used(k, s) /\ SameData(h.rproc[s], k.rproc[s])
      /\ k.rproc[s].flags = h.rproc[s].flags \cup {"TERMINATED"} /\ St(k, s) = "dead"
  BY <1>0, EndedIs
<1> DEFINE F == h.rproc[s].flags
<1>2. /\ Has(k, s, "INITIALIZING") <=> "INITIALIZING" \in F
      /\ Has(k, s, "UPDATING") <=> "UPDATING" \in F
      /\ Has(k, s, "REFRESHING") <=> "REFRESHING" \in F
      /\ Has(k, s, "EXITING") <=> "EXITING" \in F
  BY <1>1 DEF Has
<1> HIDE DEF F
<1>3. PICK k2 : k2 = IF Has(k, s, "INITIALIZING") THEN Set(k, s, {"EXITING"}) ELSE k
  OBVIOUS
<1>4. /\ Has(k2, s, "EXITING") <=> "EXITING" \in F \/ "INITIALIZING" \in F
      /\ \E f : Marks(h, k2, s, f, "dead")
  <2>1. CASE "INITIALIZING" \in F
    <3>1. {"EXITING"} \in SUBSET Flags /\ {"EXITING"} \cap Bits = {}
      BY DEF Flags, Bits
    <3>2. k2 = Set(k, s, {"EXITING"})
      BY <1>2, <1>3, <2>1
    <3>3. Marks(k, k2, s, k.rproc[s].flags \cup {"EXITING"}, "dead")
      BY <1>1, <3>1, <3>2, SetMarks
    <3>4. Marks(h, k2, s, k.rproc[s].flags \cup {"EXITING"}, "dead")
      BY <3>3, MarksTwice DEF Ended
    <3>5. Has(k2, s, "EXITING")
      BY <3>3 DEF Marks, Has
    <3> QED
      BY <2>1, <3>4, <3>5
  <2>2. CASE "INITIALIZING" \notin F
    <3>1. k2 = k
      BY <1>2, <1>3, <2>2
    <3> QED
      BY <1>2, <2>2, <3>1 DEF Ended
  <2> QED
    BY <2>1, <2>2
<1> DEFINE t == terminate_service(k, s, out)
<1>5. CASE "INITIALIZING" \in F /\ "UPDATING" \in F
  <2>1. k2 = Set(k, s, {"EXITING"})
    BY <1>2, <1>3, <1>5
  <2>2. t = RollBack(k2, s)
    BY <1>2, <1>3, <1>4, <1>5 DEF terminate_service
  <2>3. Keeps(h, RollBack(k2, s))
    BY <1>5, <2>1, RollbackKeeps DEF F
  <2> QED
    BY <2>2, <2>3
<1>6. CASE ~("INITIALIZING" \in F /\ "UPDATING" \in F) /\ ("EXITING" \in F \/ "INITIALIZING" \in F)
  <2>1. Keeps(h, CleanupAll(unpublish_service(late_reply(k2, s), s), s))
    <3>1. PICK f : Marks(h, k2, s, f, "dead")
      BY <1>4
    <3> QED
      BY <1>6, <3>1, GiveUpKeeps DEF F
  <2>2. t = CleanupAll(unpublish_service(late_reply(k2, s), s), s)
    BY <1>2, <1>3, <1>4, <1>6 DEF terminate_service
  <2> QED
    BY <2>1, <2>2
<1>7. CASE "INITIALIZING" \notin F /\ "EXITING" \notin F
  <2>0. k2 = k /\ ~Has(k2, s, "EXITING") /\ Main(h, s)
    BY <1>2, <1>3, <1>4, <1>7 DEF F
  <2>1. PICK a : a = EndUpdateOf(k, s)
    OBVIOUS
  <2>2. Fallen(h, a, s)
    BY <1>7, <2>0, <2>1, FallenIs DEF F
  <2>3. k.rproc[s] \in Slot
    BY <1>1, StateFields
  <2>4. k.rproc[s].opt.script \in BOOLEAN /\ k.rproc[s].restarts \in 0 .. MaxRestarts
    BY <2>3 DEF Slot
  <2>5. Keeps(h, restart_service(a, s, k.rproc[s].opt.script, out))
    <3>1. Keeps(a, restart_service(a, s, k.rproc[s].opt.script, out))
      BY <2>2, <2>4, RestartKeeps DEF Fallen, Keeps
    <3> QED
      BY <2>2, <3>1, KeepsTwice DEF Fallen
  <2>6. Keeps(h, [a EXCEPT !.rproc[s].backoff = Backoff(k.rproc[s].restarts)])
    BY <2>2, <2>4, BackoffIs, BackoffKeeps
  <2>7. CASE "REFRESHING" \in F
    <3>1. a = k
      <4>1. ~Has(k, s, "UPDATING")
        BY <1>0, <1>2, <2>7 DEF Settled, F
      <4> QED
        BY <2>1, <4>1 DEF EndUpdateOf
    <3>2. t = restart_service(k, s, k.rproc[s].opt.script, out)
      BY <1>2, <1>3, <1>7, <2>0, <2>7 DEF terminate_service
    <3> QED
      BY <2>5, <3>1, <3>2
  <2>8. CASE "REFRESHING" \notin F
    <3>1. t = IF k.rproc[s].restarts > 0
                THEN [a EXCEPT !.rproc[s].backoff = Backoff(k.rproc[s].restarts)]
                ELSE restart_service(a, s, k.rproc[s].opt.script, out)
      BY <1>2, <1>3, <1>7, <2>0, <2>1, <2>8 DEF terminate_service
    <3> QED
      BY <2>5, <2>6, <3>1
  <2> QED
    BY <2>7, <2>8
<1> QED
  BY <1>5, <1>6, <1>7

-----------------------------------------------------------------------------
(* Requests about a service.                                               *)
LEMMA KeepsSelf ==
    ASSUME NEW k, Inv(k)
    PROVE  Keeps(k, k)
BY DEF Keeps, Fewer

(* A request about an active service that check_call_permission lets pass. *)
Permitted(s, l, type) ==
    s = lookup_slot_by_label(K, l) /\ s # NULL /\ check_call_permission(s, type)

LEMMA PermittedIs ==
    ASSUME Inv(K), NEW l, NEW type, NEW s, Permitted(s, l, type)
    PROVE  /\ s \in Slots /\ Main(K, s) /\ Used(K, s) /\ Settled(K, s)
           /\ \A f \in {"LATEREPLY", "INITIALIZING", "UPDATING"} : f \notin K.rproc[s].flags
           /\ "TERMINATED" \in K.rproc[s].flags => type \in {"DOWN", "RESTART"}
           /\ ~Owes(K, s)
<1>1. s \in Slots /\ Main(K, s)
  BY LookupIs DEF Permitted
<1>2. Used(K, s) /\ Settled(K, s)
  BY <1>1, MainUsed DEF Inv, Good
<1> QED
  BY <1>1, <1>2 DEF Permitted, check_call_permission, Has, Owes

(* stop_service marks the service.                                         *)
LEMMA StopIs ==
    ASSUME NEW k, Good(k, {}), NEW s \in Slots, Used(k, s), NEW how \in {"EXITING", "REFRESHING"}
    PROVE  Marks(k, stop_service(k, s, how), s, k.rproc[s].flags \cup {how}, St(k, s))
<1>0. k \in States /\ {how} \in SUBSET Flags /\ {how} \cap Bits = {}
  BY DEF Good, Flags, Bits
<1>1. PICK i : i = Set(k, s, {how})
  OBVIOUS
<1>2. Marks(k, i, s, k.rproc[s].flags \cup {how}, St(k, s))
  BY <1>0, <1>1, SetMarks
<1>3. i \in States /\ i.rproc[s].flags = k.rproc[s].flags \cup {how} /\ St(i, s) = St(k, s)
  BY <1>2 DEF Marks, Quietly
<1>4. i.rproc[s] \in Slot /\ i.rproc \in [Slots -> Slot]
  BY <1>3, StateFields
<1>5. PICK q : q = [i.rproc[s] EXCEPT !.stopping = TRUE]
  OBVIOUS
<1>6. q \in Slot /\ SameData(i.rproc[s], q) /\ q.flags = i.rproc[s].flags
  BY <1>4, <1>5 DEF Slot, SameData, SameFields
<1>7. stop_service(k, s, how) = Edit(i, s, q)
  BY <1>1, <1>3, <1>4, <1>5 DEF stop_service, Edit, States
<1>8. PICK r : r = Edit(i, s, q)
  OBVIOUS
<1>9. Marks(i, r, s, k.rproc[s].flags \cup {how}, St(k, s))
  BY <1>3, <1>6, <1>8, EditMarks
<1> QED
  BY <1>2, <1>7, <1>8, <1>9, MarksTwice

LEMMA StopKeeps ==
    ASSUME NEW k, Inv(k), NEW s \in Slots, Used(k, s), "UPDATING" \notin k.rproc[s].flags,
           NEW how \in {"EXITING", "REFRESHING"}
    PROVE  /\ Keeps(k, stop_service(k, s, how)) /\ Used(stop_service(k, s, how), s)
           /\ (Owes(stop_service(k, s, how), s) <=> Owes(k, s))
<1>1. Good(k, {}) /\ Settled(k, s)
  BY DEF Inv
<1>2. PICK r : r = stop_service(k, s, how)
  OBVIOUS
<1>3. Marks(k, r, s, k.rproc[s].flags \cup {how}, St(k, s))
  BY <1>1, <1>2, StopIs
<1>4. Moves(k, r, {s}) /\ Used(r, s) /\ r.upd = k.upd
  BY <1>1, <1>3, MarksMoves
<1>5. Settled(r, s)
  <2>1. SameData(k.rproc[s], r.rproc[s]) /\ r.rproc[s].flags = k.rproc[s].flags \cup {how}
        /\ St(r, s) = St(k, s)
    BY <1>3 DEF Marks
  <2> QED
    BY <1>1, <1>4, <2>1 DEF Settled, SameData, SameFields, Alone, Linking
<1>6. Inv(r)
  <2>1. \A t \in Slots \cap {s} : Used(r, t) => Settled(r, t)
    BY <1>5
  <2> QED
    BY <1>4, <2>1, InvKept DEF Moves
<1>7. Owes(r, s) <=> Owes(k, s)
  BY <1>3 DEF Marks, Owes
<1> QED
  BY <1>2, <1>4, <1>6, <1>7 DEF Keeps, Moves

(* The requests about an existing service.                                 *)
LEMMA do_downKeeps ==
    ASSUME Plain, Inv(K), NEW c \in Callers, NEW l \in Labels, do_down(c, l)
    PROVE  Inv(K')
<1>1. PICK s : Permitted(s, l, "DOWN")
  BY DEF do_down, On, Permitted
<1>2. s \in Slots /\ Main(K, s) /\ Used(K, s) /\ Settled(K, s) /\ ~Owes(K, s)
      /\ "UPDATING" \notin K.rproc[s].flags
  BY <1>1, PermittedIs
<1>3. ~K.waiting[c]
  BY <1>1 DEF do_down, On, Ask, K, Permitted
<1>4. PICK q : q = IF Has(K, s, "TERMINATED")
                     THEN Answered(cleanup_service(unpublish_service(K, s), s))
                     ELSE Late(stop_service(K, s, "EXITING"), s, c)
  OBVIOUS
<1>5. Become([q.k EXCEPT !.waiting[c] = ~q.ok])
  BY <1>1, <1>4 DEF do_down, On, Ask, Permitted
<1>6. CASE Has(K, s, "TERMINATED")
  <2>1. Alone(K.rproc[s]) /\ Good(K, {})
    BY <1>2, <1>6 DEF Settled, Has, Main, Inv
  <2>2. PICK u : u = unpublish_service(K, s)
    OBVIOUS
  <2>3. Told(K, u) /\ u.ds[K.rproc[s].label] = NULL
    BY <1>2, <2>1, <2>2, UnpublishIs
  <2>4. Good(u, {}) /\ Used(u, s) /\ Alone(u.rproc[s]) /\ u.ds[u.rproc[s].label] = NULL
        /\ u.upd = K.upd
    BY <1>2, <2>1, <2>3 DEF Told, Used
  <2>5. u.upd # s
    BY <2>4, AloneNotUnder, <1>2
  <2>6. PICK r : r = cleanup_service(u, s)
    OBVIOUS
  <2>7. Clears(u, r, {s})
    <3>1. Clears(u, CleanupAll(u, s), {s, s})
      BY <1>2, <2>4, <2>5, CleanupAllClears
    <3>2. CleanupAll(u, s) = r /\ {s, s} = {s}
      BY <2>4, <2>6, CleanupAlone
    <3> QED
      BY <3>1, <3>2
  <2>8. Moves(K, r, {s}) /\ r.upd = K.upd /\ ~Used(r, s)
    <3>1. Moves(K, u, {})
      BY <2>3, ToldMoves
    <3>2. Moves(K, r, {s})
      BY <2>7, <3>1, MovesTwice DEF Clears
    <3> QED
      BY <1>2, <2>4, <2>7, <3>2 DEF Clears
  <2>9. Inv(r)
    <3>1. \A t \in Slots \cap {s} : Used(r, t) => Settled(r, t)
      BY <2>8
    <3> QED
      BY <2>8, <3>1, InvKept DEF Moves
  <2>10. q = Answered(r) /\ Keeps(K, r)
    BY <1>4, <1>6, <2>2, <2>6, <2>8, <2>9 DEF Keeps, Moves
  <2>11. Inv([q.k EXCEPT !.waiting[c] = ~q.ok])
    BY <1>3, <2>10, AnsweredIs
  <2> QED
    BY <1>5, <2>11, AskIs
<1>7. CASE ~Has(K, s, "TERMINATED")
  <2>1. PICK r : r = stop_service(K, s, "EXITING")
    OBVIOUS
  <2>2. Keeps(K, r) /\ Used(r, s) /\ ~Owes(r, s)
    BY <1>2, <2>1, StopKeeps
  <2>3. ~r.waiting[c]
    BY <1>3, <2>2 DEF Keeps, Fewer
  <2>4. Inv([Late(r, s, c).k EXCEPT !.waiting[c] = ~Late(r, s, c).ok])
    BY <1>2, <2>2, <2>3, LateIs DEF Keeps
  <2> QED
    BY <1>4, <1>5, <1>7, <2>1, <2>4, AskIs
<1> QED
  BY <1>6, <1>7

LEMMA do_restartKeeps ==
    ASSUME Plain, Inv(K), NEW c \in Callers, NEW l \in Labels, do_restart(c, l)
    PROVE  Inv(K')
<1>1. PICK s : Permitted(s, l, "RESTART")
  BY DEF do_restart, On, Permitted
<1>2. s \in Slots /\ Main(K, s) /\ Settled(K, s)
  BY <1>1, PermittedIs
<1>3. ~K.waiting[c]
  BY <1>1 DEF do_restart, On, Ask, K, Permitted
<1>4. PICK out \in Outcomes :
         LET q == Answered(IF Has(K, s, "TERMINATED") THEN restart_service(K, s, FALSE, out) ELSE K)
         IN  Become([q.k EXCEPT !.waiting[c] = ~q.ok])
  BY <1>1 DEF do_restart, On, Ask, Permitted
<1>5. PICK r : r = IF Has(K, s, "TERMINATED") THEN restart_service(K, s, FALSE, out) ELSE K
  OBVIOUS
<1>6. Keeps(K, r)
  <2>1. CASE Has(K, s, "TERMINATED")
    <3>1. Alone(K.rproc[s]) /\ "TERMINATED" \in K.rproc[s].flags
      BY <1>2, <2>1 DEF Settled, Has, Main
    <3>2. Keeps(K, restart_service(K, s, FALSE, out))
      BY <1>2, <3>1, OutcomeOf, RestartKeeps
    <3> QED
      BY <1>5, <2>1, <3>2
  <2>2. CASE ~Has(K, s, "TERMINATED")
    BY <1>5, <2>2, KeepsSelf
  <2> QED
    BY <2>1, <2>2
<1>7. Inv([Answered(r).k EXCEPT !.waiting[c] = ~Answered(r).ok])
  BY <1>3, <1>6, AnsweredIs
<1> QED
  BY <1>4, <1>5, <1>7, AskIs

LEMMA do_refreshKeeps ==
    ASSUME Plain, Inv(K), NEW c \in Callers, NEW l \in Labels, do_refresh(c, l)
    PROVE  Inv(K')
<1>1. PICK s : Permitted(s, l, "REFRESH")
  BY DEF do_refresh, On, Permitted
<1>2. s \in Slots /\ Used(K, s) /\ "UPDATING" \notin K.rproc[s].flags
  BY <1>1, PermittedIs
<1>3. ~K.waiting[c]
  BY <1>1 DEF do_refresh, On, Ask, K, Permitted
<1>4. PICK r : r = stop_service(K, s, "REFRESHING")
  OBVIOUS
<1>5. Become([Answered(r).k EXCEPT !.waiting[c] = ~Answered(r).ok])
  BY <1>1, <1>4 DEF do_refresh, On, Ask, Permitted
<1>6. Keeps(K, r)
  BY <1>2, <1>4, StopKeeps
<1>7. Inv([Answered(r).k EXCEPT !.waiting[c] = ~Answered(r).ok])
  BY <1>3, <1>6, AnsweredIs
<1> QED
  BY <1>5, <1>7, AskIs

LEMMA do_cloneNever ==
    ASSUME Plain, NEW c \in Callers, NEW l \in Labels
    PROVE  ~do_clone(c, l)
BY DEF Plain, do_clone, On, Ask

(* A service is told how it is started, and no replica is wanted.          *)
LEMMA OptKeeps ==
    ASSUME NEW k, Inv(k), NEW s \in Slots, Used(k, s),
           NEW opt \in [script : BOOLEAN, repl : BOOLEAN, period : BOOLEAN], ~opt.repl
    PROVE  Keeps(k, [k EXCEPT !.rproc[s].opt = opt])
<1>0. Good(k, {}) /\ k \in States /\ Settled(k, s)
  BY DEF Inv, Good
<1>1. k.rproc[s] \in Slot /\ k.rproc \in [Slots -> Slot]
  BY <1>0, StateFields
<1>2. PICK q : q = [k.rproc[s] EXCEPT !.opt = opt]
  OBVIOUS
<1>3. q \in Slot /\ SameFields(k.rproc[s], q) /\ SameBits(k.rproc[s], q)
      /\ q.flags = k.rproc[s].flags /\ q.backoff = k.rproc[s].backoff /\ q.opt = opt
  BY <1>1, <1>2 DEF Slot, SameFields, SameBits
<1>4. [k EXCEPT !.rproc[s].opt = opt] = Edit(k, s, q)
  BY <1>0, <1>1, <1>2 DEF Edit, States
<1>5. PICK r : r = Edit(k, s, q)
  OBVIOUS
<1>6. Turns(k, r, s, q)
  BY <1>0, <1>3, <1>5, Turned
<1>7. Quietly(k, r, s) /\ r.rproc[s] = q /\ r.upd = k.upd /\ St(r, s) = St(k, s)
  <2>1. Quietly(k, r, s)
    BY <1>0, <1>3, <1>6, TurnsQuietly
  <2>2. r.world = k.world /\ r.rproc[s] = q /\ r.upd = k.upd /\ q.ep = k.rproc[s].ep
    BY <1>3, <1>6 DEF Turns, OnlyTable, SameFields
  <2> QED
    BY <2>1, <2>2 DEF St
<1>8. Good(r, {}) /\ Used(r, s)
  BY <1>0, <1>7, QuietlyOwned
<1>9. Settled(r, s)
  BY <1>0, <1>3, <1>7 DEF Settled, SameFields, Alone, Linking
<1>10. Inv(r)
  <2>1. Others(k, r, {s})
    BY <1>7 DEF Quietly
  <2>2. \A t \in Slots \cap {s} : Used(r, t) => Settled(r, t)
    BY <1>9
  <2> QED
    BY <1>7, <1>8, <2>1, <2>2, InvKept
<1>11. Fewer(k, r)
  BY <1>7 DEF Quietly, Fewer
<1> QED
  BY <1>4, <1>5, <1>10, <1>11 DEF Keeps

LEMMA do_editKeeps ==
    ASSUME Plain, Inv(K), NEW c \in Callers, NEW l \in Labels, NEW opt \in Options,
           do_edit(c, l, opt)
    PROVE  Inv(K')
<1>1. PICK s : Permitted(s, l, "EDIT")
  BY DEF do_edit, On, Permitted
<1>2. s \in Slots /\ Main(K, s) /\ Used(K, s) /\ Settled(K, s)
  BY <1>1, PermittedIs
<1>3. ~K.waiting[c]
  BY <1>1 DEF do_edit, On, Ask, K, Permitted
<1>4. PICK o : o = [opt EXCEPT !.repl = @ \/ K.rproc[s].opt.repl,
                               !.script = @ \/ K.rproc[s].opt.script]
  OBVIOUS
<1>5. PICK r : r = edit_slot(K, s, opt)
  OBVIOUS
<1>51. r = [K EXCEPT !.rproc[s].opt = o]
  BY <1>4, <1>5 DEF edit_slot
<1>6. PICK out \in Outcomes :
         LET n == K.rproc[s].next
             alone == IF n = NULL THEN r ELSE [cleanup_service(r, n) EXCEPT !.rproc[s].next = NULL]
             q == Answered(IF r.rproc[s].opt.repl THEN clone_service(alone, s, FALSE, out).k ELSE r)
         IN  Become([q.k EXCEPT !.waiting[c] = ~q.ok])
  <2>1. PICK out \in Outcomes :
         LET e == edit_slot(K, s, opt)
             n == K.rproc[s].next
             alone == IF n = NULL THEN e ELSE [cleanup_service(e, n) EXCEPT !.rproc[s].next = NULL]
             q == Answered(IF e.rproc[s].opt.repl THEN clone_service(alone, s, FALSE, out).k ELSE e)
         IN  Become([q.k EXCEPT !.waiting[c] = ~q.ok])
    BY <1>1 DEF do_edit, On, Ask, Permitted
  <2> QED
    BY <1>5, <2>1
<1>7. o \in [script : BOOLEAN, repl : BOOLEAN, period : BOOLEAN] /\ ~o.repl
  <2>1. opt \in [script : BOOLEAN, repl : BOOLEAN, period : BOOLEAN] /\ ~opt.repl
    BY RSAssumption DEF Plain
  <2>2. K.rproc[s] \in Slot /\ ~K.rproc[s].opt.repl
    BY <1>2, StateFields DEF Inv, Good, Settled
  <2>3. K.rproc[s].opt.script \in BOOLEAN /\ K.rproc[s].opt.repl = FALSE
    BY <2>2 DEF Slot
  <2>4. PICK a \in BOOLEAN : a = K.rproc[s].opt.script
    BY <2>3
  <2>5. o = [opt EXCEPT !.repl = @ \/ FALSE, !.script = @ \/ a]
    BY <1>4, <2>3, <2>4
  <2>6. o \in [script : BOOLEAN, repl : BOOLEAN, period : BOOLEAN]
    BY <2>1, <2>5
  <2>7. o.repl = (opt.repl \/ FALSE)
    BY <2>1, <2>5
  <2> QED
    BY <2>1, <2>6, <2>7
<1>8. Keeps(K, r)
  BY <1>2, <1>51, <1>7, OptKeeps
<1>9. ~r.rproc[s].opt.repl
  <2>1. Used(r, s)
    <3>1. K \in States
      BY DEF Inv, Good
    <3>2. r.rproc[s].flags = K.rproc[s].flags
      BY <1>2, <1>51, <3>1 DEF States, Slot
    <3> QED
      BY <1>2, <3>2 DEF Used
  <2> QED
    BY <1>2, <1>8, <2>1 DEF Keeps, Inv, Settled
<1>10. Inv([Answered(r).k EXCEPT !.waiting[c] = ~Answered(r).ok])
  BY <1>3, <1>8, AnsweredIs
<1> QED
  BY <1>6, <1>9, <1>10, AskIs

-----------------------------------------------------------------------------
(* The shutdown marks every slot.                                          *)
Marked(k) == [k EXCEPT !.rproc = AllExiting(k)]

(* At shutdown every slot in use is told to exit.                          *)
LEMMA MarkedIs ==
    ASSUME NEW k \in States
    PROVE  LET r == Marked(k)
           IN  /\ r \in States /\ OnlyTable(k, r)
               /\ \A s \in Slots :
                     /\ r.rproc[s].flags = IF Used(k, s) THEN k.rproc[s].flags \cup {"EXITING"}
                                                        ELSE k.rproc[s].flags
                     /\ SameData(k.rproc[s], r.rproc[s])
<1>1. k.rproc \in [Slots -> Slot]
  BY StateFields
<1>2. PICK p : p = AllExiting(k)
  OBVIOUS
<1>3. Marked(k) = [k EXCEPT !.rproc = p]
  BY <1>2 DEF Marked
<1>4. ASSUME NEW s \in Slots
      PROVE  /\ p[s] \in Slot /\ SameData(k.rproc[s], p[s])
             /\ p[s].flags = IF Used(k, s) THEN k.rproc[s].flags \cup {"EXITING"}
                                           ELSE k.rproc[s].flags
  <2>1. PICK a \in Slot : a = k.rproc[s]
    BY <1>1
  <2>2. p[s] = [a EXCEPT !.flags = IF "IN_USE" \in a.flags THEN a.flags \cup {"EXITING"}
                                                           ELSE a.flags]
    BY <1>2, <2>1 DEF AllExiting
  <2>3. PICK f \in SUBSET Flags : f = IF "IN_USE" \in a.flags THEN a.flags \cup {"EXITING"}
                                                              ELSE a.flags
    BY <2>1 DEF Slot, Flags
  <2>4. p[s] = [a EXCEPT !.flags = f]
    BY <2>2, <2>3
  <2>5. p[s] \in Slot /\ SameData(a, p[s]) /\ p[s].flags = f
    BY <2>1, <2>4 DEF Slot, SameData, SameFields
  <2> QED
    BY <2>1, <2>3, <2>5 DEF Used
<1>5. p \in [Slots -> Slot]
  BY <1>2, <1>4 DEF AllExiting
<1>6. PICK r : r = [k EXCEPT !.rproc = p]
  OBVIOUS
<1>7. r \in States /\ OnlyTable(k, r) /\ r.rproc = p
  BY <1>5, <1>6 DEF States, OnlyTable
<1> QED
  BY <1>3, <1>4, <1>6, <1>7

(* Without an update no slot is marked as updating.                        *)
LEMMA NoUpdateAlone ==
    ASSUME NEW k, Inv(k), k.upd = NULL, NEW s \in Slots, Used(k, s)
    PROVE  "UPDATING" \notin k.rproc[s].flags /\ k.rproc[s].old = NULL /\ k.rproc[s].new = NULL
<1>1. Settled(k, s) /\ Good(k, {})
  BY DEF Inv
<1>2. k.rproc[s].new = NULL
  BY <1>1, Constants DEF Settled
<1>3. k.rproc[s].old = NULL
  <2> SUFFICES ASSUME k.rproc[s].old # NULL PROVE FALSE
    OBVIOUS
  <2>1. ~Alone(k.rproc[s]) /\ s \in Slots \ {}
    BY DEF Alone, Linking
  <2>2. PICK x \in Slots : Couple(k, s, x)
    BY <1>1, <2>1, Coupled
  <2>3. k.rproc[x].new # NULL /\ Used(k, x)
    BY <2>2, Constants DEF Couple, Tied, Linking
  <2>4. Settled(k, x)
    BY <2>3 DEF Inv
  <2> QED
    BY <2>3, <2>4, Constants DEF Settled
<1> QED
  BY <1>1, <1>2, <1>3 DEF Settled

(* Shutdown, when no update is under way.                                  *)
LEMMA do_shutdownKeeps ==
    ASSUME Plain, Inv(K), NEW c \in Callers, do_shutdown(c)
    PROVE  Inv(K')
<1>0. rupdate = NULL /\ K.upd = NULL /\ Good(K, {}) /\ K \in States
  BY DEF Plain, do_shutdown, Inv, Good, K
<1>1. ~K.waiting[c]
  BY DEF do_shutdown, Ask, K
<1>2. PICK r : r = Marked(K)
  OBVIOUS
<1>3. Become([Answered(r).k EXCEPT !.waiting[c] = ~Answered(r).ok])
  <2>1. Become([Answered(Marked(K)).k EXCEPT !.waiting[c] = ~Answered(Marked(K)).ok])
    BY DEF do_shutdown, Ask, Marked
  <2> QED
    BY <1>2, <2>1
<1>4. /\ r \in States /\ OnlyTable(K, r)
      /\ \A s \in Slots :
            /\ r.rproc[s].flags = IF Used(K, s) THEN K.rproc[s].flags \cup {"EXITING"}
                                               ELSE K.rproc[s].flags
            /\ SameData(K.rproc[s], r.rproc[s])
  BY <1>0, <1>2, MarkedIs
<1>5. \A s \in Slots : (Used(r, s) <=> Used(K, s)) /\ (Main(r, s) <=> Main(K, s))
                       /\ (Owes(r, s) <=> Owes(K, s)) /\ SameFields(K.rproc[s], r.rproc[s])
  <2> SUFFICES ASSUME NEW s \in Slots
               PROVE  /\ (Used(r, s) <=> Used(K, s)) /\ (Main(r, s) <=> Main(K, s))
                      /\ (Owes(r, s) <=> Owes(K, s)) /\ SameFields(K.rproc[s], r.rproc[s])
    OBVIOUS
  <2>1. r.rproc[s].flags = IF Used(K, s) THEN K.rproc[s].flags \cup {"EXITING"}
                                         ELSE K.rproc[s].flags
    BY <1>4
  <2>2. SameFields(K.rproc[s], r.rproc[s])
    BY <1>4 DEF SameData
  <2>3. CASE Used(K, s)
    BY <2>1, <2>2, <2>3 DEF Used, Main, Owes
  <2>4. CASE ~Used(K, s)
    BY <2>1, <2>2, <2>4 DEF Used, Main, Owes
  <2> QED
    BY <2>3, <2>4
<1>6. Steady(K, r)
  <2>1. \A s \in Slots : ~Used(K, s) => r.rproc[s].flags = {}
    BY <1>0, <1>4 DEF Good, Owned
  <2> QED
    BY <1>4, <1>5, <2>1 DEF Steady, OnlyTable
<1>7. Owing(r)
  BY <1>0, <1>4, <1>5 DEF Good, Owing, OnlyTable, SameFields
<1>8. Good(r, {})
  BY <1>0, <1>4, <1>6, <1>7, SteadyGood
<1>9. ASSUME NEW s \in Slots, Used(r, s) PROVE Settled(r, s)
  <2>1. Used(K, s) /\ Settled(K, s)
    BY <1>5, <1>9 DEF Inv
  <2>2. "UPDATING" \notin K.rproc[s].flags
    BY <1>0, <2>1, NoUpdateAlone
  <2>3. r.rproc[s].flags = K.rproc[s].flags \cup {"EXITING"} /\ SameData(K.rproc[s], r.rproc[s])
    BY <1>4, <2>1
  <2>4. St(r, s) = St(K, s) /\ r.upd = K.upd
    BY <1>4, <2>3 DEF St, OnlyTable, SameData, SameFields
  <2> QED
    BY <2>1, <2>2, <2>3, <2>4 DEF Settled, SameData, SameFields, Alone, Linking
<1>10. Keeps(K, r)
  BY <1>4, <1>8, <1>9 DEF Keeps, Inv, Fewer, OnlyTable
<1>11. Inv([Answered(r).k EXCEPT !.waiting[c] = ~Answered(r).ok])
  BY <1>1, <1>10, AnsweredIs
<1> QED
  BY <1>3, <1>11, AskIs

-----------------------------------------------------------------------------
(* A new version, from a replica or from another binary.                   *)
Beside(k, s, n) ==
    LET fresh == init_slot(k, n, k.rproc[s].label, k.rproc[s].opt)
    IN  [fresh EXCEPT !.rproc[s].new = n, !.rproc[n].old = s]

(* The new version hangs on the old one.                                   *)
LEMMA LinkedIs ==
    ASSUME NEW k, Good(k, {}), NEW s \in Slots, Main(k, s), Alone(k.rproc[s]),
           NEW n \in Slots, ~Used(k, n)
    PROVE  LET r == Beside(k, s, n)
           IN  /\ Hung(k, r, s, n) /\ r.rproc[n].opt = k.rproc[s].opt
               /\ r.rproc[s] = [k.rproc[s] EXCEPT !.new = n]
<1>0. k \in States /\ Used(k, s) /\ s # n
  BY MainUsed DEF Good
<1>1. k.rproc[s] \in Slot /\ k.rproc[s].label \in Labels /\ k.rproc[s].opt \in [script : BOOLEAN, repl : BOOLEAN, period : BOOLEAN]
  <2>1. k.rproc[s] \in Slot
    BY <1>0, StateFields
  <2> QED
    BY <1>0, <2>1 DEF Slot, Good, Owned
<1>2. PICK f : f = init_slot(k, n, k.rproc[s].label, k.rproc[s].opt)
  OBVIOUS
<1>3. /\ Near(k, f, n) /\ \A t \in Slots \ {n} : f.rproc[t] = k.rproc[t]
      /\ Alone(f.rproc[n]) /\ f.rproc[n].label = k.rproc[s].label
      /\ f.rproc[n].opt = k.rproc[s].opt
  BY <1>0, <1>1, <1>2, InitSlotIs
<1>4. f \in States /\ f.rproc \in [Slots -> Slot] /\ f.rproc[s] = k.rproc[s] /\ f.rproc[n] \in Slot
  BY <1>0, <1>3, StateFields DEF Near
<1>5. PICK a : a = [f.rproc[s] EXCEPT !.new = n]
  OBVIOUS
<1>6. a \in Slot /\ SameSlot(k.rproc[s], a) /\ Linking(a, NULL, NULL, NULL, n)
  BY <1>1, <1>4, <1>5 DEF Slot, SameSlot, Linking, Alone
<1>7. PICK b : b = [f.rproc[n] EXCEPT !.old = s]
  OBVIOUS
<1>8. b \in Slot /\ SameSlot(f.rproc[n], b) /\ Linking(b, NULL, NULL, s, NULL)
  BY <1>3, <1>4, <1>7 DEF Slot, SameSlot, Linking, Alone
<1>9. PICK g : g = Edit(f, s, a)
  OBVIOUS
<1>10. Turns(f, g, s, a)
  BY <1>4, <1>6, <1>9, Turned
<1>11. g \in States /\ g.rproc \in [Slots -> Slot] /\ g.rproc[n] = f.rproc[n]
  BY <1>0, <1>10, StateFields DEF Turns
<1>12. PICK r : r = Edit(g, n, b)
  OBVIOUS
<1>13. Turns(g, r, n, b)
  BY <1>8, <1>11, <1>12, Turned
<1>14. [f EXCEPT !.rproc[s].new = n, !.rproc[n].old = s] = r
  <2>1. [f EXCEPT !.rproc[s].new = n] = g
    BY <1>4, <1>5, <1>9 DEF Edit, States
  <2>2. [g EXCEPT !.rproc[n].old = s] = r
    BY <1>7, <1>11, <1>12 DEF Edit, States
  <2> QED
    BY <2>1, <2>2
<1>15. r \in States /\ r.rproc[s] = a /\ r.rproc[n] = b /\ OnlyTable(k, r)
       /\ \A t \in Slots \ {s, n} : r.rproc[t] = k.rproc[t]
  <2>1. OnlyTable(k, f) /\ OnlyTable(f, g) /\ OnlyTable(g, r)
    BY <1>3, <1>10, <1>13 DEF Near, Turns
  <2>2. OnlyTable(k, r)
    BY <2>1 DEF OnlyTable
  <2> QED
    BY <1>0, <1>3, <1>10, <1>13, <2>2 DEF Turns
<1>16. Near(k, r, n)
  <2> SUFFICES ASSUME NEW t \in Slots \ {n}
               PROVE  /\ r.rproc[t].flags = k.rproc[t].flags /\ r.rproc[t].ep = k.rproc[t].ep
                      /\ r.rproc[t].pid = k.rproc[t].pid /\ r.rproc[t].label = k.rproc[t].label
                      /\ r.rproc[t].caller = k.rproc[t].caller
    BY <1>15 DEF Near
  <2>1. CASE t = s
    BY <1>6, <1>15, <2>1 DEF SameSlot
  <2>2. CASE t # s
    BY <1>15, <2>2
  <2> QED
    BY <2>1, <2>2
<1>17. Tied(r.rproc[s], s, r.rproc[n], n)
  BY <1>6, <1>8, <1>15 DEF Tied
<1>18. r.rproc[n].label = k.rproc[s].label /\ r.rproc[n].opt = k.rproc[s].opt
  BY <1>3, <1>8, <1>15 DEF SameSlot
<1>19. Hung(k, r, s, n)
  BY <1>0, <1>15, <1>16, <1>17, <1>18 DEF Hung
<1>20. r.rproc[s] = [k.rproc[s] EXCEPT !.new = n]
  BY <1>4, <1>5, <1>15
<1>21. Beside(k, s, n) = r
  BY <1>2, <1>14 DEF Beside
<1> QED
  BY <1>18, <1>19, <1>20, <1>21

(* NewVersion makes it, or changes nothing that matters.                   *)
LEMMA NewVersionIs ==
    ASSUME Plain, NEW k, Good(k, {}), NEW s \in Slots, Main(k, s), Alone(k.rproc[s]),
           NEW self \in BOOLEAN, NEW out \in Outcomes
    PROVE  LET q == NewVersion(k, s, self, out)
           IN  \/ q.ok /\ Cloned(k, q.k, s, TRUE)
               \/ ~q.ok /\ Uncloned(k, q.k, s)
<1>1. Outcome(out) /\ Tame(out) = [out EXCEPT !.fail = {}]
  BY OutcomeOf
<1>2. PICK q : q = NewVersion(k, s, self, out)
  OBVIOUS
<1>3. CASE self
  <2>1. PICK lu \in BOOLEAN : lu = TRUE
    OBVIOUS
  <2>2. q = clone_service(k, s, lu, out)
    BY <1>2, <1>3, <2>1 DEF NewVersion
  <2>3. \/ q.ok /\ Cloned(k, q.k, s, lu)
        \/ ~q.ok /\ Uncloned(k, q.k, s)
    BY <1>1, <2>2, CloneIs
  <2> QED
    BY <1>2, <2>1, <2>3
<1>4. CASE ~self /\ alloc_slot(k) = NULL
  <2>1. q = Done(k, FALSE)
    BY <1>2, <1>4 DEF NewVersion
  <2>2. ~q.ok /\ q.k = k
    BY <2>1 DEF Done
  <2>3. Moves(k, k, {NULL})
    BY DEF Moves, Others, Fewer
  <2>4. NULL \in (Slots \cup {NULL}) \ {s} /\ NULL \notin Slots
    BY Constants
  <2>5. Uncloned(k, k, s)
    BY <2>3, <2>4 DEF Uncloned
  <2> QED
    BY <1>2, <2>2, <2>5
<1>5. CASE ~self /\ alloc_slot(k) # NULL
  <2>1. PICK n \in Slots : n = alloc_slot(k) /\ ~Used(k, n)
    BY <1>5, AllocIs
  <2>2. PICK i : i = Beside(k, s, n)
    OBVIOUS
  <2>3. PICK t : t = Tame(out)
    OBVIOUS
  <2>4. q = create_service(i, n, t)
    BY <1>2, <1>5, <2>1, <2>2, <2>3 DEF NewVersion, Beside
  <2>5. Outcome(t) /\ t.fail = {}
    BY <1>1, <2>3 DEF Outcome, Outcomes
  <2>6. /\ Hung(k, i, s, n) /\ i.rproc[n].opt = k.rproc[s].opt
        /\ i.rproc[s] = [k.rproc[s] EXCEPT !.new = n]
    <3>1. Good(k, {}) /\ Main(k, s) /\ Alone(k.rproc[s]) /\ s \in Slots /\ n \in Slots /\ ~Used(k, n)
      BY <2>1
    <3> QED
      BY ONLY <2>2, <3>1, LinkedIs
  <2>7. k \in States /\ Owned(k) /\ Owing(k) /\ Used(k, s)
    BY MainUsed DEF Good
  <2>8. Near(k, i, n) /\ i.rproc[n].label \in Labels
    BY <2>6, <2>7 DEF Hung, Owned
  <2>9. q.ok /\ \E e \in Endpoints : k.ptr[e] = NULL /\ Forked(i, q.k, n, e)
    BY <2>1, <2>4, <2>5, <2>7, <2>8, CreateIs
  <2>10. PICK e \in Endpoints : k.ptr[e] = NULL /\ Forked(i, q.k, n, e)
    BY <2>9
  <2>11. PICK r : r = q.k
    OBVIOUS
  <2>12. /\ Moves(k, r, {s, n}) /\ Couple(r, s, n) /\ r.rproc[s] = i.rproc[s]
         /\ Fresh(r, n, i.rproc[n].opt) /\ St(r, s) = St(k, s) /\ r.upd = k.upd
    <3>1. Good(k, {}) /\ Main(k, s) /\ Alone(k.rproc[s]) /\ s \in Slots /\ n \in Slots
      BY <2>1
    <3>2. Hung(k, i, s, n) /\ e \in Endpoints /\ k.ptr[e] = NULL /\ Forked(i, r, n, e)
      BY <2>6, <2>10, <2>11
    <3> QED
      BY ONLY <3>1, <3>2, HungGood
  <2>13. Cloned(k, r, s, TRUE)
    <3>1. n \in Slots \ {s}
      BY <2>6 DEF Hung
    <3> QED
      BY <2>1, <2>6, <2>12, <3>1 DEF Cloned
  <2> QED
    BY <1>2, <2>9, <2>11, <2>13
<1> QED
  BY <1>3, <1>4, <1>5

(* The old version is asked to prepare.                                    *)
Asked(k, r, s, n) ==
    /\ Moves(k, r, {s, n}) /\ r.upd = s /\ Couple(r, s, n)
    /\ SameData(k.rproc[s], r.rproc[s]) /\ SameData(k.rproc[n], r.rproc[n])
    /\ r.rproc[s].flags = k.rproc[s].flags \cup {"UPDATING"}
    /\ r.rproc[n].flags = k.rproc[n].flags \cup {"UPDATING"}
    /\ St(r, s) = (IF St(k, s) = "run" THEN "prepare" ELSE St(k, s)) /\ St(r, n) = St(k, n)

(* Prepare marks the two.                                                  *)
LEMMA PrepareIs ==
    ASSUME NEW k, Good(k, {}), NEW s \in Slots, NEW n \in Slots, Couple(k, s, n),
           k.rproc[s].new = n
    PROVE  Asked(k, Prepare(k, s), s, n)
<1>0. k \in States /\ Used(k, s) /\ Used(k, n) /\ s # n
  BY DEF Good, Couple
<1>1. {"UPDATING"} \in SUBSET Flags /\ {"UPDATING"} \cap Bits = {}
  BY DEF Flags, Bits
<1>2. PICK i : i = Set(k, s, {"UPDATING"})
  OBVIOUS
<1>3. Marks(k, i, s, k.rproc[s].flags \cup {"UPDATING"}, St(k, s))
  BY <1>0, <1>1, <1>2, SetMarks
<1>4. Moves(k, i, {s}) /\ i \in States /\ Used(i, s) /\ i.upd = k.upd
  <2>1. Moves(k, i, {s}) /\ Used(i, s) /\ i.upd = k.upd
    BY <1>0, <1>3, MarksMoves
  <2> QED
    BY <2>1 DEF Moves, Good
<1>5. Couple(i, s, n) /\ i.rproc[n] = k.rproc[n] /\ St(i, n) = St(k, n)
  BY <1>3, CoupleMarks
<1>6. PICK j : j = Set(i, n, {"UPDATING"})
  OBVIOUS
<1>7. Marks(i, j, n, i.rproc[n].flags \cup {"UPDATING"}, St(i, n))
  BY <1>1, <1>4, <1>6, SetMarks
<1>8. Couple(i, n, s) /\ Used(i, n)
  BY <1>5, CoupleBack DEF Couple
<1>9. Moves(i, j, {n}) /\ Used(j, n) /\ j.upd = k.upd /\ Good(j, {})
  <2>1. Moves(i, j, {n}) /\ Used(j, n) /\ j.upd = i.upd
    BY <1>4, <1>7, <1>8, MarksMoves DEF Moves
  <2> QED
    BY <1>4, <2>1 DEF Moves
<1>10. Couple(j, s, n) /\ j.rproc[s] = i.rproc[s] /\ St(j, s) = St(i, s)
  <2>1. Couple(j, n, s) /\ j.rproc[s] = i.rproc[s] /\ St(j, s) = St(i, s)
    BY ONLY <1>7, <1>8, CoupleMarks, s \in Slots, n \in Slots
  <2>2. Couple(j, s, n)
    BY ONLY <2>1, CoupleBack
  <2> QED
    BY ONLY <2>1, <2>2
<1>11. j \in States /\ j.rproc[s].new = n /\ j.rproc[s].ep = k.rproc[s].ep /\ Used(j, s)
       /\ Owned(j)
  <2>1. i.rproc[s].new = n /\ i.rproc[s].ep = k.rproc[s].ep
    BY <1>3 DEF Marks, SameData, SameFields
  <2> QED
    BY <1>9, <1>10, <2>1 DEF Good, Couple
<1>12. PICK u : u = [j EXCEPT !.upd = s]
  OBVIOUS
<1>13. /\ u \in States /\ u.rproc = j.rproc /\ u.ptr = j.ptr /\ u.upd = s /\ u.world = j.world
       /\ u.ds = j.ds /\ u.waiting = j.waiting /\ u.stray = j.stray /\ u.crashed = j.crashed
  BY <1>11, <1>12 DEF States
<1>14. Good(u, {})
  <2>1. Owned(u) /\ Shape(u, {}) /\ Published(u) /\ Owing(u) /\ ~u.crashed
    <3>1. \A t \in Slots : (Used(u, t) <=> Used(j, t)) /\ (Main(u, t) <=> Main(j, t))
                           /\ (Owes(u, t) <=> Owes(j, t))
      BY <1>13 DEF Used, Main, Owes
    <3>2. Owned(u)
      <4>1. u.rproc = j.rproc /\ u.ptr = j.ptr /\ u.world = j.world
        BY <1>13
      <4> QED
        BY ONLY <1>11, <4>1 DEF Owned, Used
    <3>3. Shape(u, {})
      BY <1>9, <1>13, <3>1 DEF Good, Shape, Couple
    <3>4. Published(u)
      BY <1>9, <1>13, <3>1 DEF Good, Published
    <3>5. Owing(u)
      BY <1>9, <1>13, <3>1 DEF Good, Owing
    <3> QED
      BY <1>9, <1>13, <3>2, <3>3, <3>4, <3>5 DEF Good
  <2>2. Updating(u, {})
    BY <1>11, <1>13, Constants DEF Updating, Used
  <2> QED
    BY <1>13, <2>1, <2>2 DEF Good
<1>15. PICK e \in Endpoints : e = k.rproc[s].ep /\ e = u.rproc[s].ep
  BY <1>0, <1>11, <1>13, OwnEp DEF Good
<1>16. Used(u, s) /\ Owned(u) /\ u.world[e] \in Processes /\ u.world[e].st # "free"
  <2>1. Used(u, s) /\ Owned(u)
    BY <1>11, <1>13, <1>14 DEF Used, Good
  <2> QED
    BY <1>13, <1>15, <2>1, OwnEp
<1>17. PICK w : w = [u.world[e] EXCEPT !.st = IF @ = "run" THEN "prepare" ELSE @]
  OBVIOUS
<1>18. w \in Processes /\ w.st # "free"
       /\ w.st = IF u.world[e].st = "run" THEN "prepare" ELSE u.world[e].st
  BY <1>16, <1>17 DEF Processes
<1>19. PICK r : r = Run(u, s, w)
  OBVIOUS
<1>20. Marks(u, r, s, u.rproc[s].flags, w.st)
  BY <1>13, <1>16, <1>18, <1>19, RunMarks
<1>21. Prepare(k, s) = r
  <2>1. Prepare(k, s) = [j EXCEPT !.upd = s, !.world[e].st = IF @ = "run" THEN "prepare" ELSE @]
    BY <1>2, <1>6, <1>15 DEF Prepare
  <2>2. [j EXCEPT !.upd = s, !.world[e].st = IF @ = "run" THEN "prepare" ELSE @]
          = [u EXCEPT !.world[e].st = IF @ = "run" THEN "prepare" ELSE @]
    BY <1>11, <1>12 DEF States
  <2>3. [u EXCEPT !.world[e].st = IF @ = "run" THEN "prepare" ELSE @] = [u EXCEPT !.world[e] = w]
    BY <1>13, <1>15, <1>17 DEF States
  <2> QED
    BY <1>15, <1>19, <2>1, <2>2, <2>3 DEF Run
<1>22. Couple(u, s, n)
  BY <1>10, <1>13 DEF Couple, Used, Main
<1>23. Couple(r, s, n) /\ r.rproc[n] = u.rproc[n] /\ St(r, n) = St(u, n)
  BY <1>20, <1>22, CoupleMarks
<1>24. Moves(k, r, {s, n})
  <2>1. Moves(k, j, {s, n})
    BY <1>4, <1>9, MovesTwice
  <2>2. Moves(j, u, {})
    BY <1>13, <1>14 DEF Moves, Others, Fewer
  <2>3. Moves(k, u, {s, n})
    BY <2>1, <2>2, MovesTwice
  <2>4. Moves(u, r, {s})
    BY <1>14, <1>16, <1>20, MarksMoves
  <2> QED
    BY <2>3, <2>4, MovesTwice
<1>25. r.upd = s
  BY <1>13, <1>14, <1>16, <1>20, MarksMoves
<1>26. /\ SameData(k.rproc[s], r.rproc[s]) /\ r.rproc[s].flags = k.rproc[s].flags \cup {"UPDATING"}
       /\ St(r, s) = IF St(k, s) = "run" THEN "prepare" ELSE St(k, s)
  <2>1. SameData(k.rproc[s], i.rproc[s]) /\ i.rproc[s].flags = k.rproc[s].flags \cup {"UPDATING"}
        /\ St(i, s) = St(k, s)
    BY <1>3 DEF Marks
  <2>2. SameData(u.rproc[s], r.rproc[s]) /\ r.rproc[s].flags = u.rproc[s].flags /\ St(r, s) = w.st
    BY <1>20 DEF Marks
  <2>3. u.rproc[s] = i.rproc[s] /\ St(u, s) = St(i, s)
    BY <1>10, <1>13 DEF St
  <2>4. w.st = IF St(u, s) = "run" THEN "prepare" ELSE St(u, s)
    BY <1>15, <1>18 DEF St
  <2> QED
    BY <2>1, <2>2, <2>3, <2>4, SameTwice
<1>27. /\ SameData(k.rproc[n], r.rproc[n]) /\ r.rproc[n].flags = k.rproc[n].flags \cup {"UPDATING"}
       /\ St(r, n) = St(k, n)
  <2>1. SameData(i.rproc[n], j.rproc[n]) /\ j.rproc[n].flags = i.rproc[n].flags \cup {"UPDATING"}
        /\ St(j, n) = St(i, n)
    BY <1>7 DEF Marks
  <2>2. St(u, n) = St(j, n)
    BY <1>13 DEF St
  <2> QED
    BY <1>5, <1>13, <1>23, <2>1, <2>2
<1> QED
  BY <1>21, <1>23, <1>24, <1>25, <1>26, <1>27 DEF Asked

(* The request for an update.                                              *)
LEMMA do_updateKeeps ==
    ASSUME Plain, Inv(K), NEW c \in Callers, NEW l \in Labels, NEW self \in BOOLEAN,
           NEW noblock \in BOOLEAN, do_update(c, l, self, noblock)
    PROVE  Inv(K')
<1>1. PICK s : Permitted(s, l, "UPDATE")
  BY DEF do_update, On, Permitted
<1>2. /\ s \in Slots /\ Main(K, s) /\ Used(K, s) /\ Settled(K, s) /\ ~Owes(K, s)
      /\ "INITIALIZING" \notin K.rproc[s].flags /\ "UPDATING" \notin K.rproc[s].flags
      /\ "TERMINATED" \notin K.rproc[s].flags
  BY <1>1, PermittedIs
<1>3. "EXITING" \notin K.rproc[s].flags /\ "REFRESHING" \notin K.rproc[s].flags
  BY <1>2 DEF Plain, do_update, Has
<1>4. ~K.waiting[c] /\ K.upd = rupdate
  BY <1>1 DEF do_update, On, Ask, K, Permitted
<1>5. PICK out \in Outcomes :
         LET made == NewVersion(K, s, self, out)
             marked == Prepare(made.k, s)
             q == IF rupdate # NULL \/ ~made.ok THEN Answered(IF rupdate # NULL THEN K ELSE made.k)
                  ELSE IF noblock THEN Answered(marked) ELSE Late(marked, s, c)
         IN  Become([q.k EXCEPT !.waiting[c] = ~q.ok])
  BY <1>1 DEF do_update, On, Ask, Permitted
<1>6. CASE rupdate # NULL
  <2>1. Inv([Answered(K).k EXCEPT !.waiting[c] = ~Answered(K).ok])
    BY <1>4, KeepsSelf, AnsweredIs
  <2> QED
    BY <1>5, <1>6, <2>1, AskIs
<1>7. CASE rupdate = NULL
  <2>1. Alone(K.rproc[s]) /\ K.rproc[s].backoff = 0 /\ Good(K, {}) /\ ~K.rproc[s].opt.repl
    <3>1. Alone(K.rproc[s])
      BY <1>2, <1>3 DEF Settled, Alone, Linking, Main
    <3>2. K.rproc[s] \in Slot /\ Good(K, {})
      BY <1>2, StateFields DEF Inv, Good
    <3>3. K.rproc[s].backoff \in 0 .. MAX_BACKOFF
      BY <3>2 DEF Slot
    <3> QED
      BY <1>2, <3>1, <3>2, <3>3, Constants DEF Settled, Main
  <2>2. PICK made : made = NewVersion(K, s, self, out)
    OBVIOUS
  <2>3. \/ made.ok /\ Cloned(K, made.k, s, TRUE)
        \/ ~made.ok /\ Uncloned(K, made.k, s)
    BY <1>2, <2>1, <2>2, NewVersionIs
  <2>4. CASE ~made.ok
    <3>1. PICK r : r = made.k
      OBVIOUS
    <3>2. Uncloned(K, r, s)
      BY <2>3, <2>4, <3>1
    <3>3. PICK n \in (Slots \cup {NULL}) \ {s} :
             Moves(K, r, {n}) /\ (n \in Slots => ~Used(r, n)) /\ r.upd = K.upd
      BY <3>2 DEF Uncloned
    <3>4. Inv(r)
      <4>1. \A t \in Slots \cap {n} : Used(r, t) => Settled(r, t)
        BY <3>3
      <4> QED
        BY <3>3, <4>1, InvKept DEF Moves
    <3>5. Keeps(K, r)
      BY <3>3, <3>4 DEF Keeps, Moves
    <3>6. Inv([Answered(r).k EXCEPT !.waiting[c] = ~Answered(r).ok])
      BY <1>4, <3>5, AnsweredIs
    <3> QED
      BY <1>5, <1>7, <2>2, <2>4, <3>1, <3>6, AskIs
  <2>5. CASE made.ok
    <3>1. PICK r : r = made.k
      OBVIOUS
    <3>2. Cloned(K, r, s, TRUE)
      BY <2>3, <2>5, <3>1
    <3>3. PICK n \in Slots \ {s} :
             /\ ~Used(K, n) /\ Moves(K, r, {s, n}) /\ Couple(r, s, n)
             /\ Fresh(r, n, K.rproc[s].opt) /\ St(r, s) = St(K, s)
             /\ r.rproc[s] = [K.rproc[s] EXCEPT !.new = n]
      BY <3>2 DEF Cloned
    <3>4. PICK m : m = Prepare(r, s)
      OBVIOUS
    <3>5. K.rproc[s] \in Slot
      BY <1>2, StateFields DEF Inv, Good
    <3>6. /\ r.rproc[s].new = n /\ r.rproc[s].flags = K.rproc[s].flags
          /\ r.rproc[s].prev = NULL /\ r.rproc[s].next = NULL /\ r.rproc[s].old = NULL
          /\ r.rproc[s].backoff = 0 /\ ~r.rproc[s].opt.repl
      BY <2>1, <3>3, <3>5 DEF Slot, Alone, Linking
    <3>7. Asked(r, m, s, n)
      BY <1>2, <3>3, <3>4, <3>6, PrepareIs DEF Moves
    <3>8. Moves(K, m, {s, n})
      BY <3>3, <3>7, MovesTwice DEF Asked
    <3>9. Settled(m, s) /\ Used(m, s) /\ ~Owes(m, s)
      <4>1. /\ m.rproc[s].flags = K.rproc[s].flags \cup {"UPDATING"}
            /\ m.rproc[s].new = n /\ m.rproc[s].prev = NULL /\ m.rproc[s].next = NULL
            /\ m.rproc[s].old = NULL /\ m.rproc[s].backoff = 0 /\ ~m.rproc[s].opt.repl
            /\ m.upd = s /\ St(m, s) = IF St(K, s) = "run" THEN "prepare" ELSE St(K, s)
        BY <3>3, <3>6, <3>7 DEF Asked, SameData, SameFields
      <4>2. St(K, s) # "blocked"
        BY <1>2 DEF Settled, Main
      <4> QED
        BY <1>2, <1>3, <4>1, <4>2, Constants DEF Settled, Main, Used, Owes
    <3>10. Settled(m, n)
      <4>1. /\ r.rproc[n].flags = {"IN_USE"} /\ r.rproc[n].backoff = 0
            /\ r.rproc[n].opt = K.rproc[s].opt /\ St(r, n) = "held"
        BY <3>3 DEF Fresh
      <4>2. Linking(r.rproc[n], NULL, NULL, s, NULL)
        BY <3>3, <3>6, Constants DEF Couple, Tied, Linking
      <4>3. /\ m.rproc[n].flags = {"IN_USE", "UPDATING"} /\ Linking(m.rproc[n], NULL, NULL, s, NULL)
            /\ m.rproc[n].backoff = 0 /\ ~m.rproc[n].opt.repl /\ St(m, n) = "held"
        BY <2>1, <3>7, <4>1, <4>2 DEF Asked, SameData, SameFields, Linking
      <4> QED
        BY <1>2, <4>3, Constants DEF Settled, Linking
    <3>11. Inv(m)
      <4>1. Good(m, {}) /\ Others(K, m, {s, n})
        BY <3>8 DEF Moves
      <4>2. K.upd = NULL
        BY <1>4, <1>7
      <4>3. \A t \in Slots \cap {s, n} : Used(m, t) => Settled(m, t)
        BY <3>9, <3>10
      <4> QED
        BY <4>1, <4>2, <4>3, InvKept
    <3>12. Keeps(K, m)
      BY <3>8, <3>11 DEF Keeps, Moves
    <3>13. ~m.waiting[c]
      BY <1>4, <3>12 DEF Keeps, Fewer
    <3>14. Inv([Answered(m).k EXCEPT !.waiting[c] = ~Answered(m).ok])
      BY <1>4, <3>12, AnsweredIs
    <3>15. Inv([Late(m, s, c).k EXCEPT !.waiting[c] = ~Late(m, s, c).ok])
      BY <1>2, <3>9, <3>11, <3>13, LateIs
    <3>16. CASE noblock
      BY <1>5, <1>7, <2>2, <2>5, <3>1, <3>4, <3>14, <3>16, AskIs
    <3>17. CASE ~noblock
      BY <1>5, <1>7, <2>2, <2>5, <3>1, <3>4, <3>15, <3>17, AskIs
    <3> QED
      BY <3>16, <3>17
  <2> QED
    BY <2>4, <2>5
<1> QED
  BY <1>6, <1>7

-----------------------------------------------------------------------------
(* What services do.                                                       *)
LEMMA HandledIs ==
    ASSUME NEW r, Inv(r), Become(r)
    PROVE  Inv(K')
BY BecomeIs DEF Inv, Good

(* A process that is not free has its slot.                                *)
LEMMA SlotOf ==
    ASSUME NEW k, Inv(k), NEW e \in Endpoints, k.world[e].st # "free" \/ k.ptr[e] # NULL
    PROVE  LET s == k.ptr[e]
           IN  /\ s \in Slots /\ Used(k, s) /\ k.rproc[s].ep = e /\ Settled(k, s)
               /\ St(k, s) = k.world[e].st /\ k.world[e].st # "free" /\ s # NULL
<1>1. k \in States /\ Owned(k)
  BY DEF Inv, Good
<1>2. k.ptr[e] # NULL /\ k.world[e].st # "free"
  BY <1>1 DEF Owned
<1>3. k.ptr[e] \in Slots
  BY <1>1, <1>2, StateFields
<1>4. Used(k, k.ptr[e]) /\ k.rproc[k.ptr[e]].ep = e
  BY <1>1, <1>2 DEF Owned
<1> QED
  BY <1>2, <1>3, <1>4 DEF Inv, St

(* A process goes on, or gets a signal.                                    *)
LEMMA StepMarks ==
    ASSUME NEW k, Good(k, {}), NEW s \in Slots, Used(k, s), NEW e, e = k.rproc[s].ep,
           NEW st \in {"run", "blocked"}
    PROVE  Marks(k, [k EXCEPT !.world[e].st = st], s, k.rproc[s].flags, st)
<1>1. k \in States /\ Owned(k) /\ e \in Endpoints /\ k.world[e] \in Processes
  BY OwnEp DEF Good
<1>2. PICK w : w = [k.world[e] EXCEPT !.st = st]
  OBVIOUS
<1>3. w \in Processes /\ w.st = st
  BY <1>1, <1>2 DEF Processes
<1>4. [k EXCEPT !.world[e].st = st] = Run(k, s, w)
  BY <1>1, <1>2 DEF Run, States
<1> QED
  BY <1>1, <1>3, <1>4, RunMarks

LEMMA KilledMarks ==
    ASSUME NEW k, Good(k, {}), NEW s \in Slots, Used(k, s), NEW e, e = k.rproc[s].ep,
           NEW b \in BOOLEAN
    PROVE  Marks(k, [k EXCEPT !.world[e].killed = b], s, k.rproc[s].flags, St(k, s))
<1>1. k \in States /\ Owned(k) /\ e \in Endpoints /\ k.world[e] \in Processes
      /\ k.world[e].st # "free"
  BY OwnEp DEF Good
<1>2. PICK w : w = [k.world[e] EXCEPT !.killed = b]
  OBVIOUS
<1>3. w \in Processes /\ w.st = St(k, s)
  BY <1>1, <1>2 DEF Processes, St
<1>4. [k EXCEPT !.world[e].killed = b] = Run(k, s, w)
  BY <1>1, <1>2 DEF Run, States
<1>5. w.st # "free"
  BY <1>1, <1>3 DEF St
<1>6. Marks(k, Run(k, s, w), s, k.rproc[s].flags, w.st)
  BY <1>1, <1>3, <1>5, RunMarks
<1> QED
  BY <1>3, <1>4, <1>6

(* A slot whose flags are the same, and whose process may have got on.     *)
LEMMA MarksKeeps ==
    ASSUME NEW k, Inv(k), NEW s \in Slots, Used(k, s), NEW r, NEW f, NEW st, Marks(k, r, s, f, st),
           \A g \in Notes : g \in f <=> g \in k.rproc[s].flags,
           st = St(k, s) \/ (St(k, s) \in {"init", "prepare"} /\ st = "run")
    PROVE  Keeps(k, r)
<1>1. Good(k, {}) /\ Settled(k, s)
  BY DEF Inv
<1>2. Moves(k, r, {s}) /\ Used(r, s) /\ r.upd = k.upd
  BY <1>1, MarksMoves
<1>3. SameData(k.rproc[s], r.rproc[s]) /\ r.rproc[s].flags = f /\ St(r, s) = st
  BY DEF Marks
<1>4. Settled(r, s)
  <2>1. CASE st = St(k, s)
    BY <1>1, <1>2, <1>3, <2>1, SettledSame
  <2>2. CASE St(k, s) \in {"init", "prepare"} /\ st = "run"
    BY <1>1, <1>2, <1>3, <2>2
       DEF Settled, SameData, SameFields, Alone, Linking, Notes
  <2> QED
    BY <2>1, <2>2
<1>5. Inv(r)
  <2>1. \A t \in Slots \cap {s} : Used(r, t) => Settled(r, t)
    BY <1>4
  <2> QED
    BY <1>2, <2>1, InvKept DEF Moves
<1> QED
  BY <1>2, <1>5 DEF Keeps, Moves

(* What services do by themselves.                                         *)
LEMMA lu_cancelledKeeps ==
    ASSUME Inv(K), NEW e \in Endpoints, lu_cancelled(e)
    PROVE  Inv(K')
<1>1. K.world[e].st = "prepare"
  BY DEF lu_cancelled, Live, K
<1>2. PICK s \in Slots : Used(K, s) /\ K.rproc[s].ep = e /\ St(K, s) = "prepare"
  BY <1>1, SlotOf
<1>3. PICK r : r = [K EXCEPT !.world[e].st = "run"]
  OBVIOUS
<1>4. Marks(K, r, s, K.rproc[s].flags, "run")
  BY <1>2, <1>3, StepMarks DEF Inv
<1>5. Keeps(K, r)
  BY <1>2, <1>4, MarksKeeps
<1>6. K' = r
  BY <1>3 DEF lu_cancelled, K
<1> QED
  BY <1>5, <1>6 DEF Keeps

LEMMA dieKeeps ==
    ASSUME Inv(K), NEW e \in Endpoints, die(e)
    PROVE  Inv(K')
<1>1. K.world[e].st # "free"
  BY DEF die, K
<1>2. PICK s \in Slots : Used(K, s) /\ K.rproc[s].ep = e
  BY <1>1, SlotOf
<1>3. PICK r : r = [K EXCEPT !.world[e].killed = TRUE]
  OBVIOUS
<1>4. Marks(K, r, s, K.rproc[s].flags, St(K, s))
  BY <1>2, <1>3, KilledMarks DEF Inv
<1>5. Keeps(K, r)
  BY <1>2, <1>4, MarksKeeps
<1>6. K' = r
  BY <1>3 DEF die, K
<1> QED
  BY <1>5, <1>6 DEF Keeps

(* RS does or does not wait for a sign of life.                            *)
LEMMA AwaitKeeps ==
    ASSUME NEW k, Inv(k), NEW s \in Slots, Used(k, s), NEW b \in BOOLEAN
    PROVE  /\ Keeps(k, [k EXCEPT !.rproc[s].awaited = b])
           /\ Keeps(k, [k EXCEPT !.rproc[s].stopping = b])
           /\ Used([k EXCEPT !.rproc[s].stopping = b], s)
<1>0. k \in States /\ k.rproc \in [Slots -> Slot] /\ k.rproc[s] \in Slot
  BY StateFields DEF Inv, Good
<1>1. ASSUME NEW q \in Slot, SameData(k.rproc[s], q), q.flags = k.rproc[s].flags
      PROVE  Keeps(k, Edit(k, s, q)) /\ Used(Edit(k, s, q), s)
  <2>1. PICK r : r = Edit(k, s, q)
    OBVIOUS
  <2>2. Marks(k, r, s, k.rproc[s].flags, St(k, s))
    BY <1>0, <1>1, <2>1, EditMarks
  <2>3. Keeps(k, r)
    BY <2>2, MarksKeeps
  <2>4. Used(r, s)
    BY <2>2 DEF Marks, Used
  <2> QED
    BY <2>1, <2>3, <2>4
<1>2. PICK p : p = [k.rproc[s] EXCEPT !.awaited = b]
  OBVIOUS
<1>3. p \in Slot /\ SameData(k.rproc[s], p) /\ p.flags = k.rproc[s].flags
  BY <1>0, <1>2 DEF Slot, SameData, SameFields
<1>4. [k EXCEPT !.rproc[s].awaited = b] = Edit(k, s, p)
  BY <1>0, <1>2 DEF Edit, States
<1>5. PICK q : q = [k.rproc[s] EXCEPT !.stopping = b]
  OBVIOUS
<1>6. q \in Slot /\ SameData(k.rproc[s], q) /\ q.flags = k.rproc[s].flags
  BY <1>0, <1>5 DEF Slot, SameData, SameFields
<1>7. [k EXCEPT !.rproc[s].stopping = b] = Edit(k, s, q)
  BY <1>0, <1>5 DEF Edit, States
<1>8. Keeps(k, Edit(k, s, p)) /\ Keeps(k, Edit(k, s, q)) /\ Used(Edit(k, s, q), s)
  BY <1>1, <1>3, <1>6
<1> QED
  BY <1>4, <1>7, <1>8

(* A sign of life.                                                         *)
LEMMA heartbeatKeeps ==
    ASSUME Inv(K), NEW e \in Endpoints, heartbeat(e)
    PROVE  Inv(K')
<1>1. K.ptr[e] # NULL /\ rproc_ptr[e] = K.ptr[e]
  BY DEF heartbeat, K
<1>2. PICK s \in Slots : Used(K, s) /\ s = rproc_ptr[e]
  BY <1>1, SlotOf
<1>3. PICK r : r = [K EXCEPT !.rproc[s].awaited = FALSE]
  OBVIOUS
<1>4. Keeps(K, r)
  BY <1>2, <1>3, AwaitKeeps
<1>5. K' = r
  BY <1>2, <1>3 DEF heartbeat, K
<1> QED
  BY <1>4, <1>5 DEF Keeps

(* The kernel tells RS of a signal.                                        *)
LEMMA sef_cb_signal_managerKeeps ==
    ASSUME Plain, Inv(K), NEW e \in Endpoints, sef_cb_signal_manager(e)
    PROVE  Inv(K')
<1>0. Good(K, {}) /\ K \in States /\ Owned(K)
  BY DEF Inv, Good
<1> DEFINE ignored == [K EXCEPT !.world[e].killed = FALSE]
           dead == [K EXCEPT !.world[e] = Process("dead")]
<1>1. PICK s : s = rproc_ptr[e] /\ s = K.ptr[e]
  BY DEF K
<1>2. PICK out \in Outcomes :
         Become(IF s = NULL THEN ignored
                ELSE IF Has(K, s, "TERMINATED") /\ ~Has(K, s, "EXITING") THEN dead
                ELSE IF ~Has(K, s, "ACTIVE") /\ ~Has(K, s, "EXITING") THEN ignored
                ELSE terminate_service(Set(dead, s, {"TERMINATED"}), s, out))
  BY <1>1 DEF sef_cb_signal_manager, Handle
<1>3. CASE s = NULL
  <2>1. PICK r : r = ignored
    OBVIOUS
  <2>2. /\ r \in States /\ r.rproc = K.rproc /\ r.ptr = K.ptr /\ r.upd = K.upd /\ r.ds = K.ds
        /\ r.waiting = K.waiting /\ r.stray = K.stray /\ r.crashed = K.crashed
        /\ \A d \in Endpoints : r.world[d].st = K.world[d].st
        /\ \A d \in Endpoints \ {e} : r.world[d] = K.world[d]
    <3>1. K.world \in [Endpoints -> Processes]
      BY <1>0, StateFields
    <3>2. PICK w : w = [K.world EXCEPT ![e].killed = FALSE]
      OBVIOUS
    <3>3. w \in [Endpoints -> Processes] /\ \A d \in Endpoints \ {e} : w[d] = K.world[d]
      BY <3>1, <3>2 DEF Processes
    <3>4. \A d \in Endpoints : w[d].st = K.world[d].st
      BY <3>1, <3>2 DEF Processes
    <3>5. r = [K EXCEPT !.world = w]
      BY <2>1, <3>2
    <3> QED
      BY <1>0, <3>3, <3>4, <3>5 DEF States
  <2>3. Steady(K, r) /\ Owing(r)
    <3>1. \A t \in Slots : (Used(r, t) <=> Used(K, t)) /\ (Main(r, t) <=> Main(K, t))
                           /\ (Owes(r, t) <=> Owes(K, t)) /\ SameFields(K.rproc[t], r.rproc[t])
      BY <2>2 DEF Used, Main, Owes, SameFields
    <3>2. \A t \in Slots : ~Used(K, t) => r.rproc[t].flags = {}
      BY <1>0, <2>2 DEF Owned
    <3>3. Steady(K, r)
      BY <2>2, <3>1, <3>2 DEF Steady
    <3>4. Owing(r)
      BY <1>0, <2>2, <3>1 DEF Good, Owing
    <3> QED
      BY <3>3, <3>4
  <2>4. Good(r, {})
    BY <1>0, <2>2, <2>3, SteadyGood
  <2>5. Others(K, r, {})
    <3> SUFFICES ASSUME NEW t \in Slots, Used(K, t)
                 PROVE  r.world[K.rproc[t].ep] = K.world[K.rproc[t].ep]
      BY <2>2 DEF Others
    <3>1. K.rproc[t].ep \in Endpoints /\ K.ptr[K.rproc[t].ep] = t
      BY <1>0, OwnEp
    <3>2. K.rproc[t].ep # e
      BY <1>1, <1>3, <3>1, Constants
    <3> QED
      BY <2>2, <3>1, <3>2
  <2>6. Inv(r)
    BY <2>2, <2>4, <2>5, InvKept
  <2> QED
    BY <1>2, <1>3, <2>1, <2>6, HandledIs
<1>4. CASE s # NULL
  <2>1. s \in Slots /\ Used(K, s) /\ K.rproc[s].ep = e /\ Settled(K, s) /\ K.world[e].st # "free"
    BY <1>1, <1>4, SlotOf
  <2>2. PICK i : i = ignored
    OBVIOUS
  <2>3. Keeps(K, i)
    <3>1. Marks(K, i, s, K.rproc[s].flags, St(K, s))
      BY <1>0, <2>1, <2>2, KilledMarks
    <3> QED
      BY <2>1, <3>1, MarksKeeps
  <2>4. PICK d : d = dead
    OBVIOUS
  <2>5. Marks(K, d, s, K.rproc[s].flags, "dead")
    <3>1. PICK w : w = Process("dead")
      OBVIOUS
    <3>2. w \in Processes /\ w.st = "dead"
      BY <3>1 DEF Process, Processes
    <3>3. d = Run(K, s, w)
      BY <2>1, <2>4, <3>1 DEF Run
    <3> QED
      BY <1>0, <2>1, <3>2, <3>3, RunMarks
  <2>6. CASE Has(K, s, "TERMINATED") /\ ~Has(K, s, "EXITING")
    <3>1. St(K, s) = "dead"
      BY <2>1, <2>6 DEF Settled, Has
    <3>2. Keeps(K, d)
      BY <2>1, <2>5, <3>1, MarksKeeps
    <3> QED
      BY <1>2, <1>4, <2>4, <2>6, <3>2, HandledIs DEF Keeps
  <2>7. CASE ~(Has(K, s, "TERMINATED") /\ ~Has(K, s, "EXITING"))
             /\ ~Has(K, s, "ACTIVE") /\ ~Has(K, s, "EXITING")
    BY <1>2, <1>4, <2>2, <2>3, <2>7, HandledIs DEF Keeps
  <2>8. CASE ~(Has(K, s, "TERMINATED") /\ ~Has(K, s, "EXITING"))
             /\ (Has(K, s, "ACTIVE") \/ Has(K, s, "EXITING"))
    <3>1. PICK k : k = Set(d, s, {"TERMINATED"})
      OBVIOUS
    <3>2. Ended(K, k, s)
      <4>1. d \in States /\ d.rproc[s].flags = K.rproc[s].flags /\ St(d, s) = "dead"
        BY <2>5 DEF Marks, Quietly
      <4>2. {"TERMINATED"} \in SUBSET Flags /\ {"TERMINATED"} \cap Bits = {}
        BY DEF Flags, Bits
      <4>3. Marks(d, k, s, d.rproc[s].flags \cup {"TERMINATED"}, St(d, s))
        BY <2>1, <3>1, <4>1, <4>2, SetMarks
      <4>4. Marks(d, k, s, K.rproc[s].flags \cup {"TERMINATED"}, "dead")
        BY <4>1, <4>3
      <4>5. Marks(K, k, s, K.rproc[s].flags \cup {"TERMINATED"}, "dead")
        BY <2>5, <4>4, MarksTwice
      <4> QED
        BY <4>5 DEF Ended
    <3>3. Main(K, s) \/ "EXITING" \in K.rproc[s].flags
      BY <2>8 DEF Has, Main
    <3>4. Outcome(out)
      BY OutcomeOf
    <3>5. Keeps(K, terminate_service(k, s, out))
      BY <2>1, <3>2, <3>3, <3>4, TerminateKeeps
    <3> QED
      BY <1>2, <1>4, <2>4, <2>8, <3>1, <3>5, HandledIs DEF Keeps
  <2> QED
    BY <2>6, <2>7, <2>8
<1> QED
  BY <1>3, <1>4

-----------------------------------------------------------------------------
(* The old version is ready for the new one.                               *)
LEMMA PartnerOf ==
    ASSUME NEW k, Inv(k), NEW s \in Slots, k.upd = s
    PROVE  /\ Used(k, s) /\ Settled(k, s)
           /\ \E n \in Slots : /\ Couple(k, s, n) /\ k.rproc[s].new = n
                               /\ Linking(k.rproc[n], NULL, NULL, s, NULL) /\ Settled(k, n)
<1>1. Good(k, {}) /\ s # NULL
  BY Constants DEF Inv
<1>2. Used(k, s) /\ k.rproc[s].new # NULL
  BY <1>1 DEF Good, Updating
<1>3. ~Alone(k.rproc[s]) /\ s \in Slots \ {}
  BY <1>2 DEF Alone, Linking
<1>4. PICK n \in Slots : Couple(k, s, n)
  BY <1>1, <1>2, <1>3, Coupled
<1>5. k.rproc[s].new = n /\ Linking(k.rproc[n], NULL, NULL, s, NULL) /\ Used(k, n)
  BY <1>2, <1>4 DEF Couple, Tied, Linking
<1> QED
  BY <1>2, <1>4, <1>5 DEF Inv

(* The update is over, and the old version goes on.                        *)
LEMMA CancelKeeps ==
    ASSUME NEW k, Inv(k), NEW s \in Slots, k.upd = s, Main(k, s),
           NEW a, NEW st, Marks(k, a, s, k.rproc[s].flags, st),
           st = St(k, s) \/ st = "blocked", NEW answer \in BOOLEAN, st = "blocked" => answer
    PROVE  Keeps(k, end_update(a, FALSE, answer))
<1>0. Good(k, {}) /\ Used(k, s) /\ Settled(k, s)
  BY PartnerOf DEF Inv
<1>1. PICK n \in Slots : /\ Couple(k, s, n) /\ k.rproc[s].new = n
                         /\ Linking(k.rproc[n], NULL, NULL, s, NULL) /\ Settled(k, n)
  BY PartnerOf
<1>2. Moves(k, a, {s}) /\ Used(a, s) /\ a.upd = s /\ Good(a, {})
  <2>1. Moves(k, a, {s}) /\ Used(a, s) /\ a.upd = k.upd
    BY <1>0, MarksMoves
  <2> QED
    BY <2>1 DEF Moves
<1>3. Couple(a, s, n) /\ Main(a, s)
  BY <1>1, CoupleMarks
<1>4. SameData(k.rproc[s], a.rproc[s]) /\ a.rproc[s].flags = k.rproc[s].flags /\ St(a, s) = st
  BY DEF Marks
<1>5. a.rproc[s].new = n
  BY <1>1, <1>4 DEF SameData, SameFields
<1>6. PICK r : r = end_update(a, FALSE, answer)
  OBVIOUS
<1>7. /\ Moves(a, r, {s, n}) /\ r.upd = NULL /\ ~Used(r, n)
      /\ Survives(a, r, s, IF answer /\ St(a, s) = "blocked" THEN "run" ELSE St(a, s))
  BY <1>2, <1>3, <1>5, <1>6, EndUpdateIs
<1>8. Moves(k, r, {s, n})
  BY <1>2, <1>7, MovesTwice
<1>9. Settled(r, s)
  <2>1. /\ "INITIALIZING" \notin k.rproc[s].flags /\ "TERMINATED" \notin k.rproc[s].flags
        /\ ~(k.rproc[s].backoff > 0) /\ ~k.rproc[s].opt.repl /\ St(k, s) # "blocked"
    BY <1>0, <1>1, Constants DEF Settled, Main, Alone, Linking
  <2>2. /\ Alone(r.rproc[s]) /\ "UPDATING" \notin r.rproc[s].flags
        /\ "INITIALIZING" \notin r.rproc[s].flags /\ "TERMINATED" \notin r.rproc[s].flags
        /\ "ACTIVE" \in r.rproc[s].flags
        /\ r.rproc[s].backoff = k.rproc[s].backoff /\ r.rproc[s].opt = k.rproc[s].opt
        /\ St(r, s) # "blocked"
    BY <1>4, <1>7, <2>1 DEF Survives, Notes, Main, SameData
  <2> QED
    BY <2>1, <2>2 DEF Settled, Alone, Linking
<1>10. Inv(r)
  <2>1. Good(r, {}) /\ Others(k, r, {s, n})
    BY <1>8 DEF Moves
  <2>2. \A t \in Slots \cap {s, n} : Used(r, t) => Settled(r, t)
    BY <1>7, <1>9
  <2>3. k.upd \in {s, n} \cup {NULL}
    OBVIOUS
  <2> QED
    BY <2>1, <2>2, <2>3, InvKept
<1> QED
  BY <1>6, <1>8, <1>10 DEF Keeps, Moves

(* The new version runs in the place of the old one, which waits.          *)
LEMMA SwapKeeps ==
    ASSUME NEW k, Inv(k), NEW s \in Slots, NEW n \in Slots, k.upd = s, k.rproc[s].new = n,
           St(k, s) = "prepare",
           NEW a, Marks(k, a, s, k.rproc[s].flags, "blocked"), NEW out, out.fail = {}
    PROVE  LET q == run_service(update_service(a, s, n), s, out)
           IN  q.ok /\ Keeps(k, q.k)
<1>0. Good(k, {}) /\ Used(k, s) /\ Settled(k, s) /\ Main(k, s)
  BY PartnerOf DEF Inv, Settled, Main
<1>1. Couple(k, s, n) /\ Linking(k.rproc[n], NULL, NULL, s, NULL) /\ Settled(k, n)
  BY PartnerOf
<1>2. Moves(k, a, {s}) /\ a.upd = s /\ Good(a, {})
  <2>1. Moves(k, a, {s}) /\ a.upd = k.upd
    BY <1>0, MarksMoves
  <2> QED
    BY <2>1 DEF Moves
<1>3. Couple(a, s, n) /\ Main(a, s) /\ a.rproc[n] = k.rproc[n] /\ St(a, n) = St(k, n)
  BY <1>0, <1>1, CoupleMarks
<1>4. SameData(k.rproc[s], a.rproc[s]) /\ a.rproc[s].flags = k.rproc[s].flags
      /\ St(a, s) = "blocked"
  BY DEF Marks
<1>5. PICK x : x = update_service(a, s, n)
  OBVIOUS
<1>6. Exchanged(a, x, s, n)
  BY <1>2, <1>3, <1>5, ExchangeIs DEF Couple, Good
<1>7. Moves(a, x, {s, n}) /\ Couple(x, s, n) /\ St(x, s) = St(a, n) /\ St(x, n) = St(a, s)
  BY <1>2, <1>3, <1>6, ExchangeGood
<1>8. x.upd = n
  BY <1>2, <1>6 DEF Exchanged, Swapped
<1>9. PICK q : q = run_service(x, s, out)
  OBVIOUS
<1>10. q.ok /\ Marks(x, q.k, s, x.rproc[s].flags \cup {"INITIALIZING"}, "init")
  <2>1. Good(x, {}) /\ Used(x, s)
    BY <1>7 DEF Moves, Couple
  <2> QED
    BY <1>9, <2>1, RunService
<1>11. PICK r : r = q.k
  OBVIOUS
<1>12. Marks(x, r, s, x.rproc[s].flags \cup {"INITIALIZING"}, "init")
  BY <1>10, <1>11
<1>13. Moves(x, r, {s}) /\ r.upd = n
  BY <1>7, <1>8, <1>12, MarksMoves DEF Moves, Couple
<1>14. r.rproc[n] = x.rproc[n] /\ St(r, n) = "blocked"
  <2>1. s \in Slots /\ n \in Slots /\ Couple(x, s, n)
    BY <1>7
  <2>2. PICK f : Marks(x, r, s, f, "init")
    BY <1>12
  <2>3. r.rproc[n] = x.rproc[n] /\ St(r, n) = St(x, n)
    BY ONLY <2>1, <2>2, CoupleMarks
  <2> QED
    BY <1>4, <1>7, <2>3
<1>15. Moves(k, r, {s, n})
  <2>1. Moves(k, x, {s, n})
    BY <1>2, <1>7, MovesTwice
  <2> QED
    BY <1>13, <2>1, MovesTwice
<1>16. n # s /\ ~Main(k, n)
  BY <1>0, <1>1 DEF Couple
<1>17. Settled(r, s)
  <2>1. /\ "UPDATING" \in k.rproc[n].flags /\ "TERMINATED" \notin k.rproc[n].flags
        /\ "EXITING" \notin k.rproc[n].flags /\ "REFRESHING" \notin k.rproc[n].flags
        /\ ~(k.rproc[n].backoff > 0) /\ ~k.rproc[n].opt.repl
    BY <1>1, Constants DEF Settled, Linking
  <2>2. /\ x.rproc[s].flags = k.rproc[n].flags \cup {"ACTIVE"}
        /\ x.rproc[s].backoff = k.rproc[n].backoff /\ x.rproc[s].opt = k.rproc[n].opt
        /\ Linking(x.rproc[s], NULL, NULL, n, NULL)
    BY <1>1, <1>3, <1>6, Constants DEF Exchanged, Took, Linking, Swapped
  <2>3. /\ r.rproc[s].flags = k.rproc[n].flags \cup {"ACTIVE", "INITIALIZING"}
        /\ ~(r.rproc[s].backoff > 0) /\ ~r.rproc[s].opt.repl
        /\ Linking(r.rproc[s], NULL, NULL, n, NULL) /\ St(r, s) = "init"
    BY <1>12, <2>1, <2>2 DEF Marks, SameData, SameFields, Linking
  <2> QED
    BY <2>1, <2>3, Constants DEF Settled, Linking
<1>18. Settled(r, n)
  <2>1. /\ Linking(k.rproc[s], NULL, NULL, NULL, n)
        /\ "UPDATING" \in k.rproc[s].flags /\ "TERMINATED" \notin k.rproc[s].flags
        /\ "EXITING" \notin k.rproc[s].flags /\ "REFRESHING" \notin k.rproc[s].flags
        /\ "INITIALIZING" \notin k.rproc[s].flags
        /\ ~(k.rproc[s].backoff > 0) /\ ~k.rproc[s].opt.repl
    <3>1. Linking(k.rproc[s], NULL, NULL, NULL, n)
      BY <1>1, Constants DEF Couple, Tied, Linking
    <3> QED
      BY <1>0, <3>1, Constants DEF Settled, Linking, Main
  <2>2. /\ r.rproc[n].flags = k.rproc[s].flags \ {"ACTIVE"}
        /\ r.rproc[n].backoff = k.rproc[s].backoff /\ r.rproc[n].opt = k.rproc[s].opt
        /\ Linking(r.rproc[n], NULL, NULL, NULL, s)
    <3>1. Linking(a.rproc[s], NULL, NULL, NULL, n) /\ a.rproc[s].backoff = k.rproc[s].backoff
          /\ a.rproc[s].opt = k.rproc[s].opt
      BY <1>4, <2>1 DEF SameData, SameFields, Linking
    <3>2. Took(x.rproc[n], a.rproc[s], a.rproc[n], s, n)
          /\ x.rproc[n].flags = a.rproc[s].flags \ {"ACTIVE"}
      BY <1>6 DEF Exchanged
    <3> QED
      BY <1>4, <1>14, <1>16, <3>1, <3>2, Constants DEF Took, Linking, Swapped
  <2> QED
    BY <1>13, <1>14, <2>1, <2>2, Constants DEF Settled, Linking
<1>19. Inv(r)
  <2>1. Good(r, {}) /\ Others(k, r, {s, n})
    BY <1>15 DEF Moves
  <2>2. \A t \in Slots \cap {s, n} : Used(r, t) => Settled(r, t)
    BY <1>17, <1>18
  <2>3. k.upd \in {s, n} \cup {NULL}
    OBVIOUS
  <2> QED
    BY <2>1, <2>2, <2>3, InvKept
<1> QED
  BY <1>5, <1>9, <1>10, <1>11, <1>15, <1>19 DEF Keeps, Moves

(* The old version is ready for the update, or is not.                     *)
LEMMA do_upd_readyKeeps ==
    ASSUME Plain, Inv(K), NEW e \in Endpoints, NEW ok \in BOOLEAN, do_upd_ready(e, ok)
    PROVE  Inv(K')
<1>0. Good(K, {}) /\ K.world[e].st = "prepare" /\ K.upd = rupdate
  BY DEF Inv, do_upd_ready, Live, K
<1>1. PICK s \in Slots : /\ s = rproc_ptr[e] /\ Used(K, s) /\ K.rproc[s].ep = e /\ Settled(K, s)
                         /\ St(K, s) = "prepare" /\ s # NULL
  BY <1>0, SlotOf DEF K
<1>2. PICK a : a = [K EXCEPT !.world[e].st = "blocked"]
  OBVIOUS
<1>3. PICK n : n = K.rproc[s].new
  OBVIOUS
<1>4. PICK out \in Outcomes :
         LET ran == run_service(update_service(a, s, n), s, Tame(out))
         IN  Become(IF s # rupdate \/ s = NULL THEN [K EXCEPT !.world[e].st = "run"]
                    ELSE IF ~ok \/ "swap" \in out.fail THEN end_update(a, FALSE, TRUE)
                    ELSE IF ran.ok THEN ran.k
                    ELSE end_update(update_service(ran.k, s, n), TRUE, TRUE))
  BY <1>1, <1>2, <1>3 DEF do_upd_ready, Handle
<1>5. CASE s # rupdate
  <2>1. PICK r : r = [K EXCEPT !.world[e].st = "run"]
    OBVIOUS
  <2>2. Marks(K, r, s, K.rproc[s].flags, "run")
    BY <1>0, <1>1, <2>1, StepMarks
  <2>3. Keeps(K, r)
    BY <1>1, <2>2, MarksKeeps
  <2> QED
    BY <1>4, <1>5, <2>1, <2>3, HandledIs DEF Keeps
<1>6. CASE s = rupdate
  <2>1. Marks(K, a, s, K.rproc[s].flags, "blocked")
    BY <1>0, <1>1, <1>2, StepMarks
  <2>2. Main(K, s)
    BY <1>1 DEF Settled, Main
  <2>3. CASE ~ok \/ "swap" \in out.fail
    <3>1. Keeps(K, end_update(a, FALSE, TRUE))
      BY <1>0, <1>1, <1>6, <2>1, <2>2, CancelKeeps
    <3> QED
      BY <1>1, <1>4, <1>6, <2>3, <3>1, HandledIs DEF Keeps
  <2>4. CASE ok /\ "swap" \notin out.fail
    <3>1. PICK t : t = Tame(out)
      OBVIOUS
    <3>2. t.fail = {}
      BY <3>1, OutcomeOf DEF Outcomes
    <3>3. PICK q : q = run_service(update_service(a, s, n), s, t)
      OBVIOUS
    <3>4. n \in Slots
      <4>1. K.upd = s
        BY <1>0, <1>6
      <4> QED
        BY <1>3, <4>1, PartnerOf
    <3>5. q.ok /\ Keeps(K, q.k)
      BY <1>0, <1>1, <1>3, <1>6, <2>1, <3>2, <3>3, <3>4, SwapKeeps
    <3> QED
      BY <1>1, <1>4, <1>6, <2>4, <3>1, <3>3, <3>5, HandledIs DEF Keeps
  <2> QED
    BY <2>3, <2>4
<1> QED
  BY <1>5, <1>6

-----------------------------------------------------------------------------
(* A service is ready, and the instance it came from is no longer needed.  *)
LEMMA RejoinGood ==
    ASSUME NEW k, NEW s \in Slots, NEW x \in Slots, Good(k, {s, x}), ~Used(k, x), Main(k, s),
           NEW q \in Slot, SameSlot(k.rproc[s], q), Alone(q), NEW r, Turns(k, r, s, q)
    PROVE  Moves(k, r, {s}) /\ r.upd = k.upd
<1>1. /\ r \in States /\ r.rproc[s] = q /\ \A t \in Slots \ {s} : r.rproc[t] = k.rproc[t]
      /\ r.ptr = k.ptr /\ r.upd = k.upd /\ r.world = k.world /\ r.ds = k.ds
      /\ r.waiting = k.waiting /\ r.stray = k.stray /\ r.crashed = k.crashed
  BY DEF Turns, OnlyTable
<1>2. \A t \in Slots : /\ r.rproc[t].flags = k.rproc[t].flags /\ r.rproc[t].ep = k.rproc[t].ep
                       /\ r.rproc[t].pid = k.rproc[t].pid /\ r.rproc[t].label = k.rproc[t].label
                       /\ r.rproc[t].caller = k.rproc[t].caller
  <2> SUFFICES ASSUME NEW t \in Slots
               PROVE  /\ r.rproc[t].flags = k.rproc[t].flags /\ r.rproc[t].ep = k.rproc[t].ep
                      /\ r.rproc[t].pid = k.rproc[t].pid /\ r.rproc[t].label = k.rproc[t].label
                      /\ r.rproc[t].caller = k.rproc[t].caller
    OBVIOUS
  <2>1. CASE t = s
    BY <1>1, <2>1 DEF SameSlot
  <2>2. CASE t # s
    BY <1>1, <2>2
  <2> QED
    BY <2>1, <2>2
<1>3. \A t \in Slots : (Used(r, t) <=> Used(k, t)) /\ (Main(r, t) <=> Main(k, t))
                       /\ (Owes(r, t) <=> Owes(k, t))
  BY <1>2 DEF Used, Main, Owes
<1>4. Owned(k) /\ Shape(k, {s, x}) /\ Published(k) /\ Updating(k, {s, x}) /\ Owing(k)
      /\ ~k.crashed /\ k \in States
  BY DEF Good
<1>5. Owned(r)
  <2>1. \A t \in Slots : Used(r, t) =>
           /\ r.rproc[t].ep \in Endpoints /\ r.rproc[t].pid = r.rproc[t].ep
           /\ r.ptr[r.rproc[t].ep] = t /\ r.rproc[t].label \in Labels
    BY <1>1, <1>2, <1>3, <1>4 DEF Owned
  <2>2. \A t \in Slots : ~Used(r, t) => r.rproc[t].flags = {}
    BY <1>2, <1>3, <1>4 DEF Owned
  <2>3. ASSUME NEW e \in Endpoints, r.ptr[e] # NULL
        PROVE  Used(r, r.ptr[e]) /\ r.rproc[r.ptr[e]].ep = e
    <3>1. k.ptr[e] \in Slots /\ r.ptr[e] = k.ptr[e]
      BY <1>1, <1>4, <2>3, StateFields
    <3> QED
      BY <1>2, <1>3, <1>4, <2>3, <3>1 DEF Owned
  <2>4. \A e \in Endpoints : r.world[e].st # "free" <=> r.ptr[e] # NULL
    BY <1>1, <1>4 DEF Owned
  <2> QED
    BY <2>1, <2>2, <2>3, <2>4 DEF Owned
<1>6. Shape(r, {})
  <2> SUFFICES ASSUME NEW t \in Slots, Used(r, t)
               PROVE  \/ Alone(r.rproc[t]) /\ Main(r, t)
                      \/ \E y \in Slots : Couple(r, t, y)
    BY DEF Shape
  <2>1. CASE t = s
    BY <1>1, <1>3, <2>1
  <2>2. CASE t # s
    <3>1. t \notin {s, x} /\ r.rproc[t] = k.rproc[t] /\ Used(k, t)
      BY <1>1, <1>3, <2>2
    <3>2. CASE Alone(k.rproc[t]) /\ Main(k, t)
      BY <1>3, <3>1, <3>2
    <3>3. ASSUME NEW y \in Slots \ {s, x}, Couple(k, t, y)
          PROVE  Couple(r, t, y)
      <4>1. r.rproc[y] = k.rproc[y]
        BY <1>1
      <4> QED
        BY <1>3, <3>1, <3>3, <4>1 DEF Couple
    <3> QED
      BY <1>4, <3>1, <3>2, <3>3 DEF Shape
  <2> QED
    BY <2>1, <2>2
<1>7. Published(r)
  <2>1. \A t, u \in Slots :
           Main(r, t) /\ Main(r, u) /\ r.rproc[t].label = r.rproc[u].label => t = u
    BY <1>2, <1>3, <1>4 DEF Published
  <2>2. \A l \in Labels : r.ds[l] # NULL =>
           \E t \in Slots : Main(r, t) /\ r.rproc[t].label = l /\ r.rproc[t].ep = r.ds[l]
    BY <1>1, <1>2, <1>3, <1>4 DEF Published
  <2> QED
    BY <2>1, <2>2 DEF Published
<1>8. Updating(r, {})
  <2> SUFFICES ASSUME r.upd # NULL
               PROVE  r.upd \in Slots /\ Used(r, r.upd) /\ r.rproc[r.upd].new # NULL
    BY DEF Updating
  <2>1. PICK o : o = r.upd
    OBVIOUS
  <2>2. o \in Slots \ {s, x} /\ Used(k, o) /\ k.rproc[o].new # NULL
    BY <1>1, <1>4, <2>1 DEF Updating
  <2> QED
    BY <1>1, <1>3, <2>1, <2>2
<1>9. Owing(r)
  BY <1>1, <1>2, <1>3, <1>4 DEF Owing
<1>10. Good(r, {})
  BY <1>1, <1>4, <1>5, <1>6, <1>7, <1>8, <1>9 DEF Good
<1> QED
  BY <1>1, <1>10 DEF Moves, Others, Fewer

(* What holds of a service that RS has just heard to be ready.             *)
Ready(h, k, s) ==
    /\ Moves(h, k, {s}) /\ k.upd = h.upd /\ SameData(h.rproc[s], k.rproc[s])
    /\ \A f \in Notes \ {"INITIALIZING"} : f \in k.rproc[s].flags <=> f \in h.rproc[s].flags
    /\ "INITIALIZING" \notin k.rproc[s].flags /\ St(k, s) = "run" /\ Used(k, s) /\ Main(k, s)

(* The flags change, and the caller gets the answer.                       *)
LEMMA ReadyIs ==
    ASSUME NEW h, Inv(h), NEW s \in Slots, Main(h, s), NEW e, e = h.rproc[s].ep
    PROVE  LET ready == [Unset(h, s, {"INITIALIZING"}) EXCEPT
                            !.rproc[s].awaited = FALSE, !.world[e].st = "run"]
           IN  Ready(h, late_reply(ready, s), s)
<1>0. Good(h, {}) /\ Used(h, s) /\ h \in States
  BY MainUsed DEF Inv, Good
<1>1. {"INITIALIZING"} \cap Bits = {}
  BY DEF Bits
<1>2. PICK i : i = Unset(h, s, {"INITIALIZING"})
  OBVIOUS
<1>3. Marks(h, i, s, h.rproc[s].flags \ {"INITIALIZING"}, St(h, s))
  BY <1>0, <1>1, <1>2, UnsetMarks
<1>4. PICK f : f = h.rproc[s].flags \ {"INITIALIZING"}
  OBVIOUS
<1>5. Marks(h, i, s, f, St(h, s)) /\ i \in States /\ i.rproc[s].flags = f
      /\ i.rproc[s].ep = e
  BY <1>3, <1>4 DEF Marks, Quietly, SameData, SameFields
<1>6. i.rproc \in [Slots -> Slot] /\ i.rproc[s] \in Slot
  BY <1>5, StateFields
<1>7. PICK q : q = [i.rproc[s] EXCEPT !.awaited = FALSE]
  OBVIOUS
<1>8. q \in Slot /\ SameData(i.rproc[s], q) /\ q.flags = i.rproc[s].flags
  BY <1>6, <1>7 DEF Slot, SameData, SameFields
<1>9. PICK j : j = Edit(i, s, q)
  OBVIOUS
<1>10. Marks(i, j, s, f, St(i, s))
  BY <1>5, <1>8, <1>9, EditMarks
<1>11. PICK x : x = St(i, s)
  OBVIOUS
<1>12. Marks(h, j, s, f, x)
  BY <1>5, <1>10, <1>11, MarksTwice
<1>13. Moves(h, j, {s}) /\ Used(j, s) /\ j.upd = h.upd /\ Good(j, {}) /\ j \in States
       /\ j.rproc[s].ep = e /\ j.rproc[s].flags = f
  <2>1. Moves(h, j, {s}) /\ Used(j, s) /\ j.upd = h.upd
    BY <1>0, <1>12, MarksMoves
  <2> QED
    BY <1>12, <2>1 DEF Moves, Good, Marks, SameData, SameFields
<1>14. PICK r : r = [j EXCEPT !.world[e].st = "run"]
  OBVIOUS
<1>15. Marks(j, r, s, f, "run")
  BY <1>13, <1>14, StepMarks
<1>16. Marks(h, r, s, f, "run")
  BY <1>12, <1>15, MarksTwice
<1>17. [i EXCEPT !.rproc[s].awaited = FALSE, !.world[e].st = "run"] = r
  <2>1. [i EXCEPT !.rproc[s].awaited = FALSE] = j
    BY <1>5, <1>6, <1>7, <1>9 DEF Edit, States
  <2> QED
    BY <1>14, <2>1
<1>18. Moves(h, r, {s}) /\ Used(r, s) /\ r.upd = h.upd
  BY <1>0, <1>16, MarksMoves
<1>19. PICK l : l = late_reply(r, s)
  OBVIOUS
<1>20. /\ Moves(r, l, {s}) /\ Answers(r, l, s) /\ l.upd = r.upd /\ St(l, s) = St(r, s)
       /\ (Used(l, s) <=> Used(r, s)) /\ (Main(l, s) <=> Main(r, s))
  BY <1>18, <1>19, AnswersMoves DEF Moves
<1>21. Moves(h, l, {s})
  BY <1>18, <1>20, MovesTwice
<1>22. SameData(h.rproc[s], r.rproc[s]) /\ r.rproc[s].flags = f /\ St(r, s) = "run"
  BY <1>16 DEF Marks
<1>23. SameData(h.rproc[s], l.rproc[s]) /\ l.rproc[s].flags = f \ {"LATEREPLY"}
  BY <1>20, <1>22, SameTwice DEF Answers
<1>24. Ready(h, l, s)
  <2>1. \A g \in Notes \ {"INITIALIZING"} : g \in l.rproc[s].flags <=> g \in h.rproc[s].flags
    BY <1>4, <1>23 DEF Notes
  <2>2. Main(l, s) /\ "INITIALIZING" \notin l.rproc[s].flags
    BY <1>4, <1>23, <2>1 DEF Main, Notes
  <2> QED
    BY <1>18, <1>20, <1>21, <1>22, <1>23, <2>1, <2>2 DEF Ready
<1> QED
  BY <1>2, <1>17, <1>19, <1>24

(* The end of an update that succeeded.                                    *)
LEMMA UpdatedKeeps ==
    ASSUME NEW h, Inv(h), NEW s \in Slots, Main(h, s), St(h, s) = "init",
           "INITIALIZING" \in h.rproc[s].flags, "UPDATING" \in h.rproc[s].flags,
           NEW k, Ready(h, k, s)
    PROVE  LET r == end_update(k, TRUE, FALSE)
           IN  Keeps(h, r) /\ Used(r, s) /\ r.rproc[s].prev = NULL
<1>0. Good(h, {}) /\ Used(h, s) /\ Settled(h, s)
  BY MainUsed DEF Inv, Good
<1>1. h.rproc[s].old # NULL /\ h.rproc[s].new = NULL
  BY <1>0 DEF Settled
<1>2. PICK o \in Slots : Couple(h, s, o)
  <2>1. ~Alone(h.rproc[s]) /\ s \in Slots \ {}
    BY <1>1 DEF Alone, Linking
  <2> QED
    BY <1>0, <2>1, Coupled
<1>3. Used(h, o) /\ h.rproc[o].new = s /\ o # s
  BY <1>1, <1>2 DEF Couple, Tied, Linking
<1>4. h.upd = o
  BY <1>3, Constants DEF Inv, Settled
<1>5. /\ Moves(h, k, {s}) /\ k.upd = o /\ SameData(h.rproc[s], k.rproc[s]) /\ Good(k, {})
      /\ St(k, s) = "run" /\ Used(k, s) /\ Main(k, s)
  BY <1>4 DEF Ready, Moves
<1>6. k.rproc[o] = h.rproc[o]
  BY <1>3, <1>5 DEF Moves, Others
<1>7. Couple(k, o, s) /\ k.rproc[o].new = s
  <2>1. \A t \in {s, o} : /\ SameFields(h.rproc[t], k.rproc[t]) /\ Used(k, t)
                          /\ (Main(k, t) <=> Main(h, t))
    BY <1>3, <1>5, <1>6 DEF SameData, SameFields, Used, Main
  <2>2. Couple(k, s, o)
    BY <1>2, <2>1, CoupleSame
  <2> QED
    BY <1>3, <1>6, <2>2, CoupleBack
<1>8. PICK r : r = end_update(k, TRUE, FALSE)
  OBVIOUS
<1>9. /\ Moves(k, r, {o, s}) /\ r.upd = NULL /\ ~Used(r, o) /\ Survives(k, r, s, "run")
  BY <1>5, <1>7, <1>8, EndUpdateIs
<1>10. Moves(h, r, {o, s})
  BY <1>5, <1>9, MovesTwice
<1>11. Settled(r, s)
  <2>1. /\ "TERMINATED" \notin h.rproc[s].flags /\ ~(h.rproc[s].backoff > 0)
        /\ ~h.rproc[s].opt.repl
    BY <1>0 DEF Settled, Main
  <2>2. "TERMINATED" \notin k.rproc[s].flags /\ "INITIALIZING" \notin k.rproc[s].flags
        /\ ~(k.rproc[s].backoff > 0) /\ ~k.rproc[s].opt.repl
    BY <2>1 DEF Ready, Notes, SameData
  <2>3. /\ "TERMINATED" \notin r.rproc[s].flags /\ "INITIALIZING" \notin r.rproc[s].flags
        /\ ~(r.rproc[s].backoff > 0) /\ ~r.rproc[s].opt.repl /\ St(r, s) = "run"
        /\ Alone(r.rproc[s]) /\ "UPDATING" \notin r.rproc[s].flags /\ Main(r, s)
    BY <1>9, <2>2 DEF Survives, Notes
  <2> QED
    BY <2>3 DEF Settled, Alone, Linking, Main
<1>12. Inv(r)
  <2>1. Good(r, {}) /\ Others(h, r, {o, s})
    BY <1>10 DEF Moves
  <2>2. \A t \in Slots \cap {o, s} : Used(r, t) => Settled(r, t)
    BY <1>9, <1>11
  <2>3. h.upd \in {o, s} \cup {NULL}
    BY <1>4
  <2> QED
    BY <2>1, <2>2, <2>3, InvKept
<1> QED
  BY <1>8, <1>9, <1>10, <1>12 DEF Keeps, Moves, Survives, Alone, Linking

(* A start or a restart that succeeded.                                    *)
LEMMA StartedKeeps ==
    ASSUME NEW h, Inv(h), NEW s \in Slots, Main(h, s), St(h, s) = "init",
           "UPDATING" \notin h.rproc[s].flags, NEW k, Ready(h, k, s)
    PROVE  LET p == k.rproc[s].prev
               r == IF p = NULL THEN k ELSE Replace(k, s, p)
           IN  Keeps(h, r) /\ Used(r, s)
<1>0. Good(h, {}) /\ Used(h, s) /\ Settled(h, s)
  BY MainUsed DEF Inv, Good
<1>1. /\ h.rproc[s].next = NULL /\ h.rproc[s].old = NULL /\ h.rproc[s].new = NULL
      /\ "TERMINATED" \notin h.rproc[s].flags /\ ~(h.rproc[s].backoff > 0) /\ ~h.rproc[s].opt.repl
  BY <1>0 DEF Settled, Main
<1>2. /\ Moves(h, k, {s}) /\ k.upd = h.upd /\ SameData(h.rproc[s], k.rproc[s]) /\ Good(k, {})
      /\ St(k, s) = "run" /\ Used(k, s) /\ Main(k, s) /\ k \in States
  BY DEF Ready, Moves, Good
<1>3. /\ k.rproc[s].next = NULL /\ k.rproc[s].old = NULL /\ k.rproc[s].new = NULL
      /\ "TERMINATED" \notin k.rproc[s].flags /\ ~(k.rproc[s].backoff > 0) /\ ~k.rproc[s].opt.repl
      /\ "INITIALIZING" \notin k.rproc[s].flags /\ "UPDATING" \notin k.rproc[s].flags
  BY <1>1 DEF Ready, Notes, SameData, SameFields
<1>4. PICK p : p = k.rproc[s].prev
  OBVIOUS
<1>5. CASE p = NULL
  <2>1. Alone(k.rproc[s])
    BY <1>3, <1>4, <1>5 DEF Alone, Linking
  <2>2. Settled(k, s)
    BY <1>2, <1>3, <2>1 DEF Settled, Alone, Linking, Main
  <2>3. Inv(k)
    <3>1. \A t \in Slots \cap {s} : Used(k, t) => Settled(k, t)
      BY <2>2
    <3> QED
      BY <1>2, <3>1, InvKept DEF Moves
  <2> QED
    BY <1>2, <1>4, <1>5, <2>3 DEF Keeps, Moves
<1>6. CASE p # NULL
  <2>1. PICK x \in Slots : Couple(k, s, x)
    <3>1. ~Alone(k.rproc[s]) /\ s \in Slots \ {}
      BY <1>4, <1>6 DEF Alone, Linking
    <3> QED
      BY <1>2, <3>1, Coupled
  <2>2. x = p /\ x # s /\ Used(k, x) /\ ~Main(k, x) /\ k.rproc[x].new = NULL
    BY <1>2, <1>4, <1>6, <2>1 DEF Couple, Tied, Linking
  <2>3. k.upd \notin {s, x}
    <3>1. k.upd # s
      BY <1>2, <1>3, Constants DEF Good, Updating
    <3>2. k.upd # x
      BY <1>2, <2>2, Constants DEF Good, Updating
    <3> QED
      BY <3>1, <3>2
  <2>4. Good(k, {s, x})
    BY <1>2, <2>1, <2>3, LeaveCouple
  <2>5. PICK c : c = cleanup_service(k, x)
    OBVIOUS
  <2>6. Good(c, {s, x}) /\ ~Used(c, x) /\ Others(k, c, {x}) /\ Fewer(k, c) /\ c.upd = k.upd
    BY <2>2, <2>4, <2>5, CleanupGood
  <2>7. c.rproc[s] = k.rproc[s] /\ St(c, s) = "run" /\ Main(c, s)
    BY <1>2, <2>2, <2>6 DEF Others, St, Main
  <2>8. c \in States /\ c.rproc \in [Slots -> Slot] /\ c.rproc[s] \in Slot
    BY <2>6, StateFields DEF Good
  <2>9. PICK b : b = [c.rproc[s] EXCEPT !.prev = NULL]
    OBVIOUS
  <2>10. b \in Slot /\ SameSlot(c.rproc[s], b) /\ Alone(b)
    BY <1>3, <2>7, <2>8, <2>9 DEF Slot, SameSlot, Alone, Linking
  <2>11. PICK q : q = [b EXCEPT !.restarts = IF @ < MaxRestarts THEN @ + 1 ELSE @]
    OBVIOUS
  <2>12. q \in Slot /\ SameSlot(c.rproc[s], q) /\ Alone(q)
    <3>1. b.restarts \in 0 .. MaxRestarts
      BY <2>10 DEF Slot
    <3>2. PICK n \in 0 .. MaxRestarts : n = IF b.restarts < MaxRestarts THEN b.restarts + 1 ELSE b.restarts
      BY <3>1, Constants
    <3>3. q = [b EXCEPT !.restarts = n]
      BY <2>11, <3>2
    <3>4. q \in Slot /\ SameSlot(b, q) /\ Alone(q)
      BY <2>10, <3>3 DEF Slot, SameSlot, Alone, Linking
    <3> QED
      BY <2>10, <3>4 DEF SameSlot
  <2>13. PICK r : r = Edit(c, s, q)
    OBVIOUS
  <2>14. Turns(c, r, s, q)
    BY <2>8, <2>12, <2>13, Turned
  <2>15. Moves(c, r, {s}) /\ r.upd = c.upd
    BY <2>6, <2>7, <2>12, <2>14, RejoinGood
  <2>16. Replace(k, s, p) = r
    <3>1. PICK n : n = c.rproc[s].restarts
      OBVIOUS
    <3>2. PICK m : m = IF n < MaxRestarts THEN n + 1 ELSE n
      OBVIOUS
    <3>3. Replace(k, s, x) = [c EXCEPT !.rproc[s].prev = NULL, !.rproc[s].restarts = m]
      BY <2>5, <3>1, <3>2 DEF Replace
    <3>4. b.restarts = n
      BY <2>8, <2>9, <3>1 DEF Slot
    <3>5. q = [[c.rproc[s] EXCEPT !.prev = NULL] EXCEPT !.restarts = m]
      BY <2>9, <2>11, <3>2, <3>4
    <3>6. [c EXCEPT !.rproc[s].prev = NULL, !.rproc[s].restarts = m] = Edit(c, s, q)
      <4>1. PICK d : d = [c EXCEPT !.rproc[s].prev = NULL]
        OBVIOUS
      <4>2. d = Edit(c, s, b)
        BY <2>8, <2>9, <4>1 DEF Edit, States
      <4>3. Turns(c, d, s, b)
        BY <2>8, <2>10, <4>2, Turned
      <4>4. d \in States /\ d.rproc[s] = b /\ d.rproc \in [Slots -> Slot]
        BY <4>3, StateFields DEF Turns
      <4>5. [d EXCEPT !.rproc[s].restarts = m] = Edit(d, s, q)
        BY <2>9, <3>5, <4>4 DEF Edit, States
      <4>6. Edit(d, s, q) = Edit(c, s, q)
        BY <2>8, <4>2 DEF Edit, States
      <4>7. [c EXCEPT !.rproc[s].prev = NULL, !.rproc[s].restarts = m]
              = [d EXCEPT !.rproc[s].restarts = m]
        BY <4>1
      <4> QED
        BY <4>5, <4>6, <4>7
    <3> QED
      BY <2>2, <2>13, <3>3, <3>6
  <2>17. Others(h, r, {s, x}) /\ Fewer(h, r)
    <3>1. Others(h, k, {s}) /\ Fewer(h, k)
      BY <1>2 DEF Moves
    <3>2. Others(h, c, {s, x}) /\ Fewer(h, c)
      BY <2>6, <3>1, OthersTwice, FewerTwice
    <3>3. Others(c, r, {s}) /\ Fewer(c, r)
      BY <2>15 DEF Moves
    <3> QED
      BY <3>2, <3>3, OthersTwice, FewerTwice
  <2>18. r.rproc[s] = q /\ r.world = c.world /\ ~Used(r, x)
    BY <2>2, <2>6, <2>14 DEF Turns, OnlyTable, Used
  <2>19. Settled(r, s) /\ Used(r, s)
    <3>1. /\ q.flags = k.rproc[s].flags /\ q.backoff = k.rproc[s].backoff
          /\ q.opt = k.rproc[s].opt /\ q.ep = k.rproc[s].ep
      BY <2>7, <2>12 DEF SameSlot
    <3>2. St(r, s) = "run"
      BY <2>7, <2>18, <3>1 DEF St
    <3> QED
      BY <1>2, <1>3, <2>12, <2>18, <3>1, <3>2 DEF Settled, Alone, Linking, Used, Main
  <2>20. Inv(r)
    <3>1. Good(r, {}) /\ r.upd = h.upd
      BY <1>2, <2>6, <2>15 DEF Moves
    <3>2. \A t \in Slots \cap {s, x} : Used(r, t) => Settled(r, t)
      BY <2>18, <2>19
    <3> QED
      BY <2>17, <3>1, <3>2, InvKept
  <2> QED
    BY <1>4, <1>6, <2>16, <2>17, <2>19, <2>20 DEF Keeps
<1> QED
  BY <1>5, <1>6

(* A service reports that it is ready, or that it is not.                  *)
LEMMA do_init_readyKeeps ==
    ASSUME Inv(K), NEW e \in Endpoints, NEW ok \in BOOLEAN, do_init_ready(e, ok)
    PROVE  Inv(K')
<1>0. Good(K, {}) /\ K \in States /\ K.world[e].st = "init"
  BY DEF Inv, Good, do_init_ready, Live, K
<1>1. PICK s \in Slots : /\ s = rproc_ptr[e] /\ Used(K, s) /\ K.rproc[s].ep = e /\ Settled(K, s)
                         /\ St(K, s) = "init" /\ s # NULL
  BY <1>0, SlotOf DEF K
<1>2. PICK alone : alone = Initialized(K, s, e)
  OBVIOUS
<1>3. PICK out \in Outcomes :
         Become(IF s = NULL THEN [K EXCEPT !.crashed = TRUE]
                ELSE IF ~Has(K, s, "INITIALIZING") THEN [K EXCEPT !.world[e].st = "run"]
                ELSE IF ~ok THEN crash_service(K, s)
                ELSE IF alone.rproc[s].opt.repl THEN clone_service(alone, s, FALSE, out).k
                ELSE alone)
  BY <1>1, <1>2 DEF do_init_ready, Handle
<1>4. PICK told : told = late_reply([Unset(K, s, {"INITIALIZING"}) EXCEPT
                               !.rproc[s].awaited = FALSE, !.world[e].st = "run"], s)
  OBVIOUS
<1>5. PICK over : over = IF Has(K, s, "UPDATING") THEN end_update(told, TRUE, FALSE) ELSE told
  OBVIOUS
<1>6. PICK p : p = over.rproc[s].prev
  OBVIOUS
<1>7. alone = IF p = NULL THEN over ELSE Replace(over, s, p)
  BY <1>2, <1>4, <1>5, <1>6 DEF Initialized
<1>8. Main(K, s)
  BY <1>1 DEF Settled, Main
<1>9. CASE ~Has(K, s, "INITIALIZING")
  <2>1. PICK r : r = [K EXCEPT !.world[e].st = "run"]
    OBVIOUS
  <2>2. Marks(K, r, s, K.rproc[s].flags, "run")
    BY <1>0, <1>1, <2>1, StepMarks
  <2>3. Keeps(K, r)
    BY <1>1, <2>2, MarksKeeps
  <2> QED
    BY <1>1, <1>3, <1>9, <2>1, <2>3, HandledIs DEF Keeps
<1>10. CASE Has(K, s, "INITIALIZING") /\ ~ok
  <2>1. PICK r : r = crash_service(K, s)
    OBVIOUS
  <2>2. Marks(K, r, s, K.rproc[s].flags, St(K, s))
    BY <1>0, <1>1, <2>1, CrashMarks DEF Good
  <2>3. Keeps(K, r)
    BY <1>1, <2>2, MarksKeeps
  <2> QED
    BY <1>1, <1>3, <1>10, <2>1, <2>3, HandledIs DEF Keeps
<1>11. CASE Has(K, s, "INITIALIZING") /\ ok
  <2>1. Ready(K, told, s)
    BY <1>1, <1>4, <1>8, ReadyIs
  <2>2. Keeps(K, alone) /\ Used(alone, s)
    <3>1. CASE Has(K, s, "UPDATING")
      <4>1. "INITIALIZING" \in K.rproc[s].flags /\ "UPDATING" \in K.rproc[s].flags
        BY <1>11, <3>1 DEF Has
      <4>2. over = end_update(told, TRUE, FALSE)
        BY <1>5, <3>1
      <4>3. Keeps(K, over) /\ Used(over, s) /\ over.rproc[s].prev = NULL
        BY <1>1, <1>8, <2>1, <4>1, <4>2, UpdatedKeeps
      <4> QED
        BY <1>6, <1>7, <4>3
    <3>2. CASE ~Has(K, s, "UPDATING")
      <4>1. "UPDATING" \notin K.rproc[s].flags /\ over = told
        BY <1>5, <3>2 DEF Has
      <4> QED
        BY <1>1, <1>6, <1>7, <1>8, <2>1, <4>1, StartedKeeps
    <3> QED
      BY <3>1, <3>2
  <2>3. ~alone.rproc[s].opt.repl
    BY <2>2 DEF Keeps, Inv, Settled
  <2> QED
    BY <1>1, <1>3, <1>11, <2>2, <2>3, HandledIs DEF Keeps
<1> QED
  BY <1>9, <1>10, <1>11

-----------------------------------------------------------------------------
(* The alarm.                                                              *)
LEMMA TickKeeps ==
    ASSUME Plain, NEW k, Inv(k), NEW s \in Slots, Main(k, s), k.rproc[s].backoff > 0,
           NEW out, Outcome(out)
    PROVE  LET tick == [k EXCEPT !.rproc[s].backoff = @ - 1]
           IN  /\ Keeps(k, tick)
               /\ Keeps(k, restart_service(tick, s, k.rproc[s].opt.script, out))
<1>0. Good(k, {}) /\ k \in States /\ Owned(k) /\ Used(k, s) /\ Settled(k, s)
  <2>1. Good(k, {}) /\ Owned(k) /\ k \in States
    BY DEF Inv, Good
  <2> QED
    BY <2>1, MainUsed DEF Inv
<1>1. k.rproc[s] \in Slot /\ k.rproc \in [Slots -> Slot]
  BY <1>0, StateFields
<1>2. "TERMINATED" \in k.rproc[s].flags /\ Alone(k.rproc[s])
  BY <1>0 DEF Settled, Main
<1>3. Fallen(k, k, s)
  <2>1. Keeps(k, k)
    BY KeepsSelf
  <2> QED
    BY <1>2, <2>1 DEF Fallen
<1>4. PICK b : b = k.rproc[s].backoff
  OBVIOUS
<1>5. b \in 0 .. MAX_BACKOFF /\ b > 0
  BY <1>1, <1>4 DEF Slot
<1>6. PICK n \in 0 .. MAX_BACKOFF : n = b - 1
  <2>1. b - 1 \in 0 .. MAX_BACKOFF
    BY <1>5, Constants
  <2> QED
    BY <2>1
<1>7. PICK r : r = [k EXCEPT !.rproc[s].backoff = n]
  OBVIOUS
<1>8. r = [k EXCEPT !.rproc[s].backoff = @ - 1]
  BY <1>0, <1>1, <1>4, <1>6, <1>7 DEF States
<1>9. Keeps(k, r)
  BY <1>3, <1>7, BackoffKeeps
<1>10. /\ Inv(r) /\ Main(r, s) /\ Alone(r.rproc[s]) /\ "TERMINATED" \in r.rproc[s].flags
  <2>1. r.rproc[s] = [k.rproc[s] EXCEPT !.backoff = n]
    BY <1>0, <1>1, <1>7 DEF States
  <2>2. r.rproc[s].flags = k.rproc[s].flags /\ Alone(r.rproc[s])
    BY <1>1, <1>2, <2>1 DEF Slot, Alone, Linking
  <2> QED
    BY <1>2, <1>9, <2>2 DEF Main, Keeps
<1>11. PICK script \in BOOLEAN : script = k.rproc[s].opt.script
  BY <1>1 DEF Slot
<1>12. Keeps(r, restart_service(r, s, script, out))
  BY <1>10, RestartKeeps
<1>13. Keeps(k, restart_service(r, s, script, out))
  BY <1>9, <1>12, KeepsTwice
<1> QED
  BY <1>8, <1>9, <1>11, <1>13

(* A service that does not answer is killed.                               *)
LEMMA CrashKeeps ==
    ASSUME NEW k, Inv(k), NEW s \in Slots, Used(k, s)
    PROVE  Keeps(k, crash_service(k, s))
<1>1. k \in States /\ Owned(k)
  BY DEF Inv, Good
<1>2. PICK r : r = crash_service(k, s)
  OBVIOUS
<1>3. Marks(k, r, s, k.rproc[s].flags, St(k, s))
  BY <1>1, <1>2, CrashMarks
<1>4. Keeps(k, r)
  BY <1>3, MarksKeeps
<1> QED
  BY <1>2, <1>4

(* One turn of the loop.                                                   *)
LEMMA CheckServiceKeeps ==
    ASSUME Plain, NEW k, Inv(k), NEW s \in Slots, NEW late, NEW overdue, NEW out, Outcome(out)
    PROVE  Keeps(k, CheckService(k, s, late, overdue, out))
<1> DEFINE r == k.rproc[s]
           initializing == \E x \in Slots : Has(k, x, "IN_USE") /\ Has(k, x, "INITIALIZING")
           tick == [k EXCEPT !.rproc[s].backoff = @ - 1]
<1>0. Good(k, {}) /\ k \in States /\ Owned(k)
  BY DEF Inv, Good
<1>1. Keeps(k, k)
  BY KeepsSelf
<1>2. PICK q : q = CheckService(k, s, late, overdue, out)
  OBVIOUS
<1>3. CASE ~Has(k, s, "ACTIVE") \/ Has(k, s, "UPDATING")
  <2>1. q = k
    BY <1>2, <1>3 DEF CheckService
  <2> QED
    BY <1>1, <1>2, <2>1
<1>4. CASE Has(k, s, "ACTIVE") /\ ~Has(k, s, "UPDATING") /\ r.backoff > 0
  <2>1. Main(k, s)
    BY <1>4 DEF Has, Main
  <2>2. Keeps(k, tick) /\ Keeps(k, restart_service(tick, s, k.rproc[s].opt.script, out))
    BY <1>4, <2>1, TickKeeps
  <2>3. q = IF r.backoff = 1 THEN restart_service(tick, s, r.opt.script, out) ELSE tick
    BY <1>2, <1>4 DEF CheckService
  <2> QED
    BY <1>2, <2>2, <2>3
<1>5. CASE Has(k, s, "ACTIVE") /\ ~Has(k, s, "UPDATING") /\ ~(r.backoff > 0)
  <2>1. Used(k, s)
    BY <1>0, <1>5, MainUsed DEF Has, Main
  <2>2. q = IF r.stopping /\ r.pid # NULL /\ s \in overdue
              THEN crash_service([k EXCEPT !.rproc[s].stopping = FALSE], s)
            ELSE IF s \notin late THEN k
            ELSE IF ~r.opt.period /\ ~Has(k, s, "INITIALIZING") THEN k
            ELSE IF ~r.awaited THEN [k EXCEPT !.rproc[s].awaited = TRUE]
            ELSE IF r.pid = NULL \/ Has(k, s, "NOPINGREPLY") \/ initializing THEN k
            ELSE crash_service(Set(k, s, {"NOPINGREPLY"}), s)
    BY <1>2, <1>5 DEF CheckService
  <2>3. Keeps(k, crash_service([k EXCEPT !.rproc[s].stopping = FALSE], s))
    <3>1. PICK x : x = [k EXCEPT !.rproc[s].stopping = FALSE]
      OBVIOUS
    <3>2. Keeps(k, x) /\ Used(x, s)
      BY <2>1, <3>1, AwaitKeeps
    <3>3. Keeps(x, crash_service(x, s))
      BY <3>2, CrashKeeps DEF Keeps
    <3> QED
      BY <3>1, <3>2, <3>3, KeepsTwice
  <2>4. Keeps(k, [k EXCEPT !.rproc[s].awaited = TRUE])
    BY <2>1, AwaitKeeps
  <2>5. Keeps(k, crash_service(Set(k, s, {"NOPINGREPLY"}), s))
    <3>1. PICK x : x = Set(k, s, {"NOPINGREPLY"})
      OBVIOUS
    <3>2. {"NOPINGREPLY"} \in SUBSET Flags /\ {"NOPINGREPLY"} \cap Bits = {}
      BY DEF Flags, Bits
    <3>3. Marks(k, x, s, k.rproc[s].flags \cup {"NOPINGREPLY"}, St(k, s))
      BY <1>0, <3>1, <3>2, SetMarks
    <3>4. PICK f : f = k.rproc[s].flags \cup {"NOPINGREPLY"}
      OBVIOUS
    <3>5. \A g \in Notes : g \in f <=> g \in k.rproc[s].flags
      BY <3>4 DEF Notes
    <3>6. Keeps(k, x)
      BY <2>1, <3>3, <3>4, <3>5, MarksKeeps
    <3>7. Used(x, s)
      BY <2>1, <3>3 DEF Marks, Used
    <3>8. Keeps(x, crash_service(x, s))
      BY <3>6, <3>7, CrashKeeps DEF Keeps
    <3> QED
      BY <3>1, <3>6, <3>8, KeepsTwice
  <2> QED
    BY <1>1, <1>2, <2>2, <2>3, <2>4, <2>5
<1> QED
  BY <1>2, <1>3, <1>4, <1>5

(* The loop of do_period over the table, as a function of the turn.        *)
Checking(k, late, overdue, out, f) ==
    f = [s \in 0 .. NR_SYS_PROCS |->
            IF s = 0 THEN k ELSE CheckService(f[s - 1], s, late, overdue, out)]
Checked(late, overdue, out) ==
    [s \in 1 .. NR_SYS_PROCS |-> [x \in States |-> CheckService(x, s, late, overdue, out)]]

(* Each turn keeps the invariant, so the loop is defined.                  *)
LEMMA CheckingExists ==
    ASSUME Plain, NEW k, Inv(k), NEW late, NEW overdue, NEW out, Outcome(out)
    PROVE  \E f : Checking(k, late, overdue, out, f)
<1>1. NR_SYS_PROCS \in Nat
  BY Constants
<1>2. PICK f : Loop(NR_SYS_PROCS, k, Checked(late, overdue, out), f)
  BY <1>1, LoopExists
<1>3. \A s \in 0 .. NR_SYS_PROCS :
         f[s] = IF s = 0 THEN k ELSE Checked(late, overdue, out)[s][f[s - 1]]
  BY <1>2 DEF Loop
<1> DEFINE S == {x \in States : Inv(x)}
<1>4. f[0] \in S
  BY <1>1, <1>3 DEF Inv, Good
<1>5. ASSUME NEW s \in 1 .. NR_SYS_PROCS, f[s - 1] \in S
      PROVE  f[s] \in S /\ f[s] = CheckService(f[s - 1], s, late, overdue, out)
  <2>0. s \in 0 .. NR_SYS_PROCS /\ s # 0 /\ s \in Slots
    BY <1>1 DEF Slots
  <2>1. PICK x \in States : x = f[s - 1] /\ Inv(x)
    BY <1>5
  <2>2. f[s] = Checked(late, overdue, out)[s][x]
    BY <1>3, <2>0, <2>1
  <2>3. f[s] = CheckService(x, s, late, overdue, out)
    BY <2>2 DEF Checked
  <2>4. Keeps(x, CheckService(x, s, late, overdue, out))
    BY <2>0, <2>1, CheckServiceKeeps
  <2> QED
    BY <2>1, <2>3, <2>4 DEF Keeps, Inv, Good
<1>6. \A i \in 0 .. NR_SYS_PROCS : f[i] \in S
  <2> HIDE DEF S
  <2> QED
    BY <1>1, <1>4, <1>5, StaysIn
<1>7. f = [s \in 0 .. NR_SYS_PROCS |-> f[s]]
  BY <1>2 DEF Loop
<1>8. ASSUME NEW s \in 0 .. NR_SYS_PROCS
      PROVE  f[s] = IF s = 0 THEN k ELSE CheckService(f[s - 1], s, late, overdue, out)
  <2>1. CASE s = 0
    BY <1>3, <2>1
  <2>2. CASE s # 0
    <3>1. s \in 1 .. NR_SYS_PROCS /\ s - 1 \in 0 .. NR_SYS_PROCS
      BY <1>1, <2>2
    <3> QED
      BY <1>5, <1>6, <2>2, <3>1
  <2> QED
    BY <2>1, <2>2
<1>9. Checking(k, late, overdue, out, f)
  BY <1>7, <1>8 DEF Checking
<1> QED
  BY <1>9

(* And the whole loop keeps it.                                            *)
LEMMA CheckServicesKeeps ==
    ASSUME Plain, NEW k, Inv(k), NEW late, NEW overdue, NEW out, Outcome(out)
    PROVE  Inv(CheckServices(k, late, overdue, out))
<1>1. PICK f : f = CHOOSE g : Checking(k, late, overdue, out, g)
  OBVIOUS
<1>2. Checking(k, late, overdue, out, f)
  BY <1>1, CheckingExists
<1>3. \A s \in 0 .. NR_SYS_PROCS :
         f[s] = IF s = 0 THEN k ELSE CheckService(f[s - 1], s, late, overdue, out)
  BY <1>2 DEF Checking
<1>4. NR_SYS_PROCS \in Nat /\ NR_SYS_PROCS \in 0 .. NR_SYS_PROCS
  BY Constants
<1> DEFINE S == {x \in States : Inv(x)}
<1>5. f[0] \in S
  BY <1>3, <1>4 DEF Inv, Good
<1>6. ASSUME NEW s \in 1 .. NR_SYS_PROCS, f[s - 1] \in S PROVE f[s] \in S
  <2>1. s \in 0 .. NR_SYS_PROCS /\ s # 0 /\ s \in Slots
    BY <1>4 DEF Slots
  <2>2. PICK x \in States : x = f[s - 1] /\ Inv(x)
    BY <1>6
  <2>3. f[s] = CheckService(x, s, late, overdue, out)
    BY <1>3, <2>1, <2>2
  <2>4. Keeps(x, CheckService(x, s, late, overdue, out))
    BY <2>1, <2>2, CheckServiceKeeps
  <2> QED
    BY <2>3, <2>4 DEF Keeps, Inv, Good
<1>7. f[NR_SYS_PROCS] \in S
  <2> HIDE DEF S
  <2>1. \A i \in 0 .. NR_SYS_PROCS : f[i] \in S
    BY <1>4, <1>5, <1>6, StaysIn
  <2> QED
    BY <1>4, <2>1
<1>8. CheckServices(k, late, overdue, out) = f[NR_SYS_PROCS]
  BY <1>1 DEF CheckServices, Checking
<1> QED
  BY <1>7, <1>8

(* The alarm, with and without the end of an update.                       *)
LEMMA do_periodKeeps ==
    ASSUME Plain, Inv(K), NEW late \in SUBSET Active, NEW overdue \in SUBSET Active,
               NEW timed_out \in BOOLEAN,
           do_period(late, overdue, timed_out)
    PROVE  Inv(K')
<1>0. Good(K, {}) /\ K \in States
  BY DEF Inv, Good
<1>1. PICK k : k = IF timed_out THEN end_update(K, FALSE, FALSE) ELSE K
  OBVIOUS
<1>2. PICK out \in Outcomes : Become(CheckServices(k, late, overdue, out))
  BY <1>1 DEF do_period, Handle
<1>3. Inv(k)
  <2>1. CASE timed_out
    <3>1. PICK s \in Slots : s = K.upd /\ Main(K, s)
      <4>1. rupdate # NULL /\ Has(K, rupdate, "ACTIVE")
        BY <2>1 DEF do_period, Plain
      <4>2. rupdate = K.upd /\ K.upd \in Slots \cup {NULL}
        BY <1>0, StateFields DEF K
      <4> QED
        BY <4>1, <4>2 DEF Has, Main
    <3>2. Marks(K, K, s, K.rproc[s].flags, St(K, s))
      BY <1>0, SameSelf DEF Marks, Quietly, Others, SameBits
    <3>3. Keeps(K, end_update(K, FALSE, FALSE))
      <4>1. Used(K, s) /\ Settled(K, s) /\ St(K, s) # "blocked"
        <5>1. Used(K, s) /\ Settled(K, s)
          BY <3>1, PartnerOf
        <5> QED
          BY <3>1, <5>1 DEF Settled, Main
      <4> QED
        BY <3>1, <3>2, <4>1, CancelKeeps
    <3> QED
      BY <1>1, <2>1, <3>3 DEF Keeps
  <2>2. CASE ~timed_out
    BY <1>1, <2>2
  <2> QED
    BY <2>1, <2>2
<1>4. Outcome(out)
  BY OutcomeOf
<1>5. Inv(CheckServices(k, late, overdue, out))
  BY <1>3, <1>4, CheckServicesKeeps
<1> QED
  BY <1>2, <1>5, HandledIs

-----------------------------------------------------------------------------
(* The invariant.                                                          *)
RSInv == Inv(K) /\ shutting_down \in BOOLEAN

(* It holds before the first service is started.                           *)
LEMMA InitInv ==
    ASSUME Init
    PROVE  RSInv
<1>1. K.rproc = [s \in Slots |-> FreshSlot] /\ K.ptr = [e \in Endpoints |-> NULL]
      /\ K.upd = NULL /\ K.world = [e \in Endpoints |-> Process("free")]
      /\ K.ds = [l \in Labels |-> NULL] /\ K.waiting = [c \in Callers |-> FALSE]
      /\ K.stray = FALSE /\ K.crashed = FALSE
  BY DEF Init, K
<1>2. FreshSlot \in Slot /\ FreshSlot.flags = {}
  <2>1. 0 \in 0 .. MaxRestarts /\ 0 \in 0 .. MAX_BACKOFF
    BY Constants
  <2> QED
    BY <2>1 DEF FreshSlot, Slot
<1>3. Process("free") \in Processes /\ Process("free").st = "free"
  BY DEF Process, Processes
<1>4. K \in States
  BY <1>1, <1>2, <1>3 DEF K, States
<1>5. \A s \in Slots : K.rproc[s].flags = {}
  BY <1>1, <1>2
<1>6. Good(K, {})
  <2>1. Owned(K)
    BY <1>1, <1>3, <1>5 DEF Owned, Used
  <2>2. Shape(K, {}) /\ Published(K) /\ Updating(K, {})
    BY <1>1, <1>5 DEF Shape, Published, Updating, Used, Main
  <2>3. Owing(K)
    BY <1>1, <1>5 DEF Owing, Owes
  <2> QED
    BY <1>1, <1>4, <2>1, <2>2, <2>3 DEF Good
<1>7. \A s \in Slots : ~Used(K, s)
  BY <1>5 DEF Used
<1> QED
  BY <1>6, <1>7 DEF RSInv, Inv, Init

(* Every step keeps it.                                                    *)
LEMMA NextInv ==
    ASSUME Plain, RSInv, [Next]_vars
    PROVE  RSInv'
<1>0. Inv(K) /\ shutting_down \in BOOLEAN
  BY DEF RSInv
<1>1. Inv(K')
  <2>1. ASSUME NEW c \in Callers, do_shutdown(c) PROVE Inv(K')
    BY <1>0, <2>1, do_shutdownKeeps
  <2>2. ASSUME NEW c \in Callers, NEW l \in Labels, NEW opt \in Options, NEW noblock \in BOOLEAN,
               do_up(c, l, opt, noblock)
        PROVE  Inv(K')
    BY <1>0, <2>2, do_upKeeps
  <2>3. ASSUME NEW c \in Callers, NEW l \in Labels,
               do_down(c, l) \/ do_restart(c, l) \/ do_clone(c, l) \/ do_refresh(c, l)
        PROVE  Inv(K')
    BY <1>0, <2>3, do_downKeeps, do_restartKeeps, do_cloneNever, do_refreshKeeps
  <2>4. ASSUME NEW c \in Callers, NEW l \in Labels, NEW opt \in Options, do_edit(c, l, opt)
        PROVE  Inv(K')
    BY <1>0, <2>4, do_editKeeps
  <2>5. ASSUME NEW c \in Callers, NEW l \in Labels, NEW self \in BOOLEAN,
               NEW noblock \in BOOLEAN, do_update(c, l, self, noblock)
        PROVE  Inv(K')
    BY <1>0, <2>5, do_updateKeeps
  <2>6. ASSUME NEW e \in Endpoints, NEW ok \in BOOLEAN, do_init_ready(e, ok) \/ do_upd_ready(e, ok)
        PROVE  Inv(K')
    BY <1>0, <2>6, do_init_readyKeeps, do_upd_readyKeeps
  <2>7. ASSUME NEW e \in Endpoints,
               lu_cancelled(e) \/ heartbeat(e) \/ die(e) \/ sef_cb_signal_manager(e)
        PROVE  Inv(K')
    BY <1>0, <2>7, lu_cancelledKeeps, heartbeatKeeps, dieKeeps, sef_cb_signal_managerKeeps
  <2>8. ASSUME NEW late \in SUBSET Active, NEW overdue \in SUBSET Active,
               NEW timed_out \in BOOLEAN, do_period(late, overdue, timed_out)
        PROVE  Inv(K')
    BY <1>0, <2>8, do_periodKeeps
  <2>9. ASSUME UNCHANGED vars PROVE Inv(K')
    <3>1. K' = K
      BY <2>9 DEF vars, K
    <3> QED
      BY <1>0, <3>1
  <2>10. Next \/ UNCHANGED vars
    OBVIOUS
  <2> QED
    BY <2>1, <2>2, <2>3, <2>4, <2>5, <2>6, <2>7, <2>8, <2>9, <2>10 DEF Next
<1>2. shutting_down' \in BOOLEAN
  <2>1. ASSUME NEW c \in Callers, do_shutdown(c) PROVE shutting_down' \in BOOLEAN
    BY <1>0, <2>1 DEF do_shutdown, Ask
  <2>2. ASSUME NEW c \in Callers, NEW l \in Labels, NEW opt \in Options, NEW noblock \in BOOLEAN,
               do_up(c, l, opt, noblock)
        PROVE  shutting_down' \in BOOLEAN
    BY <1>0, <2>2 DEF do_up, Ask
  <2>3. ASSUME NEW c \in Callers, NEW l \in Labels,
               do_down(c, l) \/ do_restart(c, l) \/ do_clone(c, l) \/ do_refresh(c, l)
        PROVE  shutting_down' \in BOOLEAN
    BY <1>0, <2>3 DEF do_down, do_restart, do_clone, do_refresh, On, Ask
  <2>4. ASSUME NEW c \in Callers, NEW l \in Labels, NEW opt \in Options, do_edit(c, l, opt)
        PROVE  shutting_down' \in BOOLEAN
    BY <1>0, <2>4 DEF do_edit, On, Ask
  <2>5. ASSUME NEW c \in Callers, NEW l \in Labels, NEW self \in BOOLEAN,
               NEW noblock \in BOOLEAN, do_update(c, l, self, noblock)
        PROVE  shutting_down' \in BOOLEAN
    BY <1>0, <2>5 DEF do_update, On, Ask
  <2>6. ASSUME NEW e \in Endpoints,
               \/ \E ok \in BOOLEAN : do_init_ready(e, ok) \/ do_upd_ready(e, ok)
               \/ lu_cancelled(e) \/ heartbeat(e) \/ die(e) \/ sef_cb_signal_manager(e)
        PROVE  shutting_down' = shutting_down
    BY <2>6 DEF do_init_ready, do_upd_ready, lu_cancelled, heartbeat, die,
       sef_cb_signal_manager, Handle
  <2>7. ASSUME NEW late \in SUBSET Active, NEW overdue \in SUBSET Active,
               NEW timed_out \in BOOLEAN, do_period(late, overdue, timed_out)
        PROVE  shutting_down' = shutting_down
    BY <2>7 DEF do_period, Handle
  <2>8. UNCHANGED vars => shutting_down' = shutting_down
    BY DEF vars
  <2> QED
    BY <1>0, <2>1, <2>2, <2>3, <2>4, <2>5, <2>6, <2>7, <2>8 DEF Next
<1> QED
  BY <1>1, <1>2 DEF RSInv

(* The properties that follow from it.                                     *)
LEMMA InvTypeOK ==
    ASSUME RSInv
    PROVE  TypeOK
<1>1. K \in States
  BY DEF RSInv, Inv, Good
<1>2. /\ K.rproc = rproc /\ K.ptr = rproc_ptr /\ K.upd = rupdate /\ K.world = world
      /\ K.ds = ds /\ K.waiting = waiting /\ K.stray = stray /\ K.crashed = crashed
  BY DEF K
<1> QED
  BY <1>1, <1>2, StateFields DEF TypeOK, Slot, Processes, RSInv

LEMMA InvProcessesOwned ==
    ASSUME RSInv
    PROVE  ProcessesOwned
<1>1. K \in States /\ Owned(K)
  BY DEF RSInv, Inv, Good
<1>2. K.rproc = rproc /\ K.ptr = rproc_ptr /\ K.world = world
  BY DEF K
<1>3. \A s \in Slots : s \in InUse <=> Used(K, s)
  BY DEF InUse, Has, Used
<1>4. \A e \in Endpoints : world[e].st # "free" <=> rproc_ptr[e] # NULL
  BY <1>1, <1>2 DEF Owned
<1>5. ASSUME NEW s \in Slots PROVE s \in InUse <=> \E e \in Endpoints : rproc_ptr[e] = s
  <2>1. ASSUME Used(K, s) PROVE \E e \in Endpoints : rproc_ptr[e] = s
    BY <1>1, <1>2, <2>1 DEF Owned
  <2>2. ASSUME NEW e \in Endpoints, rproc_ptr[e] = s PROVE Used(K, s)
    <3>1. s # NULL
      BY Constants
    <3> QED
      BY <1>1, <1>2, <2>2, <3>1 DEF Owned
  <2> QED
    BY <1>3, <2>1, <2>2
<1>6. ASSUME NEW s \in InUse PROVE rproc_ptr[rproc[s].ep] = s /\ rproc[s].pid = rproc[s].ep
  BY <1>1, <1>2, <1>3 DEF Owned, InUse
<1> QED
  BY <1>4, <1>5, <1>6 DEF ProcessesOwned

LEMMA InvServicesOK ==
    ASSUME RSInv
    PROVE  ServicesOK
<1>1. K \in States /\ Owned(K) /\ Shape(K, {}) /\ Published(K)
  BY DEF RSInv, Inv, Good
<1>2. K.rproc = rproc /\ K.ds = ds
  BY DEF K
<1>3. /\ \A s \in Slots : s \in InUse <=> Used(K, s)
      /\ \A s \in Slots : s \in Active <=> Main(K, s)
      /\ InUse \subseteq Slots /\ Active \subseteq Slots
  BY DEF InUse, Active, Has, Used, Main
<1>4. ASSUME NEW s \in Active, NEW x \in Linked(s)
      PROVE  x \in InUse \ Active /\ rproc[x].label = rproc[s].label
  <2>1. s \in Slots \ {} /\ Main(K, s) /\ Used(K, s)
    BY <1>1, <1>3, MainUsed
  <2>2. x # NULL /\ x \in {rproc[s].prev, rproc[s].next, rproc[s].old, rproc[s].new}
    BY DEF Linked
  <2>3. ~Alone(K.rproc[s])
    BY <1>2, <2>2 DEF Alone, Linking
  <2>4. PICK y \in Slots : Couple(K, s, y)
    BY <1>1, <2>1, <2>3 DEF Shape
  <2>5. x = y
    BY <1>2, <2>2, <2>4 DEF Couple, Tied, Linking
  <2> QED
    BY <1>2, <1>3, <2>1, <2>4, <2>5 DEF Couple
<1>5. InstancesOK
  BY <1>4 DEF InstancesOK
<1>6. \A s, t \in Active : rproc[s].label = rproc[t].label => s = t
  BY <1>1, <1>2, <1>3 DEF Published
<1>7. ASSUME NEW l \in Labels
      PROVE  ds[l] # NULL <=> \E s \in Active : rproc[s].label = l /\ rproc[s].ep = ds[l]
  <2>1. ASSUME ds[l] # NULL
        PROVE  \E s \in Active : rproc[s].label = l /\ rproc[s].ep = ds[l]
    BY <1>1, <1>2, <1>3, <2>1 DEF Published
  <2>2. ASSUME NEW s \in Active, rproc[s].label = l, rproc[s].ep = ds[l] PROVE ds[l] # NULL
    <3>1. rproc[s].ep \in Endpoints
      BY <1>1, <1>2, <1>3, MainUsed DEF Owned
    <3> QED
      BY <2>2, <3>1, Constants
  <2> QED
    BY <2>1, <2>2
<1>8. PublishedOK
  BY <1>6, <1>7 DEF PublishedOK
<1> QED
  BY <1>5, <1>8 DEF ServicesOK

LEMMA InvUpdateSafe ==
    ASSUME RSInv
    PROVE  UpdateSafe
<1>1. Inv(K) /\ Good(K, {}) /\ K \in States /\ Owned(K)
  BY DEF RSInv, Inv, Good
<1>2. /\ K.rproc = rproc /\ K.ptr = rproc_ptr /\ K.upd = rupdate /\ K.world = world
      /\ K.crashed = crashed
  BY DEF K
<1>3. /\ \A s \in Slots : s \in InUse <=> Used(K, s)
      /\ \A s \in Slots : s \in Active <=> Main(K, s)
  BY DEF InUse, Active, Has, Used, Main
<1>4. ActiveRuns
  <2>1. ASSUME NEW e \in Endpoints, world[e].st \in {"init", "run", "prepare"}
        PROVE  rproc_ptr[e] \in Active
    <3>1. PICK s \in Slots : s = rproc_ptr[e] /\ Settled(K, s) /\ St(K, s) = world[e].st
      BY <1>1, <1>2, <2>1, SlotOf
    <3> QED
      BY <1>3, <2>1, <3>1 DEF Settled, Main
  <2>2. ASSUME NEW e \in Endpoints, world[e].st = "blocked"
        PROVE  rproc_ptr[e] = rupdate /\ rproc_ptr[e] \notin Active
    <3>1. PICK s \in Slots : s = rproc_ptr[e] /\ Settled(K, s) /\ St(K, s) = "blocked"
      BY <1>1, <1>2, <2>2, SlotOf
    <3> QED
      BY <1>2, <1>3, <3>1 DEF Settled, Main
  <2> QED
    BY <2>1, <2>2 DEF ActiveRuns
<1>5. UpdateOK
  <2>1. ASSUME NEW s \in Slots, Has(K, s, "UPDATING") PROVE rupdate # NULL
    <3>1. Used(K, s) /\ "UPDATING" \in K.rproc[s].flags
      BY <1>1, <2>1 DEF Owned, Has
    <3>2. Settled(K, s)
      BY <1>1, <3>1 DEF Inv
    <3>3. K.rproc[s].old # NULL \/ K.rproc[s].new # NULL
      BY <3>1, <3>2 DEF Settled
    <3>4. CASE K.rproc[s].new # NULL
      BY <1>2, <3>2, <3>4, Constants DEF Settled
    <3>5. CASE K.rproc[s].old # NULL
      <4>1. ~Alone(K.rproc[s]) /\ s \in Slots \ {}
        BY <3>5 DEF Alone, Linking
      <4>2. PICK o \in Slots : Couple(K, s, o)
        BY <1>1, <3>1, <4>1, Coupled
      <4>3. K.rproc[o].new = s /\ Used(K, o) /\ s # NULL
        BY <3>5, <4>2, Constants DEF Couple, Tied, Linking
      <4>4. K.upd = o
        BY <1>1, <4>3 DEF Inv, Settled
      <4> QED
        BY <1>2, <4>4, Constants
    <3> QED
      BY <3>3, <3>4, <3>5
  <2>2. ASSUME NEW s \in InUse, Has(K, s, "UPDATING"), rproc[s].new # NULL PROVE s = rupdate
    BY <1>1, <1>2, <1>3, <2>2 DEF Inv, Settled, InUse
  <2>3. ASSUME rupdate # NULL
        PROVE  rupdate \in InUse /\ Has(K, rupdate, "UPDATING") /\ rproc[rupdate].new # NULL
    <3>1. K.upd \in Slots /\ Used(K, K.upd) /\ K.rproc[K.upd].new # NULL
      BY <1>1, <1>2, <2>3 DEF Good, Updating
    <3>2. Settled(K, K.upd)
      BY <1>1, <3>1 DEF Inv
    <3>3. "UPDATING" \in K.rproc[K.upd].flags
      BY <3>1, <3>2 DEF Settled
    <3> QED
      BY <1>2, <1>3, <3>1, <3>3 DEF Has
  <2> DEFINE Old == {s \in InUse : Has(K, s, "UPDATING") /\ rproc[s].new # NULL}
  <2>4. rupdate = NULL => \A s \in Slots : ~Has(K, s, "UPDATING")
    BY <2>1
  <2>5. rupdate # NULL => Old = {rupdate}
    BY <2>2, <2>3
  <2> QED
    BY <2>4, <2>5 DEF UpdateOK
<1>6. ~crashed
  BY <1>1, <1>2 DEF Good
<1> QED
  BY <1>4, <1>5, <1>6 DEF UpdateSafe

LEMMA InvAnswerPending ==
    ASSUME RSInv
    PROVE  AnswerPending
<1>1. Owing(K)
  BY DEF RSInv, Inv, Good
<1>2. K.rproc = rproc /\ K.waiting = waiting /\ K.stray = stray
  BY DEF K
<1>3. ASSUME NEW c \in Callers
      PROVE  Cardinality({s \in Slots : Has(K, s, "LATEREPLY") /\ rproc[s].caller = c})
               = IF waiting[c] THEN 1 ELSE 0
  <2>1. PICK S : S = {s \in Slots : Has(K, s, "LATEREPLY") /\ rproc[s].caller = c}
    OBVIOUS
  <2>2. \A s \in S : s \in Slots /\ Owes(K, s) /\ K.rproc[s].caller = c
    BY <1>2, <2>1 DEF Has, Owes
  <2>3. CASE waiting[c]
    <3>1. PICK s \in Slots : Owes(K, s) /\ K.rproc[s].caller = c
      BY <1>1, <1>2, <2>3 DEF Owing
    <3>2. s \in S
      BY <1>2, <2>1, <3>1 DEF Has, Owes
    <3>3. \A t \in S : t = s
      BY <1>1, <2>2, <3>1 DEF Owing
    <3>4. S = {s}
      BY <3>2, <3>3
    <3> QED
      BY <2>1, <2>3, <3>4, FS_Singleton
  <2>4. CASE ~waiting[c]
    <3>1. S = {}
      BY <1>1, <1>2, <2>2, <2>4 DEF Owing
    <3> QED
      BY <2>1, <2>4, <3>1, FS_EmptySet
  <2> QED
    BY <2>3, <2>4
<1> QED
  BY <1>1, <1>2, <1>3 DEF AnswerPending, Owing

-----------------------------------------------------------------------------
(* In every state of every behaviour of RS, whatever services are asked    *)
(* for, die or hang, the slots, the processes and DS fit together as Good  *)
(* says, and each slot is marked for what it is doing (Settled).           *)
THEOREM RSSound == ASSUME Plain PROVE Spec => []RSInv
BY InitInv, NextInv, PTL DEF Spec

(* Every variable keeps its type: the backoff computed by terminate_service*)
(* and counted down by do_period stays within MAX_BACKOFF.                 *)
THEOREM TypesSafe == ASSUME Plain PROVE Spec => []TypeOK
BY RSSound, InvTypeOK, PTL

(* rproc, rproc_ptr and PM's processes agree: update_service exchanges all *)
(* that must be exchanged, and free_slot clears the right endpoint, as     *)
(* long as no fork fails and no replica is left behind (Plain).            *)
THEOREM ProcessesSafe == ASSUME Plain PROVE Spec => []ProcessesOwned
BY RSSound, InvProcessesOwned, PTL

(* Each service has one active instance, the one DS knows, and             *)
(* get_service_instances finds its own slots only.                         *)
THEOREM ServicesSafe == ASSUME Plain PROVE Spec => []ServicesOK
BY RSSound, InvServicesOK, PTL

(* Through do_update, do_upd_ready, rollback, timeout and death rupdate    *)
(* names an update that goes on, the active instance alone runs, and RS    *)
(* follows no null pointer.                                                *)
THEOREM UpdatesSafe == ASSUME Plain PROVE Spec => []UpdateSafe
BY RSSound, InvUpdateSafe, PTL

(* A caller that waits is owed one answer, by one slot, and late_reply     *)
(* answers nobody twice.                                                   *)
THEOREM AnswersSafe == ASSUME Plain PROVE Spec => []AnswerPending
BY RSSound, InvAnswerPending, PTL
=============================================================================
