--------------------------- MODULE SlugmemProofs ---------------------------
(***************************************************************************)
(* TLAPS proofs about slugmem.  The hash table, for every initial size of  *)
(* at least 5, every set of addresses and every largest table: entries are *)
(* always found again, the table never fills up, and copying never grows   *)
(* the table again.  The client's blocks: HeapTracked and LeakReported for *)
(* every use of malloc, and, when malloc returns no address twice, that no *)
(* valid free is refused and that slugmem implements TrackedHeap.          *)
(***************************************************************************)
EXTENDS Slugmem, FiniteSetTheorems, WellFoundedInduction, TLAPS

(* Every entry lies on the probe chain of its address, with no NULL before *)
(* it on the chain.                                                        *)
Chained(h, p) ==
    \E d \in 0 .. h.size - 1 :
        /\ Pos(h, h.table[p].loc, d) = p
        /\ \A e \in 0 .. d - 1 : Pos(h, h.table[p].loc, e) \in DOMAIN h.table

EntriesOK(t, size) ==
    /\ DOMAIN t \subseteq 0 .. size - 1
    /\ IsFiniteSet(DOMAIN t)
    /\ \A p \in DOMAIN t : t[p] \in Entry

Fields == {"state", "size", "load", "table"}

(* A table in use, at any moment.  The load counts at least the entries.   *)
Sound(h) ==
    /\ DOMAIN h = Fields /\ h.state = "LIVE"
    /\ h.size \in Nat /\ h.size >= 5 /\ h.load \in Nat
    /\ EntriesOK(h.table, h.size)
    /\ Cardinality(DOMAIN h.table) <= h.load
    /\ \A p \in DOMAIN h.table : Chained(h, p)

FrameOK(f) ==
    /\ DOMAIN f = {"a", "old", "oldsize"}
    /\ f.a \in Entry /\ f.oldsize \in Nat
    /\ EntriesOK(f.old, f.oldsize)

(* The load counts the entries still to be copied a second time, and is    *)
(* small for a table of the square of the old size all the same.           *)
CopyBound(h, f) ==
    /\ f.oldsize >= 5
    /\ h.size = f.oldsize * f.oldsize
    /\ h.size <= MaxTable
    /\ 2 * (h.load + Cardinality(DOMAIN f.old)) <= f.oldsize + 4

NoTable == ht \in {[state |-> st, size |-> 0, load |-> 0, table |-> NoEntries] :
                     st \in {"NULL", "FREED"}}
           /\ frames = <<>>
Between == /\ Sound(ht) /\ frames = <<>>
           /\ ht.size <= MaxTable /\ 4 * ht.load <= ht.size + 4
Copying == /\ Sound(ht) /\ phase = "running"
           /\ \E f : frames = <<f>> /\ FrameOK(f) /\ CopyBound(ht, f)
OutOfMemory == /\ Sound(ht) /\ phase = "crashed" /\ DOMAIN ht.table = {}
               /\ \E f : frames = <<f>> /\ FrameOK(f)

GlobalsOK ==
    /\ heap \subseteq Addr
    /\ phase \in {"running"} \cup Handlers \cup Ended
    /\ EXIT_STATUS \in {0, 1}
    /\ stderr \subseteq Errors
    /\ report \in Reports

(* The inductive invariant.                                                *)
TableInv == GlobalsOK /\ (NoTable \/ Between \/ Copying \/ OutOfMemory)

----------------------------------------------------------------------------
(* The least element of a set of natural numbers.                          *)
LEMMA MinNat ==
    ASSUME NEW S \in SUBSET Nat, S # {}
    PROVE  Min(S) \in S /\ \A y \in S : Min(S) <= y
<1>1. \E x \in S : \A y \in S : x <= y
  <2> DEFINE Less == {ss \in Nat \X Nat : ss[1] < ss[2]}
  <2>1. IsWellFoundedOn(Less, Nat)
    BY NatLessThanWellFounded, Zenon DEF OpToRel
  <2> HIDE DEF Less
  <2>2. PICK x \in S : \A y \in S : ~ (<<y, x>> \in Less)
    BY <2>1, WFMin
  <2>3. ASSUME NEW y \in S PROVE x <= y
    <3>1. ~ (<<y, x>> \in Nat \X Nat /\ y < x)
      BY <2>2, Zenon DEF Less
    <3> QED
      BY <3>1
  <2> QED
    BY <2>3
<1> QED
  BY <1>1 DEF Min

LEMMA MaxNat ==
    ASSUME NEW n \in Nat, NEW S \in SUBSET (0 .. n), S # {}
    PROVE  Max(S) \in S
<1> DEFINE T == {n - x : x \in S}
<1>1. T \in SUBSET Nat /\ T # {}
  <2>1. \A x \in S : n - x \in Nat
    OBVIOUS
  <2>2. T \subseteq Nat
    BY <2>1
  <2>3. PICK x \in S : TRUE
    OBVIOUS
  <2>4. n - x \in T
    BY <2>3
  <2> QED
    BY <2>2, <2>4
<1>2. PICK m \in T : \A y \in T : m <= y
  BY <1>1, MinNat
<1>3. PICK x \in S : m = n - x
  OBVIOUS
<1>4. \A y \in S : n - x <= n - y
  BY <1>2, <1>3
<1>5. \A y \in S : x >= y
  BY <1>4
<1> QED
  BY <1>5 DEF Max

LEMMA PosInRange ==
    ASSUME NEW h, h.size \in Nat, h.size >= 5, NEW loc \in Nat, NEW d \in Nat
    PROVE  Pos(h, loc, d) \in 0 .. h.size - 1
<1> DEFINE n == h.size
<1>1. n \in Nat /\ n > 0
  OBVIOUS
<1> HIDE DEF n
<1>2. (loc + d) % n \in 0 .. n - 1
  BY <1>1
<1> QED
  BY <1>2 DEF Pos, n

(* Division with remainder, and that the remainder is unique.              *)
LEMMA DivMod ==
    ASSUME NEW n \in Nat, n > 0, NEW x \in Nat
    PROVE  x % n \in 0 .. n - 1 /\ x \div n \in Int /\ x = (n * (x \div n)) + (x % n)
OBVIOUS

LEMMA ModUnique ==
    ASSUME NEW n \in Nat, n > 0, NEW k \in Nat, NEW q \in 0 .. n - 1
    PROVE  (n * k + q) % n = q
<1> DEFINE x == n * k + q
           d == x \div n
           r == x % n
<1>1. x \in Nat
  OBVIOUS
<1>2. r \in 0 .. n - 1 /\ d \in Int /\ x = n * d + r
  BY <1>1, DivMod
<1>3. n * k + q = n * d + r
  BY <1>2
<1> HIDE DEF x, d, r
<1>4. n * (k - d) = r - q
  BY <1>2, <1>3
<1>5. k - d \in Int
  BY <1>2
<1> DEFINE e == k - d
<1> HIDE DEF e
<1>6. e \in Int /\ n * e = r - q
  BY <1>4, <1>5 DEF e
<1>7. ~ (e >= 1)
  <2>1. e >= 1 => n * e >= n
    BY <1>6
  <2> QED
    BY <1>6, <1>2, <2>1
<1>8. ~ (e <= -1)
  <2>1. e <= -1 => n * e <= -n
    BY <1>6
  <2> QED
    BY <1>6, <1>2, <2>1
<1>9. e = 0
  BY <1>6, <1>7, <1>8
<1>10. r = q
  BY <1>2, <1>6, <1>9
<1> QED
  BY <1>10 DEF r, x

(* The chain of an address goes through every position of the table.       *)
LEMMA ChainCovers ==
    ASSUME NEW h, h.size \in Nat, h.size >= 5, NEW loc \in Nat,
           NEW q \in 0 .. h.size - 1
    PROVE  \E d \in 0 .. h.size - 1 : Pos(h, loc, d) = q
<1> DEFINE n == h.size
           k == loc \div n
           r == loc % n
<1>1. n \in Nat /\ n > 0 /\ q \in 0 .. n - 1
  OBVIOUS
<1>2. r \in 0 .. n - 1 /\ k \in Int /\ loc = (n * k) + r
  BY <1>1, DivMod
<1>3. k \in Nat
  <2> HIDE DEF n, k, r
  <2>1. k <= -1 => n * k <= -n
    BY <1>1, <1>2
  <2> QED
    BY <1>1, <1>2, <2>1
<1> HIDE DEF n, k, r
<1>4. CASE q >= r
  <2>1. q - r \in 0 .. n - 1 /\ loc + (q - r) = (n * k) + q
    BY <1>1, <1>2, <1>4
  <2>2. (loc + (q - r)) % n = q
    BY <1>1, <1>3, <2>1, ModUnique
  <2> QED
    BY <2>1, <2>2 DEF Pos, n
<1>5. CASE q < r
  <2>1. k + 1 \in Nat /\ n * (k + 1) = (n * k) + n
    BY <1>1, <1>3
  <2>2. (n + q) - r \in 0 .. n - 1 /\ loc + ((n + q) - r) = (n * (k + 1)) + q
    BY <1>1, <1>2, <1>5, <2>1
  <2>3. (loc + ((n + q) - r)) % n = q
    BY <1>1, <2>1, <2>2, ModUnique
  <2> QED
    BY <2>2, <2>3 DEF Pos, n
<1> QED
  BY <1>1, <1>2, <1>4, <1>5

(* In a table that is not full, every chain meets a NULL.                  *)
LEMMA ProbeMeetsNull ==
    ASSUME NEW h, Sound(h), Cardinality(DOMAIN h.table) < h.size, NEW loc \in Nat
    PROVE  FreeSteps(h, loc) # {}
<1>1. h.size \in Nat /\ h.size >= 5 /\ DOMAIN h.table \subseteq 0 .. h.size - 1
  BY DEF Sound, EntriesOK
<1>2. Cardinality(0 .. h.size - 1) = h.size
  <2>1. Cardinality(0 .. h.size - 1) = (h.size - 1) - 0 + 1
    BY <1>1, FS_Interval
  <2> QED
    BY <1>1, <2>1
<1>3. PICK q \in 0 .. h.size - 1 : q \notin DOMAIN h.table
  <2>1. DOMAIN h.table # 0 .. h.size - 1
    BY <1>1, <1>2
  <2> QED
    BY <1>1, <2>1
<1>4. PICK d \in 0 .. h.size - 1 : Pos(h, loc, d) = q
  BY <1>1, ChainCovers
<1> QED
  BY <1>3, <1>4 DEF FreeSteps

LEMMA AddrNat == \A addr \in Addr \cup {NULL} : addr \in Nat
<1>1. Addr \subseteq Nat /\ NULL \in Nat
  BY AddrAssumption DEF NULL
<1> QED
  BY <1>1

LEMMA EntryLoc ==
    ASSUME NEW a \in Entry
    PROVE  a.loc \in Nat
BY AddrNat DEF Entry

(* The fields of a table after an assignment to some of them.              *)
LEMMA TableFields ==
    ASSUME NEW h, DOMAIN h = Fields, NEW t, NEW x
    PROVE  /\ LET g == [h EXCEPT !.table = t, !.load = x]
              IN  /\ DOMAIN g = Fields /\ g.state = h.state
                  /\ g.size = h.size /\ g.load = x /\ g.table = t
           /\ LET g == [h EXCEPT !.size = x, !.table = t]
              IN  /\ DOMAIN g = Fields /\ g.state = h.state
                  /\ g.size = x /\ g.load = h.load /\ g.table = t
           /\ LET g == [h EXCEPT !.table = t]
              IN  /\ DOMAIN g = Fields /\ g.state = h.state
                  /\ g.size = h.size /\ g.load = h.load /\ g.table = t
BY DEF Fields

(* insert_into_hashtable's second half puts the entry on its chain and     *)
(* breaks no other chain.                                                  *)
LEMMA StoreSound ==
    ASSUME NEW h, Sound(h), NEW a \in Entry, FreeSteps(h, a.loc) # {}
    PROVE  LET g == StoreAt(h, a, FreePos(h, a.loc))
           IN  Sound(g) /\ g.size = h.size /\ g.load = h.load + 1
<1> DEFINE p == FreePos(h, a.loc)
           t == [q \in DOMAIN h.table \cup {p} |-> IF q = p THEN a ELSE h.table[q]]
           g == StoreAt(h, a, p)
           m == Min(FreeSteps(h, a.loc))
<1>1. a.loc \in Nat
  BY EntryLoc
<1>2. FreeSteps(h, a.loc) \in SUBSET Nat
  BY DEF FreeSteps
<1>3. m \in FreeSteps(h, a.loc) /\ \A y \in FreeSteps(h, a.loc) : m <= y
  BY <1>2, MinNat
<1>4. m \in 0 .. h.size - 1 /\ p = Pos(h, a.loc, m) /\ p \notin DOMAIN h.table
  BY <1>3 DEF FreeSteps, FreePos
<1>5. p \in 0 .. h.size - 1
  BY <1>1, <1>4, PosInRange DEF Sound
<1>6. \A e \in 0 .. m - 1 : Pos(h, a.loc, e) \in DOMAIN h.table
  <2> HIDE DEF m
  <2> SUFFICES ASSUME NEW e \in 0 .. m - 1, Pos(h, a.loc, e) \notin DOMAIN h.table
               PROVE  FALSE
    OBVIOUS
  <2>1. e \in 0 .. h.size - 1 /\ ~ (m <= e)
    BY <1>4 DEF Sound
  <2>2. e \in FreeSteps(h, a.loc)
    BY <2>1 DEF FreeSteps
  <2> QED
    BY <1>3, <2>1, <2>2
<1> HIDE DEF p, m
<1>7. g = [h EXCEPT !.table = t, !.load = h.load + 1]
  BY DEF StoreAt
<1>8. /\ DOMAIN g = Fields /\ g.state = "LIVE" /\ g.size = h.size
      /\ g.load = h.load + 1 /\ g.table = t
  <2> HIDE DEF g, t
  <2> QED
    BY <1>7, TableFields DEF Sound
<1> HIDE DEF g
<1>9. DOMAIN t = DOMAIN h.table \cup {p}
  OBVIOUS
<1>10. t[p] = a /\ \A q \in DOMAIN h.table : t[q] = h.table[q]
  BY <1>4
<1> HIDE DEF t
<1>11. IsFiniteSet(DOMAIN t) /\ Cardinality(DOMAIN t) = Cardinality(DOMAIN h.table) + 1
  BY <1>4, <1>9, FS_AddElement DEF Sound, EntriesOK
<1>12. EntriesOK(t, h.size)
  BY <1>5, <1>9, <1>10, <1>11 DEF Sound, EntriesOK
<1>13. \A loc, d : Pos(g, loc, d) = Pos(h, loc, d)
  BY <1>8 DEF Pos
<1>14. Chained(g, p)
  BY <1>4, <1>6, <1>8, <1>9, <1>10, <1>13 DEF Chained
<1>15. ASSUME NEW q \in DOMAIN h.table PROVE Chained(g, q)
  <2>1. PICK d \in 0 .. h.size - 1 :
          /\ Pos(h, h.table[q].loc, d) = q
          /\ \A e \in 0 .. d - 1 : Pos(h, h.table[q].loc, e) \in DOMAIN h.table
    BY DEF Sound, Chained
  <2> QED
    BY <2>1, <1>8, <1>9, <1>10, <1>13 DEF Chained
<1>16. Cardinality(DOMAIN h.table) \in Nat
  BY FS_CardinalityType DEF Sound, EntriesOK
<1>17. Sound(g)
  BY <1>8, <1>9, <1>11, <1>12, <1>14, <1>15, <1>16 DEF Sound
<1> QED
  BY <1>8, <1>17 DEF g, p
(* The square of a size calloc can provide does not overflow.              *)
LEMMA SquareFits ==
    ASSUME NEW h, NEW n \in Nat, h.size = n, n >= 5, n <= MaxTable
    PROVE  GrownSize(h) = n * n /\ n * n \in Nat /\ n * n >= 5 * n
<1>1. n * n \in Nat /\ n * n >= 5 * n
  OBVIOUS
<1>2. MaxTable \in Nat /\ SIZE_T \in Nat /\ MaxTable * MaxTable < SIZE_T
  BY SizeAssumption
<1>3. n * n <= MaxTable * MaxTable
  BY <1>2
<1> DEFINE sq == n * n
<1>4. sq \in Nat /\ sq < SIZE_T
  BY <1>1, <1>2, <1>3
<1> HIDE DEF sq
<1>5. sq % SIZE_T = sq
  BY <1>2, <1>4
<1> QED
  BY <1>1, <1>5 DEF GrownSize, sq

LEMMA NoEntriesOK ==
    ASSUME NEW size \in Nat
    PROVE  /\ DOMAIN NoEntries = {} /\ EntriesOK(NoEntries, size)
           /\ Cardinality(DOMAIN NoEntries) = 0
<1>1. DOMAIN NoEntries = {}
  BY DEF NoEntries
<1> QED
  BY <1>1, FS_EmptySet DEF EntriesOK

LEMMA EmptySound ==
    ASSUME NEW h, DOMAIN h = Fields, h.state = "LIVE", h.size \in Nat, h.size >= 5,
           h.load \in Nat, h.table = NoEntries
    PROVE  Sound(h)
BY NoEntriesOK DEF Sound

(* The first half of insert_into_hashtable, called by slug_malloc on a     *)
(* table between two calls.                                                *)
Roomy(h) == Sound(h) /\ h.size <= MaxTable /\ 4 * h.load <= h.size + 4

LEMMA GrowStep ==
    ASSUME NEW h, Roomy(h), NEW a \in Entry, phase = "running",
           double_hashtable(h, a, <<>>)
    PROVE  (Copying \/ OutOfMemory)' /\ phase' \in {"running", "crashed"}
<1> DEFINE n == h.size
           f == [a |-> a, old |-> h.table, oldsize |-> n]
<1>1. n \in Nat /\ n >= 5 /\ n <= MaxTable /\ h.load \in Nat
  BY DEF Roomy, Sound
<1>2. GrownSize(h) = n * n /\ n * n \in Nat /\ n * n >= 5 * n
  BY <1>1, SquareFits
<1>3. /\ DOMAIN ht' = Fields /\ ht'.state = "LIVE" /\ ht'.size = n * n
      /\ ht'.load = h.load /\ ht'.table = NoEntries
  BY <1>2, TableFields DEF double_hashtable, Roomy, Sound
<1>4. Sound(ht')
  BY <1>1, <1>2, <1>3, EmptySound
<1>5. frames' = <<f>>
  BY DEF double_hashtable
<1>6. FrameOK(f)
  BY <1>1 DEF FrameOK, Roomy, Sound
<1>7. f.oldsize = n /\ f.old = h.table
  OBVIOUS
<1> HIDE DEF f
<1>8. CASE n * n <= MaxTable
  <2>1. phase' = "running"
    BY <1>2, <1>8 DEF double_hashtable
  <2>2. Cardinality(DOMAIN h.table) \in Nat /\ Cardinality(DOMAIN h.table) <= h.load
    BY FS_CardinalityType DEF Roomy, Sound, EntriesOK
  <2>3. 2 * (h.load + Cardinality(DOMAIN f.old)) <= n + 4
    BY <1>1, <1>7, <2>2 DEF Roomy
  <2>4. CopyBound(ht', f)
    BY <1>1, <1>3, <1>7, <1>8, <2>3 DEF CopyBound
  <2> QED
    BY <1>4, <1>5, <1>6, <2>1, <2>4 DEF Copying
<1>9. CASE ~ (n * n <= MaxTable)
  <2>1. phase' = "crashed"
    BY <1>2, <1>9 DEF double_hashtable
  <2>2. DOMAIN ht'.table = {}
    BY <1>3 DEF NoEntries
  <2> QED
    BY <1>4, <1>5, <1>6, <2>1, <2>2 DEF OutOfMemory
<1> QED
  BY <1>8, <1>9

LEMMA InsertStep ==
    ASSUME NEW h, Roomy(h), NEW a \in Entry, phase = "running",
           insert_into_hashtable(h, a, <<>>)
    PROVE  (Between \/ Copying \/ OutOfMemory)' /\ phase' \in {"running", "crashed"}
<1>1. CASE MustGrow(h)
  BY <1>1, GrowStep DEF insert_into_hashtable
<1>2. CASE ~MustGrow(h)
  <2>1. Store(h, a, <<>>)
    BY <1>2 DEF insert_into_hashtable
  <2>2. Sound(ht') /\ ht'.size = h.size /\ ht'.load = h.load + 1
    BY <2>1, StoreSound DEF Store, Roomy
  <2>3. 4 * ht'.load <= ht'.size + 4
    BY <1>2, <2>2 DEF MustGrow, Roomy, Sound
  <2>4. frames' = <<>> /\ phase' = "running"
    BY <2>1 DEF Store
  <2> QED
    BY <2>2, <2>3, <2>4 DEF Between, Roomy
<1> QED
  BY <1>1, <1>2
----------------------------------------------------------------------------
(* Every action preserves the invariant.                                   *)

LEMMA ReadyTable ==
    ASSUME TableInv, Ready
    PROVE  NoTable \/ Between
BY DEF TableInv, Ready, Copying, OutOfMemory

LEMMA BetweenRoomy == Between <=> Roomy(ht) /\ frames = <<>>
BY DEF Between, Roomy

LEMMA InitRoomy == Roomy(init_hashtable)
<1> DEFINE h == init_hashtable
<1>1. /\ DOMAIN h = Fields /\ h.state = "LIVE" /\ h.size = InitSize
      /\ h.load = 0 /\ h.table = NoEntries
  BY DEF init_hashtable, Fields
<1> HIDE DEF h
<1>2. InitSize \in Nat /\ InitSize >= 5 /\ InitSize <= MaxTable
  BY SizeAssumption
<1>3. Sound(h)
  BY <1>1, <1>2, EmptySound
<1> QED
  BY <1>1, <1>2, <1>3 DEF Roomy, h

LEMMA TableStates ==
    ASSUME TableInv
    PROVE  /\ ht.state \in {"NULL", "LIVE", "FREED"}
           /\ ht.state = "LIVE" <=> Sound(ht)
           /\ ht.state # "LIVE" <=> NoTable
BY DEF TableInv, NoTable, Between, Copying, OutOfMemory, Sound

LEMMA DanglingStep ==
    ASSUME TableInv, Dangling
    PROVE  TableInv'
<1>1. NoTable
  BY TableStates DEF Dangling
<1>2. NoTable'
  BY <1>1 DEF NoTable, Dangling
<1>3. GlobalsOK'
  BY DEF TableInv, GlobalsOK, Dangling, Ended
<1> QED
  BY <1>2, <1>3 DEF TableInv

LEMMA FailStep ==
    ASSUME TableInv, Ready, NEW h, NEW kind, NEW addr \in Addr \cup {NULL},
           kind \in {"over 128MB", "not allocated", "already freed"},
           h = ht \/ Roomy(h), Fail(h, kind, addr)
    PROVE  TableInv'
<1>1. frames' = <<>> /\ ht' = h
  BY DEF Fail, Ready
<1>2. (NoTable \/ Between)'
  BY <1>1, ReadyTable DEF NoTable, Between, Roomy
<1>3. phase' \in {"done", "leak_detection"}
  BY DEF Fail, exit
<1>4. addr \in Nat
  BY AddrNat
<1>5. [kind |-> kind, addr |-> addr] \in Errors
  BY <1>4 DEF Errors
<1>6. GlobalsOK'
  BY <1>3, <1>5 DEF TableInv, GlobalsOK, Fail, Ended, Handlers
<1> QED
  BY <1>2, <1>6 DEF TableInv

LEMMA MallocStep ==
    ASSUME TableInv, slug_malloc
    PROVE  TableInv'
<1>1. CASE Dangling
  BY <1>1, DanglingStep
<1>2. CASE ~Dangling
  <2>1. /\ Ready /\ ht.state # "FREED"
        /\ UNCHANGED <<EXIT_STATUS, stderr, report>>
    BY <1>2 DEF slug_malloc
  <2>2. PICK loc \in malloc(TableForMalloc) :
          /\ heap' = heap \cup ({loc} \ {NULL})
          /\ insert_into_hashtable(TableForMalloc, [loc |-> loc, active |-> TRUE], <<>>)
    BY <1>2 DEF slug_malloc
  <2>3. loc \in Addr \cup {NULL}
    BY DEF malloc
  <2>4. [loc |-> loc, active |-> TRUE] \in Entry
    BY <2>3 DEF Entry
  <2>5. Roomy(TableForMalloc)
    BY <2>1, ReadyTable, TableStates, BetweenRoomy, InitRoomy DEF TableForMalloc
  <2>6. (Between \/ Copying \/ OutOfMemory)' /\ phase' \in {"running", "crashed"}
    BY <2>1, <2>2, <2>4, <2>5, InsertStep DEF Ready
  <2>7. GlobalsOK'
    BY <2>1, <2>2, <2>3, <2>6 DEF TableInv, GlobalsOK, Ended
  <2> QED
    BY <2>6, <2>7 DEF TableInv
<1> QED
  BY <1>1, <1>2

LEMMA HugeStep ==
    ASSUME TableInv, slug_malloc_huge
    PROVE  TableInv'
<1>1. CASE Dangling
  BY <1>1, DanglingStep
<1>2. CASE ht.state # "FREED" /\ Fail(TableForMalloc, "over 128MB", NULL)
  <2>1. TableForMalloc = ht \/ Roomy(TableForMalloc)
    BY InitRoomy DEF TableForMalloc
  <2> QED
    BY <1>2, <2>1, FailStep DEF slug_malloc_huge
<1> QED
  BY <1>1, <1>2 DEF slug_malloc_huge

(* Clearing the active flag moves no entry.                                *)
LEMMA MarkFreedSound ==
    ASSUME NEW h, Roomy(h), NEW p \in DOMAIN h.table
    PROVE  Roomy(MarkFreed(h, p))
<1> DEFINE t == [h.table EXCEPT ![p].active = FALSE]
           g == MarkFreed(h, p)
<1>1. g = [h EXCEPT !.table = t]
  BY DEF MarkFreed, Roomy, Sound, Fields
<1>2. /\ DOMAIN g = Fields /\ g.state = "LIVE" /\ g.size = h.size
      /\ g.load = h.load /\ g.table = t
  <2> HIDE DEF g, t
  <2> QED
    BY <1>1, TableFields DEF Roomy, Sound
<1>3. DOMAIN t = DOMAIN h.table
  OBVIOUS
<1>4. \A q \in DOMAIN h.table : t[q] \in Entry /\ t[q].loc = h.table[q].loc
  BY DEF Roomy, Sound, EntriesOK, Entry
<1> HIDE DEF t, g
<1>5. EntriesOK(t, h.size)
  BY <1>3, <1>4 DEF EntriesOK, Roomy, Sound
<1>6. \A loc, d : Pos(g, loc, d) = Pos(h, loc, d)
  BY <1>2 DEF Pos
<1>7. ASSUME NEW q \in DOMAIN h.table PROVE Chained(g, q)
  <2>1. PICK d \in 0 .. h.size - 1 :
          /\ Pos(h, h.table[q].loc, d) = q
          /\ \A e \in 0 .. d - 1 : Pos(h, h.table[q].loc, e) \in DOMAIN h.table
    BY DEF Roomy, Sound, Chained
  <2> QED
    BY <2>1, <1>2, <1>3, <1>4, <1>6 DEF Chained
<1>8. Sound(g)
  BY <1>2, <1>3, <1>5, <1>7 DEF Sound, Roomy
<1> QED
  BY <1>2, <1>8 DEF Roomy, g

LEMMA FreeStep ==
    ASSUME TableInv, NEW addr \in Addr \cup {NULL}, slug_free(addr)
    PROVE  TableInv'
<1>1. CASE Dangling
  BY <1>1, DanglingStep
<1>2. CASE \E kind \in {"not allocated", "already freed"} : Fail(ht, kind, addr)
  BY <1>2, FailStep DEF slug_free
<1>3. ASSUME NEW p \in is_in_hashtable(ht, addr), ht.state = "LIVE",
             ht' = MarkFreed(ht, p), heap' = heap \ {addr},
             UNCHANGED <<frames, phase, EXIT_STATUS, stderr, report>>
      PROVE  TableInv'
  <2>1. Roomy(ht) /\ frames = <<>>
    BY <1>3, ReadyTable, TableStates, BetweenRoomy DEF slug_free
  <2>2. p \in DOMAIN ht.table
    BY DEF is_in_hashtable
  <2>3. Roomy(ht')
    BY <1>3, <2>1, <2>2, MarkFreedSound
  <2>4. Between'
    BY <1>3, <2>1, <2>3 DEF Between, Roomy
  <2>5. GlobalsOK'
    BY <1>3 DEF TableInv, GlobalsOK
  <2> QED
    BY <2>4, <2>5 DEF TableInv
<1> QED
  BY <1>1, <1>2, <1>3 DEF slug_free
LEMMA TopBelow ==
    ASSUME NEW f, frames = <<f>>
    PROVE  Top = f /\ Below = <<>>
BY DEF Top, Below

(* In the copying loop, the load is far below the limit of the new table.  *)
LEMMA CopyNeverGrows ==
    ASSUME Sound(ht), NEW f, FrameOK(f), CopyBound(ht, f), DOMAIN f.old # {}
    PROVE  ~MustGrow(ht)
<1> DEFINE n == f.oldsize
           sq == n * n
           left == Cardinality(DOMAIN f.old)
<1>1. /\ n \in Nat /\ n >= 5 /\ ht.size = sq /\ ht.load \in Nat
      /\ 2 * (ht.load + left) <= n + 4
  BY DEF FrameOK, CopyBound, Sound
<1>2. sq \in Nat /\ sq >= 5 * n
  BY <1>1
<1>3. left \in Nat /\ left >= 1
  BY FS_CardinalityType, FS_EmptySet DEF FrameOK, EntriesOK
<1> HIDE DEF sq, left, n
<1> QED
  BY <1>1, <1>2, <1>3 DEF MustGrow

(* A turn of the copying loop does not grow the table again.               *)
LEMMA CopyEntryStep ==
    ASSUME TableInv, CopyEntry
    PROVE  TableInv'
<1>1. Copying
  BY DEF CopyEntry, TableInv, NoTable, Between, OutOfMemory
<1>2. PICK f : frames = <<f>> /\ FrameOK(f) /\ CopyBound(ht, f)
  BY <1>1 DEF Copying
<1>3. Top = f /\ Below = <<>>
  BY <1>2, TopBelow
<1> DEFINE i == Min(DOMAIN f.old)
           rest == [p \in DOMAIN f.old \ {i} |-> f.old[p]]
           g == [f EXCEPT !.old = rest]
           n == f.oldsize
           left == Cardinality(DOMAIN f.old)
<1>4. DOMAIN f.old # {} /\ insert_into_hashtable(ht, f.old[i], Append(<<>>, g))
  BY <1>3 DEF CopyEntry
<1>5. i \in DOMAIN f.old /\ f.old[i] \in Entry
  <2>1. DOMAIN f.old \in SUBSET Nat
    BY <1>2 DEF FrameOK, EntriesOK
  <2> QED
    BY <1>2, <1>4, <2>1, MinNat DEF FrameOK, EntriesOK
<1> HIDE DEF i
<1>6. DOMAIN rest = DOMAIN f.old \ {i} /\ \A p \in DOMAIN rest : rest[p] = f.old[p]
  OBVIOUS
<1>7. /\ DOMAIN g = {"a", "old", "oldsize"}
      /\ g.a = f.a /\ g.old = rest /\ g.oldsize = n
  <2> HIDE DEF rest
  <2> QED
    BY <1>2 DEF FrameOK
<1> HIDE DEF rest, g
<1>8. /\ IsFiniteSet(DOMAIN rest) /\ Cardinality(DOMAIN rest) = left - 1
      /\ left \in Nat
  BY <1>2, <1>5, <1>6, FS_RemoveElement, FS_CardinalityType DEF FrameOK, EntriesOK
<1>9. Cardinality(DOMAIN rest) \in Nat
  BY <1>8, FS_CardinalityType
<1>10. EntriesOK(rest, n)
  BY <1>2, <1>6, <1>8 DEF FrameOK, EntriesOK
<1>11. FrameOK(g)
  BY <1>2, <1>7, <1>10 DEF FrameOK
<1>12. /\ n \in Nat /\ n >= 5 /\ ht.size = n * n /\ ht.load \in Nat
       /\ 2 * (ht.load + left) <= n + 4
  BY <1>1, <1>2 DEF FrameOK, CopyBound, Copying, Sound
<1>13. n * n >= 5 * n /\ n * n \in Nat
  BY <1>12
<1>14. ~MustGrow(ht)
  BY <1>1, <1>2, <1>4, CopyNeverGrows DEF Copying
<1>15. Store(ht, f.old[i], <<g>>)
  BY <1>4, <1>14 DEF insert_into_hashtable
<1>16. Sound(ht') /\ ht'.size = ht.size /\ ht'.load = ht.load + 1
  BY <1>1, <1>5, <1>15, StoreSound DEF Store, Copying
<1>17. CopyBound(ht', g)
  BY <1>2, <1>7, <1>8, <1>12, <1>16 DEF CopyBound
<1>18. frames' = <<g>> /\ phase' = "running"
  BY <1>1, <1>15 DEF Store, Copying
<1>19. Copying'
  BY <1>11, <1>16, <1>17, <1>18 DEF Copying
<1>20. GlobalsOK'
  BY <1>18 DEF TableInv, GlobalsOK, CopyEntry
<1> QED
  BY <1>19, <1>20 DEF TableInv

LEMMA CopyDoneStep ==
    ASSUME TableInv, CopyDone
    PROVE  TableInv'
<1>1. Copying
  BY DEF CopyDone, TableInv, NoTable, Between, OutOfMemory
<1>2. PICK f : frames = <<f>> /\ FrameOK(f) /\ CopyBound(ht, f)
  BY <1>1 DEF Copying
<1>3. Top = f /\ Below = <<>>
  BY <1>2, TopBelow
<1>4. Store(ht, f.a, <<>>) /\ DOMAIN f.old = {}
  BY <1>3 DEF CopyDone
<1>5. Sound(ht') /\ ht'.size = ht.size /\ ht'.load = ht.load + 1
  BY <1>1, <1>2, <1>4, StoreSound DEF Store, Copying, FrameOK
<1>6. frames' = <<>> /\ phase' = "running"
  BY <1>1, <1>4 DEF Store, Copying
<1> DEFINE n == f.oldsize
           sq == n * n
<1>7. /\ n \in Nat /\ n >= 5 /\ ht.size = sq /\ ht.load \in Nat /\ sq <= MaxTable
      /\ 2 * ht.load <= n + 4
  <2>1. Cardinality(DOMAIN f.old) = 0
    BY <1>4, FS_EmptySet
  <2> QED
    BY <1>1, <1>2, <2>1 DEF FrameOK, CopyBound, Copying, Sound
<1>8. sq \in Nat /\ sq >= 5 * n
  BY <1>7
<1> HIDE DEF sq, n
<1>9. 4 * ht'.load <= ht'.size + 4
  BY <1>5, <1>7, <1>8
<1>10. Between'
  BY <1>5, <1>6, <1>7, <1>9 DEF Between
<1>11. GlobalsOK'
  BY <1>6 DEF TableInv, GlobalsOK, CopyDone
<1> QED
  BY <1>10, <1>11 DEF TableInv
LEMMA ClientExitStep ==
    ASSUME TableInv, ClientExit
    PROVE  TableInv'
<1>1. (NoTable \/ Between)'
  BY ReadyTable DEF ClientExit, NoTable, Between
<1>2. GlobalsOK'
  BY DEF ClientExit, exit, TableInv, GlobalsOK, Ended, Handlers
<1> QED
  BY <1>1, <1>2 DEF TableInv

LEMMA LeakDetectionStep ==
    ASSUME TableInv, leak_detection
    PROVE  TableInv'
<1>1. CASE Dangling
  BY <1>1, DanglingStep
<1>2. CASE ~Dangling
  <2>1. NoTable \/ Between
    BY DEF leak_detection, TableInv, Copying, OutOfMemory
  <2>2. /\ UNCHANGED <<ht, frames, heap, report>> /\ phase' = "slug_memstats"
        /\ \/ UNCHANGED <<EXIT_STATUS, stderr>>
           \/ /\ Leaks(ht) # {} /\ EXIT_STATUS' = 1
              /\ stderr' = stderr \cup
                    {[kind |-> "leak", addr |-> ht.table[Max(Leaks(ht))].loc]}
    BY <1>2 DEF leak_detection
  <2>3. (NoTable \/ Between)'
    BY <2>1, <2>2 DEF NoTable, Between
  <2>4. ASSUME Leaks(ht) # {}
        PROVE  [kind |-> "leak", addr |-> ht.table[Max(Leaks(ht))].loc] \in Errors
    <3>1. Sound(ht)
      <4>1. DOMAIN NoEntries = {}
        BY DEF NoEntries
      <4> QED
        BY <2>1, <2>4, <4>1 DEF Leaks, NoTable, Between
    <3>2. Leaks(ht) \in SUBSET (0 .. ht.size - 1) /\ ht.size - 1 \in Nat
      BY <3>1 DEF Sound, EntriesOK, Leaks
    <3>3. Max(Leaks(ht)) \in Leaks(ht)
      BY <2>4, <3>2, MaxNat
    <3>4. ht.table[Max(Leaks(ht))] \in Entry
      BY <3>1, <3>3 DEF Leaks, Sound, EntriesOK
    <3> QED
      BY <3>4, EntryLoc DEF Errors
  <2>5. GlobalsOK'
    BY <2>2, <2>4 DEF TableInv, GlobalsOK, Handlers
  <2> QED
    BY <2>3, <2>5 DEF TableInv
<1> QED
  BY <1>1, <1>2

LEMMA MemstatsStep ==
    ASSUME TableInv, slug_memstats
    PROVE  TableInv'
<1>1. NoTable \/ Between
  BY ReadyTable DEF slug_memstats, TableInv, Copying, OutOfMemory
<1>2. CASE Dangling
  BY <1>2, DanglingStep
<1>3. CASE UNCHANGED <<ht, frames, heap, EXIT_STATUS, stderr>>
           /\ phase' \in {"done", "leak_detection", "crashed"} /\ report' \in Reports
  <2>1. (NoTable \/ Between)'
    BY <1>1, <1>3 DEF NoTable, Between
  <2>2. GlobalsOK'
    BY <1>3 DEF TableInv, GlobalsOK, Handlers, Ended
  <2> QED
    BY <2>1, <2>2 DEF TableInv
<1>4. CASE /\ report' = IF EXIT_STATUS = 1 THEN "problems" ELSE "no problems"
           /\ ht' = destroy_hashtable
           /\ phase' = IF phase = "running" THEN "running" ELSE "done"
           /\ UNCHANGED <<frames, heap, EXIT_STATUS, stderr>>
  <2>1. frames = <<>>
    BY <1>1 DEF NoTable, Between
  <2>2. NoTable'
    BY <1>4, <2>1 DEF NoTable, destroy_hashtable
  <2>3. GlobalsOK'
    BY <1>4 DEF TableInv, GlobalsOK, Ended, Reports
  <2> QED
    BY <2>2, <2>3 DEF TableInv
<1>5. report \in Reports /\ "no allocations" \in Reports
  BY DEF TableInv, GlobalsOK, Reports
<1> QED
  BY <1>2, <1>3, <1>4, <1>5 DEF slug_memstats, exit

LEMMA InitInv == Init => TableInv
<1> SUFFICES ASSUME Init PROVE TableInv
  OBVIOUS
<1>1. NoTable
  BY DEF Init, NoTable
<1>2. GlobalsOK
  BY DEF Init, GlobalsOK, Reports
<1> QED
  BY <1>1, <1>2 DEF TableInv

LEMMA NextInv == TableInv /\ [Next]_vars => TableInv'
<1> SUFFICES ASSUME TableInv, [Next]_vars PROVE TableInv'
  OBVIOUS
<1>1. CASE UNCHANGED vars
  BY <1>1 DEF vars, TableInv, GlobalsOK, NoTable, Between, Copying, OutOfMemory
<1>2. CASE Terminated
  BY <1>1, <1>2 DEF Terminated
<1>3. ASSUME NEW addr \in Addr \cup {NULL}, slug_free(addr) PROVE TableInv'
  BY <1>3, FreeStep
<1> QED
  BY <1>1, <1>2, <1>3, MallocStep, HugeStep, CopyEntryStep, CopyDoneStep,
     ClientExitStep, LeakDetectionStep, MemstatsStep DEF Next

----------------------------------------------------------------------------
(* The inductive invariant holds in every reachable state.                 *)
THEOREM TableSound == Spec => []TableInv
BY InitInv, NextInv, PTL DEF Spec

(* Type correctness of slugmem's globals and of its table.                 *)
THEOREM TableTypes == Spec => []TypeOK
<1>1. TableInv => TypeOK
  <2> SUFFICES ASSUME TableInv PROVE TypeOK
    OBVIOUS
  <2>1. ht.size \in Nat /\ ht.load \in Nat /\ IsTable(ht.table, ht.size)
    <3>1. CASE Sound(ht)
      BY <3>1 DEF Sound, EntriesOK, IsTable
    <3>2. CASE NoTable
      BY <3>2 DEF NoTable, IsTable, NoEntries
    <3> QED
      BY <3>1, <3>2, TableStates
  <2>2. \A k \in 1 .. Len(frames) :
           frames[k].a \in Entry /\ IsTable(frames[k].old, frames[k].oldsize)
    <3>1. CASE frames = <<>>
      BY <3>1
    <3>2. ASSUME NEW f, frames = <<f>>, FrameOK(f)
          PROVE  \A k \in 1 .. Len(frames) :
             frames[k].a \in Entry /\ IsTable(frames[k].old, frames[k].oldsize)
      <4>1. \A k \in 1 .. Len(frames) : frames[k] = f
        BY <3>2
      <4> QED
        BY <3>2, <4>1 DEF FrameOK, EntriesOK, IsTable
    <3> QED
      BY <3>1, <3>2 DEF TableInv, NoTable, Between, Copying, OutOfMemory
  <2> QED
    BY <2>1, <2>2, TableStates DEF TypeOK, TableInv, GlobalsOK
<1> QED
  BY <1>1, TableSound, PTL

(* The copying loop never starts another one, whatever the first size.     *)
THEOREM GrowthFlat == Spec => []NoNestedGrowth
<1>1. TableInv => NoNestedGrowth
  <2>1. frames = <<>> => NoNestedGrowth
    BY DEF NoNestedGrowth
  <2>2. ASSUME NEW f, frames = <<f>> PROVE NoNestedGrowth
    <3>1. Len(<<f>>) = 1
      OBVIOUS
    <3> QED
      BY <2>2, <3>1 DEF NoNestedGrowth
  <2> QED
    BY <2>1, <2>2, Zenon DEF TableInv, NoTable, Between, Copying, OutOfMemory
<1> QED
  BY <1>1, TableSound, PTL

LEMMA QuarterFullInv == TableInv => QuarterFull
<1> SUFFICES ASSUME TableInv, ht.state = "LIVE"
             PROVE  4 * Cardinality(DOMAIN ht.table) <= ht.size + 4
  BY DEF QuarterFull
<1>1. Sound(ht) /\ ~NoTable
  BY TableStates
<1>2. Cardinality(DOMAIN ht.table) \in Nat /\ Cardinality(DOMAIN ht.table) <= ht.load
  BY <1>1, FS_CardinalityType DEF Sound, EntriesOK
<1>3. ht.size \in Nat /\ ht.load \in Nat
  BY <1>1 DEF Sound
<1>4. CASE Between
  BY <1>2, <1>3, <1>4 DEF Between
<1>5. CASE Copying
  <2>1. PICK f : FrameOK(f) /\ CopyBound(ht, f)
    BY <1>5 DEF Copying
  <2> DEFINE n == f.oldsize
             left == Cardinality(DOMAIN f.old)
  <2>2. left \in Nat
    BY <2>1, FS_CardinalityType DEF FrameOK, EntriesOK
  <2>3. n \in Nat /\ n >= 5 /\ ht.size = n * n /\ 2 * (ht.load + left) <= n + 4
    BY <2>1 DEF FrameOK, CopyBound
  <2>4. n * n >= 5 * n
    BY <2>3
  <2>5. ht.size >= 5 * n
    BY <2>3, <2>4
  <2> HIDE DEF n, left
  <2> QED
    BY <1>2, <1>3, <2>2, <2>3, <2>5
<1>6. CASE OutOfMemory
  <2>1. Cardinality(DOMAIN ht.table) = 0
    BY <1>6, FS_EmptySet DEF OutOfMemory
  <2> QED
    BY <1>3, <2>1
<1> QED
  BY <1>1, <1>4, <1>5, <1>6 DEF TableInv

(* At least three quarters of the table, but for one entry, are NULL.      *)
THEOREM TableRoomy == Spec => []QuarterFull
BY QuarterFullInv, TableSound, PTL

(* The probing loops of insert_into_hashtable and is_in_hashtable end for  *)
(* every address: each chain of a table in use meets a NULL.               *)
ProbesEnd == ht.state = "LIVE" => \A loc \in Nat : FreeSteps(ht, loc) # {}

LEMMA NotFull ==
    ASSUME TableInv, ht.state = "LIVE"
    PROVE  Sound(ht) /\ Cardinality(DOMAIN ht.table) < ht.size
<1>1. Sound(ht)
  BY TableStates
<1>2. /\ Cardinality(DOMAIN ht.table) \in Nat /\ ht.size \in Nat /\ ht.size >= 5
  BY <1>1, FS_CardinalityType DEF Sound, EntriesOK
<1>3. 4 * Cardinality(DOMAIN ht.table) <= ht.size + 4
  BY QuarterFullInv DEF QuarterFull
<1> QED
  BY <1>1, <1>2, <1>3

THEOREM ProbingEnds == Spec => []ProbesEnd
<1>1. TableInv => ProbesEnd
  BY NotFull, ProbeMeetsNull DEF ProbesEnd
<1> QED
  BY <1>1, TableSound, PTL

LEMMA LookupInv == TableInv => LookupComplete
<1> SUFFICES ASSUME TableInv, ht.state = "LIVE", NEW p \in DOMAIN ht.table
             PROVE  is_in_hashtable(ht, ht.table[p].loc) # {}
  BY DEF LookupComplete, Recorded
<1>1. Sound(ht)
  BY TableStates
<1> DEFINE loc == ht.table[p].loc
           stops == {d \in 0 .. ht.size - 1 :
                       Pos(ht, loc, d) \in DOMAIN ht.table =>
                           ht.table[Pos(ht, loc, d)].loc = loc}
           m == Min(stops)
<1>2. PICK d \in 0 .. ht.size - 1 :
        /\ Pos(ht, loc, d) = p
        /\ \A e \in 0 .. d - 1 : Pos(ht, loc, e) \in DOMAIN ht.table
  BY <1>1 DEF Sound, Chained
<1>3. d \in stops
  BY <1>2
<1>4. stops \in SUBSET Nat
  OBVIOUS
<1>5. m \in stops /\ m <= d
  BY <1>3, <1>4, MinNat
<1>6. m \in 0 .. ht.size - 1
  BY <1>5
<1> HIDE DEF m, stops
<1>7. m = d \/ m \in 0 .. d - 1
  BY <1>1, <1>5, <1>6 DEF Sound
<1>8. Pos(ht, loc, m) \in DOMAIN ht.table
  BY <1>2, <1>7
<1> QED
  BY <1>8 DEF is_in_hashtable, m, stops

(* is_in_hashtable finds every address that was ever recorded.             *)
THEOREM LookupSafe == Spec => []LookupComplete
BY LookupInv, TableSound, PTL

----------------------------------------------------------------------------
(* The client's blocks.                                                    *)

(* Entries of which no two may have the same address: the active ones, and *)
(* all of them when malloc returns no address twice.                       *)
Counts(e) == e.loc # NULL /\ (Reuse => e.active)
LocOf(a) == IF Counts(a) THEN {a.loc} ELSE {}
Counted(t) == {p \in DOMAIN t : Counts(t[p])}
Locs(t) == {t[p].loc : p \in Counted(t)}
Distinct(t) == \A p, q \in Counted(t) : t[p].loc = t[q].loc => p = q

(* The blocks that a table says are held.                                  *)
HeldBy(a) == IF a.active THEN {a.loc} \ {NULL} ELSE {}
Active(t) == {p \in DOMAIN t : t[p].active}
Held(t) == {t[p].loc : p \in Active(t)} \ {NULL}

(* Without a failure of malloc, every entry has an address.                *)
Filled(t) == MallocFails \/ \A p \in DOMAIN t : t[p].loc # NULL

TableTracks(t) == Distinct(t) /\ Filled(t)

(* While the table is copied, the entries are those already copied, those  *)
(* left and the one whose insertion made the table grow.                   *)
CopyTracks(blocks, t, f) ==
    /\ TableTracks(t) /\ TableTracks(f.old)
    /\ Locs(t) \cap Locs(f.old) = {}
    /\ f.a.active /\ LocOf(f.a) \cap (Locs(t) \cup Locs(f.old)) = {}
    /\ f.a.loc # NULL \/ MallocFails
    /\ blocks = Held(t) \cup Held(f.old) \cup ({f.a.loc} \ {NULL})

Tracks ==
    /\ ht.state = "NULL" => heap = {}
    /\ ht.state = "LIVE" /\ frames = <<>> => TableTracks(ht.table) /\ heap = Held(ht.table)
    /\ phase = "running" => \A k \in 1 .. Len(frames) : CopyTracks(heap, ht.table, frames[k])

Refused == {m \in stderr : m.kind # "leak"}

(* What the globals say on the way out.                                    *)
Verdict ==
    /\ phase = "running" => stderr = {} /\ EXIT_STATUS = 0
    /\ phase \in Handlers => ht.state # "NULL"
    /\ phase = "leak_detection" => (EXIT_STATUS = 1 <=> Refused # {})
    /\ phase \in {"slug_memstats", "done"} /\ (Refused # {} \/ heap # {}) => EXIT_STATUS = 1
    /\ phase \in {"slug_memstats", "done"} /\ EXIT_STATUS = 1 /\ ~MallocFails =>
          Refused # {} \/ heap # {}
    /\ phase = "done" /\ heap # {} => report = "problems"
    /\ ~Reuse => ValidFreeAccepted

HeapInv == Tracks /\ Verdict

----------------------------------------------------------------------------
(* u is t with entry a at the unused position p.                           *)
Extends(u, t, p, a) ==
    /\ p \notin DOMAIN t /\ DOMAIN u = DOMAIN t \cup {p}
    /\ u[p] = a /\ \A q \in DOMAIN t : u[q] = t[q]

LEMMA ExtendsLocs ==
    ASSUME NEW u, NEW t, NEW p, NEW a, Extends(u, t, p, a)
    PROVE  Locs(u) = Locs(t) \cup LocOf(a)
<1>1. Counted(u) = Counted(t) \cup (IF Counts(a) THEN {p} ELSE {})
  BY DEF Extends, Counted
<1>2. \A q \in Counted(t) : u[q] = t[q]
  BY DEF Extends, Counted
<1>3. u[p] = a
  BY DEF Extends
<1> QED
  BY <1>1, <1>2, <1>3 DEF Locs, LocOf

LEMMA ExtendsHeld ==
    ASSUME NEW u, NEW t, NEW p, NEW a, Extends(u, t, p, a)
    PROVE  Held(u) = Held(t) \cup HeldBy(a)
<1>1. Active(u) = Active(t) \cup (IF a.active THEN {p} ELSE {})
  BY DEF Extends, Active
<1>2. \A q \in Active(t) : u[q] = t[q]
  BY DEF Extends, Active
<1>3. u[p] = a
  BY DEF Extends
<1> QED
  BY <1>1, <1>2, <1>3 DEF Held, HeldBy

(* An entry may join a table of distinct addresses if none has its own.    *)
LEMMA ExtendsTracks ==
    ASSUME NEW u, NEW t, NEW p, NEW a, Extends(u, t, p, a)
    PROVE  TableTracks(u) <=> /\ TableTracks(t)
                              /\ MallocFails \/ a.loc # NULL
                              /\ LocOf(a) \cap Locs(t) = {}
<1>1. Counted(u) = Counted(t) \cup (IF Counts(a) THEN {p} ELSE {})
  BY DEF Extends, Counted
<1>2. p \notin Counted(t) /\ \A q \in Counted(t) : u[q] = t[q]
  BY DEF Extends, Counted
<1>3. u[p] = a
  BY DEF Extends
<1>4. Filled(u) <=> Filled(t) /\ (MallocFails \/ a.loc # NULL)
  BY DEF Filled, Extends
<1>5. Distinct(u) <=> Distinct(t) /\ LocOf(a) \cap Locs(t) = {}
  <2>1. CASE ~Counts(a)
    BY <1>1, <1>2, <2>1 DEF Distinct, LocOf
  <2>2. CASE Counts(a)
    <3>1. Counted(u) = Counted(t) \cup {p} /\ LocOf(a) = {a.loc}
      BY <1>1, <2>2 DEF LocOf
    <3>2. LocOf(a) \cap Locs(t) = {} <=> \A q \in Counted(t) : t[q].loc # a.loc
      BY <3>1 DEF Locs
    <3> QED
      BY <1>2, <1>3, <3>1, <3>2 DEF Distinct
  <2> QED
    BY <2>1, <2>2
<1> QED
  BY <1>4, <1>5 DEF TableTracks

LEMMA EmptyTracks ==
    TableTracks(NoEntries) /\ Locs(NoEntries) = {} /\ Held(NoEntries) = {}
<1>1. DOMAIN NoEntries = {}
  BY DEF NoEntries
<1>2. Counted(NoEntries) = {} /\ Active(NoEntries) = {}
  BY <1>1 DEF Counted, Active
<1> QED
  BY <1>1, <1>2 DEF TableTracks, Distinct, Filled, Locs, Held

LEMMA StoreExtends ==
    ASSUME NEW h, Sound(h), NEW a \in Entry, FreeSteps(h, a.loc) # {}
    PROVE  Extends(StoreAt(h, a, FreePos(h, a.loc)).table, h.table, FreePos(h, a.loc), a)
<1> DEFINE p == FreePos(h, a.loc)
           t == [q \in DOMAIN h.table \cup {p} |-> IF q = p THEN a ELSE h.table[q]]
<1>1. FreeSteps(h, a.loc) \in SUBSET Nat
  BY DEF FreeSteps
<1>2. Min(FreeSteps(h, a.loc)) \in FreeSteps(h, a.loc)
  BY <1>1, MinNat
<1>3. p \notin DOMAIN h.table
  BY <1>2 DEF FreeSteps, FreePos
<1> HIDE DEF p
<1>4. StoreAt(h, a, p) = [h EXCEPT !.table = t, !.load = h.load + 1]
  BY DEF StoreAt
<1>5. StoreAt(h, a, p).table = t
  <2> HIDE DEF t
  <2> QED
    BY <1>4, TableFields DEF Sound
<1>6. Extends(t, h.table, p, a)
  BY <1>3 DEF Extends
<1> QED
  BY <1>5, <1>6 DEF p

(* insert_into_hashtable, called by slug_malloc: the new block is recorded *)
(* in the table, or in the frame of the growth it started.                 *)
LEMMA InsertTracks ==
    ASSUME NEW h, Roomy(h), TableTracks(h.table), heap = Held(h.table),
           NEW a \in Entry, a.active, a.loc # NULL \/ MallocFails,
           LocOf(a) \cap Locs(h.table) = {}, phase = "running",
           heap' = heap \cup ({a.loc} \ {NULL}),
           insert_into_hashtable(h, a, <<>>)
    PROVE  Tracks'
<1>1. CASE MustGrow(h)
  <2> DEFINE f == [a |-> a, old |-> h.table, oldsize |-> h.size]
  <2>1. double_hashtable(h, a, <<>>)
    BY <1>1 DEF insert_into_hashtable
  <2>2. ht'.state = "LIVE" /\ ht'.table = NoEntries
    BY <2>1, TableFields DEF double_hashtable, Roomy, Sound
  <2>3. frames' = <<f>>
    BY <2>1 DEF double_hashtable
  <2>4. f.a = a /\ f.old = h.table
    OBVIOUS
  <2> HIDE DEF f
  <2>5. CopyTracks(heap', NoEntries, f)
    BY <2>4, EmptyTracks DEF CopyTracks
  <2>6. frames' # <<>> /\ \A k \in 1 .. Len(frames') : frames'[k] = f
    BY <2>3
  <2> QED
    BY <2>2, <2>5, <2>6 DEF Tracks
<1>2. CASE ~MustGrow(h)
  <2> DEFINE p == FreePos(h, a.loc)
  <2>1. /\ FreeSteps(h, a.loc) # {} /\ ht' = StoreAt(h, a, p)
        /\ frames' = <<>>
    BY <1>2 DEF insert_into_hashtable, Store
  <2>2. Sound(ht') /\ Extends(ht'.table, h.table, p, a)
    BY <2>1, StoreSound, StoreExtends DEF Roomy
  <2>3. TableTracks(ht'.table) /\ Held(ht'.table) = Held(h.table) \cup HeldBy(a)
    BY <2>2, ExtendsTracks, ExtendsHeld
  <2>4. heap' = Held(ht'.table)
    BY <2>3 DEF HeldBy
  <2>5. ht'.state = "LIVE" /\ Len(frames') = 0
    BY <2>1, <2>2 DEF Sound
  <2> QED
    BY <2>1, <2>3, <2>4, <2>5 DEF Tracks
<1> QED
  BY <1>1, <1>2

----------------------------------------------------------------------------
(* Every action preserves the invariant.                                   *)

LEMMA MallocTable ==
    ASSUME TableInv, Tracks, Ready, ht.state # "FREED"
    PROVE  LET h == TableForMalloc
           IN  Roomy(h) /\ TableTracks(h.table) /\ heap = Held(h.table)
<1>1. CASE ht.state = "NULL"
  <2>1. TableForMalloc = init_hashtable /\ init_hashtable.table = NoEntries
    BY <1>1 DEF TableForMalloc, init_hashtable
  <2> QED
    BY <1>1, <2>1, InitRoomy, EmptyTracks DEF Tracks
<1>2. CASE ht.state = "LIVE"
  <2>1. TableForMalloc = ht
    BY <1>2 DEF TableForMalloc
  <2> QED
    BY <1>2, <2>1, ReadyTable, TableStates, BetweenRoomy DEF Tracks, Ready
<1> QED
  BY <1>1, <1>2, TableStates

(* The address malloc returns is that of no counted entry.                 *)
LEMMA MallocFresh ==
    ASSUME NEW h, heap = Held(h.table), NEW loc \in malloc(h), NEW a,
           a.loc = loc
    PROVE  LocOf(a) \cap Locs(h.table) = {}
<1>1. CASE loc = NULL
  BY <1>1 DEF LocOf, Counts
<1>2. CASE loc # NULL /\ Reuse
  <2>1. loc \notin heap
    BY <1>2 DEF malloc
  <2>2. Locs(h.table) \subseteq Held(h.table)
    BY <1>2 DEF Locs, Held, Counted, Active, Counts
  <2> QED
    BY <2>1, <2>2 DEF LocOf
<1>3. CASE loc # NULL /\ ~Reuse
  <2>1. loc \notin Recorded(h)
    BY <1>3 DEF malloc
  <2>2. Locs(h.table) \subseteq Recorded(h)
    BY DEF Locs, Counted, Recorded
  <2> QED
    BY <2>1, <2>2 DEF LocOf
<1> QED
  BY <1>1, <1>2, <1>3

LEMMA DanglingHeap ==
    ASSUME TableInv, HeapInv, Dangling
    PROVE  HeapInv'
<1>1. Tracks'
  BY DEF Tracks, Dangling
<1>2. ValidFreeAccepted => ValidFreeAccepted'
  BY DEF ValidFreeAccepted, Dangling
<1>3. Verdict'
  BY <1>2 DEF HeapInv, Verdict, Dangling, Handlers
<1> QED
  BY <1>1, <1>3 DEF HeapInv

LEMMA ReadyClean ==
    ASSUME TableInv, HeapInv, Ready
    PROVE  stderr = {} /\ EXIT_STATUS = 0 /\ phase = "running" /\ frames = <<>>
BY DEF HeapInv, Verdict, Ready

LEMMA FailHeap ==
    ASSUME TableInv, HeapInv, Ready, NEW h, NEW kind, NEW addr \in Addr \cup {NULL},
           kind \in {"over 128MB", "not allocated", "already freed"},
           h = ht \/ (ht.state = "NULL" /\ h = init_hashtable), Fail(h, kind, addr),
           Reuse \/ kind = "over 128MB" \/ addr \notin heap
    PROVE  HeapInv'
<1> DEFINE m == [kind |-> kind, addr |-> addr]
<1>1. /\ stderr' = {m} /\ EXIT_STATUS' = 1 /\ ht' = h
      /\ UNCHANGED <<frames, heap, report>> /\ frames = <<>>
      /\ phase' = IF h.state = "NULL" THEN "done" ELSE "leak_detection"
  BY ReadyClean DEF Fail, exit
<1>2. m.kind = kind /\ m.addr = addr
  OBVIOUS
<1> HIDE DEF m
<1>3. Refused' = {m}
  BY <1>1, <1>2 DEF Refused
<1>4. CASE h = ht
  <2>1. Tracks'
    BY <1>1, <1>4 DEF HeapInv, Tracks
  <2>2. h.state = "NULL" => heap' = {}
    BY <1>1, <1>4 DEF HeapInv, Tracks
  <2>3. ~Reuse => ValidFreeAccepted'
    BY <1>1, <1>2 DEF ValidFreeAccepted
  <2>4. Verdict'
    BY <1>1, <1>3, <2>2, <2>3 DEF Verdict, Handlers
  <2> QED
    BY <2>1, <2>4 DEF HeapInv
<1>5. CASE ht.state = "NULL" /\ h = init_hashtable
  <2>1. h.state = "LIVE" /\ h.table = NoEntries
    BY <1>5 DEF init_hashtable
  <2>2. heap = {}
    BY <1>5 DEF HeapInv, Tracks
  <2>3. Tracks'
    BY <1>1, <2>1, <2>2, EmptyTracks DEF Tracks
  <2>4. ~Reuse => ValidFreeAccepted'
    BY <1>1, <1>2 DEF ValidFreeAccepted
  <2>5. Verdict'
    BY <1>1, <1>3, <2>1, <2>4 DEF Verdict, Handlers
  <2> QED
    BY <2>3, <2>5 DEF HeapInv
<1> QED
  BY <1>4, <1>5

(* A step of the running client that prints nothing.                       *)
LEMMA QuietVerdict ==
    ASSUME HeapInv, phase = "running", UNCHANGED <<EXIT_STATUS, stderr>>,
           phase' \in {"running", "crashed"}
    PROVE  Verdict'
<1>1. stderr' = {} /\ EXIT_STATUS' = 0
  BY DEF HeapInv, Verdict
<1>2. ValidFreeAccepted'
  BY <1>1 DEF ValidFreeAccepted
<1> QED
  BY <1>1, <1>2 DEF Verdict, Handlers

LEMMA MallocHeap ==
    ASSUME TableInv, HeapInv, slug_malloc
    PROVE  HeapInv'
<1>1. CASE Dangling
  BY <1>1, DanglingHeap
<1>2. CASE ~Dangling
  <2>1. /\ Ready /\ ht.state # "FREED"
        /\ UNCHANGED <<EXIT_STATUS, stderr, report>>
    BY <1>2 DEF slug_malloc
  <2>2. PICK loc \in malloc(TableForMalloc) :
          /\ heap' = heap \cup ({loc} \ {NULL})
          /\ insert_into_hashtable(TableForMalloc, [loc |-> loc, active |-> TRUE], <<>>)
    BY <1>2 DEF slug_malloc
  <2> DEFINE a == [loc |-> loc, active |-> TRUE]
             h == TableForMalloc
  <2>3. loc \in Addr \cup {NULL} /\ (loc # NULL \/ MallocFails)
    BY AddrAssumption DEF malloc
  <2>4. a \in Entry /\ a.active /\ a.loc = loc
    BY <2>3 DEF Entry
  <2>5. Roomy(h) /\ TableTracks(h.table) /\ heap = Held(h.table)
    BY <2>1, MallocTable DEF HeapInv
  <2> HIDE DEF a, h
  <2>6. LocOf(a) \cap Locs(h.table) = {}
    BY <2>4, <2>5, MallocFresh DEF h
  <2>7. insert_into_hashtable(h, a, <<>>) /\ heap' = heap \cup ({a.loc} \ {NULL})
    BY <2>2, <2>4 DEF a, h
  <2>8. Tracks'
    BY <2>1, <2>3, <2>4, <2>5, <2>6, <2>7, InsertTracks DEF Ready
  <2>9. phase' \in {"running", "crashed"}
    BY <2>1, <2>4, <2>5, <2>7, InsertStep DEF Ready
  <2> QED
    BY <2>1, <2>8, <2>9, QuietVerdict DEF HeapInv, Ready
<1> QED
  BY <1>1, <1>2

LEMMA HugeHeap ==
    ASSUME TableInv, HeapInv, slug_malloc_huge
    PROVE  HeapInv'
<1>1. CASE Dangling
  BY <1>1, DanglingHeap
<1>2. CASE ht.state # "FREED" /\ Fail(TableForMalloc, "over 128MB", NULL)
  <2>1. TableForMalloc = ht \/ (ht.state = "NULL" /\ TableForMalloc = init_hashtable)
    BY DEF TableForMalloc
  <2> QED
    BY <1>2, <2>1, FailHeap DEF slug_malloc_huge
<1> QED
  BY <1>1, <1>2 DEF slug_malloc_huge

(* What is_in_hashtable finds has the address it looks for.                *)
LEMMA FoundLoc ==
    ASSUME TableInv, ht.state = "LIVE", NEW loc \in Addr \cup {NULL},
           NEW p \in is_in_hashtable(ht, loc)
    PROVE  p \in DOMAIN ht.table /\ ht.table[p].loc = loc
<1> DEFINE stops == {d \in 0 .. ht.size - 1 :
                        Pos(ht, loc, d) \in DOMAIN ht.table =>
                            ht.table[Pos(ht, loc, d)].loc = loc}
<1>1. p = Pos(ht, loc, Min(stops)) /\ p \in DOMAIN ht.table
  BY DEF is_in_hashtable
<1>2. stops \in SUBSET Nat
  OBVIOUS
<1>3. stops # {}
  <2>1. FreeSteps(ht, loc) # {}
    BY AddrNat, NotFull, ProbeMeetsNull
  <2> QED
    BY <2>1 DEF FreeSteps
<1>4. Min(stops) \in stops
  BY <1>2, <1>3, MinNat
<1> QED
  BY <1>1, <1>4

(* When malloc returns no address twice, slug_free refuses no held block.  *)
LEMMA HeldFound ==
    ASSUME TableInv, Tracks, Ready, ht.state = "LIVE", ~Reuse,
           NEW addr \in heap
    PROVE  /\ is_in_hashtable(ht, addr) # {}
           /\ \A p \in is_in_hashtable(ht, addr) : ht.table[p].active
<1>1. Distinct(ht.table) /\ heap = Held(ht.table)
  BY DEF Tracks, Ready, TableTracks
<1>2. PICK q \in DOMAIN ht.table :
        ht.table[q].active /\ ht.table[q].loc = addr /\ addr # NULL
  BY <1>1 DEF Held, Active
<1>3. is_in_hashtable(ht, addr) # {}
  BY <1>2, LookupInv DEF LookupComplete, Recorded
<1>4. ASSUME NEW p \in is_in_hashtable(ht, addr) PROVE ht.table[p].active
  <2>1. addr \in Addr
    BY DEF TableInv, GlobalsOK
  <2>2. p \in DOMAIN ht.table /\ ht.table[p].loc = addr
    BY <2>1, FoundLoc
  <2>3. p \in Counted(ht.table) /\ q \in Counted(ht.table)
    BY <1>2, <2>2 DEF Counted, Counts
  <2>4. p = q
    BY <1>1, <1>2, <2>2, <2>3 DEF Distinct
  <2> QED
    BY <1>2, <2>4
<1> QED
  BY <1>3, <1>4

(* slug_free takes the block off the heap and off the active entries.      *)
LEMMA MarkFreedTracks ==
    ASSUME NEW h, Roomy(h), TableTracks(h.table), NEW p \in DOMAIN h.table,
           h.table[p].active
    PROVE  LET g == MarkFreed(h, p)
           IN  /\ g.state = h.state /\ TableTracks(g.table)
               /\ Held(g.table) = Held(h.table) \ {h.table[p].loc}
<1> DEFINE t == [h.table EXCEPT ![p].active = FALSE]
           g == MarkFreed(h, p)
<1>1. g = [h EXCEPT !.table = t]
  BY DEF MarkFreed, Roomy, Sound, Fields
<1>2. g.state = h.state /\ g.table = t
  <2> HIDE DEF g, t
  <2> QED
    BY <1>1, TableFields DEF Roomy, Sound
<1>3. DOMAIN t = DOMAIN h.table
  OBVIOUS
<1>4. /\ t[p].loc = h.table[p].loc /\ ~ t[p].active
      /\ \A q \in DOMAIN h.table : q # p => t[q] = h.table[q]
  BY DEF Roomy, Sound, EntriesOK, Entry
<1> HIDE DEF t, g
<1>5. \A q \in DOMAIN h.table : t[q].loc = h.table[q].loc
  BY <1>4
<1>6. Counted(t) \subseteq Counted(h.table)
  BY <1>3, <1>4 DEF Counted, Counts
<1>7. Distinct(t) /\ Filled(t)
  BY <1>3, <1>5, <1>6 DEF TableTracks, Distinct, Filled, Counted
<1>8. Active(t) = Active(h.table) \ {p}
  BY <1>3, <1>4 DEF Active
<1>9. \A q \in Active(h.table) :
         q # p /\ h.table[q].loc # NULL => h.table[q].loc # h.table[p].loc
  BY DEF Active, TableTracks, Distinct, Counted, Counts
<1>10. Held(t) = Held(h.table) \ {h.table[p].loc}
  <2>1. ASSUME NEW x \in Held(t) PROVE x \in Held(h.table) \ {h.table[p].loc}
    <3>1. PICK q \in Active(t) : x = t[q].loc /\ x # NULL
      BY DEF Held
    <3>2. q \in Active(h.table) /\ q # p /\ q \in DOMAIN h.table
      BY <1>8 DEF Active
    <3> QED
      BY <1>5, <1>9, <3>1, <3>2 DEF Held
  <2>2. ASSUME NEW x \in Held(h.table), x # h.table[p].loc PROVE x \in Held(t)
    <3>1. PICK q \in Active(h.table) : x = h.table[q].loc /\ x # NULL
      BY DEF Held
    <3>2. q \in Active(t) /\ q \in DOMAIN h.table
      BY <1>8, <2>2, <3>1 DEF Active
    <3> QED
      BY <1>5, <3>1, <3>2 DEF Held
  <2> QED
    BY <2>1, <2>2
<1> QED
  BY <1>2, <1>7, <1>10 DEF TableTracks, g

LEMMA FreeHeap ==
    ASSUME TableInv, HeapInv, NEW addr \in Addr \cup {NULL}, slug_free(addr)
    PROVE  HeapInv'
<1>1. Ready /\ Tracks
  BY DEF slug_free, HeapInv
<1>2. CASE Dangling
  BY <1>2, DanglingHeap
<1>3. CASE ht.state = "NULL" /\ Fail(ht, "not allocated", addr)
  <2>1. heap = {}
    BY <1>1, <1>3 DEF Tracks
  <2> QED
    BY <1>1, <1>3, <2>1, FailHeap
<1>4. CASE /\ ht.state = "LIVE" /\ is_in_hashtable(ht, addr) = {}
           /\ Fail(ht, "not allocated", addr)
  BY <1>1, <1>4, HeldFound, FailHeap
<1>5. ASSUME NEW p \in is_in_hashtable(ht, addr), ht.state = "LIVE",
             ~ht.table[p].active, Fail(ht, "already freed", addr)
      PROVE  HeapInv'
  BY <1>1, <1>5, HeldFound, FailHeap
<1>6. ASSUME NEW p \in is_in_hashtable(ht, addr), ht.state = "LIVE",
             ht.table[p].active, ht' = MarkFreed(ht, p), heap' = heap \ {addr},
             UNCHANGED <<frames, phase, EXIT_STATUS, stderr, report>>
      PROVE  HeapInv'
  <2>1. p \in DOMAIN ht.table /\ ht.table[p].loc = addr
    BY <1>6, FoundLoc
  <2>2. Roomy(ht) /\ frames = <<>>
    BY <1>1, <1>6, ReadyTable, TableStates, BetweenRoomy
  <2>3. TableTracks(ht.table) /\ heap = Held(ht.table)
    BY <1>1, <1>6, <2>2 DEF Tracks
  <2>4. /\ ht'.state = "LIVE" /\ TableTracks(ht'.table)
        /\ Held(ht'.table) = Held(ht.table) \ {addr}
    BY <1>6, <2>1, <2>2, <2>3, MarkFreedTracks
  <2>5. frames' = <<>> /\ Len(frames') = 0
    BY <1>6, <2>2
  <2>6. Tracks'
    BY <1>6, <2>3, <2>4, <2>5 DEF Tracks
  <2>7. Verdict'
    BY <1>1, <1>6, QuietVerdict DEF Ready
  <2> QED
    BY <2>6, <2>7 DEF HeapInv
<1> QED
  BY <1>2, <1>3, <1>4, <1>5, <1>6 DEF slug_free

(* A turn of the copying loop moves one entry from the old table to the    *)
(* new one.                                                                *)
LEMMA CopyEntryHeap ==
    ASSUME TableInv, HeapInv, CopyEntry
    PROVE  HeapInv'
<1>1. Copying
  BY DEF CopyEntry, TableInv, NoTable, Between, OutOfMemory
<1>2. PICK f : frames = <<f>> /\ FrameOK(f) /\ CopyBound(ht, f)
  BY <1>1 DEF Copying
<1>3. Top = f /\ Below = <<>>
  BY <1>2, TopBelow
<1>4. CopyTracks(heap, ht.table, f)
  <2>1. phase = "running" /\ 1 \in 1 .. Len(frames) /\ frames[1] = f
    BY <1>1, <1>2 DEF Copying
  <2> QED
    BY <2>1 DEF HeapInv, Tracks
<1> DEFINE i == Min(DOMAIN f.old)
           rest == [p \in DOMAIN f.old \ {i} |-> f.old[p]]
           g == [f EXCEPT !.old = rest]
           b == f.old[i]
           q == FreePos(ht, b.loc)
<1>5. DOMAIN f.old # {} /\ insert_into_hashtable(ht, b, Append(<<>>, g))
  BY <1>3 DEF CopyEntry
<1>6. i \in DOMAIN f.old /\ b \in Entry
  <2>1. DOMAIN f.old \in SUBSET Nat
    BY <1>2 DEF FrameOK, EntriesOK
  <2> QED
    BY <1>2, <1>5, <2>1, MinNat DEF FrameOK, EntriesOK
<1> HIDE DEF i
<1>7. Extends(f.old, rest, i, b)
  BY <1>6 DEF Extends
<1>8. g.a = f.a /\ g.old = rest
  <2> HIDE DEF rest
  <2> QED
    BY <1>2 DEF FrameOK
<1>9. ~MustGrow(ht)
  BY <1>1, <1>2, <1>5, CopyNeverGrows DEF Copying
<1> HIDE DEF rest, g, b
<1>10. Store(ht, b, <<g>>)
  BY <1>5, <1>9 DEF insert_into_hashtable
<1>11. /\ FreeSteps(ht, b.loc) # {} /\ ht' = StoreAt(ht, b, q)
       /\ frames' = <<g>> /\ phase' = "running"
  BY <1>1, <1>10 DEF Store, Copying
<1>12. Sound(ht') /\ Extends(ht'.table, ht.table, q, b)
  BY <1>1, <1>6, <1>11, StoreSound, StoreExtends DEF Copying
<1>13. /\ Locs(f.old) = Locs(rest) \cup LocOf(b)
       /\ Held(f.old) = Held(rest) \cup HeldBy(b)
       /\ TableTracks(rest) /\ LocOf(b) \cap Locs(rest) = {}
       /\ MallocFails \/ b.loc # NULL
  BY <1>4, <1>7, ExtendsLocs, ExtendsHeld, ExtendsTracks DEF CopyTracks
<1>14. /\ Locs(ht'.table) = Locs(ht.table) \cup LocOf(b)
       /\ Held(ht'.table) = Held(ht.table) \cup HeldBy(b)
  BY <1>12, ExtendsLocs, ExtendsHeld
<1>15. TableTracks(ht'.table)
  BY <1>4, <1>12, <1>13, ExtendsTracks DEF CopyTracks
<1>16. heap' = heap
  BY DEF CopyEntry
<1>17. CopyTracks(heap', ht'.table, g)
  BY <1>4, <1>8, <1>13, <1>14, <1>15, <1>16 DEF CopyTracks
<1>18. frames' # <<>> /\ \A k \in 1 .. Len(frames') : frames'[k] = g
  BY <1>11
<1>19. Tracks'
  BY <1>12, <1>17, <1>18 DEF Tracks, Sound
<1>20. Verdict'
  BY <1>1, <1>11, QuietVerdict DEF CopyEntry
<1> QED
  BY <1>19, <1>20 DEF HeapInv

LEMMA CopyDoneHeap ==
    ASSUME TableInv, HeapInv, CopyDone
    PROVE  HeapInv'
<1>1. Copying
  BY DEF CopyDone, TableInv, NoTable, Between, OutOfMemory
<1>2. PICK f : frames = <<f>> /\ FrameOK(f) /\ CopyBound(ht, f)
  BY <1>1 DEF Copying
<1>3. Top = f /\ Below = <<>>
  BY <1>2, TopBelow
<1>4. CopyTracks(heap, ht.table, f)
  <2>1. phase = "running" /\ 1 \in 1 .. Len(frames) /\ frames[1] = f
    BY <1>1, <1>2 DEF Copying
  <2> QED
    BY <2>1 DEF HeapInv, Tracks
<1> DEFINE q == FreePos(ht, f.a.loc)
<1>5. Store(ht, f.a, <<>>) /\ DOMAIN f.old = {} /\ f.a \in Entry
  BY <1>2, <1>3 DEF CopyDone, FrameOK
<1>6. /\ FreeSteps(ht, f.a.loc) # {} /\ ht' = StoreAt(ht, f.a, q)
      /\ frames' = <<>> /\ phase' = "running"
  BY <1>1, <1>5 DEF Store, Copying
<1>7. Sound(ht') /\ Extends(ht'.table, ht.table, q, f.a)
  BY <1>1, <1>5, <1>6, StoreSound, StoreExtends DEF Copying
<1>8. Held(f.old) = {}
  BY <1>5 DEF Held, Active
<1>9. TableTracks(ht'.table)
  BY <1>4, <1>7, ExtendsTracks DEF CopyTracks
<1>10. Held(ht'.table) = Held(ht.table) \cup HeldBy(f.a)
  BY <1>7, ExtendsHeld
<1>11. heap' = Held(ht'.table)
  BY <1>4, <1>8, <1>10 DEF CopyTracks, HeldBy, CopyDone
<1>12. Tracks'
  BY <1>6, <1>7, <1>9, <1>11 DEF Tracks, Sound
<1>13. Verdict'
  BY <1>1, <1>6, QuietVerdict DEF CopyDone, Copying
<1> QED
  BY <1>12, <1>13 DEF HeapInv

LEMMA ClientExitHeap ==
    ASSUME TableInv, HeapInv, ClientExit
    PROVE  HeapInv'
<1>1. /\ stderr = {} /\ EXIT_STATUS = 0 /\ frames = <<>>
      /\ phase' = IF ht.state = "NULL" THEN "done" ELSE "leak_detection"
      /\ UNCHANGED <<ht, frames, heap, EXIT_STATUS, stderr, report>>
  BY ReadyClean DEF ClientExit, exit
<1>2. Tracks'
  BY <1>1 DEF HeapInv, Tracks
<1>3. ht.state = "NULL" => heap = {}
  BY DEF HeapInv, Tracks
<1>4. Refused' = {} /\ ValidFreeAccepted'
  BY <1>1 DEF Refused, ValidFreeAccepted
<1>5. Verdict'
  BY <1>1, <1>3, <1>4 DEF Verdict, Handlers
<1> QED
  BY <1>2, <1>5 DEF HeapInv

LEMMA ExitTable ==
    ASSUME TableInv, HeapInv, phase \in Handlers, ht.state # "FREED"
    PROVE  /\ ht.state = "LIVE" /\ frames = <<>> /\ heap = Held(ht.table)
           /\ heap # {} => Leaks(ht) # {}
           /\ ~MallocFails /\ Leaks(ht) # {} => heap # {}
<1>1. ht.state = "LIVE"
  BY TableStates DEF HeapInv, Verdict
<1>2. frames = <<>>
  BY <1>1, TableStates DEF TableInv, Copying, OutOfMemory, NoTable, Between, Handlers
<1>3. TableTracks(ht.table) /\ heap = Held(ht.table)
  BY <1>1, <1>2 DEF HeapInv, Tracks
<1>4. Leaks(ht) = Active(ht.table)
  BY DEF Leaks, Active
<1>5. heap # {} => Leaks(ht) # {}
  BY <1>3, <1>4 DEF Held
<1>6. ASSUME ~MallocFails, NEW p \in Leaks(ht) PROVE heap # {}
  <2>1. ht.table[p].loc # NULL /\ p \in Active(ht.table)
    BY <1>3, <1>4, <1>6 DEF TableTracks, Filled, Active
  <2> QED
    BY <1>3, <2>1 DEF Held
<1> QED
  BY <1>1, <1>2, <1>3, <1>5, <1>6

LEMMA LeakDetectionHeap ==
    ASSUME TableInv, HeapInv, leak_detection
    PROVE  HeapInv'
<1>1. CASE Dangling
  BY <1>1, DanglingHeap
<1>2. CASE ~Dangling
  <2>1. /\ phase = "leak_detection" /\ ht.state # "FREED" /\ phase' = "slug_memstats"
        /\ UNCHANGED <<ht, frames, heap, report>>
    BY <1>2 DEF leak_detection
  <2>2. \/ Leaks(ht) = {} /\ UNCHANGED <<EXIT_STATUS, stderr>>
        \/ /\ Leaks(ht) # {} /\ EXIT_STATUS' = 1
           /\ \E addr : stderr' = stderr \cup {[kind |-> "leak", addr |-> addr]}
    BY <1>2 DEF leak_detection
  <2>3. /\ ht.state = "LIVE"
        /\ heap # {} => Leaks(ht) # {}
        /\ ~MallocFails /\ Leaks(ht) # {} => heap # {}
    BY <2>1, ExitTable DEF Handlers
  <2>4. Refused' = Refused
    BY <2>2 DEF Refused
  <2>5. ValidFreeAccepted => ValidFreeAccepted'
    <3>1. \A m \in stderr' : m \in stderr \/ m.kind = "leak"
      BY <2>2
    <3> QED
      BY <2>1, <3>1 DEF ValidFreeAccepted
  <2>6. Tracks'
    BY <2>1 DEF HeapInv, Tracks
  <2>7. EXIT_STATUS \in {0, 1} /\ (EXIT_STATUS = 1 <=> Refused # {})
    BY <2>1 DEF HeapInv, Verdict, TableInv, GlobalsOK
  <2>8. Verdict'
    BY <2>1, <2>2, <2>3, <2>4, <2>5, <2>7 DEF HeapInv, Verdict, Handlers
  <2> QED
    BY <2>6, <2>8 DEF HeapInv
<1> QED
  BY <1>1, <1>2

LEMMA MemstatsHeap ==
    ASSUME TableInv, HeapInv, slug_memstats
    PROVE  HeapInv'
<1>1. CASE Dangling
  BY <1>1, DanglingHeap
<1>2. CASE ht.state = "NULL" /\ exit(ht)
           /\ UNCHANGED <<ht, frames, heap, EXIT_STATUS, stderr>>
  <2>1. Ready
    BY <1>2 DEF slug_memstats, HeapInv, Verdict, Handlers
  <2>2. heap = {} /\ stderr = {} /\ EXIT_STATUS = 0 /\ phase' = "done"
    BY <1>2, <2>1, ReadyClean DEF HeapInv, Tracks, exit
  <2>3. Tracks'
    BY <1>2, <2>2 DEF HeapInv, Tracks
  <2>4. Refused' = {} /\ ValidFreeAccepted'
    BY <1>2, <2>2 DEF Refused, ValidFreeAccepted
  <2>5. Verdict'
    BY <1>2, <2>2, <2>4 DEF Verdict, Handlers
  <2> QED
    BY <2>3, <2>5 DEF HeapInv
<1>3. CASE phase' = "crashed"
           /\ UNCHANGED <<ht, frames, heap, EXIT_STATUS, stderr, report>>
  <2>1. Tracks'
    BY <1>3 DEF HeapInv, Tracks
  <2>2. ValidFreeAccepted => ValidFreeAccepted'
    BY <1>3 DEF ValidFreeAccepted
  <2>3. Verdict'
    BY <1>3, <2>2 DEF HeapInv, Verdict, Handlers
  <2> QED
    BY <2>1, <2>3 DEF HeapInv
<1>4. CASE /\ report' = IF EXIT_STATUS = 1 THEN "problems" ELSE "no problems"
           /\ ht' = destroy_hashtable
           /\ phase' = IF phase = "running" THEN "running" ELSE "done"
           /\ UNCHANGED <<frames, heap, EXIT_STATUS, stderr>>
  <2>1. ht'.state = "FREED" /\ phase \in {"running", "slug_memstats"}
    BY <1>4 DEF destroy_hashtable, slug_memstats, Ready
  <2>2. frames = <<>>
    BY ReadyTable DEF slug_memstats, Ready, TableInv, NoTable, Between, Copying, OutOfMemory
  <2>3. Tracks'
    <3>1. Len(frames') = 0
      BY <1>4, <2>2
    <3> QED
      BY <2>1, <3>1 DEF Tracks
  <2>4. Refused' = Refused
    BY <1>4 DEF Refused
  <2>5. ValidFreeAccepted => ValidFreeAccepted'
    BY <1>4 DEF ValidFreeAccepted
  <2>6. Verdict'
    BY <1>4, <2>1, <2>4, <2>5 DEF HeapInv, Verdict, Handlers
  <2> QED
    BY <2>3, <2>6 DEF HeapInv
<1> QED
  BY <1>1, <1>2, <1>3, <1>4 DEF slug_memstats

LEMMA HeapInit == Init => HeapInv
<1> SUFFICES ASSUME Init PROVE HeapInv
  OBVIOUS
<1>1. ht.state = "NULL" /\ Len(frames) = 0
  BY DEF Init
<1>2. Tracks
  BY <1>1 DEF Init, Tracks
<1>3. Verdict
  BY DEF Init, Verdict, ValidFreeAccepted, Handlers
<1> QED
  BY <1>2, <1>3 DEF HeapInv

LEMMA HeapNext == TableInv /\ HeapInv /\ [Next]_vars => HeapInv'
<1> SUFFICES ASSUME TableInv, HeapInv, [Next]_vars PROVE HeapInv'
  OBVIOUS
<1>1. CASE UNCHANGED vars
  <2>1. Tracks'
    BY <1>1 DEF vars, HeapInv, Tracks
  <2>2. Refused' = Refused /\ (ValidFreeAccepted => ValidFreeAccepted')
    BY <1>1 DEF vars, Refused, ValidFreeAccepted
  <2>3. Verdict'
    BY <1>1, <2>2 DEF vars, HeapInv, Verdict
  <2> QED
    BY <2>1, <2>3 DEF HeapInv
<1>2. CASE Terminated
  BY <1>1, <1>2 DEF Terminated
<1>3. ASSUME NEW addr \in Addr \cup {NULL}, slug_free(addr) PROVE HeapInv'
  BY <1>3, FreeHeap
<1> QED
  BY <1>1, <1>2, <1>3, MallocHeap, HugeHeap, CopyEntryHeap, CopyDoneHeap,
     ClientExitHeap, LeakDetectionHeap, MemstatsHeap DEF Next

----------------------------------------------------------------------------
(* The inductive invariant holds in every reachable state.                 *)
THEOREM HeapSound == Spec => [](TableInv /\ HeapInv)
BY HeapInit, HeapNext, TableSound, PTL DEF Spec

(* Every block the client holds has exactly one active entry, every active *)
(* entry is of a held block or of a failed malloc, and a program that ends *)
(* by its handlers with a block still held says so, for every sequence of  *)
(* calls.                                                                  *)
THEOREM HeapAccountedFor == Spec => []HeapAccounted
<1>1. TableInv /\ HeapInv => HeapTracked
  <2> SUFFICES ASSUME TableInv, HeapInv, Ready, ht.state = "LIVE"
               PROVE  /\ \A addr \in heap :
                            Cardinality({p \in DOMAIN ht.table :
                                ht.table[p].active /\ ht.table[p].loc = addr}) = 1
                      /\ \A p \in DOMAIN ht.table :
                            ht.table[p].active => ht.table[p].loc \in heap \cup {NULL}
    BY DEF HeapTracked
  <2>1. Distinct(ht.table) /\ heap = Held(ht.table)
    BY DEF HeapInv, Tracks, TableTracks, Ready
  <2>2. ASSUME NEW addr \in heap
        PROVE  Cardinality({p \in DOMAIN ht.table :
                    ht.table[p].active /\ ht.table[p].loc = addr}) = 1
    <3> DEFINE S == {p \in DOMAIN ht.table : ht.table[p].active /\ ht.table[p].loc = addr}
    <3>1. PICK q \in S : addr # NULL
      BY <2>1 DEF Held, Active
    <3>2. ASSUME NEW p \in S PROVE p = q
      <4>1. p \in Counted(ht.table) /\ q \in Counted(ht.table)
        BY <3>1 DEF Counted, Counts
      <4> QED
        BY <2>1, <4>1 DEF Distinct
    <3>3. S = {q}
      BY <3>1, <3>2
    <3> QED
      BY <3>3, FS_Singleton
  <2>3. ASSUME NEW p \in DOMAIN ht.table, ht.table[p].active
        PROVE  ht.table[p].loc \in heap \cup {NULL}
    BY <2>1, <2>3 DEF Held, Active
  <2> QED
    BY <2>2, <2>3
<1>2. HeapInv => LeakReported
  BY DEF HeapInv, Verdict, LeakReported
<1> QED
  BY <1>1, <1>2, HeapSound, PTL DEF HeapAccounted

(* When malloc returns no address twice, slug_free refuses only addresses  *)
(* that the client does not hold.                                          *)
THEOREM ValidFreeSafe == ~Reuse => (Spec => []ValidFreeAccepted)
<1> SUFFICES ASSUME ~Reuse PROVE Spec => []ValidFreeAccepted
  OBVIOUS
<1>1. HeapInv => ValidFreeAccepted
  BY DEF HeapInv, Verdict
<1> QED
  BY <1>1, HeapSound, PTL

----------------------------------------------------------------------------
(* slugmem implements TrackedHeap when malloc neither fails nor returns an *)
(* address twice: the other two cases refuse a valid free and report a     *)
(* problem that was none.                                                  *)

Outcome == IF phase # "done" THEN "none"
           ELSE IF EXIT_STATUS = 1 THEN "problems" ELSE "no problems"

AbstractStep == [Tracker!Next]_(Tracker!tvars)

(* A step that the client cannot tell from doing nothing.                  *)
LEMMA Invisible ==
    ASSUME heap' = heap, Refused' = Refused, Outcome' = Outcome
    PROVE  AbstractStep
BY DEF AbstractStep, Tracker!tvars, Refused, Outcome

LEMMA AbstractMalloc ==
    ASSUME Outcome = "none", Refused = {}, NEW addr \in Addr \ heap,
           heap' = heap \cup {addr}, Refused' = Refused, Outcome' = Outcome
    PROVE  AbstractStep
BY DEF AbstractStep, Tracker!Next, Tracker!Malloc, Tracker!Running, Refused, Outcome

LEMMA AbstractFree ==
    ASSUME Outcome = "none", Refused = {}, NEW addr \in heap,
           heap' = heap \ {addr}, Refused' = Refused, Outcome' = Outcome
    PROVE  AbstractStep
BY DEF AbstractStep, Tracker!Next, Tracker!Free, Tracker!Running, Refused, Outcome

LEMMA AbstractRefuse ==
    ASSUME Outcome = "none", Refused = {}, NEW kind, NEW addr \in Addr \cup {NULL},
           \/ kind = "over 128MB" /\ addr = NULL
           \/ kind \in {"not allocated", "already freed"} /\ addr \notin heap,
           heap' = heap, Refused' = {[kind |-> kind, addr |-> addr]},
           Outcome' \in {"none", "problems"}
    PROVE  AbstractStep
BY DEF AbstractStep, Tracker!Next, Tracker!Refuse, Tracker!Running, Refused, Outcome, NULL

LEMMA AbstractJudge ==
    ASSUME Outcome = "none", heap' = heap, Refused' = Refused,
           Outcome' = IF Refused = {} /\ heap = {} THEN "no problems" ELSE "problems"
    PROVE  AbstractStep
BY DEF AbstractStep, Tracker!Next, Tracker!Judge, Refused, Outcome

(* While the client runs, nothing has been refused and no verdict given.   *)
LEMMA ReadyAbstract ==
    ASSUME HeapInv, phase = "running"
    PROVE  Outcome = "none" /\ Refused = {} /\ stderr = {} /\ EXIT_STATUS = 0
BY DEF HeapInv, Verdict, Outcome, Refused

LEMMA DanglingAbstract ==
    ASSUME Dangling, phase \in {"running"} \cup Handlers
    PROVE  AbstractStep
<1>1. Outcome = "none" /\ Outcome' = "none" /\ Refused' = Refused /\ heap' = heap
  BY DEF Dangling, Outcome, Refused, Handlers
<1> QED
  BY <1>1, Invisible

LEMMA FailAbstract ==
    ASSUME TableInv, HeapInv, Ready, NEW h, NEW kind, NEW addr \in Addr \cup {NULL},
           \/ kind = "over 128MB" /\ addr = NULL
           \/ kind \in {"not allocated", "already freed"} /\ addr \notin heap,
           Fail(h, kind, addr)
    PROVE  AbstractStep
<1> DEFINE m == [kind |-> kind, addr |-> addr]
<1>1. stderr' = {m} /\ heap' = heap /\ EXIT_STATUS' = 1
  BY ReadyClean DEF Fail
<1>2. m.kind = kind
  OBVIOUS
<1> HIDE DEF m
<1>3. Refused' = {m}
  BY <1>1, <1>2 DEF Refused
<1>4. Outcome' \in {"none", "problems"}
  BY <1>1 DEF Outcome
<1>5. Outcome = "none" /\ Refused = {}
  BY ReadyAbstract DEF Ready
<1> QED
  BY <1>1, <1>3, <1>4, <1>5, AbstractRefuse DEF m

LEMMA MallocAbstract ==
    ASSUME TableInv, HeapInv, ~Reuse, ~MallocFails, slug_malloc
    PROVE  AbstractStep
<1>1. Ready
  BY DEF slug_malloc
<1>2. CASE Dangling
  BY <1>1, <1>2, DanglingAbstract DEF Ready
<1>3. CASE ~Dangling
  <2>1. ht.state # "FREED" /\ UNCHANGED <<EXIT_STATUS, stderr, report>>
    BY <1>3 DEF slug_malloc
  <2>2. PICK loc \in malloc(TableForMalloc) :
          /\ heap' = heap \cup ({loc} \ {NULL})
          /\ insert_into_hashtable(TableForMalloc, [loc |-> loc, active |-> TRUE], <<>>)
    BY <1>3 DEF slug_malloc
  <2> DEFINE h == TableForMalloc
  <2>3. Roomy(h) /\ heap = Held(h.table)
    BY <1>1, <2>1, MallocTable DEF HeapInv
  <2>4. loc \in Addr /\ loc \notin Recorded(h) /\ loc # NULL
    BY AddrAssumption DEF malloc
  <2>5. [loc |-> loc, active |-> TRUE] \in Entry
    BY <2>4 DEF Entry
  <2>6. loc \notin heap
    BY <2>3, <2>4 DEF Held, Active, Recorded
  <2>7. phase' \in {"running", "crashed"}
    BY <1>1, <2>2, <2>3, <2>5, InsertStep DEF Ready
  <2>8. heap' = heap \cup {loc}
    BY <2>2, <2>4
  <2>9. Outcome = "none" /\ Refused = {}
    BY <1>1, ReadyAbstract DEF Ready
  <2>10. Refused' = Refused /\ Outcome' = "none"
    BY <2>1, <2>7 DEF Refused, Outcome
  <2> QED
    BY <2>4, <2>6, <2>8, <2>9, <2>10, AbstractMalloc
<1> QED
  BY <1>2, <1>3

LEMMA HugeAbstract ==
    ASSUME TableInv, HeapInv, slug_malloc_huge
    PROVE  AbstractStep
<1>1. Ready
  BY DEF slug_malloc_huge
<1>2. CASE Dangling
  BY <1>1, <1>2, DanglingAbstract DEF Ready
<1>3. CASE Fail(TableForMalloc, "over 128MB", NULL)
  BY <1>1, <1>3, FailAbstract
<1> QED
  BY <1>2, <1>3 DEF slug_malloc_huge

LEMMA FreeAbstract ==
    ASSUME TableInv, HeapInv, ~Reuse, ~MallocFails, NEW addr \in Addr \cup {NULL},
           slug_free(addr)
    PROVE  AbstractStep
<1>1. Ready /\ Tracks
  BY DEF slug_free, HeapInv
<1>2. CASE Dangling
  BY <1>1, <1>2, DanglingAbstract DEF Ready
<1>3. CASE ht.state = "NULL" /\ Fail(ht, "not allocated", addr)
  <2>1. heap = {}
    BY <1>1, <1>3 DEF Tracks
  <2> QED
    BY <1>1, <1>3, <2>1, FailAbstract
<1>4. CASE /\ ht.state = "LIVE" /\ is_in_hashtable(ht, addr) = {}
           /\ Fail(ht, "not allocated", addr)
  BY <1>1, <1>4, HeldFound, FailAbstract
<1>5. ASSUME NEW p \in is_in_hashtable(ht, addr), ht.state = "LIVE",
             ~ht.table[p].active, Fail(ht, "already freed", addr)
      PROVE  AbstractStep
  BY <1>1, <1>5, HeldFound, FailAbstract
<1>6. ASSUME NEW p \in is_in_hashtable(ht, addr), ht.state = "LIVE",
             ht.table[p].active, heap' = heap \ {addr},
             UNCHANGED <<phase, EXIT_STATUS, stderr>>
      PROVE  AbstractStep
  <2>1. p \in DOMAIN ht.table /\ ht.table[p].loc = addr
    BY <1>6, FoundLoc
  <2>2. Filled(ht.table) /\ heap = Held(ht.table)
    BY <1>1, <1>6 DEF Tracks, Ready, TableTracks
  <2>3. addr \in heap
    BY <1>6, <2>1, <2>2 DEF Filled, Held, Active
  <2>4. Outcome = "none" /\ Refused = {}
    BY <1>1, ReadyAbstract DEF Ready
  <2>5. Refused' = Refused /\ Outcome' = Outcome
    BY <1>6 DEF Refused, Outcome
  <2> QED
    BY <1>6, <2>3, <2>4, <2>5, AbstractFree
<1> QED
  BY <1>2, <1>3, <1>4, <1>5, <1>6 DEF slug_free

(* A step of the copying loops, or of leak_detection.                      *)
LEMMA SilentAbstract ==
    ASSUME phase # "done", phase' # "done", UNCHANGED heap, Refused' = Refused
    PROVE  AbstractStep
<1>1. Outcome' = Outcome
  BY DEF Outcome
<1> QED
  BY <1>1, Invisible

LEMMA CopyAbstract ==
    ASSUME TableInv, CopyEntry \/ CopyDone
    PROVE  AbstractStep
<1>1. phase = "running" /\ UNCHANGED <<heap, stderr>>
  BY DEF CopyEntry, CopyDone
<1>2. phase' # "done"
  BY <1>1 DEF CopyEntry, CopyDone, insert_into_hashtable, double_hashtable, Store
<1> QED
  BY <1>1, <1>2, SilentAbstract DEF Refused

LEMMA ClientExitAbstract ==
    ASSUME TableInv, HeapInv, ClientExit
    PROVE  AbstractStep
<1>1. /\ phase = "running"
      /\ phase' = IF ht.state = "NULL" THEN "done" ELSE "leak_detection"
      /\ UNCHANGED <<heap, EXIT_STATUS, stderr>>
  BY DEF ClientExit, exit, Ready
<1>2. Refused' = Refused
  BY <1>1 DEF Refused
<1>3. CASE ht.state = "NULL"
  <2>1. heap = {} /\ Outcome = "none" /\ Refused = {} /\ EXIT_STATUS = 0
    BY <1>1, <1>3, ReadyAbstract DEF HeapInv, Tracks
  <2>2. Outcome' = "no problems"
    BY <1>1, <1>3, <2>1 DEF Outcome
  <2> QED
    BY <1>1, <1>2, <2>1, <2>2, AbstractJudge
<1>4. CASE ht.state # "NULL"
  BY <1>1, <1>2, <1>4, SilentAbstract
<1> QED
  BY <1>3, <1>4

LEMMA LeakDetectionAbstract ==
    ASSUME TableInv, HeapInv, leak_detection
    PROVE  AbstractStep
<1>1. CASE Dangling
  BY <1>1, DanglingAbstract DEF leak_detection, Handlers
<1>2. CASE ~Dangling
  <2>1. phase = "leak_detection" /\ phase' = "slug_memstats" /\ UNCHANGED heap
    BY <1>2 DEF leak_detection
  <2>2. \/ UNCHANGED stderr
        \/ \E addr : stderr' = stderr \cup {[kind |-> "leak", addr |-> addr]}
    BY <1>2 DEF leak_detection
  <2>3. Refused' = Refused
    BY <2>2 DEF Refused
  <2> QED
    BY <2>1, <2>3, SilentAbstract
<1> QED
  BY <1>1, <1>2

LEMMA MemstatsAbstract ==
    ASSUME TableInv, HeapInv, ~MallocFails, slug_memstats
    PROVE  AbstractStep
<1>1. phase \in {"running", "slug_memstats"}
  BY DEF slug_memstats, Ready
<1>2. CASE Dangling
  BY <1>1, <1>2, DanglingAbstract DEF Handlers
<1>3. CASE ht.state = "NULL" /\ exit(ht)
           /\ UNCHANGED <<ht, frames, heap, EXIT_STATUS, stderr>>
  <2>1. phase = "running" /\ phase' = "done"
    BY <1>1, <1>3 DEF HeapInv, Verdict, Handlers, exit
  <2>2. heap = {} /\ Outcome = "none" /\ Refused = {} /\ EXIT_STATUS = 0
    BY <1>3, <2>1, ReadyAbstract DEF HeapInv, Tracks
  <2>3. Refused' = Refused /\ Outcome' = "no problems"
    BY <1>3, <2>1, <2>2 DEF Refused, Outcome
  <2> QED
    BY <1>3, <2>2, <2>3, AbstractJudge
<1>4. CASE phase' = "crashed"
           /\ UNCHANGED <<ht, frames, heap, EXIT_STATUS, stderr, report>>
  BY <1>1, <1>4, SilentAbstract DEF Refused
<1>5. CASE /\ phase' = IF phase = "running" THEN "running" ELSE "done"
           /\ UNCHANGED <<frames, heap, EXIT_STATUS, stderr>>
  <2>1. Refused' = Refused
    BY <1>5 DEF Refused
  <2>2. CASE phase = "running"
    BY <1>5, <2>1, <2>2, SilentAbstract
  <2>3. CASE phase = "slug_memstats"
    <3>1. phase' = "done" /\ Outcome = "none"
      BY <1>5, <2>3 DEF Outcome
    <3>2. EXIT_STATUS \in {0, 1} /\ (EXIT_STATUS = 1 <=> (Refused # {} \/ heap # {}))
      BY <2>3 DEF HeapInv, Verdict, TableInv, GlobalsOK
    <3>3. Outcome' = IF Refused = {} /\ heap = {} THEN "no problems" ELSE "problems"
      BY <1>5, <3>1, <3>2 DEF Outcome
    <3> QED
      BY <1>5, <2>1, <3>1, <3>3, AbstractJudge
  <2> QED
    BY <1>1, <2>2, <2>3
<1> QED
  BY <1>2, <1>3, <1>4, <1>5 DEF slug_memstats

LEMMA StepAbstract ==
    ASSUME TableInv, HeapInv, ~Reuse, ~MallocFails, [Next]_vars
    PROVE  AbstractStep
<1>1. CASE UNCHANGED vars
  BY <1>1, Invisible DEF vars, Refused, Outcome
<1>2. CASE Terminated
  BY <1>1, <1>2 DEF Terminated
<1>3. ASSUME NEW addr \in Addr \cup {NULL}, slug_free(addr) PROVE AbstractStep
  BY <1>3, FreeAbstract
<1> QED
  BY <1>1, <1>2, <1>3, MallocAbstract, HugeAbstract, CopyAbstract, ClientExitAbstract,
     LeakDetectionAbstract, MemstatsAbstract DEF Next

(* slugmem is a tracked heap: when malloc neither fails nor returns an     *)
(* address twice, every call of the client and the exit handlers together  *)
(* act as one step of TrackedHeap or as none, however the table is probed, *)
(* grown and copied in between.                                            *)
THEOREM SlugmemTracksHeap == ~Reuse /\ ~MallocFails => (Spec => Refinement)
<1> SUFFICES ASSUME ~Reuse, ~MallocFails PROVE Spec => Refinement
  OBVIOUS
<1>1. Init => Tracker!Init
  BY DEF Init, Tracker!Init
<1>2. TableInv /\ HeapInv /\ [Next]_vars => [Tracker!Next]_(Tracker!tvars)
  BY StepAbstract DEF AbstractStep
<1> QED
  BY <1>1, <1>2, HeapSound, PTL DEF Spec, Refinement, Tracker!Spec
=============================================================================
