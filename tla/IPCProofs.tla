----------------------------- MODULE IPCProofs -----------------------------
(***************************************************************************)
(* What holds of the IPC server for any clients, keys and table sizes: the *)
(* tables keep to their room and widths, ids are unique, and a segment     *)
(* that somebody has mapped is never taken away, as long as VM's eight-bit *)
(* count of a page's references cannot reach its end.                      *)
(***************************************************************************)
EXTENDS IPC, FiniteSetTheorems, SequenceTheorems, WellFoundedInduction, TLAPS

-----------------------------------------------------------------------------
(* Induction over natural numbers: a set of them has a least element.      *)
LEMMA LeastNat ==
    ASSUME NEW S \in SUBSET Nat, S # {}
    PROVE  \E x \in S : \A y \in S : x <= y
<1> DEFINE R == {ss \in Nat \X Nat : ss[1] < ss[2]}
<1>1. IsWellFoundedOn(R, Nat)
  BY NatLessThanWellFounded, Zenon DEF OpToRel
<1> HIDE DEF R
<1>2. PICK x \in S : \A y \in S : ~ (<<y, x>> \in R)
  BY <1>1, WFMin
<1>3. ASSUME NEW y \in S PROVE x <= y
  <2>1. ~ (<<y, x>> \in Nat \X Nat /\ y < x)
    BY <1>2, Zenon DEF R
  <2> QED
    BY <2>1
<1> QED
  BY <1>3

-----------------------------------------------------------------------------
(* The sum of w[p] over the processes of a set, as the library's fold runs *)
(* through it.                                                             *)
Pick(s) == CHOOSE x \in s : TRUE

Added(w, g, s) == IF s = {} THEN 0 ELSE w[Pick(s)] + g[s \ {Pick(s)}]

Adding(w, S, g) == g = [s \in SUBSET S |-> Added(w, g, s)]

LEMMA SmallerSet ==
    ASSUME NEW S, IsFiniteSet(S), NEW s \in SUBSET S
    PROVE  /\ Cardinality(s) \in Nat
           /\ Cardinality(s) = 0 <=> s = {}
           /\ s # {} => /\ Pick(s) \in s /\ s \ {Pick(s)} \in SUBSET S
                        /\ Cardinality(s \ {Pick(s)}) = Cardinality(s) - 1
<1>1. IsFiniteSet(s)
  BY FS_Subset
<1>2. Cardinality(s) \in Nat /\ (Cardinality(s) = 0 <=> s = {})
  BY <1>1, FS_CardinalityType, FS_EmptySet
<1>3. ASSUME s # {} PROVE Pick(s) \in s
  BY <1>3 DEF Pick
<1>4. ASSUME s # {} PROVE Cardinality(s \ {Pick(s)}) = Cardinality(s) - 1
  BY <1>1, <1>3, <1>4, FS_RemoveElement
<1> QED
  BY <1>2, <1>3, <1>4

(* The sum exists: first for the small sets, then for all.                 *)
Upto(S, n) == {s \in SUBSET S : Cardinality(s) <= n}

LEMMA SumExists ==
    ASSUME NEW w, NEW S, IsFiniteSet(S)
    PROVE  \E g : Adding(w, S, g)
<1> DEFINE Small(n, g) == g = [s \in Upto(S, n) |-> Added(w, g, s)]
           T == {n \in Nat : ~ \E g : Small(n, g)}
<1>1. T = {}
  <2> SUFFICES ASSUME T # {} PROVE FALSE
    OBVIOUS
  <2>0. T \in SUBSET Nat
    OBVIOUS
  <2> HIDE DEF T
  <2>1. PICK n \in T : \A y \in T : n <= y
    BY <2>0, LeastNat
  <2>2. n \in Nat /\ ~ \E g : Small(n, g)
    BY DEF T
  <2>3. CASE n = 0
    <3>1. PICK g : g = [s \in Upto(S, 0) |-> 0]
      OBVIOUS
    <3>2. ASSUME NEW s \in Upto(S, 0) PROVE s = {}
      <4>1. s \in SUBSET S /\ Cardinality(s) <= 0
        BY DEF Upto
      <4>2. Cardinality(s) \in Nat /\ (Cardinality(s) = 0 <=> s = {})
        BY <4>1, SmallerSet, Zenon
      <4> QED
        BY <4>1, <4>2
    <3>3. Small(0, g)
      BY <3>1, <3>2 DEF Added
    <3> QED
      BY <2>2, <2>3, <3>3
  <2>4. CASE n # 0
    <3>1. n - 1 \in Nat /\ n - 1 \notin T
      BY <2>1, <2>2, <2>4
    <3>2. PICK g : Small(n - 1, g)
      BY <3>1 DEF T
    <3>3. PICK h : h = [s \in Upto(S, n) |-> Added(w, g, s)]
      OBVIOUS
    <3>4. ASSUME NEW s \in Upto(S, n - 1) PROVE s \in Upto(S, n) /\ h[s] = g[s]
      <4>1. s \in SUBSET S /\ Cardinality(s) <= n - 1
        BY DEF Upto
      <4>2. Cardinality(s) \in Nat
        BY <4>1, SmallerSet, Zenon
      <4>3. s \in Upto(S, n)
        BY <2>2, <4>1, <4>2 DEF Upto
      <4>4. g[s] = Added(w, g, s)
        BY <3>2
      <4> QED
        BY <3>3, <4>3, <4>4
    <3>5. ASSUME NEW s \in Upto(S, n) PROVE h[s] = Added(w, h, s)
      <4>1. CASE s = {}
        BY <3>3, <4>1 DEF Added
      <4>2. CASE s # {}
        <5>0. s \in SUBSET S /\ Cardinality(s) <= n
          BY DEF Upto
        <5>1. /\ s \ {Pick(s)} \in SUBSET S /\ Cardinality(s) \in Nat
              /\ Cardinality(s \ {Pick(s)}) = Cardinality(s) - 1
          BY <4>2, <5>0, SmallerSet, Zenon
        <5>2. s \ {Pick(s)} \in Upto(S, n - 1)
          BY <2>2, <5>0, <5>1 DEF Upto
        <5>3. h[s \ {Pick(s)}] = g[s \ {Pick(s)}]
          BY <3>4, <5>2
        <5> QED
          BY <3>3, <4>2, <5>3 DEF Added
      <4> QED
        BY <4>1, <4>2
    <3>6. Small(n, h)
      BY <3>3, <3>5
    <3> QED
      BY <2>2, <3>6
  <2> QED
    BY <2>3, <2>4
<1>2. Cardinality(S) \in Nat
  BY FS_CardinalityType
<1>3. PICK g : Small(Cardinality(S), g)
  BY <1>1, <1>2
<1>4. Upto(S, Cardinality(S)) = SUBSET S
  <2>1. ASSUME NEW s \in SUBSET S PROVE Cardinality(s) <= Cardinality(S)
    BY FS_Subset
  <2> QED
    BY <2>1 DEF Upto
<1> QED
  BY <1>3, <1>4 DEF Adding

(* One round of the sum.                                                   *)
LEMMA SumStep ==
    ASSUME NEW w, NEW S, IsFiniteSet(S), NEW g, Adding(w, S, g), NEW s \in SUBSET S
    PROVE  /\ Cardinality(s) \in Nat
           /\ s = {} => g[s] = 0 /\ Cardinality(s) = 0
           /\ s # {} => \E x \in s, r \in SUBSET S :
                 /\ r = s \ {x} /\ Cardinality(s) # 0 /\ Cardinality(r) = Cardinality(s) - 1
                 /\ g[s] = w[x] + g[r]
<1>1. g[s] = Added(w, g, s)
  BY DEF Adding
<1>2. CASE s = {}
  BY <1>1, <1>2, SmallerSet DEF Added
<1>3. CASE s # {}
  <2>1. /\ Pick(s) \in s /\ s \ {Pick(s)} \in SUBSET S
        /\ Cardinality(s) \in Nat /\ Cardinality(s) # 0
        /\ Cardinality(s \ {Pick(s)}) = Cardinality(s) - 1
    BY <1>3, SmallerSet, Zenon
  <2>2. g[s] = w[Pick(s)] + g[s \ {Pick(s)}]
    BY <1>1, <1>3 DEF Added
  <2> QED
    BY <1>3, <2>1, <2>2
<1> QED
  BY <1>2, <1>3

(* A sum of bounded numbers is bounded, and no less than any of them.      *)
LEMMA SumBounds ==
    ASSUME NEW w, NEW S, IsFiniteSet(S), NEW g, Adding(w, S, g), NEW a \in Nat,
           \A p \in S : w[p] \in 0 .. a
    PROVE  /\ g[S] \in 0 .. Cardinality(S) * a
           /\ \A p \in S : g[S] >= w[p]
<1> DEFINE Good(s) == /\ g[s] \in 0 .. Cardinality(s) * a
                      /\ \A p \in s : g[s] >= w[p]
           T == {n \in Nat : \E s \in SUBSET S : Cardinality(s) = n /\ ~ Good(s)}
<1>1. T = {}
  <2> SUFFICES ASSUME T # {} PROVE FALSE
    OBVIOUS
  <2>0. T \in SUBSET Nat
    OBVIOUS
  <2> HIDE DEF T
  <2>1. PICK n \in T : \A y \in T : n <= y
    BY <2>0, LeastNat
  <2>2. PICK s \in SUBSET S : Cardinality(s) = n /\ ~ Good(s)
    BY DEF T
  <2>3. CASE s = {}
    <3>1. g[s] = 0 /\ Cardinality(s) = 0
      BY <2>3, SumStep
    <3> QED
      BY <2>2, <2>3, <3>1
  <2>4. CASE s # {}
    <3>0. \E x \in s, r \in SUBSET S :
             /\ r = s \ {x} /\ Cardinality(s) # 0 /\ Cardinality(r) = Cardinality(s) - 1
             /\ g[s] = w[x] + g[r]
      BY <2>4, SumStep
    <3>1. PICK x \in s, r \in SUBSET S :
             /\ r = s \ {x} /\ n # 0 /\ Cardinality(r) = n - 1 /\ g[s] = w[x] + g[r]
      BY <2>2, <3>0
    <3>2. n \in Nat
      BY DEF T
    <3>3. Good(r)
      <4>1. n - 1 \in Nat /\ n - 1 \notin T
        BY <2>1, <3>1, <3>2
      <4> QED
        BY <3>1, <4>1 DEF T
    <3>4. w[x] \in 0 .. a
      OBVIOUS
    <3>5. (n - 1) * a + a = n * a /\ n * a \in Nat /\ (n - 1) * a \in Nat
      BY <3>1, <3>2
    <3>6. g[s] \in 0 .. n * a
      BY <3>1, <3>3, <3>4, <3>5
    <3>7. ASSUME NEW p \in s PROVE g[s] >= w[p]
      <4>1. w[p] \in 0 .. a /\ g[r] \in Nat
        BY <3>1, <3>3, <3>5
      <4>2. CASE p = x
        BY <3>1, <4>1, <4>2
      <4>3. CASE p # x
        <5>1. p \in r
          BY <3>1, <4>3
        <5>2. g[r] >= w[p]
          BY <3>3, <5>1
        <5> QED
          BY <3>1, <3>4, <4>1, <5>2
      <4> QED
        BY <4>2, <4>3
    <3> QED
      BY <2>2, <3>6, <3>7
  <2> QED
    BY <2>3, <2>4
<1>2. Cardinality(S) \in Nat
  BY FS_CardinalityType
<1>3. Good(S)
  BY <1>1, <1>2
<1> QED
  BY <1>3

(* A sum in which at most one summand, that of q, is not zero.             *)
LEMMA SumOfOne ==
    ASSUME NEW w, NEW S, IsFiniteSet(S), NEW g, Adding(w, S, g), NEW q,
           \A p \in S : w[p] \in Int /\ (p # q => w[p] = 0)
    PROVE  g[S] = IF q \in S THEN w[q] ELSE 0
<1> DEFINE Good(s) == g[s] = IF q \in s THEN w[q] ELSE 0
           T == {n \in Nat : \E s \in SUBSET S : Cardinality(s) = n /\ ~ Good(s)}
<1>1. T = {}
  <2> SUFFICES ASSUME T # {} PROVE FALSE
    OBVIOUS
  <2>0. T \in SUBSET Nat
    OBVIOUS
  <2> HIDE DEF T
  <2>1. PICK n \in T : \A y \in T : n <= y
    BY <2>0, LeastNat
  <2>2. PICK s \in SUBSET S : Cardinality(s) = n /\ ~ Good(s)
    BY DEF T
  <2>3. CASE s = {}
    <3>1. g[s] = 0
      BY <2>3, SumStep
    <3> QED
      BY <2>2, <2>3, <3>1
  <2>4. CASE s # {}
    <3>0. \E x \in s, r \in SUBSET S :
             /\ r = s \ {x} /\ Cardinality(s) # 0 /\ Cardinality(r) = Cardinality(s) - 1
             /\ g[s] = w[x] + g[r]
      BY <2>4, SumStep
    <3>1. PICK x \in s, r \in SUBSET S :
             /\ r = s \ {x} /\ n # 0 /\ Cardinality(r) = n - 1 /\ g[s] = w[x] + g[r]
      BY <2>2, <3>0
    <3>2. n \in Nat
      BY DEF T
    <3>3. Good(r)
      <4>1. n - 1 \in Nat /\ n - 1 \notin T
        BY <2>1, <3>1, <3>2
      <4> QED
        BY <3>1, <4>1 DEF T
    <3>4. x \in S /\ w[x] \in Int /\ (x # q => w[x] = 0)
      OBVIOUS
    <3>5. CASE x = q
      <4>1. g[r] = 0
        BY <3>1, <3>3, <3>5
      <4> QED
        BY <2>2, <3>1, <3>4, <3>5, <4>1
    <3>6. CASE x # q
      <4>1. (q \in r) <=> (q \in s)
        BY <3>1, <3>6
      <4>2. CASE q \in s
        <5>1. w[q] \in Int
          BY <4>2
        <5> QED
          BY <2>2, <3>1, <3>3, <3>4, <3>6, <4>1, <4>2, <5>1
      <4>3. CASE q \notin s
        BY <2>2, <3>1, <3>3, <3>4, <3>6, <4>1, <4>3
      <4> QED
        BY <4>2, <4>3
    <3> QED
      BY <3>5, <3>6
  <2> QED
    BY <2>3, <2>4
<1>2. Cardinality(S) \in Nat
  BY FS_CardinalityType
<1>3. Good(S)
  BY <1>1, <1>2
<1> QED
  BY <1>3

(* vm_getrefcount: one mapping of IPC's own and those of the clients.      *)
LEMMA RefCount ==
    ASSUME NEW k, NEW id, \A p \in Procs : k.mapped[p][id] \in 0 .. MaxAttach
    PROVE  \E t \in 0 .. Cardinality(Procs) * MaxAttach :
              /\ vm_getrefcount(k, id) = (1 + t) % U8
              /\ \A p \in Procs : t >= k.mapped[p][id]
<1> DEFINE w == [p \in Procs |-> k.mapped[p][id]]
           Body(g) == [s \in SUBSET Procs |->
                        IF s = {} THEN 0
                        ELSE k.mapped[Pick(s)][id] + g[s \ {Pick(s)}]]
           g0 == CHOOSE g : g = Body(g)
<1>1. vm_getrefcount(k, id) = (1 + g0[Procs]) % U8
  BY DEF vm_getrefcount, Pick, MapThenSumSet, MapThenFoldSet
<1>2. ASSUME NEW g PROVE Body(g) = [s \in SUBSET Procs |-> Added(w, g, s)]
  <2>1. ASSUME NEW s \in SUBSET Procs, s # {} PROVE w[Pick(s)] = k.mapped[Pick(s)][id]
    <3>1. Pick(s) \in Procs
      BY <2>1, SmallerSet, IPCAssumption
    <3> QED
      BY <3>1
  <2> QED
    BY <2>1 DEF Added
<1>3. IsFiniteSet(Procs) /\ MaxAttach \in Nat
  BY IPCAssumption
<1>4. PICK g : Adding(w, Procs, g)
  BY <1>3, SumExists
<1>5. g = Body(g)
  BY <1>2, <1>4 DEF Adding
<1>6. g0 = Body(g0)
  BY <1>5
<1> HIDE DEF g0
<1>7. Adding(w, Procs, g0)
  BY <1>2, <1>6 DEF Adding
<1>8. \A p \in Procs : w[p] = k.mapped[p][id] /\ w[p] \in 0 .. MaxAttach
  OBVIOUS
<1> HIDE DEF w, Body
<1>9. g0[Procs] \in 0 .. Cardinality(Procs) * MaxAttach /\ \A p \in Procs : g0[Procs] >= w[p]
  BY <1>3, <1>7, <1>8, SumBounds
<1> QED
  BY <1>1, <1>8, <1>9

-----------------------------------------------------------------------------
(* update_refcount_and_destroy: the loop that moves the entries up.        *)
Keeps(k, e) ==
    LET rc == vm_getrefcount(k, e.id) IN rc # U8 - 1 /\ (rc # 1 \/ ~e.dest)

Turn(k, g, i) ==
    IF i = 0 THEN <<>>
    ELSE IF Keeps(k, k.shm[i]) THEN Append(g[i - 1], k.shm[i]) ELSE g[i - 1]

Keeping(k, n, g) == g = [i \in 0 .. n |-> Turn(k, g, i)]

LEMMA KeepingExists ==
    ASSUME NEW k, NEW n \in Nat
    PROVE  \E g : Keeping(k, n, g)
<1> DEFINE T == {m \in Nat : ~ \E g : Keeping(k, m, g)}
<1> SUFFICES ASSUME T # {} PROVE FALSE
  OBVIOUS
<1>0. T \in SUBSET Nat
  OBVIOUS
<1> HIDE DEF T
<1>1. PICK m \in T : \A y \in T : m <= y
  BY <1>0, LeastNat
<1>2. m \in Nat /\ ~ \E g : Keeping(k, m, g)
  BY DEF T
<1>3. CASE m = 0
  <2>1. PICK g : g = [i \in 0 .. 0 |-> <<>>]
    OBVIOUS
  <2>2. Keeping(k, 0, g)
    BY <2>1 DEF Keeping, Turn
  <2> QED
    BY <1>2, <1>3, <2>2
<1>4. CASE m # 0
  <2>1. m - 1 \in Nat /\ m - 1 \notin T
    BY <1>1, <1>2, <1>4
  <2>2. PICK g : Keeping(k, m - 1, g)
    BY <2>1 DEF T
  <2>3. PICK h : h = [i \in 0 .. m |-> Turn(k, g, i)]
    OBVIOUS
  <2>4. \A i \in 0 .. m - 1 : h[i] = g[i]
    <3>1. \A i \in 0 .. m - 1 : g[i] = Turn(k, g, i)
      BY <2>2 DEF Keeping
    <3> QED
      BY <1>2, <2>3, <3>1
  <2>5. ASSUME NEW i \in 0 .. m PROVE h[i] = Turn(k, h, i)
    <3>1. CASE i = 0
      BY <1>2, <2>3, <3>1 DEF Turn
    <3>2. CASE i # 0
      <4>1. h[i - 1] = g[i - 1]
        BY <1>2, <2>4, <3>2
      <4> QED
        BY <2>3, <3>2, <4>1 DEF Turn
    <3> QED
      BY <3>1, <3>2
  <2>6. Keeping(k, m, h)
    BY <2>3, <2>5 DEF Keeping
  <2> QED
    BY <1>2, <2>6
<1> QED
  BY <1>3, <1>4

(* What is left, r, of the first n entries of list.                        *)
Left(k, list, n, r) ==
    /\ Len(r) <= n
    /\ \A a \in 1 .. Len(r) : \E c \in 1 .. n : r[a] = list[c]
    /\ \A a, b \in 1 .. Len(r) : a # b =>
          \E c, d \in 1 .. n : c # d /\ r[a] = list[c] /\ r[b] = list[d]
    /\ \A c \in 1 .. n : Keeps(k, list[c]) => \E a \in 1 .. Len(r) : r[a] = list[c]

LEMMA LoopKeeps ==
    ASSUME NEW k, NEW S, k.shm \in Seq(S), NEW g, Keeping(k, Len(k.shm), g)
    PROVE  \A i \in 0 .. Len(k.shm) : g[i] \in Seq(S) /\ Left(k, k.shm, i, g[i])
<1> DEFINE N == Len(k.shm)
           T == {i \in 0 .. N : ~ (g[i] \in Seq(S) /\ Left(k, k.shm, i, g[i]))}
<1> SUFFICES ASSUME T # {} PROVE FALSE
  OBVIOUS
<1>0. T \in SUBSET Nat /\ N \in Nat /\ T \subseteq 0 .. N
  OBVIOUS
<1> HIDE DEF T
<1>1. PICK i \in T : \A y \in T : i <= y
  BY <1>0, LeastNat
<1>2. i \in 0 .. N /\ ~ (g[i] \in Seq(S) /\ Left(k, k.shm, i, g[i]))
  BY DEF T
<1>3. g[i] = Turn(k, g, i)
  BY <1>2 DEF Keeping
<1>4. CASE i = 0
  <2>1. g[i] = <<>>
    BY <1>3, <1>4 DEF Turn
  <2> QED
    BY <1>2, <1>4, <2>1 DEF Left
<1>5. CASE i # 0
  <2>1. i - 1 \in 0 .. N /\ i - 1 \notin T
    BY <1>0, <1>1, <1>2, <1>5
  <2>2. g[i - 1] \in Seq(S) /\ Left(k, k.shm, i - 1, g[i - 1])
    BY <2>1 DEF T
  <2>3. PICK q, e : q = g[i - 1] /\ e = k.shm[i]
    OBVIOUS
  <2>4. e \in S /\ q \in Seq(S) /\ Len(q) \in Nat /\ i \in Nat
    BY <1>0, <1>2, <1>5, <2>2, <2>3
  <2>5. /\ Len(q) <= i - 1
        /\ \A a \in 1 .. Len(q) : \E c \in 1 .. i - 1 : q[a] = k.shm[c]
        /\ \A a, b \in 1 .. Len(q) : a # b =>
              \E c, d \in 1 .. i - 1 : c # d /\ q[a] = k.shm[c] /\ q[b] = k.shm[d]
        /\ \A c \in 1 .. i - 1 : Keeps(k, k.shm[c]) => \E a \in 1 .. Len(q) : q[a] = k.shm[c]
    BY <2>2, <2>3 DEF Left
  <2>6. CASE Keeps(k, e)
    <3>1. PICK r : r = Append(q, e)
      OBVIOUS
    <3>2. g[i] = r
      BY <1>3, <1>5, <2>3, <2>6, <3>1 DEF Turn
    <3>3. /\ r \in Seq(S) /\ Len(r) = Len(q) + 1 /\ r[Len(q) + 1] = e
          /\ \A a \in 1 .. Len(q) : r[a] = q[a]
      BY <2>4, <3>1, AppendProperties
    <3>4. ASSUME NEW a \in 1 .. Len(r)
          PROVE  a = Len(q) + 1 \/ a \in 1 .. Len(q)
      BY <2>4, <3>3
    <3>5. Len(r) <= i
      BY <2>4, <2>5, <3>3
    <3>6. ASSUME NEW a \in 1 .. Len(r) PROVE \E c \in 1 .. i : r[a] = k.shm[c]
      <4>1. CASE a = Len(q) + 1
        BY <1>5, <2>3, <2>4, <3>3, <4>1
      <4>2. CASE a \in 1 .. Len(q)
        <5>1. PICK c \in 1 .. i - 1 : q[a] = k.shm[c]
          BY <2>5, <4>2
        <5>2. c \in 1 .. i /\ r[a] = q[a]
          BY <2>4, <3>3, <4>2
        <5> QED
          BY <5>1, <5>2
      <4> QED
        BY <3>4, <4>1, <4>2
    <3>7. ASSUME NEW a \in 1 .. Len(r), NEW b \in 1 .. Len(r), a # b
          PROVE  \E c, d \in 1 .. i : c # d /\ r[a] = k.shm[c] /\ r[b] = k.shm[d]
      <4>1. CASE a \in 1 .. Len(q) /\ b \in 1 .. Len(q)
        <5>1. PICK c \in 1 .. i - 1, d \in 1 .. i - 1 :
                 c # d /\ q[a] = k.shm[c] /\ q[b] = k.shm[d]
          BY <2>5, <3>7, <4>1
        <5> QED
          BY <2>4, <3>3, <4>1, <5>1
      <4>2. CASE a \in 1 .. Len(q) /\ b = Len(q) + 1
        <5>1. PICK c \in 1 .. i - 1 : q[a] = k.shm[c]
          BY <2>5, <4>2
        <5>2. c \in 1 .. i /\ i \in 1 .. i /\ c # i /\ r[a] = q[a] /\ r[b] = e
          BY <1>5, <2>4, <3>3, <4>2
        <5> QED
          BY <2>3, <5>1, <5>2
      <4>3. CASE a = Len(q) + 1 /\ b \in 1 .. Len(q)
        <5>1. PICK d \in 1 .. i - 1 : q[b] = k.shm[d]
          BY <2>5, <4>3
        <5>2. d \in 1 .. i /\ i \in 1 .. i /\ d # i /\ r[b] = q[b] /\ r[a] = e
          BY <1>5, <2>4, <3>3, <4>3
        <5> QED
          BY <2>3, <5>1, <5>2
      <4> QED
        BY <3>4, <3>7, <4>1, <4>2, <4>3
    <3>8. ASSUME NEW c \in 1 .. i, Keeps(k, k.shm[c])
          PROVE  \E a \in 1 .. Len(r) : r[a] = k.shm[c]
      <4>1. CASE c = i
        BY <2>3, <2>4, <3>3, <4>1
      <4>2. CASE c # i
        <5>1. PICK a \in 1 .. Len(q) : q[a] = k.shm[c]
          BY <2>4, <2>5, <3>8, <4>2
        <5> QED
          BY <2>4, <3>3, <5>1
      <4> QED
        BY <4>1, <4>2
    <3>9. Left(k, k.shm, i, r)
      BY <3>5, <3>6, <3>7, <3>8 DEF Left
    <3> QED
      BY <1>2, <3>2, <3>3, <3>9
  <2>7. CASE ~ Keeps(k, e)
    <3>1. g[i] = q
      BY <1>3, <1>5, <2>3, <2>7 DEF Turn
    <3>2. ASSUME NEW c \in 1 .. i, Keeps(k, k.shm[c])
          PROVE  \E a \in 1 .. Len(q) : q[a] = k.shm[c]
      <4>1. c # i
        BY <2>3, <2>7, <3>2
      <4> QED
        BY <2>4, <2>5, <3>2, <4>1
    <3>3. Left(k, k.shm, i, q)
      <4>1. Len(q) <= i /\ \A c \in 1 .. i - 1 : c \in 1 .. i
        BY <2>4, <2>5
      <4> QED
        BY <2>5, <3>2, <4>1 DEF Left
    <3> QED
      BY <1>2, <2>4, <3>1, <3>3
  <2> QED
    BY <2>6, <2>7
<1> QED
  BY <1>4, <1>5

LEMMA EntriesLeft ==
    ASSUME NEW k, NEW S, k.shm \in Seq(S)
    PROVE  \E r \in Seq(S) : /\ update_refcount_and_destroy(k) = [k EXCEPT !.shm = r]
                             /\ Left(k, k.shm, Len(k.shm), r)
<1> DEFINE g0 == CHOOSE g : Keeping(k, Len(k.shm), g)
<1>1. update_refcount_and_destroy(k) = [k EXCEPT !.shm = g0[Len(k.shm)]]
  BY DEF update_refcount_and_destroy, Keeping, Turn, Keeps
<1>2. Len(k.shm) \in Nat
  OBVIOUS
<1>3. Keeping(k, Len(k.shm), g0)
  BY <1>2, KeepingExists
<1> HIDE DEF g0
<1>4. g0[Len(k.shm)] \in Seq(S) /\ Left(k, k.shm, Len(k.shm), g0[Len(k.shm)])
  BY <1>2, <1>3, LoopKeeps
<1> QED
  BY <1>1, <1>4

-----------------------------------------------------------------------------
(* What a handler works on.                                                *)
ZeroWaiter == [who : Procs, val : {0}]
UnitWaiter == [who : Procs, val : Nat \ {0}]
Semaphore == [semval : 0 .. USHRT - 1, zlist : Seq(ZeroWaiter), nlist : Seq(UnitWaiter),
              zalloc : BOOLEAN]
SemSet == [key : SemKeys, id : Ids, perm : Perms, sems : Seq(Semaphore)]
Segment == [key : ShmKeys, id : Ids, perm : Perms, dest : BOOLEAN]
Caller == [st : {"unborn", "run", "wait", "exiting", "gone"},
           call : [id : Nat, num : Nat, op : Int]]
Memory == [sem : Seq(SemSet), shm : Seq(Segment), ident : Ids, client : [Procs -> Caller],
           mapped : [Procs -> [Ids -> 0 .. MaxAttach]],
           ledger : [Ids -> [1 .. SEMMSL -> Int]], crashed : BOOLEAN]

(* A handler that leaves alone all but the semaphores of the sets.         *)
SameSets(k, r) ==
    /\ r.shm = k.shm /\ r.mapped = k.mapped /\ r.ident = k.ident
    /\ Len(r.sem) = Len(k.sem)
    /\ \A i \in 1 .. Len(k.sem) :
          /\ r.sem[i].id = k.sem[i].id /\ Len(r.sem[i].sems) = Len(k.sem[i].sems)

LEMMA Constants ==
    /\ U8 \in Nat \ {0} /\ USHRT \in Nat \ {0} /\ SEMVMX \in 0 .. USHRT - 1
    /\ SEMMNI \in Nat /\ SEMMSL \in Nat /\ MAX_SHM_NR \in Nat /\ MaxAttach \in Nat
    /\ MaxValue \in Nat /\ MaxId \in Nat /\ MaxId > 0 /\ Ids \subseteq Nat /\ 1 \in Ids
<1>1. \A n \in {SEMMNI, SEMMSL, SEMOPM, MAX_SHM_NR, MaxId, MaxValue, MaxAttach} : n \in Nat
  BY IPCAssumption
<1>2. MaxId > 0
  BY IPCAssumption
<1>3. Ids \subseteq Nat /\ 1 \in Ids
  BY <1>1, <1>2 DEF Ids
<1> QED
  BY <1>1, <1>2, <1>3, Widths

LEMMA MinIn ==
    ASSUME NEW S \in SUBSET Nat, S # {}
    PROVE  Min(S) \in S /\ \A y \in S : Min(S) <= y
BY LeastNat DEF Min

(* The search in a table.                                                  *)
LEMMA FindId ==
    ASSUME NEW S, NEW list \in Seq(S), NEW id
    PROVE  /\ find_id(list, id) \in 0 .. Len(list)
           /\ find_id(list, id) # 0 => list[find_id(list, id)].id = id
           /\ find_id(list, id) = 0 => \A i \in 1 .. Len(list) : list[i].id # id
<1> DEFINE I == {i \in 1 .. Len(list) : list[i].id = id}
<1>1. find_id(list, id) = IF I # {} THEN Min(I) ELSE 0
  BY DEF find_id, SelectInSeq
<1>2. I \in SUBSET Nat
  OBVIOUS
<1>3. CASE I # {}
  <2>1. Min(I) \in I
    BY <1>2, <1>3, MinIn
  <2> QED
    BY <1>1, <1>3, <2>1
<1>4. CASE I = {}
  BY <1>1, <1>4
<1> QED
  BY <1>3, <1>4

LEMMA FindKey ==
    ASSUME NEW S, NEW list \in Seq(S), NEW key, find_key(list, key) = 0, key # IPC_PRIVATE
    PROVE  \A i \in 1 .. Len(list) : list[i].key # key
<1> DEFINE I == {i \in 1 .. Len(list) : list[i].key = key}
<1>1. find_key(list, key) = IF I # {} THEN Min(I) ELSE 0
  BY DEF find_key, SelectInSeq
<1>2. I \in SUBSET Nat
  OBVIOUS
<1>3. CASE I # {}
  <2>1. Min(I) \in I
    BY <1>2, <1>3, MinIn
  <2> QED
    BY <1>1, <1>3, <2>1
<1> QED
  BY <1>3

(* A sequence without one of its elements.                                 *)
LEMMA Removed ==
    ASSUME NEW S, NEW s \in Seq(S), NEW j \in 1 .. Len(s)
    PROVE  /\ RemoveAt(s, j) \in Seq(S) /\ Len(RemoveAt(s, j)) = Len(s) - 1
           /\ \A i \in 1 .. Len(s) - 1 : RemoveAt(s, j)[i] = IF i < j THEN s[i] ELSE s[i + 1]
<1> DEFINE a == SubSeq(s, 1, j - 1)
           b == SubSeq(s, j + 1, Len(s))
<1>1. RemoveAt(s, j) = a \o b
  BY DEF RemoveAt
<1>2. a \in Seq(S) /\ Len(a) = j - 1 /\ \A i \in 1 .. j - 1 : a[i] = s[i]
  <2>1. \A i \in 1 .. j - 1 : s[i] \in S
    OBVIOUS
  <2>2. /\ SubSeq(s, 1, j - 1) \in Seq(S)
        /\ Len(SubSeq(s, 1, j - 1)) = IF 1 <= j - 1 THEN j - 1 - 1 + 1 ELSE 0
        /\ \A i \in 1 .. (j - 1) - 1 + 1 : SubSeq(s, 1, j - 1)[i] = s[1 + i - 1]
    BY <2>1, SubSeqProperties
  <2> QED
    BY <2>2
<1>3. b \in Seq(S) /\ Len(b) = Len(s) - j /\ \A i \in 1 .. Len(s) - j : b[i] = s[j + i]
  <2>1. \A i \in j + 1 .. Len(s) : s[i] \in S
    OBVIOUS
  <2>2. /\ SubSeq(s, j + 1, Len(s)) \in Seq(S)
        /\ Len(SubSeq(s, j + 1, Len(s))) = IF j + 1 <= Len(s) THEN Len(s) - (j + 1) + 1 ELSE 0
        /\ \A i \in 1 .. Len(s) - (j + 1) + 1 : SubSeq(s, j + 1, Len(s))[i] = s[j + 1 + i - 1]
    BY <2>1, SubSeqProperties
  <2> QED
    BY <2>2
<1> HIDE DEF a, b
<1>4. /\ a \o b \in Seq(S) /\ Len(a \o b) = Len(a) + Len(b)
      /\ \A i \in 1 .. Len(a) + Len(b) : (a \o b)[i] = IF i <= Len(a) THEN a[i] ELSE b[i - Len(a)]
  BY <1>2, <1>3, ConcatProperties
<1> QED
  BY <1>1, <1>2, <1>3, <1>4

(* A function on 1 .. n is a sequence.                                     *)
LEMMA AsSequence ==
    ASSUME NEW S, NEW n \in Nat, NEW f \in [1 .. n -> S]
    PROVE  f \in Seq(S) /\ Len(f) = n /\ DOMAIN f = 1 .. n
OBVIOUS

(* The first waiting process that is served.                               *)
LEMMA FirstServedIn ==
    ASSUME NEW s \in Semaphore
    PROVE  /\ FirstServed(s) \in 0 .. Len(s.nlist)
           /\ FirstServed(s) # 0 => s.nlist[FirstServed(s)].val <= s.semval
<1> DEFINE I == {i \in 1 .. Len(s.nlist) : s.nlist[i].val <= s.semval}
<1>0. s.nlist \in Seq(UnitWaiter)
  BY DEF Semaphore
<1>1. FirstServed(s) = IF I # {} THEN Min(I) ELSE 0
  BY DEF FirstServed, SelectInSeq
<1>2. I \in SUBSET Nat
  BY <1>0
<1>3. CASE I # {}
  <2>1. Min(I) \in I
    BY <1>2, <1>3, MinIn
  <2> QED
    BY <1>0, <1>1, <1>3, <2>1
<1>4. CASE I = {}
  BY <1>0, <1>1, <1>4
<1> QED
  BY <1>3, <1>4

(* One semaphore's waiting processes are looked at.                        *)
LEMMA OneUpdated ==
    ASSUME NEW s \in Semaphore, ~ Overrun(s)
    PROVE  LET j == FirstServed(s)
               u == update_one(s)
           IN  /\ u \in Semaphore /\ u.zalloc = s.zalloc
               /\ ZeroServed(s) => s.zlist # <<>> /\ u.zlist = Tail(s.zlist)
               /\ ~ ZeroServed(s) => u.zlist = s.zlist
               /\ j = 0 => u.nlist = s.nlist /\ u.semval = s.semval
               /\ j # 0 => /\ u.nlist = RemoveAt(s.nlist, j)
                           /\ u.semval = s.semval - s.nlist[j].val
<1> DEFINE j == FirstServed(s)
           z == IF ZeroServed(s) THEN Tail(s.zlist) ELSE s.zlist
           n == IF j = 0 THEN s.nlist ELSE RemoveAt(s.nlist, j)
           v == IF j = 0 THEN s.semval ELSE s.semval - s.nlist[j].val
<1>0. /\ s.zlist \in Seq(ZeroWaiter) /\ s.nlist \in Seq(UnitWaiter)
      /\ s.semval \in 0 .. USHRT - 1 /\ s.zalloc \in BOOLEAN
      /\ s = [semval |-> s.semval, zlist |-> s.zlist, nlist |-> s.nlist, zalloc |-> s.zalloc]
  BY DEF Semaphore
<1>1. update_one(s) = [s EXCEPT !.zlist = z, !.nlist = n, !.semval = v]
  BY DEF update_one
<1>2. j \in 0 .. Len(s.nlist) /\ (j # 0 => s.nlist[j].val <= s.semval)
  BY FirstServedIn
<1>3. ZeroServed(s) => s.zlist # <<>>
  BY DEF Overrun
<1>4. z \in Seq(ZeroWaiter)
  BY <1>0, <1>3, HeadTailProperties
<1>5. n \in Seq(UnitWaiter)
  BY <1>0, <1>2, Removed
<1>6. v \in 0 .. USHRT - 1
  <2>1. CASE j # 0
    <3>1. s.nlist[j] \in UnitWaiter
      BY <1>0, <1>2, <2>1
    <3>2. s.nlist[j].val \in Nat
      BY <3>1 DEF UnitWaiter
    <3>3. PICK x : x = s.nlist[j].val
      OBVIOUS
    <3>4. x \in Nat /\ x <= s.semval /\ v = s.semval - x
      BY <1>2, <2>1, <3>2, <3>3
    <3> HIDE DEF v
    <3> QED
      BY <1>0, <3>4, Widths
  <2> QED
    BY <1>0, <2>1
<1> HIDE DEF j, z, n, v
<1>7. update_one(s) = [semval |-> v, zlist |-> z, nlist |-> n, zalloc |-> s.zalloc]
  <2>1. PICK y : y = [s EXCEPT !.zlist = z, !.nlist = n, !.semval = v]
    OBVIOUS
  <2>2. y = [semval |-> v, zlist |-> z, nlist |-> n, zalloc |-> s.zalloc]
    BY <1>0, <2>1
  <2> QED
    BY <1>1, <2>1, <2>2
<1>8. update_one(s) \in Semaphore
  BY <1>0, <1>4, <1>5, <1>6, <1>7 DEF Semaphore
<1> QED
  BY <1>3, <1>7, <1>8 DEF j, z, n, v

(* A set whose semaphores are replaced.                                    *)
LEMMA NewSems ==
    ASSUME NEW sem \in SemSet, NEW q \in Seq(Semaphore)
    PROVE  /\ [sem EXCEPT !.sems = q] \in SemSet /\ [sem EXCEPT !.sems = q].sems = q
           /\ [sem EXCEPT !.sems = q].id = sem.id
BY DEF SemSet

(* An answer changes nothing but the state of the waiting process.         *)
LEMMA Answered ==
    ASSUME NEW k \in Memory, NEW whos
    PROVE  LET r == send_message_to_process(k, whos)
           IN  /\ r \in Memory /\ r.sem = k.sem /\ r.shm = k.shm /\ r.ident = k.ident
               /\ r.mapped = k.mapped /\ r.ledger = k.ledger /\ r.crashed = k.crashed
               /\ \A p \in Procs : r.client[p] =
                     IF p \in whos /\ k.client[p].st = "wait" THEN Client("run") ELSE k.client[p]
<1> DEFINE c == [p \in Procs |->
                  IF p \in whos /\ k.client[p].st = "wait" THEN Client("run") ELSE k.client[p]]
<1>1. send_message_to_process(k, whos) = [k EXCEPT !.client = c]
  BY DEF send_message_to_process
<1>2. Client("run") \in Caller
  BY DEF Client, Caller, NoCall
<1>3. c \in [Procs -> Caller]
  BY <1>2 DEF Memory
<1>4. \A p \in Procs : c[p] =
                     IF p \in whos /\ k.client[p].st = "wait" THEN Client("run") ELSE k.client[p]
  OBVIOUS
<1> HIDE DEF c
<1>5. PICK r : r = [k EXCEPT !.client = c]
  OBVIOUS
<1>6. /\ r \in Memory /\ r.sem = k.sem /\ r.shm = k.shm /\ r.ident = k.ident
      /\ r.mapped = k.mapped /\ r.ledger = k.ledger /\ r.crashed = k.crashed
      /\ r.client = c
  BY <1>3, <1>5 DEF Memory
<1> QED
  BY <1>1, <1>4, <1>5, <1>6

(* A sum of integers is one.                                               *)
LEMMA SumInt ==
    ASSUME NEW w, NEW S, IsFiniteSet(S), NEW g, Adding(w, S, g), \A p \in S : w[p] \in Int
    PROVE  g[S] \in Int
<1> DEFINE T == {n \in Nat : \E s \in SUBSET S : Cardinality(s) = n /\ ~ (g[s] \in Int)}
<1>1. T = {}
  <2> SUFFICES ASSUME T # {} PROVE FALSE
    OBVIOUS
  <2>0. T \in SUBSET Nat
    OBVIOUS
  <2> HIDE DEF T
  <2>1. PICK n \in T : \A y \in T : n <= y
    BY <2>0, LeastNat
  <2>2. PICK s \in SUBSET S : Cardinality(s) = n /\ ~ (g[s] \in Int)
    BY DEF T
  <2>3. s # {}
    BY <2>2, SumStep
  <2>4. \E x \in s, r \in SUBSET S :
           /\ r = s \ {x} /\ Cardinality(s) # 0 /\ Cardinality(r) = Cardinality(s) - 1
           /\ g[s] = w[x] + g[r]
    BY <2>3, SumStep
  <2>5. PICK x \in s, r \in SUBSET S : n # 0 /\ Cardinality(r) = n - 1 /\ g[s] = w[x] + g[r]
    BY <2>2, <2>4
  <2>6. n - 1 \in Nat /\ n - 1 \notin T
    BY <2>0, <2>1, <2>5
  <2>7. g[r] \in Int
    BY <2>5, <2>6 DEF T
  <2> QED
    BY <2>2, <2>5, <2>7
<1>2. Cardinality(S) \in Nat
  BY FS_CardinalityType
<1> QED
  BY <1>1, <1>2

(* The history of the answers: what the sum over the processes told adds.  *)
OpOf(k) == [p \in Procs |-> k.client[p].call.op]

Told(k, whos, id, n) ==
    {p \in {q \in whos : k.client[q].st = "wait"} :
        k.client[p].call.id = id /\ k.client[p].call.num = n}

LEMMA BookedSum ==
    ASSUME NEW k \in Memory, NEW whos \in SUBSET Procs, NEW r, r = Booked(k, whos)
    PROVE  /\ r \in Memory /\ r.sem = k.sem /\ r.shm = k.shm /\ r.ident = k.ident
           /\ r.mapped = k.mapped /\ r.client = k.client /\ r.crashed = k.crashed
           /\ \A id \in Ids, n \in 1 .. SEMMSL : \E g :
                 /\ Adding(OpOf(k), Told(k, whos, id, n), g)
                 /\ r.ledger[id][n] = k.ledger[id][n] + g[Told(k, whos, id, n)]
<1> DEFINE w == [p \in Procs |-> k.client[p].call.op]
           Body(S, g) == [s \in SUBSET S |->
                        IF s = {} THEN 0
                        ELSE k.client[Pick(s)].call.op + g[s \ {Pick(s)}]]
           sum(S) == (CHOOSE g : g = Body(S, g))[S]
           l == [id \in Ids |-> [n \in 1 .. SEMMSL |->
                   k.ledger[id][n] + sum(Told(k, whos, id, n))]]
<1>1. Booked(k, whos) = [k EXCEPT !.ledger = l]
  BY DEF Booked, Told, Pick, MapThenSumSet, MapThenFoldSet
<1>2. ASSUME NEW S \in SUBSET Procs
      PROVE  \E g : Adding(w, S, g) /\ sum(S) = g[S] /\ g[S] \in Int
  <2>0. IsFiniteSet(S)
    BY IPCAssumption, FS_Subset
  <2>1. ASSUME NEW g PROVE Body(S, g) = [s \in SUBSET S |-> Added(w, g, s)]
    <3>1. ASSUME NEW s \in SUBSET S, s # {} PROVE w[Pick(s)] = k.client[Pick(s)].call.op
      <4>1. Pick(s) \in Procs
        BY <2>0, <3>1, SmallerSet
      <4> QED
        BY <4>1
    <3> QED
      BY <3>1 DEF Added
  <2>2. PICK g : Adding(w, S, g)
    BY <2>0, SumExists
  <2>3. g = Body(S, g)
    BY <2>1, <2>2 DEF Adding
  <2>4. PICK g0 : g0 = (CHOOSE h : h = Body(S, h))
    OBVIOUS
  <2>5. g0 = Body(S, g0)
    BY <2>3, <2>4
  <2>6. Adding(w, S, g0)
    BY <2>1, <2>5 DEF Adding
  <2>7. \A p \in S : w[p] \in Int
    BY DEF Memory, Caller
  <2> HIDE DEF w
  <2>8. g0[S] \in Int
    BY <2>0, <2>6, <2>7, SumInt
  <2> QED
    BY <2>4, <2>6, <2>8
<1> HIDE DEF sum, w
<1>3. ASSUME NEW id \in Ids, NEW n \in 1 .. SEMMSL
      PROVE  /\ \E g : /\ Adding(w, Told(k, whos, id, n), g)
                       /\ l[id][n] = k.ledger[id][n] + g[Told(k, whos, id, n)]
             /\ l[id][n] \in Int
  <2>1. PICK S : S = Told(k, whos, id, n)
    OBVIOUS
  <2>2. S \in SUBSET Procs
    BY <2>1 DEF Told
  <2>3. l[id][n] = k.ledger[id][n] + sum(S)
    BY <2>1
  <2>4. k.ledger[id][n] \in Int
    BY DEF Memory
  <2> QED
    BY <1>2, <2>1, <2>2, <2>3, <2>4
<1>4. l \in [Ids -> [1 .. SEMMSL -> Int]]
  BY <1>3
<1> HIDE DEF l
<1>5. r = [k EXCEPT !.ledger = l]
  BY <1>1
<1>6. /\ r \in Memory /\ r.sem = k.sem /\ r.shm = k.shm /\ r.ident = k.ident
      /\ r.mapped = k.mapped /\ r.client = k.client /\ r.crashed = k.crashed
      /\ r.ledger = l
  BY <1>4, <1>5 DEF Memory
<1>7. \A id \in Ids, n \in 1 .. SEMMSL : \E g :
         /\ Adding(w, Told(k, whos, id, n), g)
         /\ r.ledger[id][n] = k.ledger[id][n] + g[Told(k, whos, id, n)]
  BY <1>3, <1>6
<1> QED
  BY <1>6, <1>7, Zenon DEF w, OpOf

-----------------------------------------------------------------------------
(* update_semaphores.                                                      *)
Every(k) == UNION {ToSet(k.sem[i].sems) : i \in 1 .. Len(k.sem)}
Woken(k) == UNION {WokenBy(s) : s \in Every(k)}

(* The entries of a table, semaphore by semaphore.                         *)
LEMMA Sems ==
    ASSUME NEW k \in Memory, NEW i \in 1 .. Len(k.sem)
    PROVE  /\ k.sem \in Seq(SemSet) /\ k.sem[i] \in SemSet /\ k.sem[i].sems \in Seq(Semaphore)
           /\ DOMAIN k.sem = 1 .. Len(k.sem) /\ Len(k.sem) \in Nat
           /\ DOMAIN k.sem[i].sems = 1 .. Len(k.sem[i].sems) /\ Len(k.sem[i].sems) \in Nat
           /\ \A n \in 1 .. Len(k.sem[i].sems) : k.sem[i].sems[n] \in Semaphore
<1>1. k.sem \in Seq(SemSet)
  BY DEF Memory
<1>2. k.sem[i] \in SemSet
  BY <1>1
<1>3. k.sem[i].sems \in Seq(Semaphore)
  BY <1>2 DEF SemSet
<1> QED
  BY <1>1, <1>2, <1>3

LEMMA EveryIs ==
    ASSUME NEW k \in Memory
    PROVE  \A s : s \in Every(k) <=> \E i \in 1 .. Len(k.sem) :
              \E n \in 1 .. Len(k.sem[i].sems) : s = k.sem[i].sems[n]
<1>1. ASSUME NEW i \in 1 .. Len(k.sem)
      PROVE  ToSet(k.sem[i].sems) = {k.sem[i].sems[n] : n \in 1 .. Len(k.sem[i].sems)}
  BY Sems DEF ToSet
<1>2. ASSUME NEW s, s \in Every(k)
      PROVE  \E i \in 1 .. Len(k.sem) : \E n \in 1 .. Len(k.sem[i].sems) : s = k.sem[i].sems[n]
  <2>1. PICK i \in 1 .. Len(k.sem) : s \in ToSet(k.sem[i].sems)
    BY <1>2 DEF Every
  <2> QED
    BY <1>1, <2>1
<1>3. ASSUME NEW i \in 1 .. Len(k.sem), NEW n \in 1 .. Len(k.sem[i].sems)
      PROVE  k.sem[i].sems[n] \in Every(k)
  <2>1. k.sem[i].sems[n] \in ToSet(k.sem[i].sems)
    BY <1>1
  <2> QED
    BY <2>1 DEF Every
<1> QED
  BY <1>2, <1>3

(* Everybody who can go on is woken; nobody else hears of it.              *)
Served(k, r) ==
    /\ r.crashed = k.crashed /\ Woken(k) \in SUBSET Procs
    /\ \A i \in 1 .. Len(k.sem) : \A n \in 1 .. Len(k.sem[i].sems) :
          /\ ~ Overrun(k.sem[i].sems[n])
          /\ r.sem[i].sems[n] = update_one(k.sem[i].sems[n])
    /\ \A p \in Procs : r.client[p] =
          IF p \in Woken(k) /\ k.client[p].st = "wait" THEN Client("run") ELSE k.client[p]
    /\ \A id \in Ids, n \in 1 .. SEMMSL : \E g :
          /\ Adding(OpOf(k), Told(k, Woken(k), id, n), g)
          /\ r.ledger[id][n] = k.ledger[id][n] + g[Told(k, Woken(k), id, n)]

(* Or IPC reads beyond a list, and nothing more is said of it.             *)
Stopped(k, r) == r.sem = k.sem /\ r.client = k.client /\ r.ledger = k.ledger /\ r.crashed

LEMMA WokenProcs ==
    ASSUME NEW s \in Semaphore, ~ Overrun(s)
    PROVE  /\ WokenBy(s) \in SUBSET Procs
           /\ \A p : p \in WokenBy(s) <=>
                 \/ ZeroServed(s) /\ p = s.zlist[1].who
                 \/ FirstServed(s) # 0 /\ p = s.nlist[FirstServed(s)].who
           /\ ZeroServed(s) => s.zlist \in Seq(ZeroWaiter) /\ Len(s.zlist) \in Nat \ {0}
<1>0. s.zlist \in Seq(ZeroWaiter) /\ s.nlist \in Seq(UnitWaiter)
  BY DEF Semaphore
<1>1. ZeroServed(s) => s.zlist # <<>> /\ Len(s.zlist) \in Nat \ {0} /\ Head(s.zlist) = s.zlist[1]
  BY <1>0, EmptySeq DEF Overrun
<1>2. ZeroServed(s) => s.zlist[1].who \in Procs
  <2>1. ASSUME ZeroServed(s) PROVE s.zlist[1] \in ZeroWaiter
    BY <1>0, <1>1, <2>1
  <2> QED
    BY <2>1 DEF ZeroWaiter
<1>3. FirstServed(s) # 0 => s.nlist[FirstServed(s)].who \in Procs
  <2>1. ASSUME FirstServed(s) # 0 PROVE s.nlist[FirstServed(s)] \in UnitWaiter
    BY <1>0, <2>1, FirstServedIn
  <2> QED
    BY <2>1 DEF UnitWaiter
<1>4. \A p : p \in WokenBy(s) <=>
                 \/ ZeroServed(s) /\ p = s.zlist[1].who
                 \/ FirstServed(s) # 0 /\ p = s.nlist[FirstServed(s)].who
  BY <1>1 DEF WokenBy
<1> QED
  BY <1>0, <1>1, <1>2, <1>3, <1>4

LEMMA Updated ==
    ASSUME NEW k \in Memory, NEW r, r = update_semaphores(k)
    PROVE  /\ r \in Memory /\ SameSets(k, r)
           /\ Served(k, r) \/ Stopped(k, r)
<1>1. CASE \E s \in Every(k) : Overrun(s)
  <2>1. r = [k EXCEPT !.crashed = TRUE]
    BY <1>1 DEF update_semaphores, Every
  <2> QED
    BY <2>1 DEF Memory, SameSets, Stopped
<1>2. CASE ~ \E s \in Every(k) : Overrun(s)
  <2> DEFINE q(i) == [n \in DOMAIN k.sem[i].sems |-> update_one(k.sem[i].sems[n])]
             t == [i \in DOMAIN k.sem |-> [k.sem[i] EXCEPT !.sems = q(i)]]
             served == [k EXCEPT !.sem = t]
  <2>1. r = send_message_to_process(Booked(served, Woken(k)), Woken(k))
    <3>1. update_semaphores(k) =
             IF \E s \in Every(k) : Overrun(s) THEN [k EXCEPT !.crashed = TRUE]
             ELSE send_message_to_process(Booked(served, Woken(k)), Woken(k))
      BY DEF update_semaphores, update_set, Every, Woken
    <3> HIDE DEF served
    <3> QED
      BY <1>2, <3>1
  <2>2. ASSUME NEW i \in 1 .. Len(k.sem)
        PROVE  /\ q(i) \in Seq(Semaphore) /\ Len(q(i)) = Len(k.sem[i].sems)
               /\ \A n \in 1 .. Len(k.sem[i].sems) :
                     /\ k.sem[i].sems[n] \in Semaphore /\ ~ Overrun(k.sem[i].sems[n])
                     /\ q(i)[n] = update_one(k.sem[i].sems[n])
    <3>1. ASSUME NEW n \in 1 .. Len(k.sem[i].sems)
          PROVE  /\ k.sem[i].sems[n] \in Semaphore /\ ~ Overrun(k.sem[i].sems[n])
                 /\ q(i)[n] = update_one(k.sem[i].sems[n]) /\ q(i)[n] \in Semaphore
      <4>1. k.sem[i].sems[n] \in Semaphore /\ n \in DOMAIN k.sem[i].sems
        BY Sems
      <4>2. ~ Overrun(k.sem[i].sems[n])
        BY <1>2, EveryIs
      <4>3. update_one(k.sem[i].sems[n]) \in Semaphore
        BY <4>1, <4>2, OneUpdated
      <4> QED
        BY <4>1, <4>2, <4>3
    <3>2. q(i) \in [1 .. Len(k.sem[i].sems) -> Semaphore] /\ Len(k.sem[i].sems) \in Nat
      BY <3>1, Sems
    <3> HIDE DEF q
    <3> QED
      BY <3>1, <3>2, AsSequence
  <2>3. ASSUME NEW i \in 1 .. Len(k.sem)
        PROVE  t[i] \in SemSet /\ t[i].id = k.sem[i].id /\ t[i].sems = q(i)
    <3>1. t[i] = [k.sem[i] EXCEPT !.sems = q(i)]
      BY Sems
    <3> HIDE DEF t, q
    <3> QED
      BY <2>2, <3>1, Sems, NewSems
  <2>4. t \in Seq(SemSet) /\ Len(t) = Len(k.sem)
    <3>1. k.sem \in Seq(SemSet) /\ Len(k.sem) \in Nat /\ DOMAIN k.sem = 1 .. Len(k.sem)
      BY DEF Memory
    <3>2. t \in [1 .. Len(k.sem) -> SemSet]
      BY <2>3, <3>1
    <3> HIDE DEF t
    <3> QED
      BY <3>1, <3>2, AsSequence
  <2> HIDE DEF t, q
  <2>5. /\ served \in Memory /\ served.sem = t /\ served.shm = k.shm /\ served.ident = k.ident
        /\ served.mapped = k.mapped /\ served.client = k.client /\ served.ledger = k.ledger
        /\ served.crashed = k.crashed
    BY <2>4 DEF Memory
  <2>6. Woken(k) \in SUBSET Procs
    <3>1. ASSUME NEW s \in Every(k) PROVE WokenBy(s) \in SUBSET Procs
      <4>1. s \in Semaphore /\ ~ Overrun(s)
        BY <1>2, EveryIs, Sems
      <4> QED
        BY <4>1, WokenProcs
    <3> QED
      BY <3>1 DEF Woken
  <2> HIDE DEF served
  <2>7. PICK b : b = Booked(served, Woken(k))
    OBVIOUS
  <2>a. \A id \in Ids, n \in 1 .. SEMMSL : \E g :
           /\ Adding(OpOf(served), Told(served, Woken(k), id, n), g)
           /\ b.ledger[id][n] = served.ledger[id][n] + g[Told(served, Woken(k), id, n)]
    BY <2>5, <2>6, <2>7, BookedSum
  <2>8. /\ b \in Memory /\ b.sem = t /\ b.shm = k.shm /\ b.ident = k.ident
        /\ b.mapped = k.mapped /\ b.client = k.client /\ b.crashed = k.crashed
    BY <2>5, <2>6, <2>7, BookedSum
  <2>9. ASSUME NEW id \in Ids, NEW n \in 1 .. SEMMSL
        PROVE  \E g : /\ Adding(OpOf(k), Told(k, Woken(k), id, n), g)
                      /\ b.ledger[id][n] = k.ledger[id][n] + g[Told(k, Woken(k), id, n)]
    <3>1. Told(served, Woken(k), id, n) = Told(k, Woken(k), id, n)
      BY <2>5 DEF Told
    <3>2. OpOf(served) = OpOf(k)
      BY <2>5 DEF OpOf
    <3>3. \E g : /\ Adding(OpOf(served), Told(served, Woken(k), id, n), g)
                 /\ b.ledger[id][n] = served.ledger[id][n] + g[Told(served, Woken(k), id, n)]
      BY <2>a
    <3> QED
      BY <2>5, <3>1, <3>2, <3>3
  <2>10. r = send_message_to_process(b, Woken(k))
    BY <2>1, <2>7
  <2>11. /\ r \in Memory /\ r.sem = t /\ r.shm = k.shm /\ r.ident = k.ident
         /\ r.mapped = k.mapped /\ r.ledger = b.ledger /\ r.crashed = k.crashed
         /\ \A p \in Procs : r.client[p] =
               IF p \in Woken(k) /\ k.client[p].st = "wait" THEN Client("run") ELSE k.client[p]
    BY <2>8, <2>10, Answered
  <2>12. SameSets(k, r)
    BY <2>2, <2>3, <2>4, <2>11 DEF SameSets
  <2>13. Served(k, r)
    BY <2>2, <2>3, <2>6, <2>9, <2>11 DEF Served
  <2> QED
    BY <2>11, <2>12, <2>13
<1> QED
  BY <1>1, <1>2

-----------------------------------------------------------------------------
(* The calls on semaphores.                                                *)

(* A call that writes the semaphores of one set, the history and the state *)
(* of the clients.                                                         *)
Written(k, r, i, q, l, c) ==
    /\ r \in Memory /\ SameSets(k, r) /\ r.crashed = k.crashed
    /\ r.sem[i].sems = q /\ r.ledger = l /\ r.client = c
    /\ \A j \in 1 .. Len(k.sem) : j # i => r.sem[j] = k.sem[j]

LEMMA Write ==
    ASSUME NEW k \in Memory, NEW i \in 1 .. Len(k.sem),
           NEW q \in Seq(Semaphore), Len(q) = Len(k.sem[i].sems),
           NEW l \in [Ids -> [1 .. SEMMSL -> Int]], NEW c \in [Procs -> Caller],
           NEW r, r = [k EXCEPT !.sem = [k.sem EXCEPT ![i] = [k.sem[i] EXCEPT !.sems = q]],
                                !.ledger = l, !.client = c]
    PROVE  Written(k, r, i, q, l, c)
<1>1. PICK e : e = [k.sem[i] EXCEPT !.sems = q]
  OBVIOUS
<1>2. e \in SemSet /\ e.sems = q /\ e.id = k.sem[i].id
  BY <1>1, Sems, NewSems
<1>3. PICK t : t = [k.sem EXCEPT ![i] = e]
  OBVIOUS
<1>4. /\ t \in Seq(SemSet) /\ Len(t) = Len(k.sem)
      /\ \A j \in 1 .. Len(k.sem) : t[j] = IF j = i THEN e ELSE k.sem[j]
  BY <1>2, <1>3, Sems, ExceptSeq
<1>5. PICK x : x = [k EXCEPT !.sem = t]
  OBVIOUS
<1>6. PICK y : y = [x EXCEPT !.ledger = l]
  OBVIOUS
<1>7. x \in Memory /\ x.sem = t /\ x.shm = k.shm /\ x.ident = k.ident /\ x.mapped = k.mapped
      /\ x.crashed = k.crashed
  BY <1>4, <1>5 DEF Memory
<1>8. y \in Memory /\ y.sem = t /\ y.shm = k.shm /\ y.ident = k.ident /\ y.mapped = k.mapped
      /\ y.crashed = k.crashed /\ y.ledger = l
  BY <1>6, <1>7 DEF Memory
<1>9. r = [y EXCEPT !.client = c]
  BY <1>1, <1>3, <1>5, <1>6 DEF Memory
<1>10. r \in Memory /\ r.sem = t /\ r.shm = k.shm /\ r.ident = k.ident /\ r.mapped = k.mapped
      /\ r.crashed = k.crashed /\ r.ledger = l /\ r.client = c
  BY <1>8, <1>9 DEF Memory
<1> QED
  BY <1>2, <1>4, <1>10 DEF Written, SameSets

LEMMA MemoryFields ==
    ASSUME NEW k \in Memory
    PROVE  /\ k.sem \in Seq(SemSet) /\ k.shm \in Seq(Segment) /\ k.ident \in Ids
           /\ k.client \in [Procs -> Caller] /\ k.crashed \in BOOLEAN
           /\ k.mapped \in [Procs -> [Ids -> 0 .. MaxAttach]]
           /\ k.ledger \in [Ids -> [1 .. SEMMSL -> Int]]
           /\ k = [sem |-> k.sem, shm |-> k.shm, ident |-> k.ident, client |-> k.client,
                   mapped |-> k.mapped, ledger |-> k.ledger, crashed |-> k.crashed]
BY DEF Memory

LEMMA HoldingValue ==
    ASSUME NEW s \in Semaphore, NEW v \in 0 .. USHRT - 1
    PROVE  /\ [s EXCEPT !.semval = v] \in Semaphore /\ [s EXCEPT !.semval = v].semval = v
           /\ [s EXCEPT !.semval = v].zlist = s.zlist /\ [s EXCEPT !.semval = v].nlist = s.nlist
BY DEF Semaphore

(* SETVAL.                                                                 *)
LEMMA Assigned ==
    ASSUME NEW k \in Memory, NEW i \in 1 .. Len(k.sem), NEW n \in 1 .. Len(k.sem[i].sems),
           n \in 1 .. SEMMSL, NEW val \in 0 .. USHRT - 1, NEW r, r = Assign(k, i, n, val)
    PROVE  Written(k, r, i, [k.sem[i].sems EXCEPT ![n] = [@ EXCEPT !.semval = val]],
                   [k.ledger EXCEPT ![k.sem[i].id] = [@ EXCEPT ![n] = val]], k.client)
<1>1. PICK s : s = [k.sem[i].sems[n] EXCEPT !.semval = val]
  OBVIOUS
<1>2. s \in Semaphore
  BY <1>1, Sems, HoldingValue
<1>3. PICK q : q = [k.sem[i].sems EXCEPT ![n] = s]
  OBVIOUS
<1>4. q \in Seq(Semaphore) /\ Len(q) = Len(k.sem[i].sems)
  BY <1>2, <1>3, Sems, ExceptSeq
<1>5. k.sem[i].id \in Ids
  BY Sems DEF SemSet
<1>6. PICK l : l = [k.ledger EXCEPT ![k.sem[i].id] = [k.ledger[k.sem[i].id] EXCEPT ![n] = val]]
  OBVIOUS
<1>7. l \in [Ids -> [1 .. SEMMSL -> Int]]
  BY <1>5, <1>6, MemoryFields
<1>8. r = [k EXCEPT !.sem = [k.sem EXCEPT ![i] = [k.sem[i] EXCEPT !.sems = q]],
                    !.ledger = l, !.client = k.client]
  BY <1>1, <1>3, <1>6, MemoryFields DEF Assign
<1>9. Written(k, r, i, q, l, k.client)
  BY <1>4, <1>7, <1>8, MemoryFields, Write
<1> QED
  BY <1>1, <1>3, <1>6, <1>9

ValueSet(k, r, i, n, val) ==
    /\ n \in 1 .. Len(k.sem[i].sems) /\ val \in 0 .. USHRT - 1
    /\ r = update_semaphores(Assign(k, i, n, val))

LEMMA SetOne ==
    ASSUME NEW k \in Memory, NEW p, NEW id, NEW n \in 1 .. SEMMSL, NEW val \in SetVals,
           NEW r, r = setval(k, p, id, n, val)
    PROVE  r = k \/ \E i \in 1 .. Len(k.sem) : ValueSet(k, r, i, n, val)
<1> SUFFICES ASSUME r # k PROVE \E i \in 1 .. Len(k.sem) : ValueSet(k, r, i, n, val)
  OBVIOUS
<1>1. PICK i : i = find_id(k.sem, id)
  OBVIOUS
<1>2. /\ i # 0 /\ ~ (n > Len(k.sem[i].sems)) /\ ~ (val > SEMVMX)
      /\ r = update_semaphores(Assign(k, i, n, val))
  BY <1>1 DEF setval
<1>3. i \in 1 .. Len(k.sem)
  BY <1>1, <1>2, FindId, MemoryFields
<1>4. Len(k.sem[i].sems) \in Nat /\ SEMMSL \in Nat
  BY <1>3, Sems, Constants
<1>5. n \in 1 .. Len(k.sem[i].sems)
  BY <1>2, <1>4
<1>6. val \in Nat
  BY IPCAssumption
<1>7. val \in 0 .. USHRT - 1
  BY <1>2, <1>6, Constants
<1> QED
  BY <1>2, <1>3, <1>5, <1>7 DEF ValueSet

(* SETALL: the semaphores up to the first value out of range.              *)
GivenAll(k, x, i, q, l) ==
    /\ Written(k, x, i, q, l, k.client)
    /\ \A n \in 1 .. Len(k.sem[i].sems) : \E v \in 0 .. USHRT - 1 :
          /\ q[n] = [k.sem[i].sems[n] EXCEPT !.semval = v]
          /\ \/ v = k.sem[i].sems[n].semval
                /\ l[k.sem[i].id][n] = k.ledger[k.sem[i].id][n]
             \/ v = l[k.sem[i].id][n]
    /\ \A d \in Ids : d # k.sem[i].id => l[d] = k.ledger[d]

LEMMA AllSet ==
    ASSUME NEW k \in Memory, NEW p, NEW id, NEW buf \in SetAlls, NEW r,
           r = setall(k, p, id, buf), \A i \in 1 .. Len(k.sem) : Len(k.sem[i].sems) < SEMMSL
    PROVE  \/ r = k
           \/ \E i \in 1 .. Len(k.sem) : \E q, l, x :
                 r = update_semaphores(x) /\ GivenAll(k, x, i, q, l)
<1> DEFINE i == find_id(k.sem, id)
           good == {n \in 1 .. Len(k.sem[i].sems) : \A m \in 1 .. n : buf[m] <= SEMVMX}
           new(n, old) == IF n \in good THEN buf[n] ELSE old
           q == [n \in DOMAIN k.sem[i].sems |->
                   Holding(k.sem[i].sems[n], new(n, k.sem[i].sems[n].semval))]
           y == [n \in DOMAIN k.ledger[k.sem[i].id] |-> new(n, k.ledger[k.sem[i].id][n])]
           l == [k.ledger EXCEPT ![k.sem[i].id] = y]
           x == [k EXCEPT !.sem = [k.sem EXCEPT ![i] = [k.sem[i] EXCEPT !.sems = q]],
                    !.ledger = l, !.client = k.client]
<1>1. CASE r = k
  BY <1>1
<1>2. CASE r # k
  <2>1. i # 0 /\ r = update_semaphores([k EXCEPT !.sem[i].sems = q, !.ledger[k.sem[i].id] = y])
    BY <1>2 DEF setall
  <2>a. i # 0
    BY <2>1
  <2>2. i \in 1 .. Len(k.sem)
    BY <2>a, FindId, MemoryFields
  <2>3. Len(buf) >= SEMMSL - 1 /\ buf \in Seq(Nat)
    BY IPCAssumption
  <2>4. k.sem[i].id \in Ids
    BY <2>2, Sems DEF SemSet
  <2>5. /\ k.ledger \in [Ids -> [1 .. SEMMSL -> Int]]
        /\ k.ledger[k.sem[i].id] \in [1 .. SEMMSL -> Int]
    BY <2>4, MemoryFields
  <2>6. ASSUME NEW n \in good PROVE buf[n] \in 0 .. USHRT - 1
    <3>1. n \in 1 .. Len(buf) /\ buf[n] <= SEMVMX
      BY <2>2, <2>3, Sems, Constants
    <3>2. buf[n] \in Nat
      BY <2>3, <3>1
    <3> QED
      BY <3>1, <3>2, Constants
  <2> HIDE DEF i, good
  <2>7. ASSUME NEW n \in 1 .. SEMMSL PROVE y[n] \in Int /\ y[n] = new(n, k.ledger[k.sem[i].id][n])
    <3>1. k.ledger[k.sem[i].id][n] \in Int /\ n \in DOMAIN k.ledger[k.sem[i].id]
      BY <2>5
    <3>2. y[n] = new(n, k.ledger[k.sem[i].id][n])
      BY <3>1
    <3>3. CASE n \in good
      BY <2>6, <3>2, <3>3
    <3>4. CASE n \notin good
      BY <3>1, <3>2, <3>4
    <3> QED
      BY <3>2, <3>3, <3>4
  <2>8. y \in [1 .. SEMMSL -> Int]
    BY <2>5, <2>7
  <2>9. ASSUME NEW n \in 1 .. Len(k.sem[i].sems)
        PROVE  /\ new(n, k.sem[i].sems[n].semval) \in 0 .. USHRT - 1
               /\ q[n] = [k.sem[i].sems[n] EXCEPT !.semval = new(n, k.sem[i].sems[n].semval)]
               /\ q[n] \in Semaphore
    <3>1. k.sem[i].sems[n] \in Semaphore /\ n \in DOMAIN k.sem[i].sems
      BY <2>2, Sems
    <3>2. k.sem[i].sems[n].semval \in 0 .. USHRT - 1
      BY <3>1 DEF Semaphore
    <3>3. new(n, k.sem[i].sems[n].semval) \in 0 .. USHRT - 1
      BY <2>6, <3>2
    <3>4. q[n] = [k.sem[i].sems[n] EXCEPT !.semval = new(n, k.sem[i].sems[n].semval)]
      BY <3>1 DEF Holding
    <3> HIDE DEF new, q
    <3> QED
      BY <3>1, <3>3, <3>4, HoldingValue
  <2>10. q \in Seq(Semaphore) /\ Len(q) = Len(k.sem[i].sems)
    <3>1. q \in [1 .. Len(k.sem[i].sems) -> Semaphore] /\ Len(k.sem[i].sems) \in Nat
      BY <2>2, <2>9, Sems
    <3> HIDE DEF q
    <3> QED
      BY <3>1, AsSequence
  <2>11. /\ l \in [Ids -> [1 .. SEMMSL -> Int]] /\ l[k.sem[i].id] = y
         /\ \A d \in Ids : d # k.sem[i].id => l[d] = k.ledger[d]
    <3> HIDE DEF y
    <3> QED
      BY <2>4, <2>5, <2>8
  <2> HIDE DEF q, y, l
  <2>12. x = [k EXCEPT !.sem[i].sems = q, !.ledger[k.sem[i].id] = y]
    BY MemoryFields DEF l
  <2>13. Written(k, x, i, q, l, k.client)
    BY <2>2, <2>10, <2>11, MemoryFields, Write
  <2>14. ASSUME NEW n \in 1 .. Len(k.sem[i].sems)
         PROVE  \E v \in 0 .. USHRT - 1 :
                       /\ q[n] = [k.sem[i].sems[n] EXCEPT !.semval = v]
                       /\ \/ v = k.sem[i].sems[n].semval
                             /\ l[k.sem[i].id][n] = k.ledger[k.sem[i].id][n]
                          \/ v = l[k.sem[i].id][n]
    <3>1. n \in 1 .. SEMMSL
      BY <2>2, Sems, Constants
    <3>2. PICK v : v = new(n, k.sem[i].sems[n].semval)
      OBVIOUS
    <3>3. v \in 0 .. USHRT - 1 /\ q[n] = [k.sem[i].sems[n] EXCEPT !.semval = v]
      BY <2>9, <3>2
    <3>4. l[k.sem[i].id][n] = new(n, k.ledger[k.sem[i].id][n])
      BY <2>7, <2>11, <3>1
    <3> QED
      BY <3>2, <3>3, <3>4
  <2>15. r = update_semaphores(x)
    BY <2>1, <2>12
  <2> HIDE DEF x, new
  <2>16. GivenAll(k, x, i, q, l)
    BY <2>11, <2>13, <2>14 DEF GivenAll
  <2> QED
    BY <2>2, <2>15, <2>16
<1> QED
  BY <1>1, <1>2

(* IPC_SET on a semaphore set.                                             *)
LEMMA SetPerm ==
    ASSUME NEW k \in Memory, NEW p, NEW id, NEW uid \in NewOwners, NEW mode \in Modes,
           NEW r, r = ipc_set(k, p, id, uid, mode)
    PROVE  /\ r \in Memory /\ SameSets(k, r) /\ r.client = k.client /\ r.ledger = k.ledger
           /\ r.crashed = k.crashed
           /\ \A i \in 1 .. Len(k.sem) : r.sem[i].sems = k.sem[i].sems
<1> DEFINE i == find_id(k.sem, id)
           m == [k.sem[i].perm EXCEPT !.uid = uid, !.own = mode[1], !.other = mode[2]]
<1>1. CASE r = k
  BY <1>1 DEF SameSets
<1>2. CASE r # k
  <2>1. i # 0 /\ r = [k EXCEPT !.sem[i].perm = m]
    BY <1>2 DEF ipc_set
  <2>2. i \in 1 .. Len(k.sem)
    BY <2>1, FindId, MemoryFields
  <2> HIDE DEF i
  <2>3. k.sem[i] \in SemSet /\ k.sem[i].perm \in Perms
    BY <2>2, Sems DEF SemSet
  <2>4. mode[1] \in SUBSET {"r", "w"} /\ mode[2] \in SUBSET {"r", "w"}
    BY IPCAssumption
  <2>5. m \in Perms
    <3>1. PICK a : a = [k.sem[i].perm EXCEPT !.uid = uid]
      OBVIOUS
    <3>2. a \in Perms
      BY <2>3, <3>1 DEF Perms
    <3>3. PICK b : b = [a EXCEPT !.own = mode[1]]
      OBVIOUS
    <3>4. b \in Perms
      BY <2>4, <3>2, <3>3 DEF Perms
    <3>5. [b EXCEPT !.other = mode[2]] \in Perms
      BY <2>4, <3>4 DEF Perms
    <3> QED
      BY <3>1, <3>3, <3>5
  <2> HIDE DEF m
  <2>6. PICK e : e = [k.sem[i] EXCEPT !.perm = m]
    OBVIOUS
  <2>7. e \in SemSet /\ e.id = k.sem[i].id /\ e.sems = k.sem[i].sems
    BY <2>3, <2>5, <2>6 DEF SemSet
  <2>8. PICK t : t = [k.sem EXCEPT ![i] = e]
    OBVIOUS
  <2>9. /\ t \in Seq(SemSet) /\ Len(t) = Len(k.sem)
        /\ \A j \in 1 .. Len(k.sem) : t[j] = IF j = i THEN e ELSE k.sem[j]
    BY <2>2, <2>7, <2>8, Sems, ExceptSeq
  <2>10. r = [k EXCEPT !.sem = t]
    BY <2>1, <2>6, <2>8
  <2>11. /\ r \in Memory /\ r.sem = t /\ r.shm = k.shm /\ r.ident = k.ident
         /\ r.mapped = k.mapped /\ r.client = k.client /\ r.ledger = k.ledger
         /\ r.crashed = k.crashed
    BY <2>9, <2>10 DEF Memory
  <2> QED
    BY <2>7, <2>9, <2>11 DEF SameSets
<1> QED
  BY <1>1, <1>2

(* The list of those waiting for zero, or for units.                       *)
Listed(s, z) == IF z THEN s.zlist ELSE s.nlist
Waiter(z) == IF z THEN ZeroWaiter ELSE UnitWaiter

LEMMA ListTypes ==
    ASSUME NEW s \in Semaphore, NEW z \in BOOLEAN
    PROVE  /\ Listed(s, z) \in Seq(Waiter(z)) /\ Len(Listed(s, z)) \in Nat
           /\ DOMAIN Listed(s, z) = 1 .. Len(Listed(s, z))
           /\ \A j \in 1 .. Len(Listed(s, z)) :
                 /\ Listed(s, z)[j].who \in Procs /\ Listed(s, z)[j].val \in Nat
                 /\ z <=> Listed(s, z)[j].val = 0
<1>1. s.zlist \in Seq(ZeroWaiter) /\ s.nlist \in Seq(UnitWaiter)
  BY DEF Semaphore
<1>2. Listed(s, z) \in Seq(Waiter(z))
  BY <1>1 DEF Listed, Waiter
<1>3. ASSUME NEW e \in Waiter(z) PROVE e.who \in Procs /\ e.val \in Nat /\ (z <=> e.val = 0)
  BY DEF Waiter, ZeroWaiter, UnitWaiter
<1>4. \A j \in 1 .. Len(Listed(s, z)) : Listed(s, z)[j] \in Waiter(z)
  BY <1>2
<1> QED
  BY <1>2, <1>3, <1>4

(* p waits for semaphore n of the set.                                     *)
OnList(sem, n, z, p) == \E j \in 1 .. Len(Listed(sem.sems[n], z)) : Listed(sem.sems[n], z)[j].who = p

LEMMA WhosAre ==
    ASSUME NEW sem \in SemSet
    PROVE  \A p : p \in AllWhos(sem) <=>
              \E n \in 1 .. Len(sem.sems), z \in BOOLEAN : OnList(sem, n, z, p)
<1>1. sem.sems \in Seq(Semaphore)
  BY DEF SemSet
<1>2. ASSUME NEW n \in 1 .. Len(sem.sems), NEW p
      PROVE  p \in Whos(sem.sems[n]) <=> \E z \in BOOLEAN : OnList(sem, n, z, p)
  <2>1. PICK s : s = sem.sems[n]
    OBVIOUS
  <2>2. s \in Semaphore
    BY <1>1, <2>1
  <2>3. /\ DOMAIN s.zlist = 1 .. Len(s.zlist) /\ DOMAIN s.nlist = 1 .. Len(s.nlist)
    BY <2>2 DEF Semaphore
  <2>4. p \in Whos(s) <=> \/ \E j \in 1 .. Len(s.zlist) : s.zlist[j].who = p
                          \/ \E j \in 1 .. Len(s.nlist) : s.nlist[j].who = p
    BY <2>3 DEF Whos, ToSet
  <2>5. (\E z \in BOOLEAN : OnList(sem, n, z, p)) <=> OnList(sem, n, TRUE, p) \/ OnList(sem, n, FALSE, p)
    OBVIOUS
  <2>6. /\ OnList(sem, n, TRUE, p) <=> \E j \in 1 .. Len(s.zlist) : s.zlist[j].who = p
        /\ OnList(sem, n, FALSE, p) <=> \E j \in 1 .. Len(s.nlist) : s.nlist[j].who = p
    BY <2>1 DEF OnList, Listed
  <2> QED
    BY <2>1, <2>4, <2>5, <2>6
<1>3. ToSet(sem.sems) = {sem.sems[n] : n \in 1 .. Len(sem.sems)}
  BY <1>1 DEF ToSet
<1>4. ASSUME NEW p
      PROVE  p \in AllWhos(sem) <=> \E n \in 1 .. Len(sem.sems) : p \in Whos(sem.sems[n])
  BY <1>3 DEF AllWhos
<1> QED
  BY <1>2, <1>4

(* IPC_RMID: the last set takes the place of the one that is removed.      *)
LEMMA TableShrinks ==
    ASSUME NEW S, NEW list \in Seq(S), NEW i \in 1 .. Len(list), NEW t,
           t = remove_semaphore(list, i)
    PROVE  /\ t \in Seq(S) /\ Len(t) = Len(list) - 1
           /\ \A j \in 1 .. Len(list) - 1 : t[j] = list[IF j = i THEN Len(list) ELSE j]
<1> DEFINE u == IF i = Len(list) THEN list ELSE [list EXCEPT ![i] = list[Len(list)]]
<1>1. t = SubSeq(u, 1, Len(u) - 1)
  BY DEF remove_semaphore, Front, Last
<1>2. list[Len(list)] \in S /\ Len(list) \in Nat
  OBVIOUS
<1>3. /\ u \in Seq(S) /\ Len(u) = Len(list)
      /\ \A j \in 1 .. Len(list) - 1 : u[j] = list[IF j = i THEN Len(list) ELSE j]
  <2>1. CASE i = Len(list)
    BY <2>1
  <2>2. CASE i # Len(list)
    <3>1. u = [list EXCEPT ![i] = list[Len(list)]]
      BY <2>2
    <3> HIDE DEF u
    <3> QED
      BY <1>2, <3>1, ExceptSeq
  <2> QED
    BY <2>1, <2>2
<1> HIDE DEF u
<1>4. \A j \in 1 .. Len(u) - 1 : u[j] \in S
  BY <1>3
<1>5. /\ SubSeq(u, 1, Len(u) - 1) \in Seq(S)
      /\ Len(SubSeq(u, 1, Len(u) - 1)) = IF 1 <= Len(u) - 1 THEN Len(u) - 1 - 1 + 1 ELSE 0
      /\ \A j \in 1 .. (Len(u) - 1) - 1 + 1 : SubSeq(u, 1, Len(u) - 1)[j] = u[1 + j - 1]
  BY <1>2, <1>3, <1>4, SubSeqProperties
<1> QED
  BY <1>1, <1>2, <1>3, <1>5

SetGone(k, r, i) ==
    /\ r \in Memory /\ r.shm = k.shm /\ r.ident = k.ident /\ r.mapped = k.mapped
    /\ r.crashed = k.crashed /\ Len(r.sem) = Len(k.sem) - 1
    /\ \A j \in 1 .. Len(k.sem) - 1 : r.sem[j] = k.sem[IF j = i THEN Len(k.sem) ELSE j]
    /\ \A p \in Procs : r.client[p] =
          IF p \in AllWhos(k.sem[i]) /\ k.client[p].st = "wait" THEN Client("run")
          ELSE k.client[p]
    /\ \A d \in Ids, n \in 1 .. SEMMSL :
          r.ledger[d][n] = IF d = k.sem[i].id THEN 0 ELSE k.ledger[d][n]

LEMMA SetRemoved ==
    ASSUME NEW k \in Memory, NEW p, NEW id, NEW r, r = ipc_rmid(k, p, id)
    PROVE  r = k \/ \E i \in 1 .. Len(k.sem) : SetGone(k, r, i)
<1>1. CASE r = k
  BY <1>1
<1>2. CASE r # k
  <2>1. PICK i : i = find_id(k.sem, id)
    OBVIOUS
  <2>2. i # 0 /\ r = RemoveSet(k, i)
    BY <1>2, <2>1 DEF ipc_rmid
  <2>3. i \in 1 .. Len(k.sem) /\ k.sem \in Seq(SemSet)
    BY <2>1, <2>2, FindId, MemoryFields
  <2>4. PICK a : a = send_message_to_process(k, AllWhos(k.sem[i]))
    OBVIOUS
  <2>5. /\ a \in Memory /\ a.sem = k.sem /\ a.shm = k.shm /\ a.ident = k.ident
        /\ a.mapped = k.mapped /\ a.ledger = k.ledger /\ a.crashed = k.crashed
        /\ \A q \in Procs : a.client[q] =
              IF q \in AllWhos(k.sem[i]) /\ k.client[q].st = "wait" THEN Client("run")
              ELSE k.client[q]
    BY <2>4, Answered
  <2>6. PICK t : t = remove_semaphore(k.sem, i)
    OBVIOUS
  <2>7. /\ t \in Seq(SemSet) /\ Len(t) = Len(k.sem) - 1
        /\ \A j \in 1 .. Len(k.sem) - 1 : t[j] = k.sem[IF j = i THEN Len(k.sem) ELSE j]
    BY <2>3, <2>6, TableShrinks
  <2>8. PICK l : l = [k.ledger EXCEPT ![k.sem[i].id] = [n \in 1 .. SEMMSL |-> 0]]
    OBVIOUS
  <2>9. /\ l \in [Ids -> [1 .. SEMMSL -> Int]]
        /\ \A d \in Ids, n \in 1 .. SEMMSL :
              l[d][n] = IF d = k.sem[i].id THEN 0 ELSE k.ledger[d][n]
    <3>1. k.sem[i].id \in Ids
      BY <2>3, Sems DEF SemSet
    <3> QED
      BY <2>8, <3>1, MemoryFields
  <2>10. r = [a EXCEPT !.sem = t, !.ledger = l]
    BY <2>2, <2>4, <2>5, <2>6, <2>8 DEF RemoveSet
  <2>11. PICK b : b = [a EXCEPT !.sem = t]
    OBVIOUS
  <2>12. /\ b \in Memory /\ b.sem = t /\ b.shm = k.shm /\ b.ident = k.ident
         /\ b.mapped = k.mapped /\ b.client = a.client /\ b.crashed = k.crashed
    BY <2>5, <2>7, <2>11 DEF Memory
  <2>13. r = [b EXCEPT !.ledger = l]
    BY <2>10, <2>11
  <2>14. /\ r \in Memory /\ r.sem = t /\ r.shm = k.shm /\ r.ident = k.ident
         /\ r.mapped = k.mapped /\ r.client = a.client /\ r.crashed = k.crashed
         /\ r.ledger = l
    BY <2>9, <2>12, <2>13 DEF Memory
  <2>15. SetGone(k, r, i)
    BY <2>5, <2>7, <2>9, <2>14 DEF SetGone
  <2> QED
    BY <2>3, <2>15
<1> QED
  BY <1>1, <1>2

(* semget: a new set, whose semaphores nobody waits for.                   *)
SetMade(k, r, new) ==
    /\ r \in Memory /\ r.shm = k.shm /\ r.ident = k.ident + 1 /\ r.mapped = k.mapped
    /\ r.crashed = k.crashed /\ r.client = k.client /\ r.ledger = k.ledger
    /\ Len(k.sem) # SEMMNI /\ Len(r.sem) = Len(k.sem) + 1
    /\ \A i \in 1 .. Len(k.sem) : r.sem[i] = k.sem[i]
    /\ r.sem[Len(k.sem) + 1] = new /\ new \in SemSet /\ new.id = k.ident
    /\ Len(new.sems) < SEMMSL /\ \A n \in 1 .. Len(new.sems) : new.sems[n] = NewSemaphore

LEMMA NewPermOK ==
    ASSUME NEW p \in Procs, NEW mode \in Modes
    PROVE  NewPerm(p, mode) \in Perms
<1>1. mode[1] \in SUBSET {"r", "w"} /\ mode[2] \in SUBSET {"r", "w"}
  BY IPCAssumption
<1>2. Uid[p] \in Range(Uid)
  BY IPCAssumption DEF Range
<1> QED
  BY <1>1, <1>2 DEF NewPerm, Perms

LEMMA SetGot ==
    ASSUME NEW k \in Memory, NEW p \in Procs, NEW key \in SemKeys, NEW nsems \in Sizes,
           NEW mode \in Modes, k.ident < MaxId, NEW r, r = do_semget(k, p, key, nsems, mode)
    PROVE  r = k \/ \E new : SetMade(k, r, new)
<1> DEFINE q == [n \in 1 .. nsems |-> NewSemaphore]
           new == [key |-> key, id |-> k.ident, perm |-> NewPerm(p, mode), sems |-> q]
<1>1. CASE r = k
  BY <1>1
<1>2. CASE r # k
  <2>1. /\ r = [k EXCEPT !.sem = Append(k.sem, new), !.ident = k.ident + 1]
        /\ nsems < SEMMSL /\ Len(k.sem) # SEMMNI
    <3>1. nsems \in Nat
      BY IPCAssumption
    <3> QED
      BY <1>2, <3>1, Constants DEF do_semget
  <2>2. NewSemaphore \in Semaphore
    <3>1. 0 \in 0 .. USHRT - 1
      BY Constants
    <3>2. <<>> \in Seq(ZeroWaiter) /\ <<>> \in Seq(UnitWaiter)
      BY EmptySeq
    <3> QED
      BY <3>1, <3>2 DEF NewSemaphore, Semaphore
  <2>3. q \in Seq(Semaphore) /\ Len(q) = nsems /\ \A n \in 1 .. nsems : q[n] = NewSemaphore
    <3>1. nsems \in Nat /\ q \in [1 .. nsems -> Semaphore] /\ \A n \in 1 .. nsems : q[n] = NewSemaphore
      BY <2>2, IPCAssumption
    <3> HIDE DEF q
    <3> QED
      BY <3>1, AsSequence
  <2> HIDE DEF q
  <2>4. new \in SemSet /\ new.id = k.ident /\ new.sems = q
    BY <2>3, NewPermOK, MemoryFields DEF SemSet
  <2> HIDE DEF new
  <2>5. PICK t : t = Append(k.sem, new)
    OBVIOUS
  <2>6. /\ t \in Seq(SemSet) /\ Len(t) = Len(k.sem) + 1 /\ t[Len(k.sem) + 1] = new
        /\ \A i \in 1 .. Len(k.sem) : t[i] = k.sem[i]
    BY <2>4, <2>5, MemoryFields, AppendProperties
  <2>7. k.ident + 1 \in Ids
    BY MemoryFields, Constants, SMTT(30) DEF Ids
  <2>8. PICK b : b = [k EXCEPT !.sem = t]
    OBVIOUS
  <2>9. /\ b \in Memory /\ b.sem = t /\ b.shm = k.shm /\ b.ident = k.ident
        /\ b.mapped = k.mapped /\ b.client = k.client /\ b.crashed = k.crashed
        /\ b.ledger = k.ledger
    BY <2>6, <2>8 DEF Memory
  <2>10. r = [b EXCEPT !.ident = k.ident + 1]
    BY <2>1, <2>5, <2>8
  <2>11. /\ r \in Memory /\ r.sem = t /\ r.shm = k.shm /\ r.ident = k.ident + 1
         /\ r.mapped = k.mapped /\ r.client = k.client /\ r.crashed = k.crashed
         /\ r.ledger = k.ledger
    BY <2>7, <2>9, <2>10 DEF Memory
  <2>12. SetMade(k, r, new)
    BY <2>1, <2>3, <2>4, <2>6, <2>11 DEF SetMade
  <2> QED
    BY <2>12
<1> QED
  BY <1>1, <1>2

(* A process leaves a list.                                                *)
LEMMA LeftList ==
    ASSUME NEW S, NEW list \in Seq(S), NEW p
    PROVE  \/ /\ Without(list, p) = list
              /\ \A j \in 1 .. Len(list) : list[j].who # p
           \/ \E j \in 1 .. Len(list) : list[j].who = p /\ Without(list, p) = RemoveAt(list, j)
<1> DEFINE I == {i \in 1 .. Len(list) : list[i].who = p}
           j == IF I # {} THEN Min(I) ELSE 0
<1>1. Without(list, p) = IF j = 0 THEN list ELSE RemoveAt(list, j)
  BY DEF Without, SelectInSeq
<1>2. I \in SUBSET Nat
  OBVIOUS
<1>3. CASE I # {}
  <2>1. Min(I) \in I
    BY <1>2, <1>3, MinIn
  <2>2. j = Min(I)
    BY <1>3
  <2>3. j \in 1 .. Len(list) /\ list[j].who = p /\ j # 0
    BY <2>1, <2>2
  <2> HIDE DEF j
  <2> QED
    BY <1>1, <2>3
<1>4. CASE I = {}
  BY <1>1, <1>4
<1> QED
  BY <1>3, <1>4

LEMMA LeftType ==
    ASSUME NEW S, NEW list \in Seq(S), NEW p
    PROVE  Without(list, p) \in Seq(S)
BY LeftList, Removed

(* VM's report of p.                                                       *)
Reported(k, r, p) ==
    /\ r \in Memory /\ SameSets(k, r) /\ r.crashed = k.crashed /\ r.ledger = k.ledger
    /\ \A i \in 1 .. Len(k.sem) : \A n \in 1 .. Len(k.sem[i].sems) :
          /\ r.sem[i].sems[n].semval = k.sem[i].sems[n].semval
          /\ \A z \in BOOLEAN :
                Listed(r.sem[i].sems[n], z) = Without(Listed(k.sem[i].sems[n], z), p)
    /\ \A q \in Procs : q # p => r.client[q] = k.client[q]
    /\ p \in Procs => r.client[p] =
          IF k.client[p].st = "wait" /\ \E i \in 1 .. Len(k.sem) : p \in AllWhos(k.sem[i])
          THEN Client("run") ELSE k.client[p]

LEMMA ProcessRemoved ==
    ASSUME NEW k \in Memory, NEW p, NEW r, r = remove_process(k, p)
    PROVE  Reported(k, r, p)
<1> DEFINE leave(s) == [s EXCEPT !.zlist = Without(s.zlist, p), !.nlist = Without(s.nlist, p)]
           q(i) == [n \in DOMAIN k.sem[i].sems |-> leave(k.sem[i].sems[n])]
           t == [i \in DOMAIN k.sem |-> [k.sem[i] EXCEPT !.sems = q(i)]]
           out == [k EXCEPT !.sem = t]
           listed == \E i \in 1 .. Len(k.sem) : p \in AllWhos(k.sem[i])
<1>1. k.sem \in Seq(SemSet) /\ Len(k.sem) \in Nat /\ DOMAIN k.sem = 1 .. Len(k.sem)
  BY MemoryFields
<1>2. r = IF listed THEN send_message_to_process(out, {p}) ELSE k
  BY <1>1 DEF remove_process, LeaveSet
<1>3. CASE ~ listed
  <2>1. r = k
    BY <1>2, <1>3
  <2>2. ASSUME NEW i \in 1 .. Len(k.sem), NEW n \in 1 .. Len(k.sem[i].sems), NEW z \in BOOLEAN
        PROVE  Listed(k.sem[i].sems[n], z) = Without(Listed(k.sem[i].sems[n], z), p)
    <3>1. ~ OnList(k.sem[i], n, z, p)
      BY <1>3, Sems, WhosAre
    <3>2. Listed(k.sem[i].sems[n], z) \in Seq(Waiter(z))
      BY Sems, ListTypes
    <3> QED
      BY <3>1, <3>2, LeftList DEF OnList
  <2> QED
    BY <1>3, <2>1, <2>2 DEF Reported, SameSets
<1>4. CASE listed
  <2>1. ASSUME NEW s \in Semaphore
        PROVE  /\ leave(s) \in Semaphore /\ leave(s).semval = s.semval
               /\ leave(s).zlist = Without(s.zlist, p) /\ leave(s).nlist = Without(s.nlist, p)
    <3>1. s.zlist \in Seq(ZeroWaiter) /\ s.nlist \in Seq(UnitWaiter)
      BY DEF Semaphore
    <3>2. Without(s.zlist, p) \in Seq(ZeroWaiter) /\ Without(s.nlist, p) \in Seq(UnitWaiter)
      BY <3>1, LeftType
    <3> QED
      BY <3>2 DEF Semaphore
  <2>2. ASSUME NEW i \in 1 .. Len(k.sem)
        PROVE  /\ q(i) \in Seq(Semaphore) /\ Len(q(i)) = Len(k.sem[i].sems)
               /\ \A n \in 1 .. Len(k.sem[i].sems) : q(i)[n] = leave(k.sem[i].sems[n])
    <3>1. \A n \in 1 .. Len(k.sem[i].sems) :
             q(i)[n] = leave(k.sem[i].sems[n]) /\ k.sem[i].sems[n] \in Semaphore
      BY Sems
    <3> HIDE DEF leave
    <3>2. q(i) \in [1 .. Len(k.sem[i].sems) -> Semaphore] /\ Len(k.sem[i].sems) \in Nat
      BY <2>1, <3>1, Sems
    <3> HIDE DEF q
    <3> QED
      BY <3>1, <3>2, AsSequence
  <2> HIDE DEF leave
  <2>3. ASSUME NEW i \in 1 .. Len(k.sem)
        PROVE  t[i] \in SemSet /\ t[i].id = k.sem[i].id /\ t[i].sems = q(i)
    <3>1. t[i] = [k.sem[i] EXCEPT !.sems = q(i)]
      BY Sems
    <3> HIDE DEF t, q
    <3> QED
      BY <2>2, <3>1, Sems, NewSems
  <2>4. t \in Seq(SemSet) /\ Len(t) = Len(k.sem)
    <3>1. t \in [1 .. Len(k.sem) -> SemSet]
      BY <1>1, <2>3
    <3> HIDE DEF t
    <3> QED
      BY <1>1, <3>1, AsSequence
  <2> HIDE DEF t, q
  <2>5. /\ out \in Memory /\ out.sem = t /\ out.shm = k.shm /\ out.ident = k.ident
        /\ out.mapped = k.mapped /\ out.client = k.client /\ out.ledger = k.ledger
        /\ out.crashed = k.crashed
    BY <2>4 DEF Memory
  <2> HIDE DEF out
  <2>6. r = send_message_to_process(out, {p})
    BY <1>2, <1>4
  <2>7. /\ r \in Memory /\ r.sem = t /\ r.shm = k.shm /\ r.ident = k.ident
        /\ r.mapped = k.mapped /\ r.ledger = k.ledger /\ r.crashed = k.crashed
        /\ \A c \in Procs : r.client[c] =
              IF c \in {p} /\ k.client[c].st = "wait" THEN Client("run") ELSE k.client[c]
    BY <2>5, <2>6, Answered
  <2>8. SameSets(k, r)
    BY <2>2, <2>3, <2>4, <2>7 DEF SameSets
  <2>9. ASSUME NEW i \in 1 .. Len(k.sem), NEW n \in 1 .. Len(k.sem[i].sems)
        PROVE  /\ r.sem[i].sems[n].semval = k.sem[i].sems[n].semval
               /\ \A z \in BOOLEAN :
                     Listed(r.sem[i].sems[n], z) = Without(Listed(k.sem[i].sems[n], z), p)
    <3>1. r.sem[i].sems[n] = leave(k.sem[i].sems[n])
      BY <2>2, <2>3, <2>7
    <3>2. k.sem[i].sems[n] \in Semaphore
      BY Sems
    <3> QED
      BY <2>1, <3>1, <3>2 DEF Listed
  <2>10. /\ \A c \in Procs : c # p => r.client[c] = k.client[c]
         /\ p \in Procs => r.client[p] =
               IF k.client[p].st = "wait" /\ listed THEN Client("run") ELSE k.client[p]
    BY <1>4, <2>7
  <2> QED
    BY <2>7, <2>8, <2>9, <2>10 DEF Reported
<1> QED
  BY <1>3, <1>4

(* semop.                                                                  *)
Operation == [num : Nat \ {0}, op : Int, nowait : BOOLEAN]

LEMMA AllowedOps ==
    ASSUME NEW sem, NEW p, NEW sops \in Seq(Operation), NEW done, done = Allowed(sem, p, sops)
    PROVE  /\ done \in Seq(Operation) /\ Len(done) <= Len(sops)
           /\ \A a \in 1 .. Len(done) : done[a] = sops[a]
           /\ done = sops \/ Len(done) < Len(sops)
<1> DEFINE I == {a \in 1 .. Len(sops) : sops[a].op # 0}
           first == IF I # {} THEN Min(I) ELSE 0
<1>1. done = IF first = 0 \/ check_perm(sem.perm, p, {"w"}) THEN sops
             ELSE SubSeq(sops, 1, first - 1)
  BY DEF Allowed, SelectInSeq
<1>2. first \in 0 .. Len(sops)
  <2>1. I \in SUBSET Nat
    OBVIOUS
  <2>2. CASE I # {}
    <3>1. Min(I) \in I
      BY <2>1, <2>2, MinIn
    <3> QED
      BY <2>2, <3>1
  <2> QED
    BY <2>2
<1> HIDE DEF first
<1>3. CASE done = sops
  BY <1>3
<1>4. CASE done # sops
  <2>1. first \in 1 .. Len(sops) /\ done = SubSeq(sops, 1, first - 1)
    BY <1>1, <1>2, <1>4
  <2>2. \A a \in 1 .. first - 1 : sops[a] \in Operation
    BY <2>1
  <2>3. /\ SubSeq(sops, 1, first - 1) \in Seq(Operation)
        /\ Len(SubSeq(sops, 1, first - 1)) = IF 1 <= first - 1 THEN first - 1 - 1 + 1 ELSE 0
        /\ \A a \in 1 .. (first - 1) - 1 + 1 : SubSeq(sops, 1, first - 1)[a] = sops[1 + a - 1]
    BY <2>1, <2>2, SubSeqProperties
  <2>4. Len(sops) \in Nat
    OBVIOUS
  <2> QED
    BY <2>1, <2>3, <2>4
<1> QED
  BY <1>3, <1>4

(* The operation on semaphore n.                                           *)
Chosen(done, n) == SelectInSeq(done, LAMBDA o : o.num = n)

LEMMA ChosenIs ==
    ASSUME NEW done \in Seq(Operation), NEW n
    PROVE  /\ Chosen(done, n) \in 0 .. Len(done)
           /\ Chosen(done, n) # 0 => done[Chosen(done, n)].num = n
           /\ Chosen(done, n) = 0 => \A a \in 1 .. Len(done) : done[a].num # n
<1> DEFINE I == {a \in 1 .. Len(done) : done[a].num = n}
<1>1. Chosen(done, n) = IF I # {} THEN Min(I) ELSE 0
  BY DEF Chosen, SelectInSeq
<1>2. I \in SUBSET Nat
  OBVIOUS
<1>3. CASE I # {}
  <2>1. Min(I) \in I
    BY <1>2, <1>3, MinIn
  <2> QED
    BY <1>1, <1>3, <2>1
<1>4. CASE I = {}
  BY <1>1, <1>4
<1> QED
  BY <1>3, <1>4

(* The first operation that has to wait.                                   *)
Asleep(sem, done) == SelectInSeq(done, LAMBDA o : Blocks(sem.sems[o.num], o))

LEMMA AsleepIs ==
    ASSUME NEW sem, NEW done \in Seq(Operation)
    PROVE  /\ Asleep(sem, done) \in 0 .. Len(done)
           /\ Asleep(sem, done) # 0 =>
                 Blocks(sem.sems[done[Asleep(sem, done)].num], done[Asleep(sem, done)])
           /\ Asleep(sem, done) = 0 =>
                 \A a \in 1 .. Len(done) : ~ Blocks(sem.sems[done[a].num], done[a])
<1> DEFINE I == {a \in 1 .. Len(done) : Blocks(sem.sems[done[a].num], done[a])}
<1>1. Asleep(sem, done) = IF I # {} THEN Min(I) ELSE 0
  BY DEF Asleep, SelectInSeq
<1>2. I \in SUBSET Nat
  OBVIOUS
<1>3. CASE I # {}
  <2>1. Min(I) \in I
    BY <1>2, <1>3, MinIn
  <2>2. PICK m : m = Min(I)
    OBVIOUS
  <2>3. m \in 1 .. Len(done) /\ Blocks(sem.sems[done[m].num], done[m])
    BY <2>1, <2>2
  <2>4. m # 0
    BY <2>3
  <2>5. Asleep(sem, done) = m
    <3> HIDE DEF I
    <3> QED
      BY <1>1, <1>3, <2>2
  <2> QED
    BY <2>3, <2>4, <2>5
<1>4. CASE I = {}
  <2>1. Asleep(sem, done) = 0
    <3> HIDE DEF I
    <3> QED
      BY <1>1, <1>4
  <2> QED
    BY <1>4, <2>1
<1> QED
  BY <1>3, <1>4

LEMMA ApplyType ==
    ASSUME NEW s \in Semaphore, NEW p \in Procs, NEW op \in Operation
    PROVE  Apply(s, p, op) \in Semaphore
<1>1. s.semval \in 0 .. USHRT - 1 /\ op.op \in Int /\ s.semval \in Int
  BY DEF Semaphore, Operation
<1>2. CASE ~ Blocks(s, op)
  <2>1. (s.semval + op.op) % USHRT \in 0 .. USHRT - 1
    BY <1>1, Constants
  <2>2. Apply(s, p, op) = [s EXCEPT !.semval = (s.semval + op.op) % USHRT]
    BY <1>2 DEF Apply
  <2> QED
    BY <2>1, <2>2, HoldingValue
<1>3. CASE Blocks(s, op) /\ op.op = 0
  <2>1. PICK z : z = Append(s.zlist, [who |-> p, val |-> 0])
    OBVIOUS
  <2>2. [who |-> p, val |-> 0] \in ZeroWaiter /\ s.zlist \in Seq(ZeroWaiter)
    BY DEF ZeroWaiter, Semaphore
  <2>3. z \in Seq(ZeroWaiter)
    BY <2>1, <2>2, AppendProperties
  <2>4. Apply(s, p, op) = [s EXCEPT !.zlist = z, !.zalloc = TRUE]
    BY <1>3, <2>1 DEF Apply
  <2> QED
    BY <2>3, <2>4 DEF Semaphore
<1>4. CASE Blocks(s, op) /\ op.op # 0
  <2>1. PICK z : z = Append(s.nlist, [who |-> p, val |-> -op.op])
    OBVIOUS
  <2>2. -op.op \in Nat \ {0}
    BY <1>1, <1>4 DEF Blocks
  <2>3. [who |-> p, val |-> -op.op] \in UnitWaiter /\ s.nlist \in Seq(UnitWaiter)
    BY <2>2 DEF UnitWaiter, Semaphore
  <2>4. z \in Seq(UnitWaiter)
    BY <2>1, <2>3, AppendProperties
  <2>5. Apply(s, p, op) = [s EXCEPT !.nlist = z]
    BY <1>4, <2>1 DEF Apply
  <2> QED
    BY <2>4, <2>5 DEF Semaphore
<1> QED
  BY <1>2, <1>3, <1>4

(* What semop has written when it looks for processes to wake.             *)
OpsApplied(k, x, p, i, sops, done, q, l, c) ==
    /\ Written(k, x, i, q, l, c) /\ ~ RefusedOps(k.sem[i], p, sops)
    /\ done \in Seq(Operation) /\ Len(done) <= Len(sops)
    /\ \A a \in 1 .. Len(done) : done[a] = sops[a]
    /\ done = sops \/ Len(done) < Len(sops)
    /\ \A n \in 1 .. Len(k.sem[i].sems) :
          q[n] = IF Chosen(done, n) = 0 THEN k.sem[i].sems[n]
                 ELSE Apply(k.sem[i].sems[n], p, done[Chosen(done, n)])
    /\ \/ /\ done = sops /\ l = k.ledger
          /\ \E b \in 1 .. Len(done) :
                /\ Blocks(k.sem[i].sems[done[b].num], done[b])
                /\ c = [k.client EXCEPT ![p] = [st |-> "wait",
                          call |-> [id |-> k.sem[i].id, num |-> done[b].num, op |-> done[b].op]]]
       \/ /\ c = k.client
          /\ done = sops => \A b \in 1 .. Len(done) : ~ Blocks(k.sem[i].sems[done[b].num], done[b])
          /\ \A d \in Ids : d # k.sem[i].id => l[d] = k.ledger[d]
          /\ \A n \in 1 .. SEMMSL : l[k.sem[i].id][n] =
                IF Chosen(done, n) = 0 THEN k.ledger[k.sem[i].id][n]
                ELSE k.ledger[k.sem[i].id][n] + done[Chosen(done, n)].op

LEMMA SemopDone ==
    ASSUME NEW k \in Memory, NEW p \in Procs, NEW id \in Ids, NEW sops \in SemOps, NEW r,
           r = do_semop(k, p, id, sops)
    PROVE  \/ r = update_semaphores(k)
           \/ \E i \in 1 .. Len(k.sem) : k.sem[i].id = id /\ \E x, done, q, l, c :
                 r = update_semaphores(x) /\ OpsApplied(k, x, p, i, sops, done, q, l, c)
<1> DEFINE i == find_id(k.sem, id)
           done == Allowed(k.sem[i], p, sops)
           asleep == Asleep(k.sem[i], done)
           q == [n \in DOMAIN k.sem[i].sems |->
                   IF Chosen(done, n) = 0 THEN k.sem[i].sems[n]
                   ELSE Apply(k.sem[i].sems[n], p, done[Chosen(done, n)])]
           y == [n \in DOMAIN k.ledger[id] |->
                   IF Chosen(done, n) = 0 THEN k.ledger[id][n]
                   ELSE k.ledger[id][n] + done[Chosen(done, n)].op]
           l == [k.ledger EXCEPT ![id] = y]
           call == [id |-> id, num |-> done[asleep].num, op |-> done[asleep].op]
           c == [k.client EXCEPT ![p] = [st |-> "wait", call |-> call]]
           applied == [k EXCEPT !.sem[i].sems = q]
           y1 == [applied EXCEPT !.client[p] = [st |-> "wait", call |-> call]]
           y2 == [applied EXCEPT !.ledger = l]
<1>1. r = update_semaphores(
             IF i = 0 THEN k
             ELSE IF RefusedOps(k.sem[i], p, sops) THEN k
             ELSE IF asleep # 0 /\ done = sops THEN y1 ELSE y2)
  BY DEF do_semop, Asleep, Chosen
<1> HIDE DEF y1, y2
<1>2. CASE i = 0 \/ RefusedOps(k.sem[i], p, sops)
  BY <1>1, <1>2
<1>3. CASE i # 0 /\ ~ RefusedOps(k.sem[i], p, sops)
  <2>1. i \in 1 .. Len(k.sem) /\ k.sem[i].id = id
    BY <1>3, FindId, MemoryFields
  <2> HIDE DEF i
  <2>2. sops \in Seq(Operation)
    BY IPCAssumption DEF Operation
  <2>3. /\ done \in Seq(Operation) /\ Len(done) <= Len(sops)
        /\ \A a \in 1 .. Len(done) : done[a] = sops[a]
        /\ done = sops \/ Len(done) < Len(sops)
    BY <2>2, AllowedOps
  <2> HIDE DEF done
  <2>4. ASSUME NEW n \in 1 .. Len(k.sem[i].sems)
        PROVE  /\ q[n] = IF Chosen(done, n) = 0 THEN k.sem[i].sems[n]
                         ELSE Apply(k.sem[i].sems[n], p, done[Chosen(done, n)])
               /\ q[n] \in Semaphore
    <3>1. k.sem[i].sems[n] \in Semaphore /\ n \in DOMAIN k.sem[i].sems
      BY <2>1, Sems
    <3>2. q[n] = IF Chosen(done, n) = 0 THEN k.sem[i].sems[n]
                 ELSE Apply(k.sem[i].sems[n], p, done[Chosen(done, n)])
      BY <3>1
    <3>3. Chosen(done, n) # 0 => done[Chosen(done, n)] \in Operation
      BY <2>3, ChosenIs
    <3> HIDE DEF q
    <3> QED
      BY <3>1, <3>2, <3>3, ApplyType
  <2>5. q \in Seq(Semaphore) /\ Len(q) = Len(k.sem[i].sems)
    <3>1. q \in [1 .. Len(k.sem[i].sems) -> Semaphore] /\ Len(k.sem[i].sems) \in Nat
      BY <2>1, <2>4, Sems
    <3> HIDE DEF q
    <3> QED
      BY <3>1, AsSequence
  <2> HIDE DEF q
  <2>6. CASE asleep # 0 /\ done = sops
    <3>1. asleep \in 1 .. Len(done) /\ Blocks(k.sem[i].sems[done[asleep].num], done[asleep])
      BY <2>3, <2>6, AsleepIs
    <3> HIDE DEF asleep
    <3>2. done[asleep] \in Operation
      BY <2>3, <3>1
    <3>3. [st |-> "wait", call |-> call] \in Caller
      BY <3>2, Constants DEF Caller, Operation
    <3>4. c \in [Procs -> Caller]
      BY <3>3, MemoryFields
    <3>5. y1 = [k EXCEPT !.sem = [k.sem EXCEPT ![i] = [k.sem[i] EXCEPT !.sems = q]],
                         !.ledger = k.ledger, !.client = c]
      BY MemoryFields DEF y1
    <3> HIDE DEF call
    <3>6. Written(k, y1, i, q, k.ledger, c)
      <4> HIDE DEF c
      <4> QED
        BY <2>1, <2>5, <3>4, <3>5, MemoryFields, Write
    <3>7. c = [k.client EXCEPT ![p] = [st |-> "wait",
                 call |-> [id |-> k.sem[i].id, num |-> done[asleep].num, op |-> done[asleep].op]]]
      BY <2>1 DEF call
    <3> HIDE DEF c
    <3>8. OpsApplied(k, y1, p, i, sops, done, q, k.ledger, c)
      BY <1>3, <2>3, <2>4, <2>6, <3>1, <3>6, <3>7 DEF OpsApplied
    <3>9. r = update_semaphores(y1)
      BY <1>1, <1>3, <2>6
    <3> QED
      BY <2>1, <3>8, <3>9
  <2>7. CASE ~ (asleep # 0 /\ done = sops)
    <3>1. done = sops => \A b \in 1 .. Len(done) : ~ Blocks(k.sem[i].sems[done[b].num], done[b])
      BY <2>3, <2>7, AsleepIs
    <3>2. ASSUME NEW n \in 1 .. SEMMSL
          PROVE  /\ y[n] = IF Chosen(done, n) = 0 THEN k.ledger[id][n]
                           ELSE k.ledger[id][n] + done[Chosen(done, n)].op
                 /\ y[n] \in Int
      <4>0. k.ledger[id] \in [1 .. SEMMSL -> Int]
        BY MemoryFields
      <4>1. k.ledger[id][n] \in Int /\ n \in DOMAIN k.ledger[id]
        BY <4>0
      <4>2. y[n] = IF Chosen(done, n) = 0 THEN k.ledger[id][n]
                   ELSE k.ledger[id][n] + done[Chosen(done, n)].op
        BY <4>1
      <4>3. Chosen(done, n) # 0 => done[Chosen(done, n)] \in Operation
        BY <2>3, ChosenIs
      <4>4. Chosen(done, n) # 0 => done[Chosen(done, n)].op \in Int
        BY <4>3 DEF Operation
      <4> HIDE DEF y
      <4> QED
        BY <4>1, <4>2, <4>4
    <3>3. y \in [1 .. SEMMSL -> Int]
      <4>1. DOMAIN k.ledger[id] = 1 .. SEMMSL
        BY MemoryFields
      <4> QED
        BY <3>2, <4>1
    <3> HIDE DEF y
    <3>4. /\ l \in [Ids -> [1 .. SEMMSL -> Int]] /\ l[id] = y
          /\ \A d \in Ids : d # id => l[d] = k.ledger[d]
      BY <3>3, MemoryFields
    <3> HIDE DEF l
    <3>5. y2 = [k EXCEPT !.sem = [k.sem EXCEPT ![i] = [k.sem[i] EXCEPT !.sems = q]],
                         !.ledger = l, !.client = k.client]
      BY MemoryFields DEF y2
    <3>6. Written(k, y2, i, q, l, k.client)
      BY <2>1, <2>5, <3>4, <3>5, MemoryFields, Write
    <3>7. \A n \in 1 .. SEMMSL : l[k.sem[i].id][n] =
                IF Chosen(done, n) = 0 THEN k.ledger[k.sem[i].id][n]
                ELSE k.ledger[k.sem[i].id][n] + done[Chosen(done, n)].op
      BY <2>1, <3>2, <3>4
    <3>8. OpsApplied(k, y2, p, i, sops, done, q, l, k.client)
      BY <1>3, <2>1, <2>3, <2>4, <3>1, <3>4, <3>6, <3>7 DEF OpsApplied
    <3>9. r = update_semaphores(y2)
      BY <1>1, <1>3, <2>7
    <3> QED
      BY <2>1, <3>8, <3>9
  <2> QED
    BY <2>6, <2>7
<1> QED
  BY <1>2, <1>3

-----------------------------------------------------------------------------
(* What the tables satisfy between two calls.                              *)
Room(k) == /\ Len(k.sem) <= SEMMNI /\ Len(k.shm) <= MAX_SHM_NR
           /\ \A i \in 1 .. Len(k.sem) : Len(k.sem[i].sems) < SEMMSL

(* Ids grow, and no two objects of either kind share one.                  *)
Unique(k) ==
    /\ \A i \in 1 .. Len(k.sem) : k.sem[i].id < k.ident
    /\ \A i \in 1 .. Len(k.shm) : k.shm[i].id < k.ident
    /\ \A i, j \in 1 .. Len(k.sem) : i # j => k.sem[i].id # k.sem[j].id
    /\ \A i, j \in 1 .. Len(k.shm) : i # j => k.shm[i].id # k.shm[j].id
    /\ \A i \in 1 .. Len(k.sem), j \in 1 .. Len(k.shm) : k.sem[i].id # k.shm[j].id

OneKey(k) ==
    \A i, j \in 1 .. Len(k.shm) :
        i # j /\ k.shm[i].key = k.shm[j].key => k.shm[i].key = IPC_PRIVATE

(* A page that is mapped belongs to a segment of the table.                *)
Held(k) ==
    \A p \in Procs, id \in Ids :
        k.mapped[p][id] > 0 => \E i \in 1 .. Len(k.shm) : k.shm[i].id = id

(* VM's count of a page's references cannot reach the end of its range.    *)
CountsFit == Cardinality(Procs) * MaxAttach + 2 < U8

Good(k) == k \in Memory /\ Room(k) /\ Unique(k) /\ OneKey(k) /\ (CountsFit => Held(k))

LEMMA GoodSame ==
    ASSUME NEW k, Good(k), NEW r \in Memory, SameSets(k, r)
    PROVE  Good(r)
<1>1. Room(r)
  BY DEF Good, Room, SameSets
<1>2. Unique(r)
  BY DEF Good, Unique, SameSets
<1>3. OneKey(r) /\ (CountsFit => Held(r))
  BY DEF Good, OneKey, Held, SameSets
<1> QED
  BY <1>1, <1>2, <1>3 DEF Good

LEMMA GoodUpdated ==
    ASSUME NEW k, Good(k)
    PROVE  Good(update_semaphores(k))
BY GoodSame, Updated DEF Good

LEMMA GoodGone ==
    ASSUME NEW k, Good(k), NEW r, NEW i \in 1 .. Len(k.sem), SetGone(k, r, i)
    PROVE  Good(r)
<1> DEFINE f(j) == IF j = i THEN Len(k.sem) ELSE j
<1>1. k \in Memory /\ Len(k.sem) \in Nat
  BY MemoryFields DEF Good
<1>2. \A j \in 1 .. Len(r.sem) : f(j) \in 1 .. Len(k.sem) /\ r.sem[j] = k.sem[f(j)]
  BY <1>1 DEF SetGone
<1>3. \A a, b \in 1 .. Len(r.sem) : a # b => f(a) # f(b)
  BY <1>1 DEF SetGone
<1> HIDE DEF f
<1>4. Room(r)
  <2>1. Len(r.sem) = Len(k.sem) - 1 /\ Len(k.sem) <= SEMMNI /\ r.shm = k.shm
    BY DEF SetGone, Good, Room
  <2>2. Len(r.sem) <= SEMMNI
    BY <1>1, <2>1, Constants
  <2>3. \A j \in 1 .. Len(r.sem) : Len(r.sem[j].sems) < SEMMSL
    BY <1>2 DEF Good, Room
  <2> QED
    BY <2>1, <2>2, <2>3 DEF Good, Room
<1>5. Unique(r)
  <2>1. r.shm = k.shm /\ r.ident = k.ident
    BY DEF SetGone
  <2>2. \A a \in 1 .. Len(r.sem) : r.sem[a].id < r.ident
    BY <1>2, <2>1 DEF Good, Unique
  <2>3. ASSUME NEW a \in 1 .. Len(r.sem), NEW b \in 1 .. Len(r.sem), a # b
        PROVE  r.sem[a].id # r.sem[b].id
    BY <1>2, <1>3, <2>3 DEF Good, Unique
  <2>4. ASSUME NEW a \in 1 .. Len(r.sem), NEW b \in 1 .. Len(k.shm)
        PROVE  r.sem[a].id # k.shm[b].id
    <3>1. f(a) \in 1 .. Len(k.sem) /\ r.sem[a] = k.sem[f(a)]
      BY <1>2
    <3>2. k.sem[f(a)].id # k.shm[b].id
      BY <3>1 DEF Good, Unique
    <3> QED
      BY <3>1, <3>2
  <2> QED
    BY <2>1, <2>2, <2>3, <2>4 DEF Good, Unique
<1>6. OneKey(r) /\ (CountsFit => Held(r))
  BY DEF Good, OneKey, Held, SetGone
<1> QED
  BY <1>4, <1>5, <1>6 DEF Good, SetGone

LEMMA GoodMade ==
    ASSUME NEW k, Good(k), NEW r, NEW new, SetMade(k, r, new)
    PROVE  Good(r)
<1>1. k \in Memory /\ Len(k.sem) \in Nat /\ Len(k.shm) \in Nat /\ k.ident \in Nat
  BY MemoryFields, Constants DEF Good
<1>2. ASSUME NEW i \in 1 .. Len(r.sem)
      PROVE  \/ i \in 1 .. Len(k.sem) /\ r.sem[i] = k.sem[i]
             \/ i = Len(k.sem) + 1 /\ r.sem[i] = new
  BY <1>1 DEF SetMade
<1>3. Room(r)
  <2>1. Len(r.sem) <= SEMMNI
    BY <1>1, Constants DEF SetMade, Good, Room
  <2> QED
    BY <1>2, <2>1 DEF SetMade, Good, Room
<1>4. Unique(r)
  <2>1. new.id = k.ident /\ r.ident = k.ident + 1 /\ r.shm = k.shm
    BY DEF SetMade
  <2>2. /\ \A i \in 1 .. Len(k.sem) : k.sem[i].id \in Nat
        /\ \A i \in 1 .. Len(k.shm) : k.shm[i].id \in Nat
    <3>1. ASSUME NEW i \in 1 .. Len(k.sem) PROVE k.sem[i].id \in Nat
      BY <1>1, Sems, Constants DEF SemSet
    <3>2. ASSUME NEW i \in 1 .. Len(k.shm) PROVE k.shm[i].id \in Nat
      <4>1. k.shm[i] \in Segment
        BY <1>1, MemoryFields
      <4> QED
        BY <4>1, Constants DEF Segment
    <3> QED
      BY <3>1, <3>2
  <2>3. /\ \A i \in 1 .. Len(k.sem) : k.sem[i].id < k.ident
        /\ \A i \in 1 .. Len(k.shm) : k.shm[i].id < k.ident
        /\ \A i, j \in 1 .. Len(k.sem) : i # j => k.sem[i].id # k.sem[j].id
        /\ \A i, j \in 1 .. Len(k.shm) : i # j => k.shm[i].id # k.shm[j].id
        /\ \A i \in 1 .. Len(k.sem), j \in 1 .. Len(k.shm) : k.sem[i].id # k.shm[j].id
    BY DEF Good, Unique
  <2>4. ASSUME NEW i \in 1 .. Len(r.sem) PROVE r.sem[i].id < r.ident
    <3>1. CASE i \in 1 .. Len(k.sem) /\ r.sem[i] = k.sem[i]
      BY <1>1, <2>1, <2>2, <2>3, <3>1
    <3>2. CASE r.sem[i] = new
      BY <1>1, <2>1, <3>2
    <3> QED
      BY <1>2, <3>1, <3>2
  <2>5. \A i \in 1 .. Len(r.shm) : r.shm[i].id < r.ident
    BY <1>1, <2>1, <2>2, <2>3
  <2>a. \A i \in 1 .. Len(k.sem) : k.sem[i].id # new.id
    BY <1>1, <2>1, <2>2, <2>3
  <2>b. \A i \in 1 .. Len(k.shm) : k.shm[i].id # new.id
    BY <1>1, <2>1, <2>2, <2>3
  <2>6. ASSUME NEW i \in 1 .. Len(r.sem), NEW j \in 1 .. Len(r.sem), i # j
        PROVE  r.sem[i].id # r.sem[j].id
    <3>1. CASE i \in 1 .. Len(k.sem) /\ j \in 1 .. Len(k.sem)
      BY <1>2, <2>3, <2>6, <3>1, <1>1, SMTT(30)
    <3>2. CASE i \in 1 .. Len(k.sem) /\ r.sem[j] = new
      BY <1>1, <1>2, <2>a, <3>2
    <3>3. CASE r.sem[i] = new /\ j \in 1 .. Len(k.sem)
      BY <1>1, <1>2, <2>a, <3>3, SMTT(30)
    <3> QED
      BY <1>2, <2>6, <3>1, <3>2, <3>3
  <2>7. \A i \in 1 .. Len(r.sem), j \in 1 .. Len(r.shm) : r.sem[i].id # r.shm[j].id
    BY <1>2, <2>1, <2>3, <2>b
  <2> QED
    BY <2>1, <2>3, <2>4, <2>5, <2>6, <2>7 DEF Unique
<1>5. OneKey(r) /\ (CountsFit => Held(r))
  BY DEF Good, OneKey, Held, SetMade
<1> QED
  BY <1>3, <1>4, <1>5 DEF Good, SetMade

(* The calls on semaphores keep the tables good.                           *)
LEMMA SemCallsGood ==
    ASSUME NEW k, Good(k), NEW p \in Procs, NEW id \in Ids
    PROVE  /\ \A n \in 1 .. SEMMSL, val \in SetVals : Good(setval(k, p, id, n, val))
           /\ \A buf \in SetAlls : Good(setall(k, p, id, buf))
           /\ \A uid \in NewOwners, mode \in Modes : Good(ipc_set(k, p, id, uid, mode))
           /\ Good(ipc_rmid(k, p, id))
           /\ \A sops \in SemOps : Good(do_semop(k, p, id, sops))
           /\ Good(remove_process(k, p))
<1>0. k \in Memory
  BY DEF Good
<1>1. ASSUME NEW n \in 1 .. SEMMSL, NEW val \in SetVals PROVE Good(setval(k, p, id, n, val))
  <2>1. CASE setval(k, p, id, n, val) = k
    BY <2>1
  <2>2. CASE setval(k, p, id, n, val) # k
    <3>1. PICK i \in 1 .. Len(k.sem) : ValueSet(k, setval(k, p, id, n, val), i, n, val)
      BY <1>0, <2>2, SetOne
    <3>2. setval(k, p, id, n, val) = update_semaphores(Assign(k, i, n, val))
      BY <3>1 DEF ValueSet
    <3>3. Assign(k, i, n, val) \in Memory /\ SameSets(k, Assign(k, i, n, val))
      BY <1>0, <3>1, Assigned DEF Written, ValueSet
    <3> QED
      BY <3>2, <3>3, GoodSame, GoodUpdated
  <2> QED
    BY <2>1, <2>2
<1>2. ASSUME NEW buf \in SetAlls PROVE Good(setall(k, p, id, buf))
  <2>0. \A i \in 1 .. Len(k.sem) : Len(k.sem[i].sems) < SEMMSL
    BY DEF Good, Room
  <2>1. CASE setall(k, p, id, buf) = k
    BY <2>1
  <2>2. CASE setall(k, p, id, buf) # k
    <3>1. PICK i \in 1 .. Len(k.sem) : \E q, l, x :
             setall(k, p, id, buf) = update_semaphores(x) /\ GivenAll(k, x, i, q, l)
      BY <1>0, <2>0, <2>2, AllSet
    <3>2. PICK q, l, x : setall(k, p, id, buf) = update_semaphores(x) /\ GivenAll(k, x, i, q, l)
      BY <3>1
    <3>3. x \in Memory /\ SameSets(k, x)
      BY <3>2 DEF GivenAll, Written
    <3> QED
      BY <3>2, <3>3, GoodSame, GoodUpdated
  <2> QED
    BY <2>1, <2>2
<1>3. ASSUME NEW uid \in NewOwners, NEW mode \in Modes PROVE Good(ipc_set(k, p, id, uid, mode))
  BY <1>0, SetPerm, GoodSame
<1>4. Good(ipc_rmid(k, p, id))
  BY <1>0, SetRemoved, GoodGone
<1>5. ASSUME NEW sops \in SemOps PROVE Good(do_semop(k, p, id, sops))
  <2>1. CASE do_semop(k, p, id, sops) = update_semaphores(k)
    BY <2>1, GoodUpdated
  <2>2. CASE do_semop(k, p, id, sops) # update_semaphores(k)
    <3>1. PICK i \in 1 .. Len(k.sem) : \E x, done, q, l, c :
             /\ do_semop(k, p, id, sops) = update_semaphores(x)
             /\ OpsApplied(k, x, p, i, sops, done, q, l, c)
      BY <1>0, <2>2, SemopDone
    <3>2. PICK x, done, q, l, c :
             /\ do_semop(k, p, id, sops) = update_semaphores(x)
             /\ OpsApplied(k, x, p, i, sops, done, q, l, c)
      BY <3>1
    <3>3. x \in Memory /\ SameSets(k, x)
      BY <3>2 DEF OpsApplied, Written
    <3> QED
      BY <3>2, <3>3, GoodSame, GoodUpdated
  <2> QED
    BY <2>1, <2>2
<1>6. Good(remove_process(k, p))
  BY <1>0, ProcessRemoved, GoodSame DEF Reported
<1> QED
  BY <1>1, <1>2, <1>3, <1>4, <1>5, <1>6

-----------------------------------------------------------------------------
(* The calls on segments.                                                  *)

LEMMA GoodSegment ==
    ASSUME NEW k, Good(k), NEW p \in Procs, NEW key \in ShmKeys, NEW mode \in Modes,
           k.ident < MaxId
    PROVE  Good(do_shmget(k, p, key, mode))
<1> DEFINE new == [key |-> key, id |-> k.ident, perm |-> NewPerm(p, mode), dest |-> FALSE]
<1>0. /\ k \in Memory /\ k.shm \in Seq(Segment) /\ Len(k.shm) \in Nat /\ k.ident \in Ids
      /\ k.ident \in Nat /\ Len(k.shm) <= MAX_SHM_NR
  BY MemoryFields, Constants DEF Good, Room
<1>1. PICK r : r = do_shmget(k, p, key, mode)
  OBVIOUS
<1>2. CASE r = k
  BY <1>1, <1>2
<1>3. CASE r # k
  <2>1. /\ r = [k EXCEPT !.shm = Append(k.shm, new), !.ident = k.ident + 1]
        /\ find_key(k.shm, key) = 0 /\ Len(k.shm) # MAX_SHM_NR
    BY <1>1, <1>3 DEF do_shmget
  <2>2. new \in Segment /\ new.id = k.ident /\ new.key = key
    BY <1>0, NewPermOK DEF Segment
  <2> HIDE DEF new
  <2>3. PICK t : t = Append(k.shm, new)
    OBVIOUS
  <2>4. /\ t \in Seq(Segment) /\ Len(t) = Len(k.shm) + 1 /\ t[Len(k.shm) + 1] = new
        /\ \A i \in 1 .. Len(k.shm) : t[i] = k.shm[i]
    BY <1>0, <2>2, <2>3, AppendProperties
  <2>5. k.ident + 1 \in Ids
    BY <1>0, Constants DEF Ids
  <2>6. PICK b : b = [k EXCEPT !.shm = t]
    OBVIOUS
  <2>7. b \in Memory /\ b.shm = t /\ b.sem = k.sem /\ b.mapped = k.mapped /\ b.ident = k.ident
    BY <1>0, <2>4, <2>6 DEF Memory
  <2>8. r = [b EXCEPT !.ident = k.ident + 1]
    BY <2>1, <2>3, <2>6
  <2>9. r \in Memory /\ r.shm = t /\ r.sem = k.sem /\ r.mapped = k.mapped /\ r.ident = k.ident + 1
    BY <2>5, <2>7, <2>8 DEF Memory
  <2>10. ASSUME NEW i \in 1 .. Len(t)
         PROVE  \/ i \in 1 .. Len(k.shm) /\ t[i] = k.shm[i]
                \/ i = Len(k.shm) + 1 /\ t[i] = new
    BY <1>0, <2>4
  <2>11. Room(r)
    <3>1. Len(r.shm) <= MAX_SHM_NR
      BY <1>0, <2>1, <2>4, <2>9, Constants, SMTT(30)
    <3> QED
      BY <2>9, <3>1 DEF Good, Room
  <2>12. Unique(r)
    <3>1. /\ \A i \in 1 .. Len(k.sem) : k.sem[i].id < k.ident /\ k.sem[i].id \in Nat
          /\ \A i \in 1 .. Len(k.shm) : k.shm[i].id < k.ident /\ k.shm[i].id \in Nat
      <4>1. ASSUME NEW i \in 1 .. Len(k.sem) PROVE k.sem[i].id \in Nat
        BY <1>0, Sems, Constants DEF SemSet
      <4>2. ASSUME NEW i \in 1 .. Len(k.shm) PROVE k.shm[i].id \in Nat
        <5>1. k.shm[i] \in Segment
          BY <1>0
        <5> QED
          BY <5>1, Constants DEF Segment
      <4> QED
        BY <4>1, <4>2 DEF Good, Unique
    <3>2. /\ \A i \in 1 .. Len(k.sem) : k.sem[i].id # new.id /\ k.sem[i].id < k.ident + 1
          /\ \A i \in 1 .. Len(k.shm) : k.shm[i].id # new.id /\ k.shm[i].id < k.ident + 1
      BY <1>0, <2>2, <3>1
    <3>3. new.id < k.ident + 1
      BY <1>0, <2>2
    <3>4. /\ \A i, j \in 1 .. Len(k.shm) : i # j => k.shm[i].id # k.shm[j].id
          /\ \A i, j \in 1 .. Len(k.sem) : i # j => k.sem[i].id # k.sem[j].id
          /\ \A i \in 1 .. Len(k.sem), j \in 1 .. Len(k.shm) : k.sem[i].id # k.shm[j].id
      BY DEF Good, Unique
    <3>5. \A i \in 1 .. Len(t) : t[i].id < k.ident + 1
      BY <2>10, <3>2, <3>3
    <3>6. ASSUME NEW i \in 1 .. Len(t), NEW j \in 1 .. Len(t), i # j PROVE t[i].id # t[j].id
      <4>1. CASE i \in 1 .. Len(k.shm) /\ j \in 1 .. Len(k.shm)
        BY <2>4, <3>4, <3>6, <4>1
      <4>2. CASE i \in 1 .. Len(k.shm) /\ t[j] = new
        BY <2>4, <3>2, <4>2
      <4>3. CASE t[i] = new /\ j \in 1 .. Len(k.shm)
        BY <2>4, <3>2, <4>3
      <4> QED
        BY <2>10, <3>6, <4>1, <4>2, <4>3
    <3>7. ASSUME NEW i \in 1 .. Len(k.sem), NEW j \in 1 .. Len(t) PROVE k.sem[i].id # t[j].id
      BY <2>10, <3>2, <3>4
    <3> QED
      BY <2>9, <3>2, <3>4, <3>5, <3>6, <3>7 DEF Unique
  <2>13. OneKey(r)
    <3>1. ASSUME NEW i \in 1 .. Len(t), NEW j \in 1 .. Len(t), i # j, t[i].key = t[j].key
          PROVE  t[i].key = IPC_PRIVATE
      <4>1. CASE i \in 1 .. Len(k.shm) /\ j \in 1 .. Len(k.shm)
        BY <2>4, <3>1, <4>1 DEF Good, OneKey
      <4>2. ASSUME key # IPC_PRIVATE PROVE \A a \in 1 .. Len(k.shm) : k.shm[a].key # key
        BY <1>0, <2>1, <4>2, FindKey
      <4>3. CASE i \in 1 .. Len(k.shm) /\ t[j] = new
        BY <2>2, <2>4, <3>1, <4>2, <4>3
      <4>4. CASE t[i] = new /\ j \in 1 .. Len(k.shm)
        BY <2>2, <2>4, <3>1, <4>2, <4>4
      <4> QED
        BY <2>10, <3>1, <4>1, <4>3, <4>4
    <3> QED
      BY <2>9, <3>1 DEF OneKey
  <2>14. ASSUME CountsFit PROVE Held(r)
    <3>1. ASSUME NEW q \in Procs, NEW id \in Ids, k.mapped[q][id] > 0
          PROVE  \E i \in 1 .. Len(t) : t[i].id = id
      <4>1. PICK i \in 1 .. Len(k.shm) : k.shm[i].id = id
        BY <2>14, <3>1 DEF Good, Held
      <4> QED
        BY <1>0, <2>4, <4>1
    <3> QED
      BY <2>9, <3>1 DEF Held
  <2> QED
    BY <1>1, <2>9, <2>11, <2>12, <2>13, <2>14 DEF Good
<1> QED
  BY <1>2, <1>3

(* IPC_SET and IPC_RMID on a segment: its key and id stay.                 *)
LEMMA GoodEntry ==
    ASSUME NEW k, Good(k), NEW i \in 1 .. Len(k.shm), NEW e \in Segment,
           e.id = k.shm[i].id, e.key = k.shm[i].key
    PROVE  Good([k EXCEPT !.shm = [k.shm EXCEPT ![i] = e]])
<1>1. PICK t : t = [k.shm EXCEPT ![i] = e]
  OBVIOUS
<1>2. k \in Memory /\ k.shm \in Seq(Segment)
  BY MemoryFields DEF Good
<1>3. /\ t \in Seq(Segment) /\ Len(t) = Len(k.shm)
      /\ \A j \in 1 .. Len(k.shm) : t[j] = IF j = i THEN e ELSE k.shm[j]
  BY <1>1, <1>2, ExceptSeq
<1>4. \A j \in 1 .. Len(k.shm) : t[j].id = k.shm[j].id /\ t[j].key = k.shm[j].key
  BY <1>3
<1>5. PICK r : r = [k EXCEPT !.shm = t]
  OBVIOUS
<1>6. r \in Memory /\ r.shm = t /\ r.sem = k.sem /\ r.mapped = k.mapped /\ r.ident = k.ident
  BY <1>2, <1>3, <1>5 DEF Memory
<1>7. Room(r)
  BY <1>3, <1>6 DEF Good, Room
<1>8. Unique(r)
  BY <1>3, <1>4, <1>6 DEF Good, Unique
<1>9. OneKey(r) /\ (CountsFit => Held(r))
  BY <1>3, <1>4, <1>6 DEF Good, OneKey, Held
<1> QED
  BY <1>1, <1>5, <1>6, <1>7, <1>8, <1>9 DEF Good

LEMMA GoodCtl ==
    ASSUME NEW k, Good(k), NEW p \in Procs, NEW id \in Ids
    PROVE  /\ \A uid \in NewOwners, mode \in Modes : Good(shm_set(k, p, id, uid, mode))
           /\ Good(shm_rmid(k, p, id))
<1>0. k \in Memory /\ k.shm \in Seq(Segment)
  BY MemoryFields DEF Good
<1>1. PICK i : i = find_id(k.shm, id)
  OBVIOUS
<1>2. i # 0 => i \in 1 .. Len(k.shm) /\ k.shm[i] \in Segment
  <2>1. i # 0 => i \in 1 .. Len(k.shm)
    BY <1>0, <1>1, FindId
  <2> QED
    BY <1>0, <2>1
<1>3. ASSUME NEW uid \in NewOwners, NEW mode \in Modes PROVE Good(shm_set(k, p, id, uid, mode))
  <2>1. CASE shm_set(k, p, id, uid, mode) = k
    BY <2>1
  <2>2. CASE shm_set(k, p, id, uid, mode) # k
    <3>1. PICK m : m = [k.shm[i].perm EXCEPT !.uid = uid, !.own = mode[1], !.other = mode[2]]
      OBVIOUS
    <3>2. i # 0 /\ shm_set(k, p, id, uid, mode) = [k EXCEPT !.shm[i].perm = m]
      BY <1>1, <2>2, <3>1 DEF shm_set
    <3>3. k.shm[i].perm \in Perms
      BY <1>2, <3>2 DEF Segment
    <3>4. mode[1] \in SUBSET {"r", "w"} /\ mode[2] \in SUBSET {"r", "w"}
      BY IPCAssumption
    <3>5. m \in Perms
      <4>1. PICK a : a = [k.shm[i].perm EXCEPT !.uid = uid]
        OBVIOUS
      <4>2. a \in Perms
        BY <3>3, <4>1 DEF Perms
      <4>3. PICK b : b = [a EXCEPT !.own = mode[1]]
        OBVIOUS
      <4>4. b \in Perms
        BY <3>4, <4>2, <4>3 DEF Perms
      <4>5. [b EXCEPT !.other = mode[2]] \in Perms
        BY <3>4, <4>4 DEF Perms
      <4> QED
        BY <3>1, <4>1, <4>3, <4>5
    <3>6. PICK e : e = [k.shm[i] EXCEPT !.perm = m]
      OBVIOUS
    <3>7. e \in Segment /\ e.id = k.shm[i].id /\ e.key = k.shm[i].key
      BY <1>2, <3>2, <3>5, <3>6 DEF Segment
    <3>8. shm_set(k, p, id, uid, mode) = [k EXCEPT !.shm = [k.shm EXCEPT ![i] = e]]
      BY <3>2, <3>6
    <3>9. i \in 1 .. Len(k.shm)
      BY <1>2, <3>2
    <3>10. Good([k EXCEPT !.shm = [k.shm EXCEPT ![i] = e]])
      BY <3>7, <3>9, GoodEntry
    <3> QED
      BY <3>8, <3>10
  <2> QED
    BY <2>1, <2>2
<1>4. Good(shm_rmid(k, p, id))
  <2>1. CASE shm_rmid(k, p, id) = k
    BY <2>1
  <2>2. CASE shm_rmid(k, p, id) # k
    <3>1. i # 0 /\ shm_rmid(k, p, id) = [k EXCEPT !.shm[i].dest = TRUE]
      BY <1>1, <2>2 DEF shm_rmid
    <3>2. PICK e : e = [k.shm[i] EXCEPT !.dest = TRUE]
      OBVIOUS
    <3>3. e \in Segment /\ e.id = k.shm[i].id /\ e.key = k.shm[i].key
      BY <1>2, <3>1, <3>2 DEF Segment
    <3>4. shm_rmid(k, p, id) = [k EXCEPT !.shm = [k.shm EXCEPT ![i] = e]]
      BY <3>1, <3>2
    <3>5. i \in 1 .. Len(k.shm)
      BY <1>2, <3>1
    <3>6. Good([k EXCEPT !.shm = [k.shm EXCEPT ![i] = e]])
      BY <3>3, <3>5, GoodEntry
    <3> QED
      BY <3>4, <3>6
  <2> QED
    BY <2>1, <2>2
<1> QED
  BY <1>3, <1>4

(* shmat and shmdt.                                                        *)
LEMMA GoodMapping ==
    ASSUME NEW k, Good(k), NEW m \in [Procs -> [Ids -> 0 .. MaxAttach]],
           CountsFit => \A p \in Procs, id \in Ids :
               m[p][id] > 0 => \E i \in 1 .. Len(k.shm) : k.shm[i].id = id
    PROVE  Good([k EXCEPT !.mapped = m])
<1>1. PICK r : r = [k EXCEPT !.mapped = m]
  OBVIOUS
<1>2. r \in Memory /\ r.shm = k.shm /\ r.sem = k.sem /\ r.mapped = m /\ r.ident = k.ident
  BY <1>1 DEF Good, Memory
<1>3. Room(r) /\ Unique(r) /\ OneKey(r)
  BY <1>2 DEF Good, Room, Unique, OneKey
<1>4. CountsFit => Held(r)
  BY <1>2 DEF Held
<1> QED
  BY <1>1, <1>2, <1>3, <1>4 DEF Good

LEMMA GoodAttach ==
    ASSUME NEW k, Good(k), NEW p \in Procs, NEW id \in Ids, NEW want,
           k.mapped[p][id] < MaxAttach
    PROVE  Good(do_shmat(k, p, id, want))
<1>0. k.shm \in Seq(Segment) /\ k.mapped \in [Procs -> [Ids -> 0 .. MaxAttach]]
  BY MemoryFields DEF Good
<1>1. CASE do_shmat(k, p, id, want) = k
  BY <1>1
<1>2. CASE do_shmat(k, p, id, want) # k
  <2>1. PICK i : i = find_id(k.shm, id)
    OBVIOUS
  <2>2. PICK v : v = k.mapped[p][id] + 1
    OBVIOUS
  <2>3. i # 0 /\ do_shmat(k, p, id, want) = [k EXCEPT !.mapped[p][id] = v]
    BY <1>2, <2>1, <2>2 DEF do_shmat
  <2>4. i \in 1 .. Len(k.shm) /\ k.shm[i].id = id
    BY <1>0, <2>1, <2>3, FindId
  <2>5. v \in 0 .. MaxAttach
    <3>1. k.mapped[p][id] \in 0 .. MaxAttach
      BY <1>0
    <3> QED
      BY <2>2, <3>1, Constants
  <2>6. PICK m : m = [k.mapped EXCEPT ![p] = [k.mapped[p] EXCEPT ![id] = v]]
    OBVIOUS
  <2>7. /\ m \in [Procs -> [Ids -> 0 .. MaxAttach]]
        /\ \A q \in Procs, d \in Ids : m[q][d] = IF q = p /\ d = id THEN v ELSE k.mapped[q][d]
    BY <1>0, <2>5, <2>6
  <2>8. ASSUME CountsFit, NEW q \in Procs, NEW d \in Ids, m[q][d] > 0
        PROVE  \E j \in 1 .. Len(k.shm) : k.shm[j].id = d
    <3>1. CASE q = p /\ d = id
      BY <2>4, <3>1
    <3>2. CASE ~ (q = p /\ d = id)
      <4>1. k.mapped[q][d] > 0
        BY <2>7, <2>8, <3>2
      <4> QED
        BY <2>8, <4>1 DEF Good, Held
    <3> QED
      BY <3>1, <3>2
  <2>9. Good([k EXCEPT !.mapped = m])
    BY <2>7, <2>8, GoodMapping
  <2>10. do_shmat(k, p, id, want) = [k EXCEPT !.mapped = m]
    BY <2>3, <2>6
  <2> QED
    BY <2>9, <2>10
<1> QED
  BY <1>1, <1>2

LEMMA GoodDetach ==
    ASSUME NEW k, Good(k), NEW p \in Procs, NEW page \in Ids
    PROVE  Good(do_shmdt(k, p, page))
<1>0. k.mapped \in [Procs -> [Ids -> 0 .. MaxAttach]]
  BY MemoryFields DEF Good
<1>1. CASE do_shmdt(k, p, page) = k
  BY <1>1
<1>2. CASE do_shmdt(k, p, page) # k
  <2>1. PICK v : v = k.mapped[p][page] - 1
    OBVIOUS
  <2>2. k.mapped[p][page] # 0 /\ do_shmdt(k, p, page) = [k EXCEPT !.mapped[p][page] = v]
    BY <1>2, <2>1 DEF do_shmdt
  <2>3. k.mapped[p][page] \in 0 .. MaxAttach
    BY <1>0
  <2>4. v \in 0 .. MaxAttach /\ k.mapped[p][page] > 0
    BY <2>1, <2>2, <2>3, Constants
  <2>5. PICK m : m = [k.mapped EXCEPT ![p] = [k.mapped[p] EXCEPT ![page] = v]]
    OBVIOUS
  <2>6. /\ m \in [Procs -> [Ids -> 0 .. MaxAttach]]
        /\ \A q \in Procs, d \in Ids : m[q][d] = IF q = p /\ d = page THEN v ELSE k.mapped[q][d]
    BY <1>0, <2>4, <2>5
  <2>7. ASSUME CountsFit, NEW q \in Procs, NEW d \in Ids, m[q][d] > 0
        PROVE  \E j \in 1 .. Len(k.shm) : k.shm[j].id = d
    <3>1. k.mapped[q][d] > 0
      BY <2>4, <2>6, <2>7
    <3> QED
      BY <2>7, <3>1 DEF Good, Held
  <2>8. Good([k EXCEPT !.mapped = m])
    BY <2>6, <2>7, GoodMapping
  <2>9. do_shmdt(k, p, page) = [k EXCEPT !.mapped = m]
    BY <2>2, <2>5
  <2> QED
    BY <2>8, <2>9
<1> QED
  BY <1>1, <1>2

LEMMA ModSmall ==
    ASSUME NEW n \in Nat, NEW x \in Nat, x < n
    PROVE  x % n = x
OBVIOUS

(* update_refcount_and_destroy keeps every segment that is mapped.         *)
LEMMA UsedIsKept ==
    ASSUME NEW k, Good(k), CountsFit, NEW p \in Procs, NEW e \in Segment,
           k.mapped[p][e.id] > 0
    PROVE  Keeps(k, e)
<1>0. k.mapped \in [Procs -> [Ids -> 0 .. MaxAttach]] /\ e.id \in Ids
  BY MemoryFields DEF Good, Segment
<1>1. \A q \in Procs : k.mapped[q][e.id] \in 0 .. MaxAttach
  BY <1>0
<1>2. PICK t \in 0 .. Cardinality(Procs) * MaxAttach :
         /\ vm_getrefcount(k, e.id) = (1 + t) % U8
         /\ \A q \in Procs : t >= k.mapped[q][e.id]
  BY <1>1, RefCount
<1>3. PICK c : c = Cardinality(Procs) * MaxAttach
  OBVIOUS
<1>4. c \in Nat
  <2>1. Cardinality(Procs) \in Nat
    BY IPCAssumption, FS_CardinalityType
  <2> QED
    BY <1>3, <2>1, Constants
<1>5. t \in Nat /\ t <= c /\ c + 2 < U8 /\ U8 \in Nat
  BY <1>2, <1>3, <1>4, Constants DEF CountsFit
<1>6. t >= 1
  <2>1. PICK v : v = k.mapped[p][e.id]
    OBVIOUS
  <2>2. t >= v /\ v \in Int /\ v > 0
    BY <1>1, <1>2, <2>1
  <2> QED
    BY <1>5, <2>2
<1>7. (1 + t) % U8 = 1 + t
  <2>1. 1 + t \in Nat /\ 1 + t < U8
    BY <1>4, <1>5
  <2> QED
    BY <1>5, <2>1, ModSmall
<1>8. vm_getrefcount(k, e.id) # U8 - 1 /\ vm_getrefcount(k, e.id) # 1
  <2>1. 1 + t # U8 - 1 /\ 1 + t # 1
    BY <1>4, <1>5, <1>6
  <2> QED
    BY <1>2, <1>7, <2>1
<1> QED
  BY <1>8 DEF Keeps

LEMMA GoodLooked ==
    ASSUME NEW k, Good(k)
    PROVE  Good(update_refcount_and_destroy(k))
<1>0. k \in Memory /\ k.shm \in Seq(Segment) /\ Len(k.shm) \in Nat
  BY MemoryFields DEF Good
<1>1. PICK t \in Seq(Segment) : /\ update_refcount_and_destroy(k) = [k EXCEPT !.shm = t]
                                /\ Left(k, k.shm, Len(k.shm), t)
  BY <1>0, EntriesLeft
<1>2. PICK r : r = [k EXCEPT !.shm = t]
  OBVIOUS
<1>3. r \in Memory /\ r.shm = t /\ r.sem = k.sem /\ r.mapped = k.mapped /\ r.ident = k.ident
  BY <1>0, <1>2 DEF Memory
<1>4. /\ Len(t) <= Len(k.shm) /\ Len(t) \in Nat
      /\ \A a \in 1 .. Len(t) : \E c \in 1 .. Len(k.shm) : t[a] = k.shm[c]
      /\ \A a, b \in 1 .. Len(t) : a # b =>
            \E c, d \in 1 .. Len(k.shm) : c # d /\ t[a] = k.shm[c] /\ t[b] = k.shm[d]
      /\ \A c \in 1 .. Len(k.shm) : Keeps(k, k.shm[c]) => \E a \in 1 .. Len(t) : t[a] = k.shm[c]
  BY <1>1 DEF Left
<1>5. Room(r)
  <2>1. Len(k.shm) <= MAX_SHM_NR
    BY DEF Good, Room
  <2>2. Len(t) <= MAX_SHM_NR
    BY <1>0, <1>4, <2>1, Constants
  <2> QED
    BY <1>3, <2>2 DEF Good, Room
<1>6. Unique(r)
  <2>1. ASSUME NEW a \in 1 .. Len(t)
        PROVE  t[a].id < k.ident /\ \A i \in 1 .. Len(k.sem) : k.sem[i].id # t[a].id
    <3>1. PICK c \in 1 .. Len(k.shm) : t[a] = k.shm[c]
      BY <1>4
    <3> QED
      BY <3>1 DEF Good, Unique
  <2>2. ASSUME NEW a \in 1 .. Len(t), NEW b \in 1 .. Len(t), a # b PROVE t[a].id # t[b].id
    <3>1. PICK c \in 1 .. Len(k.shm), d \in 1 .. Len(k.shm) :
             c # d /\ t[a] = k.shm[c] /\ t[b] = k.shm[d]
      BY <1>4, <2>2
    <3> QED
      BY <3>1 DEF Good, Unique
  <2> QED
    BY <1>3, <2>1, <2>2 DEF Good, Unique
<1>7. OneKey(r)
  <2>1. ASSUME NEW a \in 1 .. Len(t), NEW b \in 1 .. Len(t), a # b, t[a].key = t[b].key
        PROVE  t[a].key = IPC_PRIVATE
    <3>1. PICK c \in 1 .. Len(k.shm), d \in 1 .. Len(k.shm) :
             c # d /\ t[a] = k.shm[c] /\ t[b] = k.shm[d]
      BY <1>4, <2>1
    <3> QED
      BY <2>1, <3>1 DEF Good, OneKey
  <2> QED
    BY <1>3, <2>1 DEF OneKey
<1>8. ASSUME CountsFit PROVE Held(r)
  <2>1. ASSUME NEW p \in Procs, NEW id \in Ids, k.mapped[p][id] > 0
        PROVE  \E a \in 1 .. Len(t) : t[a].id = id
    <3>1. PICK c \in 1 .. Len(k.shm) : k.shm[c].id = id
      BY <1>8, <2>1 DEF Good, Held
    <3>2. k.shm[c] \in Segment
      BY <1>0
    <3>3. Keeps(k, k.shm[c])
      BY <1>8, <2>1, <3>1, <3>2, UsedIsKept
    <3> QED
      BY <1>4, <3>1, <3>3
  <2> QED
    BY <1>3, <2>1 DEF Held
<1> QED
  BY <1>1, <1>2, <1>3, <1>5, <1>6, <1>7, <1>8 DEF Good

-----------------------------------------------------------------------------
(* The inductive invariant of the tables.                                  *)
TablesInv ==
    Good(K) /\ array \in SUBSET Procs /\ notified \in BOOLEAN /\ querying \in BOOLEAN

LEMMA Becomes ==
    ASSUME NEW k \in Memory, Become(k)
    PROVE  K' = k
BY MemoryFields DEF Become, K

LEMMA KFields ==
    /\ K.sem = sem_list /\ K.shm = shm_list /\ K.ident = identifier /\ K.client = client
    /\ K.mapped = mapped /\ K.ledger = ledger /\ K.crashed = crashed
BY DEF K

(* A call, with the look at the segments that follows it.                  *)
LEMMA GoodMain ==
    ASSUME TablesInv, NEW p, NEW k, Good(k), main(p, k)
    PROVE  TablesInv'
<1>1. CASE k.crashed
  <2>1. Become(k)
    BY <1>1 DEF main
  <2>2. K' = k
    BY <2>1, Becomes DEF Good
  <2> QED
    BY <2>2 DEF TablesInv, main
<1>2. CASE ~ k.crashed
  <2>1. Become(update_refcount_and_destroy(k))
    BY <1>2 DEF main
  <2>2. Good(update_refcount_and_destroy(k))
    BY GoodLooked
  <2>3. K' = update_refcount_and_destroy(k)
    BY <2>1, <2>2, Becomes DEF Good
  <2> QED
    BY <2>2, <2>3 DEF TablesInv, main
<1> QED
  BY <1>1, <1>2

LEMMA GoodClient ==
    ASSUME NEW k, Good(k), NEW c \in [Procs -> Caller]
    PROVE  Good([k EXCEPT !.client = c])
<1>1. PICK r : r = [k EXCEPT !.client = c]
  OBVIOUS
<1>2. /\ r \in Memory /\ r.shm = k.shm /\ r.sem = k.sem /\ r.mapped = k.mapped
      /\ r.ident = k.ident
  BY <1>1 DEF Good, Memory
<1>3. Room(r) /\ Unique(r) /\ OneKey(r) /\ (CountsFit => Held(r))
  BY <1>2 DEF Good, Room, Unique, OneKey, Held
<1> QED
  BY <1>1, <1>2, <1>3 DEF Good

LEMMA ClientOK ==
    ASSUME NEW st \in {"unborn", "run", "wait", "exiting", "gone"}
    PROVE  Client(st) \in Caller
BY DEF Client, NoCall, Caller

LEMMA TablesInit == Init => TablesInv
<1> SUFFICES ASSUME Init PROVE TablesInv
  OBVIOUS
<1>1. client \in [Procs -> Caller]
  <2>1. ASSUME NEW p \in Procs PROVE client[p] \in Caller
    BY ClientOK DEF Init
  <2> QED
    BY <2>1 DEF Init
<1>2. mapped \in [Procs -> [Ids -> 0 .. MaxAttach]] /\ \A p \in Procs, id \in Ids : mapped[p][id] = 0
  BY Constants DEF Init
<1>3. ledger \in [Ids -> [1 .. SEMMSL -> Int]]
  BY DEF Init
<1>4. sem_list \in Seq(SemSet) /\ shm_list \in Seq(Segment) /\ Len(sem_list) = 0 /\ Len(shm_list) = 0
  BY DEF Init
<1>5. identifier \in Ids /\ crashed \in BOOLEAN
  BY Constants DEF Init
<1>6. K \in Memory
  BY <1>1, <1>2, <1>3, <1>4, <1>5 DEF K, Memory
<1>7. Room(K) /\ Unique(K) /\ OneKey(K)
  BY <1>4, KFields, Constants DEF Room, Unique, OneKey
<1>8. Held(K)
  BY <1>2, KFields DEF Held
<1> QED
  BY <1>6, <1>7, <1>8 DEF TablesInv, Good, Init

LEMMA TablesStep == TablesInv /\ [Next]_vars => TablesInv'
<1> SUFFICES ASSUME TablesInv, [Next]_vars PROVE TablesInv'
  OBVIOUS
<1>0. Good(K) /\ K \in Memory
  BY DEF TablesInv, Good
<1>a. BusyIds \subseteq Ids
  BY IPCAssumption DEF Ids
<1>1. ASSUME NEW p \in Procs, semget(p) PROVE TablesInv'
  <2>1. PICK key \in SemKeys, nsems \in Sizes, mode \in Modes :
           identifier < MaxId /\ main(p, do_semget(K, p, key, nsems, mode))
    BY <1>1 DEF semget
  <2>2. Good(do_semget(K, p, key, nsems, mode))
    <3>1. PICK r : r = do_semget(K, p, key, nsems, mode)
      OBVIOUS
    <3>2. r = K \/ \E new : SetMade(K, r, new)
      BY <1>0, <2>1, <3>1, KFields, SetGot
    <3> QED
      BY <1>0, <3>1, <3>2, GoodMade
  <2> QED
    BY <2>1, <2>2, GoodMain
<1>2. ASSUME NEW p \in Procs, semctl(p) PROVE TablesInv'
  <2>1. CASE \E id \in BusyIds, n \in 1 .. SEMMSL, val \in SetVals : main(p, setval(K, p, id, n, val))
    BY <1>0, <1>a, <2>1, SemCallsGood, GoodMain
  <2>2. CASE \E id \in BusyIds, buf \in SetAlls : main(p, setall(K, p, id, buf))
    BY <1>0, <1>a, <2>2, SemCallsGood, GoodMain
  <2>3. CASE \E id \in BusyIds, uid \in NewOwners, mode \in Modes :
                main(p, ipc_set(K, p, id, uid, mode))
    BY <1>0, <1>a, <2>3, SemCallsGood, GoodMain
  <2>4. CASE \E id \in Ids : main(p, ipc_rmid(K, p, id))
    BY <1>0, <2>4, SemCallsGood, GoodMain
  <2> QED
    BY <1>2, <2>1, <2>2, <2>3, <2>4 DEF semctl
<1>3. ASSUME NEW p \in Procs, semop(p) PROVE TablesInv'
  <2>1. PICK id \in BusyIds, sops \in SemOps : main(p, do_semop(K, p, id, sops))
    BY <1>3 DEF semop
  <2> QED
    BY <1>0, <1>a, <2>1, SemCallsGood, GoodMain
<1>4. ASSUME NEW p \in Procs, shmget(p) PROVE TablesInv'
  <2>1. PICK key \in ShmKeys, mode \in Modes :
           identifier < MaxId /\ main(p, do_shmget(K, p, key, mode))
    BY <1>4 DEF shmget
  <2> QED
    BY <1>0, <2>1, KFields, GoodSegment, GoodMain
<1>5. ASSUME NEW p \in Procs, shmat(p) PROVE TablesInv'
  <2>1. PICK id \in Ids, want \in {{"r"}, {"r", "w"}} :
           mapped[p][id] < MaxAttach /\ main(p, do_shmat(K, p, id, want))
    BY <1>5 DEF shmat
  <2> QED
    BY <1>0, <2>1, KFields, GoodAttach, GoodMain
<1>6. ASSUME NEW p \in Procs, shmdt(p) PROVE TablesInv'
  BY <1>0, <1>6, GoodDetach, GoodMain DEF shmdt
<1>7. ASSUME NEW p \in Procs, shmctl(p) PROVE TablesInv'
  BY <1>0, <1>7, GoodCtl, GoodMain DEF shmctl
<1>8. ASSUME NEW p \in Procs, stat(p) PROVE TablesInv'
  BY <1>0, <1>8, GoodMain DEF stat
<1>9. ASSUME NEW p \in Procs, unpause(p) PROVE TablesInv'
  <2>1. K' = K
    BY <1>9 DEF unpause, K
  <2> QED
    BY <1>0, <1>9, <2>1 DEF TablesInv, unpause, do_notify_sig
<1>10. ASSUME NEW p \in Procs, exit_proc(p) PROVE TablesInv'
  <2>1. client' \in [Procs -> Caller]
    BY <1>0, <1>10, KFields, MemoryFields, ClientOK DEF exit_proc
  <2>2. K' = [K EXCEPT !.client = client']
    BY <1>10 DEF exit_proc, K
  <2>3. Good(K')
    BY <1>0, <2>1, <2>2, GoodClient
  <2> QED
    BY <1>10, <2>3 DEF TablesInv, exit_proc, do_notify_sig
<1>11. ASSUME NEW p \in Procs, vm_exit(p) PROVE TablesInv'
  <2>1. client' \in [Procs -> Caller]
    BY <1>0, <1>11, KFields, MemoryFields, ClientOK DEF vm_exit
  <2>2. /\ mapped' \in [Procs -> [Ids -> 0 .. MaxAttach]]
        /\ \A q \in Procs, id \in Ids : mapped'[q][id] = IF q = p THEN 0 ELSE mapped[q][id]
    <3>1. mapped \in [Procs -> [Ids -> 0 .. MaxAttach]]
      BY <1>0, KFields, MemoryFields
    <3>2. [id \in Ids |-> 0] \in [Ids -> 0 .. MaxAttach]
      BY Constants
    <3> QED
      BY <1>11, <3>1, <3>2 DEF vm_exit
  <2>3. PICK k : k = [K EXCEPT !.client = client']
    OBVIOUS
  <2>4. Good(k) /\ k.shm = K.shm
    BY <1>0, <2>1, <2>3, GoodClient DEF Memory
  <2>5. K' = [k EXCEPT !.mapped = mapped']
    <3>1. K' = [sem |-> sem_list, shm |-> shm_list, ident |-> identifier, client |-> client',
                mapped |-> mapped', ledger |-> ledger, crashed |-> crashed]
      BY <1>11 DEF vm_exit, K
    <3>2. k = [sem |-> sem_list, shm |-> shm_list, ident |-> identifier, client |-> client',
               mapped |-> mapped, ledger |-> ledger, crashed |-> crashed]
      BY <2>3 DEF K
    <3> QED
      BY <3>1, <3>2
  <2>6. ASSUME CountsFit, NEW q \in Procs, NEW id \in Ids, mapped'[q][id] > 0
        PROVE  \E i \in 1 .. Len(k.shm) : k.shm[i].id = id
    <3>1. mapped[q][id] > 0
      BY <2>2, <2>6
    <3> QED
      BY <1>0, <2>4, <2>6, <3>1, KFields DEF Good, Held
  <2>7. Good(K')
    BY <2>2, <2>4, <2>5, <2>6, GoodMapping
  <2> QED
    BY <1>11, <2>7 DEF TablesInv, vm_exit
<1>12. ASSUME NEW p \in Procs, NEW c \in Procs, vm_fork(p, c) PROVE TablesInv'
  <2>1. client' \in [Procs -> Caller]
    BY <1>0, <1>12, KFields, MemoryFields, ClientOK DEF vm_fork
  <2>2. /\ mapped' \in [Procs -> [Ids -> 0 .. MaxAttach]]
        /\ \A q \in Procs, id \in Ids : mapped'[q][id] = IF q = c THEN mapped[p][id] ELSE mapped[q][id]
    BY <1>0, <1>12, KFields, MemoryFields DEF vm_fork
  <2>3. PICK k : k = [K EXCEPT !.client = client']
    OBVIOUS
  <2>4. Good(k) /\ k.shm = K.shm
    BY <1>0, <2>1, <2>3, GoodClient DEF Memory
  <2>5. K' = [k EXCEPT !.mapped = mapped']
    <3>1. K' = [sem |-> sem_list, shm |-> shm_list, ident |-> identifier, client |-> client',
                mapped |-> mapped', ledger |-> ledger, crashed |-> crashed]
      BY <1>12 DEF vm_fork, K
    <3>2. k = [sem |-> sem_list, shm |-> shm_list, ident |-> identifier, client |-> client',
               mapped |-> mapped, ledger |-> ledger, crashed |-> crashed]
      BY <2>3 DEF K
    <3> QED
      BY <3>1, <3>2
  <2>6. ASSUME CountsFit, NEW q \in Procs, NEW id \in Ids, mapped'[q][id] > 0
        PROVE  \E i \in 1 .. Len(k.shm) : k.shm[i].id = id
    <3>1. mapped[q][id] > 0 \/ mapped[p][id] > 0
      BY <2>2, <2>6
    <3> QED
      BY <1>0, <2>4, <2>6, <3>1, KFields DEF Good, Held
  <2>7. Good(K')
    BY <2>2, <2>4, <2>5, <2>6, GoodMapping
  <2> QED
    BY <1>12, <2>7 DEF TablesInv, vm_fork
<1>13. ASSUME sem_process_vm_notify PROVE TablesInv'
  <2>1. K' = K
    BY <1>13 DEF sem_process_vm_notify, K
  <2> QED
    BY <1>0, <1>13, <2>1 DEF TablesInv, sem_process_vm_notify
<1>14. ASSUME vm_query_exit PROVE TablesInv'
  <2>1. PICK p \in IF array = {} THEN Procs ELSE array :
           /\ array' = array \ {p} /\ querying' = (array \ {p} # {})
           /\ Become(remove_process(K, p))
    BY <1>14 DEF vm_query_exit
  <2>2. Good(remove_process(K, p))
    BY <1>0, ProcessRemoved, GoodSame DEF Reported
  <2>3. K' = remove_process(K, p)
    BY <2>1, <2>2, Becomes DEF Good
  <2>4. array' \in SUBSET Procs /\ querying' \in BOOLEAN /\ notified' = notified
    BY <1>14, <2>1 DEF TablesInv, vm_query_exit
  <2> QED
    BY <2>2, <2>3, <2>4 DEF TablesInv
<1>15. ASSUME UNCHANGED vars PROVE TablesInv'
  <2>1. K' = K
    BY <1>15 DEF vars, K
  <2> QED
    BY <1>0, <1>15, <2>1 DEF TablesInv, vars
<1> QED
  BY <1>1, <1>2, <1>3, <1>4, <1>5, <1>6, <1>7, <1>8, <1>9, <1>10, <1>11, <1>12, <1>13, <1>14,
     <1>15 DEF Next

(* The tables stay sound.                                                  *)
THEOREM TablesSound == Spec => []TablesInv
BY TablesInit, TablesStep, PTL DEF Spec

(* Whatever calls arrive in whatever order, through forks, exits and       *)
(* reports from VM: the tables never hold more than they have room for, no *)
(* semaphore's value leaves its 16 bits, and no two objects share an id.   *)
THEOREM TypesSafe == Spec => []TypeOK
<1>1. TablesInv => TypeOK
  <2> SUFFICES ASSUME TablesInv PROVE TypeOK
    OBVIOUS
  <2>1. Good(K) /\ K \in Memory
    BY DEF TablesInv, Good
  <2>2. sem_list \in Seq(SemSet) /\ shm_list \in Seq(Segment) /\ identifier \in Ids /\ crashed \in BOOLEAN
    BY <2>1, KFields, MemoryFields
  <2>3. Len(sem_list) <= SEMMNI /\ Len(shm_list) <= MAX_SHM_NR
    BY <2>1, KFields DEF Good, Room
  <2>4. ASSUME NEW sem \in ToSet(sem_list)
        PROVE  /\ sem.key \in SemKeys /\ sem.id \in Ids /\ sem.perm \in Perms
               /\ Len(sem.sems) < SEMMSL
               /\ \A s \in ToSet(sem.sems) : s.semval \in 0..USHRT - 1
    <3>1. PICK i \in 1 .. Len(sem_list) : sem = sem_list[i]
      BY <2>2 DEF ToSet
    <3>2. sem \in SemSet /\ Len(sem.sems) < SEMMSL
      BY <2>1, <2>2, <3>1, KFields DEF Good, Room
    <3>3. sem.sems \in Seq(Semaphore)
      BY <3>2 DEF SemSet
    <3>4. ASSUME NEW s \in ToSet(sem.sems) PROVE s.semval \in 0 .. USHRT - 1
      <4>1. s \in Semaphore
        BY <3>3 DEF ToSet
      <4> QED
        BY <4>1 DEF Semaphore
    <3> QED
      BY <3>2, <3>4 DEF SemSet
  <2>5. ASSUME NEW shm \in ToSet(shm_list)
        PROVE  shm.key \in ShmKeys /\ shm.id \in Ids /\ shm.perm \in Perms /\ shm.dest \in BOOLEAN
    <3>1. shm \in Segment
      BY <2>2 DEF ToSet
    <3> QED
      BY <3>1 DEF Segment
  <2>6. ASSUME NEW a \in DOMAIN (sem_list \o shm_list), NEW b \in DOMAIN (sem_list \o shm_list), a # b
        PROVE  (sem_list \o shm_list)[a].id # (sem_list \o shm_list)[b].id
    <3>1. sem_list \in Seq(SemSet \cup Segment) /\ shm_list \in Seq(SemSet \cup Segment)
      BY <2>2
    <3>2. PICK m, n : m = Len(sem_list) /\ n = Len(shm_list)
      OBVIOUS
    <3>3. m \in Nat /\ n \in Nat
      BY <2>2, <3>2
    <3>4. /\ DOMAIN (sem_list \o shm_list) = 1 .. m + n
          /\ \A i \in 1 .. m + n :
                (sem_list \o shm_list)[i] = IF i <= m THEN sem_list[i] ELSE shm_list[i - m]
      BY <3>1, <3>2, ConcatProperties
    <3>5. /\ \A i, j \in 1 .. m : i # j => sem_list[i].id # sem_list[j].id
          /\ \A i, j \in 1 .. n : i # j => shm_list[i].id # shm_list[j].id
          /\ \A i \in 1 .. m, j \in 1 .. n : sem_list[i].id # shm_list[j].id
      BY <2>1, <3>2, KFields DEF Good, Unique
    <3>6. \/ a \in 1 .. m /\ (sem_list \o shm_list)[a] = sem_list[a]
          \/ ~ (a <= m) /\ a - m \in 1 .. n /\ (sem_list \o shm_list)[a] = shm_list[a - m]
      BY <3>3, <3>4, SMTT(30)
    <3>7. \/ b \in 1 .. m /\ (sem_list \o shm_list)[b] = sem_list[b]
          \/ ~ (b <= m) /\ b - m \in 1 .. n /\ (sem_list \o shm_list)[b] = shm_list[b - m]
      BY <3>3, <3>4
    <3>8. a - m # b - m
      BY <2>6, <3>3, <3>4
    <3> QED
      BY <2>6, <3>5, <3>6, <3>7, <3>8
  <2> QED
    BY <2>2, <2>3, <2>4, <2>5, <2>6 DEF TablesInv, TypeOK
<1> QED
  BY <1>1, TablesSound, PTL

(* A segment is in the table as long as any process has it mapped, however *)
(* attachments, forks, exits and removals interleave, provided VM's count  *)
(* of references fits its eight bits; and a key never names two segments.  *)
THEOREM SegmentsSafe == CountsFit => (Spec => []SegmentsOK)
<1> SUFFICES ASSUME CountsFit PROVE Spec => []SegmentsOK
  OBVIOUS
<1>1. TablesInv => SegmentsOK
  <2> SUFFICES ASSUME TablesInv PROVE SegmentsOK
    OBVIOUS
  <2>1. Good(K) /\ shm_list \in Seq(Segment)
    BY KFields, MemoryFields DEF TablesInv, Good
  <2>2. DOMAIN shm_list = 1 .. Len(shm_list)
    BY <2>1
  <2>3. ASSUME NEW p \in Procs, NEW id \in Ids, mapped[p][id] > 0
        PROVE  \E shm \in ToSet(shm_list) : shm.id = id
    <3>1. PICK i \in 1 .. Len(shm_list) : shm_list[i].id = id
      BY <2>1, <2>3, KFields DEF Good, Held
    <3> QED
      BY <2>2, <3>1 DEF ToSet
  <2>4. \A a, b \in DOMAIN shm_list :
           a # b /\ shm_list[a].key = shm_list[b].key => shm_list[a].key = IPC_PRIVATE
    BY <2>1, <2>2, KFields DEF Good, OneKey
  <2> QED
    BY <2>3, <2>4 DEF SegmentsOK
<1> QED
  BY <1>1, TablesSound, PTL

=============================================================================
