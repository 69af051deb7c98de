------------------------- MODULE KernelQueueProofs -------------------------
(***************************************************************************)
(* The run queues of the kernel for any processes, priorities and calls:   *)
(* the linked lists hold exactly the runnable processes, each on the queue *)
(* of its priority, and no process runs while a better one could.          *)
(***************************************************************************)
EXTENDS KernelProc, FiniteSetTheorems, SequenceTheorems, WellFoundedInduction, TLAPS

-----------------------------------------------------------------------------
(* Induction over natural numbers: a set of them has a least element.      *)
LEMMA LeastNat ==
    ASSUME NEW S \in SUBSET Nat, S # {}
    PROVE  \E x \in S : \A y \in S : x <= y
<1> DEFINE R == {ss \in Nat \X Nat : ss[1] < ss[2]}
<1>1. IsWellFoundedOn(R, Nat)
  BY NatLessThanWellFounded, Zenon DEF OpToRel
<1> HIDE DEF R
<1>2. PICK x \in S : \A y \in S : ~ (<<y, x>> \in R)
  BY <1>1, WFMin
<1>3. ASSUME NEW y \in S PROVE x <= y
  <2>1. ~ (<<y, x>> \in Nat \X Nat /\ y < x)
    BY <1>2, Zenon DEF R
  <2> QED
    BY <2>1
<1> QED
  BY <1>3

LEMMA MinIn ==
    ASSUME NEW S \in SUBSET Nat, S # {}
    PROVE  Min(S) \in S /\ \A y \in S : Min(S) <= y
BY LeastNat DEF Min

(* A loop whose turns stay in a set: step[i] is what turn i does.          *)
Loop(n, x, step, f) ==
    f = [i \in 0 .. n |-> IF i = 0 THEN x ELSE step[i][f[i - 1]]]

LEMMA LoopExists ==
    ASSUME NEW n \in Nat, NEW x, NEW step
    PROVE  \E f : Loop(n, x, step, f)
<1> DEFINE T == {m \in Nat : ~ \E g : Loop(m, x, step, g)}
<1> SUFFICES ASSUME T # {} PROVE FALSE
  OBVIOUS
<1>0. T \in SUBSET Nat
  OBVIOUS
<1> HIDE DEF T
<1>1. PICK m \in T : \A y \in T : m <= y
  BY <1>0, LeastNat
<1>2. m \in Nat /\ ~ \E g : Loop(m, x, step, g)
  BY DEF T
<1>3. CASE m = 0
  <2>1. PICK g : g = [i \in 0 .. 0 |-> x]
    OBVIOUS
  <2>2. Loop(0, x, step, g)
    BY <2>1 DEF Loop
  <2> QED
    BY <1>2, <1>3, <2>2
<1>4. CASE m # 0
  <2>1. m - 1 \in Nat /\ m - 1 \notin T
    BY <1>1, <1>2, <1>4
  <2>2. PICK g : Loop(m - 1, x, step, g)
    BY <2>1 DEF T
  <2>3. PICK h : h = [i \in 0 .. m |-> IF i = 0 THEN x ELSE step[i][g[i - 1]]]
    OBVIOUS
  <2>4. \A i \in 0 .. m - 1 : h[i] = g[i]
    <3>1. \A i \in 0 .. m - 1 : g[i] = IF i = 0 THEN x ELSE step[i][g[i - 1]]
      BY <2>2 DEF Loop
    <3> QED
      BY <1>2, <2>3, <3>1
  <2>5. ASSUME NEW i \in 0 .. m PROVE h[i] = IF i = 0 THEN x ELSE step[i][h[i - 1]]
    <3>1. CASE i = 0
      BY <1>2, <2>3, <3>1
    <3>2. CASE i # 0
      <4>1. h[i - 1] = g[i - 1]
        BY <1>2, <2>4, <3>2
      <4> QED
        BY <2>3, <3>2, <4>1
    <3> QED
      BY <3>1, <3>2
  <2>6. Loop(m, x, step, h)
    BY <2>3, <2>5 DEF Loop
  <2> QED
    BY <1>2, <2>6
<1> QED
  BY <1>3, <1>4

LEMMA StaysIn ==
    ASSUME NEW n \in Nat, NEW S, NEW f, f[0] \in S,
           \A i \in 1 .. n : f[i - 1] \in S => f[i] \in S
    PROVE  \A i \in 0 .. n : f[i] \in S
<1> DEFINE T == {i \in 0 .. n : f[i] \notin S}
<1> SUFFICES ASSUME T # {} PROVE FALSE
  OBVIOUS
<1>0. T \in SUBSET Nat
  OBVIOUS
<1> HIDE DEF T
<1>1. PICK i \in T : \A y \in T : i <= y
  BY <1>0, LeastNat
<1>2. i \in 0 .. n /\ f[i] \notin S
  BY DEF T
<1>3. i # 0
  BY <1>2
<1>4. i \in 1 .. n /\ i - 1 \in 0 .. n /\ ~ (i <= i - 1)
  BY <1>2, <1>3
<1>5. i - 1 \notin T
  BY <1>1, <1>4
<1>6. f[i - 1] \in S
  BY <1>4, <1>5 DEF T
<1> QED
  BY <1>2, <1>4, <1>6

(* A function on 1 .. n is a sequence.                                     *)
LEMMA AsSequence ==
    ASSUME NEW S, NEW n \in Nat, NEW f \in [1 .. n -> S]
    PROVE  f \in Seq(S) /\ Len(f) = n /\ DOMAIN f = 1 .. n
OBVIOUS

LEMMA Constants ==
    /\ NR_PROCS \in Nat /\ Procs \subseteq 1 .. NR_PROCS /\ Procs \subseteq Nat
    /\ Procs \subseteq Pointers /\ NULL \in Pointers /\ NULL \notin Procs
    /\ SCHED \in Procs /\ PM \in Procs /\ System \subseteq Procs
    /\ Pointers \subseteq Nat /\ Queues \subseteq Nat
<1>1. NR_PROCS \in Nat /\ Procs \subseteq 1 .. NR_PROCS
  BY KernelAssumption
<1>2. SCHED \in Procs /\ PM \in Procs /\ System \subseteq Procs
  BY KernelAssumption
<1> QED
  BY <1>1, <1>2, KernelAssumption DEF Pointers, NULL, Queues

-----------------------------------------------------------------------------
(* Linked lists.                                                           *)
Chaining(next, c) ==
    c = [n \in 0 .. NR_PROCS |-> [p \in Procs \cup {NULL} |->
            IF n = 0 \/ p = NULL THEN <<>> ELSE <<p>> \o c[n - 1][next[p]]]]

Steps(next) ==
    [i \in 1 .. NR_PROCS |-> [g \in [Pointers -> Seq(Procs)] |->
        [p \in Pointers |-> IF p = NULL THEN <<>> ELSE <<p>> \o g[next[p]]]]]

LEMMA ChainingExists ==
    ASSUME NEW next \in [Procs -> Pointers]
    PROVE  \E c : Chaining(next, c)
<1>0. PICK x : x = [p \in Pointers |-> <<>>]
  OBVIOUS
<1>1. PICK c : Loop(NR_PROCS, x, Steps(next), c)
  BY LoopExists, Constants
<1> DEFINE S == [Pointers -> Seq(Procs)]
<1>2. \A i \in 0 .. NR_PROCS : c[i] = IF i = 0 THEN x ELSE Steps(next)[i][c[i - 1]]
  BY <1>1 DEF Loop
<1>3. c[0] = x /\ x \in S
  <2>1. 0 \in 0 .. NR_PROCS /\ <<>> \in Seq(Procs)
    BY Constants
  <2> QED
    BY <1>0, <1>2, <2>1
<1>4. ASSUME NEW i \in 1 .. NR_PROCS, c[i - 1] \in S
      PROVE  /\ c[i] \in S
             /\ c[i] = [p \in Pointers |-> IF p = NULL THEN <<>> ELSE <<p>> \o c[i - 1][next[p]]]
  <2>1. i \in 0 .. NR_PROCS /\ i # 0
    BY Constants
  <2>2. c[i] = Steps(next)[i][c[i - 1]]
    BY <1>2, <2>1
  <2>3. PICK g \in S : g = c[i - 1]
    BY <1>4
  <2>4. c[i] = [p \in Pointers |-> IF p = NULL THEN <<>> ELSE <<p>> \o g[next[p]]]
    BY <2>2, <2>3 DEF Steps
  <2>5. ASSUME NEW p \in Procs PROVE <<p>> \o g[next[p]] \in Seq(Procs)
    <3>1. g[next[p]] \in Seq(Procs)
      OBVIOUS
    <3> QED
      BY <3>1
  <2>6. c[i] \in S
    BY <2>4, <2>5 DEF Pointers
  <2> QED
    BY <2>3, <2>4, <2>6
<1>5. \A i \in 0 .. NR_PROCS : c[i] \in S
  <2> HIDE DEF S
  <2>1. c[0] \in S
    BY <1>3
  <2> QED
    BY <2>1, <1>4, StaysIn, Constants
<1>6. c = [n \in 0 .. NR_PROCS |-> c[n]]
  BY <1>1 DEF Loop
<1>7. ASSUME NEW n \in 0 .. NR_PROCS
      PROVE  c[n] = [p \in Procs \cup {NULL} |->
                       IF n = 0 \/ p = NULL THEN <<>> ELSE <<p>> \o c[n - 1][next[p]]]
  <2>1. CASE n = 0
    BY <1>0, <1>3, <2>1 DEF Pointers
  <2>2. CASE n # 0
    <3>1. n \in 1 .. NR_PROCS /\ n - 1 \in 0 .. NR_PROCS
      BY <2>2, Constants
    <3>2. c[n] = [p \in Pointers |-> IF p = NULL THEN <<>> ELSE <<p>> \o c[n - 1][next[p]]]
      BY <1>4, <1>5, <3>1
    <3> QED
      BY <2>2, <3>2 DEF Pointers
  <2> QED
    BY <2>1, <2>2
<1>8. Chaining(next, c)
  BY <1>6, <1>7 DEF Chaining
<1> QED
  BY <1>8

(* What Chain follows: c[n][p] is the list from p on, cut off after n.     *)
Following(next, c) ==
    /\ c \in [0 .. NR_PROCS -> [Pointers -> Seq(Procs)]]
    /\ \A p \in Pointers : c[0][p] = <<>>
    /\ \A n \in 0 .. NR_PROCS : c[n][NULL] = <<>>
    /\ \A n \in 1 .. NR_PROCS : \A p \in Procs : c[n][p] = <<p>> \o c[n - 1][next[p]]
    /\ \A h : Chain(h, next) = c[NR_PROCS][h]

LEMMA ChainIs ==
    ASSUME NEW next \in [Procs -> Pointers]
    PROVE  \E c : Following(next, c)
<1>1. PICK c : c = CHOOSE d : Chaining(next, d)
  OBVIOUS
<1>2. Chaining(next, c)
  BY <1>1, ChainingExists
<1>3. \A h : Chain(h, next) = c[NR_PROCS][h]
  BY <1>1 DEF Chain, Chaining
<1>4. \A n \in 0 .. NR_PROCS : c[n] = [p \in Pointers |->
            IF n = 0 \/ p = NULL THEN <<>> ELSE <<p>> \o c[n - 1][next[p]]]
  BY <1>2 DEF Chaining, Pointers
<1>5. /\ \A p \in Pointers : c[0][p] = <<>>
      /\ \A n \in 0 .. NR_PROCS : c[n][NULL] = <<>>
  <2>1. 0 \in 0 .. NR_PROCS /\ NULL \in Pointers
    BY Constants
  <2> QED
    BY <1>4, <2>1
<1>6. ASSUME NEW n \in 1 .. NR_PROCS, NEW p \in Procs
      PROVE  c[n][p] = <<p>> \o c[n - 1][next[p]]
  <2>1. n \in 0 .. NR_PROCS /\ n # 0 /\ p # NULL /\ p \in Pointers
    BY Constants
  <2> QED
    BY <1>4, <2>1
<1> DEFINE S == [Pointers -> Seq(Procs)]
<1>7. ASSUME NEW i \in 1 .. NR_PROCS, c[i - 1] \in S PROVE c[i] \in S
  <2>1. c[i] = [p \in Pointers |-> IF p = NULL THEN <<>> ELSE <<p>> \o c[i - 1][next[p]]]
    BY <1>4, Constants
  <2>3. PICK g \in S : g = c[i - 1]
    BY <1>7
  <2>5. ASSUME NEW p \in Procs PROVE <<p>> \o g[next[p]] \in Seq(Procs)
    <3>1. g[next[p]] \in Seq(Procs)
      OBVIOUS
    <3> QED
      BY <3>1
  <2> QED
    BY <2>1, <2>3, <2>5 DEF Pointers
<1>8. c[0] \in S
  <2>1. 0 \in 0 .. NR_PROCS /\ <<>> \in Seq(Procs)
    BY Constants
  <2> QED
    BY <1>4, <2>1
<1>9. \A i \in 0 .. NR_PROCS : c[i] \in S
  <2> HIDE DEF S
  <2> QED
    BY <1>7, <1>8, StaysIn, Constants
<1>10. c = [n \in 0 .. NR_PROCS |-> c[n]]
  BY <1>2 DEF Chaining
<1>11. c \in [0 .. NR_PROCS -> S]
  <2> HIDE DEF S
  <2> QED
    BY <1>9, <1>10
<1>12. Following(next, c)
  BY <1>3, <1>5, <1>6, <1>11 DEF Following
<1> QED
  BY <1>12

LEMMA ChainType ==
    ASSUME NEW next \in [Procs -> Pointers], NEW h \in Pointers
    PROVE  Chain(h, next) \in Seq(Procs)
<1>1. PICK c : Following(next, c)
  BY ChainIs
<1> QED
  BY <1>1, Constants DEF Following

(* The list of the n processes s, each once, that starts at h.             *)
List(n, s, h, next) ==
    /\ n \in Nat /\ s \in [1 .. n -> Procs]
    /\ \A i, j \in 1 .. n : s[i] = s[j] => i = j
    /\ h = IF n = 0 THEN NULL ELSE s[1]
    /\ \A i \in 1 .. n : next[s[i]] = IF i = n THEN NULL ELSE s[i + 1]

LEMMA ListShort ==
    ASSUME NEW n, NEW s, NEW h, NEW next, List(n, s, h, next)
    PROVE  n <= NR_PROCS
<1>1. n \in Nat /\ s \in [1 .. n -> 1 .. NR_PROCS]
  BY Constants DEF List
<1>2. ~ \E x, y \in 1 .. n : x # y /\ s[x] = s[y]
  BY DEF List
<1>3. /\ IsFiniteSet(1 .. n) /\ Cardinality(1 .. n) = n
      /\ IsFiniteSet(1 .. NR_PROCS) /\ Cardinality(1 .. NR_PROCS) = NR_PROCS
  BY <1>1, FS_Interval, Constants
<1>4. ~ (Cardinality(1 .. NR_PROCS) < Cardinality(1 .. n))
  BY <1>1, <1>2, <1>3, FS_PigeonHole
<1> QED
  BY <1>1, <1>3, <1>4, Constants

(* The list from its i-th process on.                                      *)
At(n, s, i) == IF i = n + 1 THEN NULL ELSE s[i]
Rest(n, s, i) == [j \in 1 .. n + 1 - i |-> s[i + j - 1]]

LEMMA RestStep ==
    ASSUME NEW n \in Nat, NEW s \in [1 .. n -> Procs], NEW i \in 1 .. n
    PROVE  <<s[i]>> \o Rest(n, s, i + 1) = Rest(n, s, i)
<1>1. PICK a, b, r : a = <<s[i]>> /\ b = Rest(n, s, i + 1) /\ r = Rest(n, s, i)
  OBVIOUS
<1>2. n - i \in Nat /\ n + 1 - i \in Nat /\ i \in Int /\ n + 1 - (i + 1) = n - i
  OBVIOUS
<1>3. b \in [1 .. n - i -> Procs] /\ \A j \in 1 .. n - i : b[j] = s[i + j]
  <2>1. b = [j \in 1 .. n - i |-> s[i + 1 + j - 1]]
    BY <1>1, <1>2 DEF Rest
  <2>2. \A j \in 1 .. n - i : i + 1 + j - 1 \in 1 .. n /\ i + 1 + j - 1 = i + j
    BY <1>2
  <2> QED
    BY <2>1, <2>2
<1>4. b \in Seq(Procs) /\ Len(b) = n - i
  BY <1>2, <1>3, AsSequence
<1>5. r \in [1 .. n + 1 - i -> Procs] /\ \A j \in 1 .. n + 1 - i : r[j] = s[i + j - 1]
  <2>1. \A j \in 1 .. n + 1 - i : i + j - 1 \in 1 .. n
    BY <1>2
  <2> QED
    BY <1>1, <2>1 DEF Rest
<1>6. r \in Seq(Procs) /\ Len(r) = n + 1 - i
  BY <1>2, <1>5, AsSequence
<1>7. a \in Seq(Procs) /\ Len(a) = 1 /\ a[1] = s[i]
  BY <1>1
<1>8. /\ a \o b \in Seq(Procs) /\ Len(a \o b) = Len(a) + Len(b)
      /\ \A j \in 1 .. Len(a) + Len(b) : (a \o b)[j] = IF j <= Len(a) THEN a[j] ELSE b[j - Len(a)]
  BY <1>4, <1>7, ConcatProperties
<1>9. ASSUME NEW j \in 1 .. n + 1 - i PROVE (a \o b)[j] = r[j]
  <2>1. (a \o b)[j] = IF j <= 1 THEN a[j] ELSE b[j - 1]
    BY <1>2, <1>4, <1>7, <1>8
  <2>2. CASE j = 1
    BY <1>2, <1>5, <1>7, <2>1, <2>2
  <2>3. CASE j # 1
    <3>1. j - 1 \in 1 .. n - i /\ ~ (j <= 1) /\ i + (j - 1) = i + j - 1
      BY <1>2, <2>3
    <3> QED
      BY <1>3, <1>5, <2>1, <3>1
  <2> QED
    BY <2>2, <2>3
<1>10. Len(a \o b) = Len(r) /\ Len(a \o b) = n + 1 - i
  BY <1>2, <1>4, <1>6, <1>7, <1>8
<1>11. a \o b = r
  BY <1>6, <1>8, <1>9, <1>10, SeqEqual
<1> QED
  BY <1>1, <1>11

LEMMA ChainList ==
    ASSUME NEW n, NEW s, NEW h, NEW next \in [Procs -> Pointers], List(n, s, h, next)
    PROVE  Chain(h, next) = s
<1>1. PICK c : Following(next, c)
  BY ChainIs
<1>2. n \in Nat /\ s \in [1 .. n -> Procs] /\ n <= NR_PROCS /\ NR_PROCS \in Nat
  <2>1. n <= NR_PROCS
    BY ListShort, Zenon
  <2> QED
    BY <2>1, Constants DEF List
<1> DEFINE P(t) == \A i \in 1 .. n + 1 : n + 1 - i <= t => c[t][At(n, s, i)] = Rest(n, s, i)
           f == [t \in 0 .. NR_PROCS |-> P(t)]
<1>3. \A t \in 0 .. NR_PROCS : c[t][At(n, s, n + 1)] = Rest(n, s, n + 1)
  <2>1. Rest(n, s, n + 1) = <<>>
    BY <1>2 DEF Rest
  <2>2. At(n, s, n + 1) = NULL
    BY DEF At
  <2> QED
    BY <1>1, <2>1, <2>2 DEF Following
<1>4. P(0)
  <2>1. ASSUME NEW i \in 1 .. n + 1, n + 1 - i <= 0 PROVE i = n + 1
    BY <1>2, <2>1
  <2>2. 0 \in 0 .. NR_PROCS
    BY Constants
  <2> QED
    BY <1>3, <2>1, <2>2
<1>5. ASSUME NEW t \in 1 .. NR_PROCS, P(t - 1) PROVE P(t)
  <2> SUFFICES ASSUME NEW i \in 1 .. n + 1, n + 1 - i <= t
               PROVE  c[t][At(n, s, i)] = Rest(n, s, i)
    OBVIOUS
  <2>0. t \in 0 .. NR_PROCS /\ t \in Nat
    BY Constants
  <2>1. CASE i = n + 1
    BY <1>3, <2>0, <2>1
  <2>2. CASE i # n + 1
    <3>1. i \in 1 .. n /\ i + 1 \in 1 .. n + 1 /\ n + 1 - (i + 1) <= t - 1
      BY <1>2, <2>0, <2>2
    <3>2. c[t - 1][At(n, s, i + 1)] = Rest(n, s, i + 1)
      BY <1>5, <3>1
    <3>3. At(n, s, i) = s[i] /\ s[i] \in Procs
      BY <1>2, <2>2, <3>1 DEF At
    <3>4. next[s[i]] = At(n, s, i + 1)
      <4>1. i + 1 = n + 1 <=> i = n
        BY <1>2, <3>1
      <4> QED
        BY <3>1, <4>1 DEF At, List
    <3>5. c[t][s[i]] = <<s[i]>> \o c[t - 1][next[s[i]]]
      BY <1>1, <3>3 DEF Following
    <3>6. <<s[i]>> \o Rest(n, s, i + 1) = Rest(n, s, i)
      BY <1>2, <3>1, RestStep
    <3> QED
      BY <3>2, <3>3, <3>4, <3>5, <3>6
  <2> QED
    BY <2>1, <2>2
<1>6. f[0] \in {TRUE} /\ \A t \in 1 .. NR_PROCS : f[t - 1] \in {TRUE} => f[t] \in {TRUE}
  <2> HIDE DEF P
  <2>1. 0 \in 0 .. NR_PROCS /\ \A t \in 1 .. NR_PROCS : t \in 0 .. NR_PROCS /\ t - 1 \in 0 .. NR_PROCS
    BY Constants
  <2>2. f[0] = P(0) /\ \A t \in 1 .. NR_PROCS : f[t] = P(t) /\ f[t - 1] = P(t - 1)
    BY <2>1
  <2>3. \A t \in 0 .. NR_PROCS : P(t) \in BOOLEAN
    BY DEF P
  <2> QED
    BY <1>4, <1>5, <2>1, <2>2, <2>3
<1>7. f[NR_PROCS] \in {TRUE}
  <2>1. PICK g, S : g = f /\ S = {TRUE}
    OBVIOUS
  <2>2. g[0] \in S /\ \A t \in 1 .. NR_PROCS : g[t - 1] \in S => g[t] \in S
    BY <1>6, <2>1
  <2>3. \A t \in 0 .. NR_PROCS : g[t] \in S
    BY <1>2, <2>2, StaysIn
  <2>4. NR_PROCS \in 0 .. NR_PROCS
    BY <1>2
  <2> QED
    BY <2>1, <2>3, <2>4
<1>8. P(NR_PROCS)
  BY <1>7, Constants
<1>9. c[NR_PROCS][At(n, s, 1)] = Rest(n, s, 1)
  <2>1. 1 \in 1 .. n + 1 /\ n + 1 - 1 <= NR_PROCS
    BY <1>2
  <2> QED
    BY <1>8, <2>1
<1>10. At(n, s, 1) = h
  BY <1>2 DEF At, List
<1>11. Rest(n, s, 1) = s
  <2>1. Rest(n, s, 1) = [j \in 1 .. n |-> s[j]]
    <3>1. n + 1 - 1 = n /\ \A j \in 1 .. n : 1 + j - 1 = j
      BY <1>2
    <3> QED
      BY <3>1 DEF Rest
  <2> QED
    BY <1>2, <2>1
<1>12. Chain(h, next) = c[NR_PROCS][h]
  BY <1>1 DEF Following
<1> QED
  BY <1>9, <1>10, <1>11, <1>12

Has(n, s, x) == \E j \in 1 .. n : s[j] = x

EndOf(n, s) == IF n = 0 THEN NULL ELSE s[n]

(* A list without its i-th process.                                        *)
LEMMA ListRemoved ==
    ASSUME NEW n, NEW s, NEW h, NEW next, List(n, s, h, next), NEW i \in 1 .. n,
           NEW h2, h2 = (IF i = 1 THEN next[s[i]] ELSE h),
           NEW next2, \A x \in Procs : next2[x] = IF i # 1 /\ x = s[i - 1] THEN next[s[i]]
                                                  ELSE next[x]
    PROVE  \E s2 : /\ List(n - 1, s2, h2, next2)
                   /\ \A x : Has(n - 1, s2, x) <=> x # s[i] /\ Has(n, s, x)
                   /\ EndOf(n - 1, s2) = IF s[n] = s[i] THEN (IF i = 1 THEN NULL ELSE s[i - 1])
                                         ELSE s[n]
<1>1. /\ n \in Nat /\ s \in [1 .. n -> Procs] /\ n - 1 \in Nat /\ i \in Nat /\ n # 0
      /\ \A a, b \in 1 .. n : s[a] = s[b] => a = b
      /\ h = s[1]
      /\ \A a \in 1 .. n : next[s[a]] = IF a = n THEN NULL ELSE s[a + 1]
  BY DEF List
<1>2. PICK s2 : s2 = [j \in 1 .. n - 1 |-> IF j < i THEN s[j] ELSE s[j + 1]]
  OBVIOUS
<1>3. \A j \in 1 .. n - 1 : j \in 1 .. n /\ j + 1 \in 1 .. n /\ j \in Nat
  BY <1>1
<1>4. s2 \in [1 .. n - 1 -> Procs]
  BY <1>1, <1>2, <1>3
<1>5. ASSUME NEW a \in 1 .. n - 1, NEW b \in 1 .. n - 1, s2[a] = s2[b] PROVE a = b
  BY <1>1, <1>2, <1>3, <1>5
<1>6. h2 = IF n - 1 = 0 THEN NULL ELSE s2[1]
  <2>1. CASE n = 1
    BY <1>1, <2>1
  <2>2. CASE n # 1
    <3>1. 1 \in 1 .. n - 1 /\ 1 \in 1 .. n /\ n - 1 # 0
      BY <1>1, <2>2
    <3>2. CASE i = 1
      <4>1. s2[1] = s[2] /\ next[s[1]] = s[2]
        BY <1>1, <1>2, <2>2, <3>1, <3>2
      <4> QED
        BY <3>1, <3>2, <4>1
    <3>3. CASE i # 1
      <4>1. s2[1] = s[1]
        BY <1>1, <1>2, <3>1, <3>3
      <4> QED
        BY <1>1, <3>1, <3>3, <4>1
    <3> QED
      BY <3>2, <3>3
  <2> QED
    BY <2>1, <2>2
<1>7. ASSUME NEW j \in 1 .. n - 1
      PROVE  next2[s2[j]] = IF j = n - 1 THEN NULL ELSE s2[j + 1]
  <2>0. s2[j] \in Procs /\ j \in Nat
    BY <1>3, <1>4
  <2>1. CASE j = i - 1
    <3>1. i # 1 /\ s2[j] = s[i - 1] /\ i - 1 \in 1 .. n
      BY <1>1, <1>2, <2>0, <2>1
    <3>2. next2[s2[j]] = next[s[i]]
      BY <2>0, <3>1
    <3>3. next[s[i]] = IF i = n THEN NULL ELSE s[i + 1]
      BY <1>1
    <3>4. CASE i = n
      BY <1>1, <2>1, <3>2, <3>3, <3>4
    <3>5. CASE i # n
      <4>1. j + 1 \in 1 .. n - 1 /\ ~ (j + 1 < i) /\ j + 1 + 1 = i + 1 /\ j # n - 1
        BY <1>1, <2>0, <2>1, <3>5
      <4>2. s2[j + 1] = s[i + 1]
        BY <1>2, <4>1
      <4> QED
        BY <3>2, <3>3, <3>5, <4>1, <4>2
    <3> QED
      BY <3>4, <3>5
  <2>2. CASE j < i - 1
    <3>1. j \in 1 .. n /\ j < i /\ j + 1 < i /\ j + 1 \in 1 .. n - 1 /\ j # n /\ j # n - 1 /\ j # i - 1
      BY <1>1, <2>0, <2>2
    <3>2. s2[j] = s[j] /\ s2[j + 1] = s[j + 1]
      BY <1>2, <3>1
    <3>3. ~ (i # 1 /\ s2[j] = s[i - 1])
      <4>1. i # 1 => i - 1 \in 1 .. n
        BY <1>1
      <4> QED
        BY <1>1, <3>1, <3>2, <4>1
    <3>4. next2[s2[j]] = next[s[j]]
      BY <2>0, <3>2, <3>3
    <3> QED
      BY <1>1, <3>1, <3>2, <3>4
  <2>3. CASE j > i - 1
    <3>1. j + 1 \in 1 .. n /\ ~ (j < i) /\ ~ (j + 1 < i) /\ j + 1 # i - 1
      BY <1>1, <2>0, <2>3
    <3>2. s2[j] = s[j + 1]
      BY <1>2, <3>1
    <3>3. ~ (i # 1 /\ s2[j] = s[i - 1])
      <4>1. i # 1 => i - 1 \in 1 .. n
        BY <1>1
      <4> QED
        BY <1>1, <3>1, <3>2, <4>1
    <3>4. next2[s2[j]] = next[s[j + 1]]
      BY <2>0, <3>2, <3>3
    <3>5. next[s[j + 1]] = IF j + 1 = n THEN NULL ELSE s[j + 1 + 1]
      BY <1>1, <3>1
    <3>6. CASE j = n - 1
      BY <1>1, <3>4, <3>5, <3>6
    <3>7. CASE j # n - 1
      <4>1. j + 1 \in 1 .. n - 1 /\ j + 1 # n
        BY <1>1, <2>0, <3>7
      <4>2. s2[j + 1] = s[j + 1 + 1]
        BY <1>2, <3>1, <4>1
      <4> QED
        BY <3>4, <3>5, <3>7, <4>1, <4>2
    <3> QED
      BY <3>6, <3>7
  <2> QED
    BY <1>1, <2>0, <2>1, <2>2, <2>3
<1>8. List(n - 1, s2, h2, next2)
  BY <1>1, <1>4, <1>5, <1>6, <1>7 DEF List
<1>9. ASSUME NEW x PROVE Has(n - 1, s2, x) <=> x # s[i] /\ Has(n, s, x)
  <2>1. ASSUME NEW j \in 1 .. n - 1, s2[j] = x PROVE x # s[i] /\ Has(n, s, x)
    <3>1. CASE j < i
      <4>1. j \in 1 .. n /\ s[j] = x /\ j # i
        BY <1>1, <1>2, <1>3, <2>1, <3>1
      <4> QED
        BY <1>1, <4>1 DEF Has
    <3>2. CASE ~ (j < i)
      <4>1. j + 1 \in 1 .. n /\ s[j + 1] = x /\ j + 1 # i
        BY <1>1, <1>2, <1>3, <2>1, <3>2
      <4> QED
        BY <1>1, <4>1 DEF Has
    <3> QED
      BY <3>1, <3>2
  <2>2. ASSUME NEW j \in 1 .. n, s[j] = x, x # s[i] PROVE Has(n - 1, s2, x)
    <3>0. j # i
      BY <2>2
    <3>1. CASE j < i
      <4>1. j \in 1 .. n - 1
        BY <1>1, <3>1
      <4> QED
        BY <1>2, <2>2, <3>1, <4>1 DEF Has
    <3>2. CASE ~ (j < i)
      <4>1. j - 1 \in 1 .. n - 1 /\ ~ (j - 1 < i) /\ j - 1 + 1 = j
        BY <1>1, <3>0, <3>2
      <4> QED
        BY <1>2, <2>2, <4>1 DEF Has
    <3> QED
      BY <3>1, <3>2
  <2> QED
    BY <2>1, <2>2 DEF Has
<1>10. EndOf(n - 1, s2) = IF s[n] = s[i] THEN (IF i = 1 THEN NULL ELSE s[i - 1]) ELSE s[n]
  <2>0. n \in 1 .. n /\ (s[n] = s[i] <=> n = i)
    BY <1>1
  <2>1. CASE n = i
    <3>1. CASE i = 1
      BY <2>0, <2>1, <3>1 DEF EndOf
    <3>2. CASE i # 1
      <4>1. n - 1 \in 1 .. n - 1 /\ n - 1 # 0 /\ n - 1 < i
        BY <1>1, <2>1, <3>2
      <4>2. s2[n - 1] = s[n - 1]
        BY <1>2, <4>1
      <4> QED
        BY <2>0, <2>1, <3>2, <4>1, <4>2 DEF EndOf
    <3> QED
      BY <3>1, <3>2
  <2>2. CASE n # i
    <3>1. n - 1 \in 1 .. n - 1 /\ n - 1 # 0 /\ ~ (n - 1 < i) /\ n - 1 + 1 = n
      BY <1>1, <2>2
    <3>2. s2[n - 1] = s[n]
      BY <1>2, <3>1
    <3> QED
      BY <2>0, <2>2, <3>1, <3>2 DEF EndOf
  <2> QED
    BY <2>1, <2>2
<1> QED
  BY <1>8, <1>9, <1>10

(* A list with one process more at the end.                                *)
LEMMA ListAppended ==
    ASSUME NEW n, NEW s, NEW h, NEW next, List(n, s, h, next),
           NEW p \in Procs, ~ Has(n, s, p),
           NEW h2, h2 = (IF n = 0 THEN p ELSE h),
           NEW next2, \A x \in Procs : next2[x] = IF x = p THEN NULL
                                                  ELSE IF n # 0 /\ x = s[n] THEN p ELSE next[x]
    PROVE  \E s2 : /\ List(n + 1, s2, h2, next2) /\ EndOf(n + 1, s2) = p
                   /\ \A x : Has(n + 1, s2, x) <=> x = p \/ Has(n, s, x)
<1>1. /\ n \in Nat /\ s \in [1 .. n -> Procs] /\ n + 1 \in Nat /\ n + 1 # 0
      /\ \A a, b \in 1 .. n : s[a] = s[b] => a = b
      /\ \A a \in 1 .. n : next[s[a]] = IF a = n THEN NULL ELSE s[a + 1]
      /\ h = IF n = 0 THEN NULL ELSE s[1]
  BY DEF List
<1>2. PICK s2 : s2 = [j \in 1 .. n + 1 |-> IF j = n + 1 THEN p ELSE s[j]]
  OBVIOUS
<1>3. /\ \A j \in 1 .. n + 1 : j = n + 1 \/ j \in 1 .. n
      /\ \A j \in 1 .. n : j \in 1 .. n + 1 /\ j # n + 1 /\ j + 1 \in 1 .. n + 1
      /\ n + 1 \in 1 .. n + 1
  BY <1>1
<1>4. s2[n + 1] = p /\ \A j \in 1 .. n : s2[j] = s[j] /\ s[j] # p /\ s[j] \in Procs
  BY <1>1, <1>2, <1>3 DEF Has
<1>5. s2 \in [1 .. n + 1 -> Procs]
  BY <1>2, <1>3, <1>4
<1>6. ASSUME NEW a \in 1 .. n + 1, NEW b \in 1 .. n + 1, s2[a] = s2[b] PROVE a = b
  BY <1>1, <1>3, <1>4, <1>6
<1>7. h2 = IF n + 1 = 0 THEN NULL ELSE s2[1]
  <2>1. CASE n = 0
    <3>1. s2[1] = p
      BY <1>4, <2>1
    <3> QED
      BY <1>1, <2>1, <3>1
  <2>2. CASE n # 0
    <3>1. 1 \in 1 .. n
      BY <1>1, <2>2
    <3> QED
      BY <1>1, <1>4, <2>2, <3>1
  <2> QED
    BY <2>1, <2>2
<1>8. ASSUME NEW j \in 1 .. n + 1 PROVE next2[s2[j]] = IF j = n + 1 THEN NULL ELSE s2[j + 1]
  <2>1. CASE j = n + 1
    BY <1>4, <2>1
  <2>2. CASE j \in 1 .. n
    <3>1. s2[j] = s[j] /\ s[j] # p /\ s[j] \in Procs /\ j # n + 1
      BY <1>3, <1>4, <2>2
    <3>2. next2[s2[j]] = IF n # 0 /\ s[j] = s[n] THEN p ELSE next[s[j]]
      BY <3>1
    <3>3. CASE j = n
      <4>1. n # 0
        BY <2>2, <3>3
      <4> QED
        BY <1>4, <3>1, <3>2, <3>3, <4>1
    <3>4. CASE j # n
      <4>1. n \in 1 .. n /\ j + 1 \in 1 .. n
        BY <1>1, <2>2, <3>4
      <4>2. s[j] # s[n]
        BY <1>1, <2>2, <3>4, <4>1
      <4>3. s2[j + 1] = s[j + 1]
        BY <1>4, <4>1
      <4> QED
        BY <1>1, <2>2, <3>1, <3>2, <3>4, <4>2, <4>3
    <3> QED
      BY <3>3, <3>4
  <2> QED
    BY <1>3, <2>1, <2>2
<1>9. List(n + 1, s2, h2, next2)
  BY <1>1, <1>5, <1>6, <1>7, <1>8 DEF List
<1>10. EndOf(n + 1, s2) = p
  BY <1>1, <1>4 DEF EndOf
<1>11. ASSUME NEW x PROVE Has(n + 1, s2, x) <=> x = p \/ Has(n, s, x)
  BY <1>3, <1>4 DEF Has
<1> QED
  BY <1>9, <1>10, <1>11

(* A list with one process more at its head.                               *)
LEMMA ListPushed ==
    ASSUME NEW n, NEW s, NEW h, NEW next, List(n, s, h, next),
           NEW p \in Procs, ~ Has(n, s, p),
           NEW next2, \A x \in Procs : next2[x] = IF x = p THEN h ELSE next[x]
    PROVE  \E s2 : /\ List(n + 1, s2, p, next2)
                   /\ EndOf(n + 1, s2) = IF n = 0 THEN p ELSE EndOf(n, s)
                   /\ \A x : Has(n + 1, s2, x) <=> x = p \/ Has(n, s, x)
<1>1. /\ n \in Nat /\ s \in [1 .. n -> Procs] /\ n + 1 \in Nat /\ n + 1 # 0
      /\ \A a, b \in 1 .. n : s[a] = s[b] => a = b
      /\ \A a \in 1 .. n : next[s[a]] = IF a = n THEN NULL ELSE s[a + 1]
      /\ h = IF n = 0 THEN NULL ELSE s[1]
  BY DEF List
<1>2. PICK s2 : s2 = [j \in 1 .. n + 1 |-> IF j = 1 THEN p ELSE s[j - 1]]
  OBVIOUS
<1>3. /\ \A j \in 1 .. n + 1 : j = 1 \/ (j # 1 /\ j - 1 \in 1 .. n)
      /\ \A j \in 1 .. n : j + 1 \in 1 .. n + 1 /\ j + 1 # 1 /\ j + 1 - 1 = j
      /\ 1 \in 1 .. n + 1
  BY <1>1
<1>4. s2[1] = p /\ \A j \in 1 .. n : s2[j + 1] = s[j] /\ s[j] # p /\ s[j] \in Procs
  BY <1>1, <1>2, <1>3 DEF Has
<1>5. s2 \in [1 .. n + 1 -> Procs]
  BY <1>1, <1>2, <1>3
<1>6. ASSUME NEW a \in 1 .. n + 1, NEW b \in 1 .. n + 1, s2[a] = s2[b] PROVE a = b
  <2>1. \A j \in 1 .. n + 1 : j # 1 => s2[j] = s[j - 1] /\ s[j - 1] # p
    BY <1>1, <1>2, <1>3 DEF Has
  <2>2. CASE a = 1 \/ b = 1
    BY <1>4, <1>6, <2>1, <2>2
  <2>3. CASE a # 1 /\ b # 1
    <3>1. a - 1 = b - 1
      BY <1>1, <1>3, <1>6, <2>1, <2>3
    <3> QED
      BY <1>1, <3>1
  <2> QED
    BY <2>2, <2>3
<1>7. p = IF n + 1 = 0 THEN NULL ELSE s2[1]
  BY <1>1, <1>4
<1>8. ASSUME NEW j \in 1 .. n + 1 PROVE next2[s2[j]] = IF j = n + 1 THEN NULL ELSE s2[j + 1]
  <2>1. CASE j = 1
    <3>1. next2[s2[j]] = h
      BY <1>4, <2>1
    <3>2. CASE n = 0
      BY <1>1, <2>1, <3>1, <3>2
    <3>3. CASE n # 0
      <4>1. 1 \in 1 .. n /\ j # n + 1
        BY <1>1, <2>1, <3>3
      <4> QED
        BY <1>1, <1>4, <2>1, <3>1, <3>3, <4>1
    <3> QED
      BY <3>2, <3>3
  <2>2. CASE j # 1
    <3>0. PICK i \in 1 .. n : i = j - 1
      BY <1>3, <2>2
    <3>1. j = i + 1 /\ i \in Nat
      BY <1>1, <3>0
    <3>2. s2[j] = s[i] /\ s[i] # p /\ s[i] \in Procs
      BY <1>4, <3>1
    <3>3. next2[s2[j]] = IF i = n THEN NULL ELSE s[i + 1]
      BY <1>1, <3>2
    <3>4. CASE i = n
      BY <3>1, <3>3, <3>4
    <3>5. CASE i # n
      <4>1. i + 1 \in 1 .. n /\ j # n + 1
        BY <1>1, <3>1, <3>5
      <4>2. s2[j + 1] = s[i + 1]
        BY <1>4, <3>1, <4>1
      <4> QED
        BY <3>3, <3>5, <4>1, <4>2
    <3> QED
      BY <3>4, <3>5
  <2> QED
    BY <2>1, <2>2
<1>9. List(n + 1, s2, p, next2)
  BY <1>1, <1>5, <1>6, <1>7, <1>8 DEF List
<1>10. EndOf(n + 1, s2) = IF n = 0 THEN p ELSE EndOf(n, s)
  <2>1. CASE n = 0
    BY <1>1, <1>4, <2>1 DEF EndOf
  <2>2. CASE n # 0
    <3>1. n \in 1 .. n
      BY <1>1, <2>2
    <3> QED
      BY <1>1, <1>4, <2>2, <3>1 DEF EndOf
  <2> QED
    BY <2>1, <2>2
<1>11. ASSUME NEW x PROVE Has(n + 1, s2, x) <=> x = p \/ Has(n, s, x)
  <2>1. ASSUME NEW j \in 1 .. n + 1, s2[j] = x PROVE x = p \/ Has(n, s, x)
    <3>1. CASE j = 1
      BY <1>4, <2>1, <3>1
    <3>2. CASE j # 1
      <4>0. PICK i \in 1 .. n : i = j - 1
        BY <1>3, <3>2
      <4>1. j = i + 1
        BY <1>1, <4>0
      <4> QED
        BY <1>4, <2>1, <4>1 DEF Has
    <3> QED
      BY <3>1, <3>2
  <2>2. ASSUME NEW j \in 1 .. n, s[j] = x PROVE Has(n + 1, s2, x)
    BY <1>3, <1>4, <2>2 DEF Has
  <2>3. Has(n + 1, s2, p)
    BY <1>3, <1>4 DEF Has
  <2> QED
    BY <2>1, <2>2, <2>3 DEF Has
<1> QED
  BY <1>9, <1>10, <1>11

(* A list that nobody touches.                                             *)
LEMMA ListSame ==
    ASSUME NEW n, NEW s, NEW h, NEW next, List(n, s, h, next),
           NEW next2, \A x \in Procs : Has(n, s, x) => next2[x] = next[x]
    PROVE  List(n, s, h, next2)
<1>1. \A i \in 1 .. n : s[i] \in Procs /\ Has(n, s, s[i])
  BY DEF List, Has
<1>2. \A i \in 1 .. n : next2[s[i]] = next[s[i]]
  BY <1>1
<1> QED
  BY <1>2 DEF List

-----------------------------------------------------------------------------
(* The state of the kernel that its functions pass on.                     *)
Types == {"NONE", "MSG", "NO_QUANTUM", "ASYN", "NOTIFY"}
Messages == [src : Pointers, type : Types]
Entries == [dst : Procs, noreply : BOOLEAN, done : BOOLEAN]

Slots ==
    [rts : SUBSET Flags, misc : SUBSET MiscFlags, priority : Queues, time_left : {0, 1},
     getfrom : Pointers \cup {ANY}, sendto : Pointers, caller_q : Pointers,
     q_link : Pointers, nextready : Pointers, sendmsg : Types, delivermsg : Messages]

Privs == [notify_pending : SUBSET Pointers, asyntab : Seq(Entries)]

Kernels ==
    [proc : [Procs -> Slots], head : [Queues -> Pointers], tail : [Queues -> Pointers],
     priv : [Procs -> Privs], cur : Pointers, panic : BOOLEAN]

NextOf(k) == [p \in Procs |-> k.proc[p].nextready]

Runnable(k) == {p \in Procs : k.proc[p].rts = {}}

(* Queue q is the list s of those processes of m that have its priority.   *)
Queue(k, m, q, n, s) ==
    /\ List(n, s, k.head[q], NextOf(k)) /\ k.tail[q] = EndOf(n, s)
    /\ \A x \in Procs : Has(n, s, x) <=> x \in m /\ k.proc[x].priority = q

Holds(k, m) == \A q \in Queues : \E n, s : Queue(k, m, q, n, s)

(* What the operations on the queues leave alone.                          *)
OnlyQueues(k, k2) ==
    /\ k2.cur = k.cur /\ k2.priv = k.priv
    /\ \A x \in Procs : /\ k2.proc[x].rts = k.proc[x].rts
                        /\ k2.proc[x].priority = k.proc[x].priority
                        /\ k2.proc[x].sendto = k.proc[x].sendto
                        /\ k2.proc[x].caller_q = k.proc[x].caller_q
                        /\ k2.proc[x].q_link = k.proc[x].q_link

LEMMA KFields ==
    ASSUME NEW k \in Kernels
    PROVE  /\ k.proc \in [Procs -> Slots] /\ k.head \in [Queues -> Pointers]
           /\ k.tail \in [Queues -> Pointers] /\ k.priv \in [Procs -> Privs]
           /\ k.cur \in Pointers /\ k.panic \in BOOLEAN
           /\ NextOf(k) \in [Procs -> Pointers]
           /\ \A p \in Procs : /\ k.proc[p] \in Slots /\ k.proc[p].priority \in Queues
                               /\ k.proc[p].nextready \in Pointers
                               /\ NextOf(k)[p] = k.proc[p].nextready
<1>1. /\ k.proc \in [Procs -> Slots] /\ k.head \in [Queues -> Pointers]
      /\ k.tail \in [Queues -> Pointers] /\ k.priv \in [Procs -> Privs]
      /\ k.cur \in Pointers /\ k.panic \in BOOLEAN
  BY DEF Kernels
<1>2. \A p \in Procs : /\ k.proc[p] \in Slots /\ k.proc[p].priority \in Queues
                       /\ k.proc[p].nextready \in Pointers
  BY <1>1 DEF Slots
<1> QED
  BY <1>1, <1>2 DEF NextOf

LEMMA ReadyIs ==
    ASSUME NEW k \in Kernels, NEW m, NEW q \in Queues, NEW n, NEW s, Queue(k, m, q, n, s)
    PROVE  Ready(k, q) = s /\ Len(s) = n /\ n \in Nat /\ s \in [1 .. n -> Procs]
<1>1. List(n, s, k.head[q], NextOf(k)) /\ NextOf(k) \in [Procs -> Pointers]
  BY KFields DEF Queue
<1>2. Chain(k.head[q], NextOf(k)) = s
  BY <1>1, ChainList
<1>3. n \in Nat /\ s \in [1 .. n -> Procs]
  BY <1>1 DEF List
<1> QED
  BY <1>2, <1>3, AsSequence DEF Ready, NextOf

(* Setting a field of a process, and the head and the tail of a queue.     *)
NextSet(k, p, v, k2) ==
    /\ k2 \in Kernels /\ OnlyQueues(k, k2) /\ k2.head = k.head /\ k2.tail = k.tail
    /\ \A x \in Procs : NextOf(k2)[x] = IF x = p THEN v ELSE NextOf(k)[x]
HeadSet(k, q, v, k2) ==
    /\ k2 \in Kernels /\ OnlyQueues(k, k2)
    /\ k2.head = [k.head EXCEPT ![q] = v] /\ k2.tail = k.tail /\ NextOf(k2) = NextOf(k)
TailSet(k, q, v, k2) ==
    /\ k2 \in Kernels /\ OnlyQueues(k, k2)
    /\ k2.tail = [k.tail EXCEPT ![q] = v] /\ k2.head = k.head /\ NextOf(k2) = NextOf(k)

LEMMA SetNext ==
    ASSUME NEW k \in Kernels, NEW p \in Procs, NEW v \in Pointers, NEW k2,
           k2 = [k EXCEPT !.proc[p].nextready = v]
    PROVE  NextSet(k, p, v, k2)
<1>1. k.proc[p] \in Slots
  BY KFields
<1>2. PICK r : r = [k.proc[p] EXCEPT !.nextready = v]
  OBVIOUS
<1>3. /\ r \in Slots /\ r.nextready = v /\ r.rts = k.proc[p].rts
      /\ r.priority = k.proc[p].priority /\ r.sendto = k.proc[p].sendto
      /\ r.caller_q = k.proc[p].caller_q /\ r.q_link = k.proc[p].q_link
  BY <1>1, <1>2 DEF Slots
<1>4. k2 = [k EXCEPT !.proc = [k.proc EXCEPT ![p] = r]]
  BY <1>2 DEF Kernels
<1>5. /\ k2 \in Kernels /\ k2.proc = [k.proc EXCEPT ![p] = r] /\ k2.head = k.head
      /\ k2.tail = k.tail /\ k2.cur = k.cur /\ k2.priv = k.priv
  <2>1. [k.proc EXCEPT ![p] = r] \in [Procs -> Slots]
    BY <1>3, KFields
  <2> QED
    BY <1>4, <2>1 DEF Kernels
<1>6. \A x \in Procs : k2.proc[x] = IF x = p THEN r ELSE k.proc[x]
  BY <1>5, KFields
<1> QED
  BY <1>3, <1>5, <1>6 DEF NextSet, OnlyQueues, NextOf

LEMMA SetHead ==
    ASSUME NEW k \in Kernels, NEW q \in Queues, NEW v \in Pointers, NEW k2,
           k2 = [k EXCEPT !.head[q] = v]
    PROVE  HeadSet(k, q, v, k2)
<1>1. /\ k2 \in Kernels /\ k2.proc = k.proc /\ k2.head = [k.head EXCEPT ![q] = v]
      /\ k2.tail = k.tail /\ k2.cur = k.cur /\ k2.priv = k.priv
  BY DEF Kernels
<1> QED
  BY <1>1 DEF HeadSet, OnlyQueues, NextOf

LEMMA SetTail ==
    ASSUME NEW k \in Kernels, NEW q \in Queues, NEW v \in Pointers, NEW k2,
           k2 = [k EXCEPT !.tail[q] = v]
    PROVE  TailSet(k, q, v, k2)
<1>1. /\ k2 \in Kernels /\ k2.proc = k.proc /\ k2.tail = [k.tail EXCEPT ![q] = v]
      /\ k2.head = k.head /\ k2.cur = k.cur /\ k2.priv = k.priv
  BY DEF Kernels
<1> QED
  BY <1>1 DEF TailSet, OnlyQueues, NextOf

LEMMA OnlyQueuesTwice ==
    ASSUME NEW k, NEW k2, NEW k3, OnlyQueues(k, k2), OnlyQueues(k2, k3)
    PROVE  OnlyQueues(k, k3)
BY DEF OnlyQueues

-----------------------------------------------------------------------------
(* A queue that an operation on another one leaves alone.                  *)
LEMMA OtherQueue ==
    ASSUME NEW k, NEW k2, NEW m, NEW m2, NEW q \in Queues, NEW n, NEW s, Queue(k, m, q, n, s),
           k2.head[q] = k.head[q], k2.tail[q] = k.tail[q], OnlyQueues(k, k2),
           \A x \in Procs : k.proc[x].priority = q =>
              NextOf(k2)[x] = NextOf(k)[x] /\ (x \in m2 <=> x \in m)
    PROVE  Queue(k2, m2, q, n, s)
<1>1. /\ List(n, s, k.head[q], NextOf(k)) /\ k.tail[q] = EndOf(n, s)
      /\ \A x \in Procs : Has(n, s, x) <=> x \in m /\ k.proc[x].priority = q
  BY DEF Queue
<1>2. \A x \in Procs : Has(n, s, x) => NextOf(k2)[x] = NextOf(k)[x]
  BY <1>1
<1>3. List(n, s, k2.head[q], NextOf(k2))
  BY <1>1, <1>2, ListSame
<1>4. \A x \in Procs : k2.proc[x].priority = k.proc[x].priority
  BY DEF OnlyQueues
<1>5. \A x \in Procs : Has(n, s, x) <=> x \in m2 /\ k2.proc[x].priority = q
  BY <1>1, <1>4
<1> QED
  BY <1>1, <1>3, <1>5 DEF Queue

(* dequeue takes a process off its queue.                                  *)
LEMMA DequeueIs ==
    ASSUME NEW k \in Kernels, NEW m, Holds(k, m), NEW p \in Procs, p \in m
    PROVE  /\ dequeue(k, p) \in Kernels /\ OnlyQueues(k, dequeue(k, p))
           /\ Holds(dequeue(k, p), m \ {p})
<1>1. PICK q \in Queues : q = k.proc[p].priority
  BY KFields
<1>2. PICK n, s : Queue(k, m, q, n, s)
  BY DEF Holds
<1>3. Ready(k, q) = s /\ Len(s) = n /\ n \in Nat /\ s \in [1 .. n -> Procs]
  BY <1>2, ReadyIs
<1>4. /\ List(n, s, k.head[q], NextOf(k)) /\ k.tail[q] = EndOf(n, s)
      /\ \A x \in Procs : Has(n, s, x) <=> x \in m /\ k.proc[x].priority = q
  BY <1>2 DEF Queue
<1>5. PICK i \in 1 .. n : s[i] = p
  BY <1>1, <1>4 DEF Has
<1>6. SelectInSeq(s, LAMBDA x : x = p) = i
  <2>1. PICK I : I = {j \in 1 .. Len(s) : s[j] = p}
    OBVIOUS
  <2>2. I = {i}
    BY <1>3, <1>4, <1>5, <2>1 DEF List
  <2>3. SelectInSeq(s, LAMBDA x : x = p) = IF I # {} THEN Min(I) ELSE 0
    BY <2>1 DEF SelectInSeq
  <2>4. I \in SUBSET Nat /\ I # {}
    BY <2>2
  <2>5. Min(I) \in I
    BY <2>4, MinIn
  <2> QED
    BY <2>2, <2>3, <2>5
<1>7. PICK prev, next : prev = (IF i = 1 THEN NULL ELSE s[i - 1]) /\ next = k.proc[p].nextready
  OBVIOUS
<1>8. i # 1 => i - 1 \in 1 .. n
  BY <1>3
<1>9. /\ prev \in Pointers /\ next \in Pointers /\ next = NextOf(k)[p]
      /\ prev = NULL <=> i = 1
      /\ i # 1 => prev \in Procs /\ prev = s[i - 1]
  <2>1. i # 1 => s[i - 1] \in Procs
    BY <1>3, <1>8
  <2>2. next \in Pointers /\ next = NextOf(k)[p]
    BY <1>7, KFields
  <2> QED
    BY <1>7, <2>1, <2>2, Constants
<1>10. PICK u : u = IF prev = NULL THEN [k EXCEPT !.head[q] = next]
                    ELSE [k EXCEPT !.proc[prev].nextready = next]
  OBVIOUS
<1>11. dequeue(k, p) = [u EXCEPT !.tail[q] = IF @ = p THEN prev ELSE @]
  <2>1. i # 0
    BY <1>3
  <2> QED
    BY <1>1, <1>3, <1>6, <1>7, <1>10, <2>1 DEF dequeue
<1>12. /\ u \in Kernels /\ OnlyQueues(k, u) /\ u.tail = k.tail
       /\ u.head = [k.head EXCEPT ![q] = IF i = 1 THEN next ELSE k.head[q]]
       /\ \A x \in Procs : NextOf(u)[x] = IF i # 1 /\ x = s[i - 1] THEN next ELSE NextOf(k)[x]
  <2>1. CASE i = 1
    <3>1. u = [k EXCEPT !.head[q] = next]
      BY <1>9, <1>10, <2>1
    <3>2. /\ u \in Kernels /\ OnlyQueues(k, u) /\ u.tail = k.tail
          /\ u.head = [k.head EXCEPT ![q] = next] /\ NextOf(u) = NextOf(k)
      <4>1. HeadSet(k, q, next, u)
        BY <1>9, <3>1, SetHead
      <4> QED
        BY <4>1 DEF HeadSet
    <3> QED
      BY <2>1, <3>2
  <2>2. CASE i # 1
    <3>1. u = [k EXCEPT !.proc[prev].nextready = next] /\ prev \in Procs /\ prev = s[i - 1]
      BY <1>9, <1>10, <2>2
    <3>2. /\ u \in Kernels /\ OnlyQueues(k, u) /\ u.tail = k.tail /\ u.head = k.head
          /\ \A x \in Procs : NextOf(u)[x] = IF x = prev THEN next ELSE NextOf(k)[x]
      <4>1. NextSet(k, prev, next, u)
        BY <1>9, <3>1, SetNext
      <4> QED
        BY <4>1 DEF NextSet
    <3>3. k.head = [k.head EXCEPT ![q] = k.head[q]]
      BY KFields
    <3> QED
      BY <2>2, <3>1, <3>2, <3>3
  <2> QED
    BY <2>1, <2>2
<1>13. PICK v, k2 : v = (IF k.tail[q] = p THEN prev ELSE k.tail[q]) /\ k2 = [u EXCEPT !.tail[q] = v]
  OBVIOUS
<1>14. dequeue(k, p) = k2
  BY <1>11, <1>12, <1>13
<1>15. v \in Pointers
  BY <1>9, <1>13, KFields
<1>16. /\ k2 \in Kernels /\ OnlyQueues(u, k2) /\ k2.head = u.head
       /\ k2.tail = [u.tail EXCEPT ![q] = v] /\ NextOf(k2) = NextOf(u)
  <2>1. TailSet(u, q, v, k2)
    BY <1>12, <1>13, <1>15, SetTail
  <2> QED
    BY <2>1 DEF TailSet
<1>17. OnlyQueues(k, k2)
  BY <1>12, <1>16, OnlyQueuesTwice
<1>18. \A x \in Procs : k2.proc[x].priority = k.proc[x].priority
  BY <1>17 DEF OnlyQueues
<1>19. ASSUME NEW q2 \in Queues PROVE \E n2, s2 : Queue(k2, m \ {p}, q2, n2, s2)
  <2>1. CASE q2 = q
    <3>1. k2.head[q] = IF i = 1 THEN NextOf(k)[s[i]] ELSE k.head[q]
      BY <1>5, <1>9, <1>12, <1>16, KFields
    <3>2. \A x \in Procs : NextOf(k2)[x] = IF i # 1 /\ x = s[i - 1] THEN NextOf(k)[s[i]]
                                           ELSE NextOf(k)[x]
      BY <1>5, <1>9, <1>12, <1>16
    <3>3. PICK s2 : /\ List(n - 1, s2, k2.head[q], NextOf(k2))
                    /\ \A x : Has(n - 1, s2, x) <=> x # s[i] /\ Has(n, s, x)
                    /\ EndOf(n - 1, s2) = IF s[n] = s[i]
                                            THEN (IF i = 1 THEN NULL ELSE s[i - 1]) ELSE s[n]
      BY <1>4, <3>1, <3>2, ListRemoved, SMTT(30)
    <3>4. k2.tail[q] = EndOf(n - 1, s2)
      <4>1. k.tail[q] = s[n]
        BY <1>3, <1>4 DEF EndOf
      <4>2. k2.tail[q] = v
        BY <1>12, <1>16, KFields
      <4> QED
        BY <1>5, <1>7, <1>13, <3>3, <4>1, <4>2
    <3>5. \A x \in Procs : Has(n - 1, s2, x) <=> x \in m \ {p} /\ k2.proc[x].priority = q
      BY <1>4, <1>5, <1>18, <3>3
    <3> QED
      BY <2>1, <3>3, <3>4, <3>5 DEF Queue
  <2>2. CASE q2 # q
    <3>1. PICK n2, s2 : Queue(k, m, q2, n2, s2)
      BY DEF Holds
    <3>2. k2.head[q2] = k.head[q2] /\ k2.tail[q2] = k.tail[q2]
      BY <1>12, <1>16, <2>2, KFields
    <3>3. ASSUME NEW x \in Procs, k.proc[x].priority = q2
          PROVE  NextOf(k2)[x] = NextOf(k)[x] /\ (x \in m \ {p} <=> x \in m)
      <4>1. i # 1 => k.proc[s[i - 1]].priority = q
        BY <1>3, <1>4, <1>8 DEF Has
      <4> QED
        BY <1>1, <1>12, <1>16, <2>2, <3>3, <4>1
    <3>4. Queue(k2, m \ {p}, q2, n2, s2)
      BY <1>17, <3>1, <3>2, <3>3, OtherQueue
    <3> QED
      BY <3>4
  <2> QED
    BY <2>1, <2>2
<1>20. Holds(k2, m \ {p})
  BY <1>19 DEF Holds
<1> QED
  BY <1>14, <1>16, <1>17, <1>20

(* The first half of enqueue puts a process at the end of its queue.       *)
Put(k, p) ==
    LET q == k.proc[p].priority
        last == k.tail[q]
        linked == IF k.head[q] = NULL THEN [k EXCEPT !.head[q] = p]
                                      ELSE [k EXCEPT !.proc[last].nextready = p]
    IN  [linked EXCEPT !.tail[q] = p, !.proc[p].nextready = NULL]

LEMMA PutIs ==
    ASSUME NEW k \in Kernels, NEW m, Holds(k, m), NEW p \in Procs, p \notin m
    PROVE  /\ Put(k, p) \in Kernels /\ OnlyQueues(k, Put(k, p))
           /\ Holds(Put(k, p), m \cup {p})
<1>1. PICK q \in Queues : q = k.proc[p].priority
  BY KFields
<1>2. PICK n, s : Queue(k, m, q, n, s)
  BY DEF Holds
<1>3. n \in Nat /\ s \in [1 .. n -> Procs]
  BY <1>2, ReadyIs
<1>4. /\ List(n, s, k.head[q], NextOf(k)) /\ k.tail[q] = EndOf(n, s)
      /\ \A x \in Procs : Has(n, s, x) <=> x \in m /\ k.proc[x].priority = q
  BY <1>2 DEF Queue
<1>5. k.head[q] = NULL <=> n = 0
  <2>1. n # 0 => 1 \in 1 .. n
    BY <1>3
  <2>2. n # 0 => s[1] \in Procs
    BY <1>3, <2>1
  <2> QED
    BY <1>4, <2>2, Constants DEF List
<1>6. PICK last : last = k.tail[q]
  OBVIOUS
<1>7. n # 0 => last \in Procs /\ last = s[n] /\ n \in 1 .. n
  BY <1>3, <1>4, <1>6 DEF EndOf
<1>8. PICK u : u = IF n = 0 THEN [k EXCEPT !.head[q] = p]
                   ELSE [k EXCEPT !.proc[last].nextready = p]
  OBVIOUS
<1>9. /\ u \in Kernels /\ OnlyQueues(k, u) /\ u.tail = k.tail
      /\ u.head = [k.head EXCEPT ![q] = IF n = 0 THEN p ELSE k.head[q]]
      /\ \A x \in Procs : NextOf(u)[x] = IF n # 0 /\ x = s[n] THEN p ELSE NextOf(k)[x]
  <2>0. p \in Pointers
    BY Constants
  <2>1. CASE n = 0
    <3>1. u = [k EXCEPT !.head[q] = p]
      BY <1>8, <2>1
    <3>2. /\ u \in Kernels /\ OnlyQueues(k, u) /\ u.tail = k.tail
          /\ u.head = [k.head EXCEPT ![q] = p] /\ NextOf(u) = NextOf(k)
      <4>1. HeadSet(k, q, p, u)
        BY <2>0, <3>1, SetHead
      <4> QED
        BY <4>1 DEF HeadSet
    <3> QED
      BY <2>1, <3>2
  <2>2. CASE n # 0
    <3>1. u = [k EXCEPT !.proc[last].nextready = p] /\ last \in Procs /\ last = s[n]
      BY <1>7, <1>8, <2>2
    <3>2. /\ u \in Kernels /\ OnlyQueues(k, u) /\ u.tail = k.tail /\ u.head = k.head
          /\ \A x \in Procs : NextOf(u)[x] = IF x = last THEN p ELSE NextOf(k)[x]
      <4>1. NextSet(k, last, p, u)
        BY <2>0, <3>1, SetNext
      <4> QED
        BY <4>1 DEF NextSet
    <3>3. k.head = [k.head EXCEPT ![q] = k.head[q]]
      BY KFields
    <3> QED
      BY <2>2, <3>1, <3>2, <3>3
  <2> QED
    BY <2>1, <2>2
<1>10. PICK w : w = [u EXCEPT !.tail[q] = p]
  OBVIOUS
<1>11. PICK k2 : k2 = [w EXCEPT !.proc[p].nextready = NULL]
  OBVIOUS
<1>12. Put(k, p) = k2
  <2>1. Put(k, p) = [u EXCEPT !.tail[q] = p, !.proc[p].nextready = NULL]
    BY <1>1, <1>5, <1>6, <1>8 DEF Put
  <2> QED
    BY <1>10, <1>11, <2>1
<1>13. /\ w \in Kernels /\ OnlyQueues(u, w) /\ w.tail = [u.tail EXCEPT ![q] = p]
       /\ w.head = u.head /\ NextOf(w) = NextOf(u)
  <2>1. TailSet(u, q, p, w)
    BY <1>9, <1>10, Constants, SetTail
  <2> QED
    BY <2>1 DEF TailSet
<1>14. /\ k2 \in Kernels /\ OnlyQueues(w, k2) /\ k2.tail = w.tail /\ k2.head = w.head
       /\ \A x \in Procs : NextOf(k2)[x] = IF x = p THEN NULL ELSE NextOf(w)[x]
  <2>1. NextSet(w, p, NULL, k2)
    BY <1>11, <1>13, Constants, SetNext
  <2> QED
    BY <2>1 DEF NextSet
<1>15. OnlyQueues(k, k2)
  BY <1>9, <1>13, <1>14, OnlyQueuesTwice
<1>16. \A x \in Procs : k2.proc[x].priority = k.proc[x].priority
  BY <1>15 DEF OnlyQueues
<1>17. /\ k2.tail = [k.tail EXCEPT ![q] = p]
       /\ k2.head = [k.head EXCEPT ![q] = IF n = 0 THEN p ELSE k.head[q]]
       /\ \A x \in Procs : NextOf(k2)[x] = IF x = p THEN NULL
                                           ELSE IF n # 0 /\ x = s[n] THEN p ELSE NextOf(k)[x]
  BY <1>9, <1>13, <1>14
<1>18. ASSUME NEW q2 \in Queues PROVE \E n2, s2 : Queue(k2, m \cup {p}, q2, n2, s2)
  <2>1. CASE q2 = q
    <3>1. k2.head[q] = (IF n = 0 THEN p ELSE k.head[q]) /\ k2.tail[q] = p
      BY <1>17, KFields
    <3>2. ~ Has(n, s, p)
      BY <1>4
    <3>3. PICK s2 : /\ List(n + 1, s2, k2.head[q], NextOf(k2)) /\ EndOf(n + 1, s2) = p
                    /\ \A x : Has(n + 1, s2, x) <=> x = p \/ Has(n, s, x)
      BY <1>4, <1>17, <3>1, <3>2, ListAppended
    <3>4. \A x \in Procs : Has(n + 1, s2, x) <=> x \in m \cup {p} /\ k2.proc[x].priority = q
      BY <1>1, <1>4, <1>16, <3>3
    <3> QED
      BY <2>1, <3>1, <3>3, <3>4 DEF Queue
  <2>2. CASE q2 # q
    <3>1. PICK n2, s2 : Queue(k, m, q2, n2, s2)
      BY DEF Holds
    <3>2. k2.head[q2] = k.head[q2] /\ k2.tail[q2] = k.tail[q2]
      BY <1>17, <2>2, KFields
    <3>3. ASSUME NEW x \in Procs, k.proc[x].priority = q2
          PROVE  NextOf(k2)[x] = NextOf(k)[x] /\ (x \in m \cup {p} <=> x \in m)
      <4>1. n # 0 => k.proc[s[n]].priority = q
        BY <1>3, <1>4, <1>7 DEF Has
      <4> QED
        BY <1>1, <1>17, <2>2, <3>3, <4>1
    <3>4. Queue(k2, m \cup {p}, q2, n2, s2)
      BY <1>15, <3>1, <3>2, <3>3, OtherQueue
    <3> QED
      BY <3>4
  <2> QED
    BY <2>1, <2>2
<1>19. Holds(k2, m \cup {p})
  BY <1>18 DEF Holds
<1> QED
  BY <1>12, <1>14, <1>15, <1>19

(* enqueue_head puts a process at the head of its queue.                   *)
LEMMA PushIs ==
    ASSUME NEW k \in Kernels, NEW m, Holds(k, m), NEW p \in Procs, p \notin m
    PROVE  /\ enqueue_head(k, p) \in Kernels /\ OnlyQueues(k, enqueue_head(k, p))
           /\ Holds(enqueue_head(k, p), m \cup {p})
<1>1. PICK q \in Queues : q = k.proc[p].priority
  BY KFields
<1>2. PICK n, s : Queue(k, m, q, n, s)
  BY DEF Holds
<1>3. n \in Nat /\ s \in [1 .. n -> Procs]
  BY <1>2, ReadyIs
<1>4. /\ List(n, s, k.head[q], NextOf(k)) /\ k.tail[q] = EndOf(n, s)
      /\ \A x \in Procs : Has(n, s, x) <=> x \in m /\ k.proc[x].priority = q
  BY <1>2 DEF Queue
<1>5. k.head[q] = NULL <=> n = 0
  <2>1. n # 0 => 1 \in 1 .. n
    BY <1>3
  <2>2. n # 0 => s[1] \in Procs
    BY <1>3, <2>1
  <2> QED
    BY <1>4, <2>2, Constants DEF List
<1>6. PICK h, t : h = k.head[q] /\ t = IF n = 0 THEN p ELSE k.tail[q]
  OBVIOUS
<1>7. h \in Pointers /\ t \in Pointers /\ p \in Pointers
  BY <1>6, KFields, Constants
<1>8. PICK u : u = [k EXCEPT !.head[q] = p]
  OBVIOUS
<1>9. PICK w : w = [u EXCEPT !.tail[q] = t]
  OBVIOUS
<1>10. PICK k2 : k2 = [w EXCEPT !.proc[p].nextready = h]
  OBVIOUS
<1>11. /\ u \in Kernels /\ OnlyQueues(k, u) /\ u.head = [k.head EXCEPT ![q] = p]
       /\ u.tail = k.tail /\ NextOf(u) = NextOf(k)
  <2>1. HeadSet(k, q, p, u)
    BY <1>7, <1>8, SetHead
  <2> QED
    BY <2>1 DEF HeadSet
<1>12. /\ w \in Kernels /\ OnlyQueues(u, w) /\ w.tail = [u.tail EXCEPT ![q] = t]
       /\ w.head = u.head /\ NextOf(w) = NextOf(u)
  <2>1. TailSet(u, q, t, w)
    BY <1>7, <1>9, <1>11, SetTail
  <2> QED
    BY <2>1 DEF TailSet
<1>13. /\ k2 \in Kernels /\ OnlyQueues(w, k2) /\ k2.tail = w.tail /\ k2.head = w.head
       /\ \A x \in Procs : NextOf(k2)[x] = IF x = p THEN h ELSE NextOf(w)[x]
  <2>1. NextSet(w, p, h, k2)
    BY <1>7, <1>10, <1>12, SetNext
  <2> QED
    BY <2>1 DEF NextSet
<1>14. enqueue_head(k, p) = k2
  <2>1. CASE n = 0
    <3>1. enqueue_head(k, p) =
             [k EXCEPT !.head[q] = p, !.tail[q] = p, !.proc[p].nextready = NULL]
      BY <1>1, <1>5, <2>1 DEF enqueue_head
    <3>2. t = p /\ h = NULL
      BY <1>5, <1>6, <2>1
    <3> QED
      BY <1>8, <1>9, <1>10, <3>1, <3>2
  <2>2. CASE n # 0
    <3>1. enqueue_head(k, p) = [k EXCEPT !.head[q] = p, !.proc[p].nextready = h]
      BY <1>1, <1>5, <1>6, <2>2 DEF enqueue_head
    <3>2. w = u
      <4>1. u.tail = [u.tail EXCEPT ![q] = t]
        BY <1>6, <1>11, <2>2, KFields
      <4> QED
        BY <1>9, <1>11, <4>1 DEF Kernels
    <3> QED
      BY <1>8, <1>10, <3>1, <3>2
  <2> QED
    BY <2>1, <2>2
<1>15. OnlyQueues(k, k2)
  BY <1>11, <1>12, <1>13, OnlyQueuesTwice
<1>16. \A x \in Procs : k2.proc[x].priority = k.proc[x].priority
  BY <1>15 DEF OnlyQueues
<1>17. /\ k2.tail = [k.tail EXCEPT ![q] = t] /\ k2.head = [k.head EXCEPT ![q] = p]
       /\ \A x \in Procs : NextOf(k2)[x] = IF x = p THEN h ELSE NextOf(k)[x]
  BY <1>11, <1>12, <1>13
<1>18. ASSUME NEW q2 \in Queues PROVE \E n2, s2 : Queue(k2, m \cup {p}, q2, n2, s2)
  <2>1. CASE q2 = q
    <3>1. k2.head[q] = p /\ k2.tail[q] = t
      BY <1>17, KFields
    <3>2. ~ Has(n, s, p)
      BY <1>4
    <3>3. PICK s2 : /\ List(n + 1, s2, p, NextOf(k2))
                    /\ EndOf(n + 1, s2) = IF n = 0 THEN p ELSE EndOf(n, s)
                    /\ \A x : Has(n + 1, s2, x) <=> x = p \/ Has(n, s, x)
      BY <1>4, <1>6, <1>17, <3>2, ListPushed
    <3>4. \A x \in Procs : Has(n + 1, s2, x) <=> x \in m \cup {p} /\ k2.proc[x].priority = q
      BY <1>1, <1>4, <1>16, <3>3
    <3>5. k2.tail[q] = EndOf(n + 1, s2)
      BY <1>4, <1>6, <3>1, <3>3
    <3> QED
      BY <2>1, <3>1, <3>3, <3>4, <3>5 DEF Queue
  <2>2. CASE q2 # q
    <3>1. PICK n2, s2 : Queue(k, m, q2, n2, s2)
      BY DEF Holds
    <3>2. k2.head[q2] = k.head[q2] /\ k2.tail[q2] = k.tail[q2]
      BY <1>17, <2>2, KFields
    <3>3. ASSUME NEW x \in Procs, k.proc[x].priority = q2
          PROVE  NextOf(k2)[x] = NextOf(k)[x] /\ (x \in m \cup {p} <=> x \in m)
      BY <1>1, <1>17, <2>2, <3>3
    <3>4. Queue(k2, m \cup {p}, q2, n2, s2)
      BY <1>15, <3>1, <3>2, <3>3, OtherQueue
    <3> QED
      BY <3>4
  <2> QED
    BY <2>1, <2>2
<1>19. Holds(k2, m \cup {p})
  BY <1>18 DEF Holds
<1> QED
  BY <1>13, <1>14, <1>15, <1>19

-----------------------------------------------------------------------------
(* The flags that keep a process from running.                             *)
Lists(k) == Holds(k, Runnable(k))

(* Everything but the flags and the queues is as before.                   *)
OnlyFlags(k, k2) ==
    /\ k2.cur = k.cur /\ k2.priv = k.priv
    /\ \A x \in Procs : /\ k2.proc[x].priority = k.proc[x].priority
                        /\ k2.proc[x].sendto = k.proc[x].sendto
                        /\ k2.proc[x].caller_q = k.proc[x].caller_q
                        /\ k2.proc[x].q_link = k.proc[x].q_link

RtsSet(k, p, v, k2) ==
    /\ k2 \in Kernels /\ OnlyFlags(k, k2)
    /\ k2.head = k.head /\ k2.tail = k.tail /\ NextOf(k2) = NextOf(k)
    /\ \A x \in Procs : k2.proc[x].rts = IF x = p THEN v ELSE k.proc[x].rts

LEMMA SetRts ==
    ASSUME NEW k \in Kernels, NEW p \in Procs, NEW v \in SUBSET Flags, NEW k2,
           k2 = [k EXCEPT !.proc[p].rts = v]
    PROVE  RtsSet(k, p, v, k2)
<1>1. k.proc[p] \in Slots
  BY KFields
<1>2. PICK r : r = [k.proc[p] EXCEPT !.rts = v]
  OBVIOUS
<1>3. /\ r \in Slots /\ r.nextready = k.proc[p].nextready /\ r.rts = v
      /\ r.priority = k.proc[p].priority /\ r.sendto = k.proc[p].sendto
      /\ r.caller_q = k.proc[p].caller_q /\ r.q_link = k.proc[p].q_link
  BY <1>1, <1>2 DEF Slots
<1>4. k2 = [k EXCEPT !.proc = [k.proc EXCEPT ![p] = r]]
  BY <1>2 DEF Kernels
<1>5. /\ k2 \in Kernels /\ k2.proc = [k.proc EXCEPT ![p] = r] /\ k2.head = k.head
      /\ k2.tail = k.tail /\ k2.cur = k.cur /\ k2.priv = k.priv
  <2>1. [k.proc EXCEPT ![p] = r] \in [Procs -> Slots]
    BY <1>3, KFields
  <2> QED
    BY <1>4, <2>1 DEF Kernels
<1>6. \A x \in Procs : k2.proc[x] = IF x = p THEN r ELSE k.proc[x]
  BY <1>5, KFields
<1> QED
  BY <1>3, <1>5, <1>6 DEF RtsSet, OnlyFlags, NextOf

(* The queues, with the links of the processes, are as before.             *)
SameQueues(k, k2) ==
    /\ k2.head = k.head /\ k2.tail = k.tail /\ NextOf(k2) = NextOf(k)
    /\ \A x \in Procs : k2.proc[x].priority = k.proc[x].priority

LEMMA HoldsSame ==
    ASSUME NEW k, NEW k2, NEW m, Holds(k, m), SameQueues(k, k2)
    PROVE  Holds(k2, m)
<1>1. ASSUME NEW q \in Queues PROVE \E n, s : Queue(k2, m, q, n, s)
  <2>1. PICK n, s : Queue(k, m, q, n, s)
    BY DEF Holds
  <2>2. Queue(k2, m, q, n, s)
    BY <2>1 DEF Queue, SameQueues
  <2> QED
    BY <2>2
<1> QED
  BY <1>1 DEF Holds

RtsDone(k, p, v, k2) ==
    /\ k2 \in Kernels /\ Lists(k2) /\ OnlyFlags(k, k2)
    /\ \A x \in Procs : k2.proc[x].rts = IF x = p THEN v ELSE k.proc[x].rts

LEMMA RtsSetIs ==
    ASSUME NEW k \in Kernels, Lists(k), NEW p \in Procs, NEW flags \in SUBSET Flags, flags # {}
    PROVE  RtsDone(k, p, k.proc[p].rts \cup flags, RTS_SET(k, p, flags))
<1>1. PICK v : v = k.proc[p].rts \cup flags
  OBVIOUS
<1>2. v \in SUBSET Flags /\ v # {}
  <2>1. k.proc[p].rts \in SUBSET Flags
    BY KFields DEF Slots
  <2> QED
    BY <1>1, <2>1
<1>3. PICK set : set = [k EXCEPT !.proc[p].rts = v]
  OBVIOUS
<1>4. RtsSet(k, p, v, set)
  BY <1>2, <1>3, SetRts
<1>5. /\ set \in Kernels /\ OnlyFlags(k, set) /\ SameQueues(k, set)
      /\ \A x \in Procs : set.proc[x].rts = IF x = p THEN v ELSE k.proc[x].rts
  BY <1>4 DEF RtsSet, SameQueues, OnlyFlags
<1>6. Holds(set, Runnable(k))
  BY <1>5, HoldsSame DEF Lists
<1>7. RTS_SET(k, p, flags) = IF proc_is_runnable(k, p) THEN dequeue(set, p) ELSE set
  BY <1>1, <1>3 DEF RTS_SET
<1>8. Runnable(set) = Runnable(k) \ {p}
  BY <1>2, <1>5 DEF Runnable
<1>9. CASE proc_is_runnable(k, p)
  <2>1. PICK k2 : k2 = dequeue(set, p)
    OBVIOUS
  <2>2. p \in Runnable(k)
    BY <1>9 DEF Runnable, proc_is_runnable
  <2>3. k2 \in Kernels /\ OnlyQueues(set, k2) /\ Holds(k2, Runnable(k) \ {p})
    BY <1>5, <1>6, <2>1, <2>2, DequeueIs
  <2>4. OnlyFlags(k, k2) /\ \A x \in Procs : k2.proc[x].rts = set.proc[x].rts
    BY <1>5, <2>3 DEF OnlyFlags, OnlyQueues
  <2>5. Runnable(k2) = Runnable(set)
    BY <2>4 DEF Runnable
  <2>6. Lists(k2)
    BY <1>8, <2>3, <2>5 DEF Lists
  <2> QED
    BY <1>1, <1>5, <1>7, <1>9, <2>1, <2>3, <2>4, <2>6 DEF RtsDone
<1>10. CASE ~ proc_is_runnable(k, p)
  <2>1. Runnable(set) = Runnable(k)
    BY <1>8, <1>10 DEF Runnable, proc_is_runnable
  <2> QED
    BY <1>1, <1>5, <1>6, <1>7, <1>10, <2>1 DEF RtsDone, Lists
<1> QED
  BY <1>9, <1>10

(* The current process may be marked as preempted, and is when p is better.*)
Preempted(k, p, k2) ==
    /\ k2 \in Kernels /\ Lists(k2) /\ OnlyFlags(k, k2)
    /\ \A x \in Procs : \/ k2.proc[x].rts = k.proc[x].rts
                        \/ x = k.cur /\ k2.proc[x].rts = k.proc[x].rts \cup {"PREEMPTED"}
    /\ k.cur # NULL /\ k.proc[k.cur].priority > k.proc[p].priority
          => "PREEMPTED" \in k2.proc[k.cur].rts

LEMMA PreemptIs ==
    ASSUME NEW k \in Kernels, Lists(k), NEW p \in Procs
    PROVE  Preempted(k, p, Preempt(k, p))
<1>1. CASE k.cur # NULL /\ k.proc[k.cur].priority > k.proc[p].priority
  <2>1. PICK c \in Procs : c = k.cur
    BY <1>1, KFields DEF Pointers
  <2>2. PICK k2 : k2 = RTS_SET(k, c, {"PREEMPTED"})
    OBVIOUS
  <2>3. {"PREEMPTED"} \in SUBSET Flags /\ {"PREEMPTED"} # {}
    BY DEF Flags
  <2>4. RtsDone(k, c, k.proc[c].rts \cup {"PREEMPTED"}, k2)
    BY <2>2, <2>3, RtsSetIs
  <2>5. Preempt(k, p) = k2
    BY <1>1, <2>1, <2>2 DEF Preempt
  <2> QED
    BY <2>1, <2>4, <2>5 DEF RtsDone, Preempted
<1>2. CASE ~ (k.cur # NULL /\ k.proc[k.cur].priority > k.proc[p].priority)
  <2>1. Preempt(k, p) = k
    BY <1>2 DEF Preempt
  <2> QED
    BY <1>2, <2>1 DEF Preempted, OnlyFlags
<1> QED
  BY <1>1, <1>2

LEMMA EnqueueIs ==
    ASSUME NEW k \in Kernels, NEW p \in Procs, p \in Runnable(k), Holds(k, Runnable(k) \ {p})
    PROVE  Preempted(k, p, enqueue(k, p))
<1>1. PICK u : u = Put(k, p)
  OBVIOUS
<1>2. enqueue(k, p) = Preempt(u, p)
  BY <1>1 DEF enqueue, Put
<1>3. PICK m : m = Runnable(k) \ {p}
  OBVIOUS
<1>4. p \notin m /\ m \cup {p} = Runnable(k)
  BY <1>3
<1>5. u \in Kernels /\ OnlyQueues(k, u) /\ Holds(u, m \cup {p})
  BY <1>1, <1>3, <1>4, PutIs
<1>6. Runnable(u) = Runnable(k)
  BY <1>5 DEF Runnable, OnlyQueues
<1>7. Lists(u)
  BY <1>4, <1>5, <1>6 DEF Lists
<1>8. PICK k2 : k2 = Preempt(u, p)
  OBVIOUS
<1>9. Preempted(u, p, k2)
  BY <1>5, <1>7, <1>8, PreemptIs
<1>10. /\ u.cur = k.cur /\ u.priv = k.priv
       /\ \A x \in Procs : /\ u.proc[x].rts = k.proc[x].rts /\ u.proc[x].sendto = k.proc[x].sendto
                           /\ u.proc[x].priority = k.proc[x].priority
                           /\ u.proc[x].caller_q = k.proc[x].caller_q
                           /\ u.proc[x].q_link = k.proc[x].q_link
  BY <1>5 DEF OnlyQueues
<1>11. k.cur # NULL => k.cur \in Procs
  BY KFields DEF Pointers
<1>12. OnlyFlags(k, k2)
  BY <1>9, <1>10 DEF Preempted, OnlyFlags
<1>13. k.cur # NULL /\ k.proc[k.cur].priority > k.proc[p].priority
          => "PREEMPTED" \in k2.proc[k.cur].rts
  BY <1>9, <1>10, <1>11 DEF Preempted
<1>14. \A x \in Procs : \/ k2.proc[x].rts = k.proc[x].rts
                        \/ x = k.cur /\ k2.proc[x].rts = k.proc[x].rts \cup {"PREEMPTED"}
  BY <1>9, <1>10 DEF Preempted
<1> QED
  BY <1>2, <1>8, <1>9, <1>12, <1>13, <1>14 DEF Preempted

(* What RTS_UNSET leaves of the flags of x.                                *)
Still(k, p, flags, x) == IF x = p THEN k.proc[p].rts \ flags ELSE k.proc[x].rts

Freed(k, p, flags, k2) ==
    /\ k2 \in Kernels /\ Lists(k2) /\ OnlyFlags(k, k2)
    /\ \A x \in Procs :
          \/ k2.proc[x].rts = Still(k, p, flags, x)
          \/ x = k.cur /\ k2.proc[x].rts = Still(k, p, flags, x) \cup {"PREEMPTED"}
    /\ /\ k.proc[p].rts # {} /\ k.proc[p].rts \ flags = {}
       /\ k.cur # NULL /\ k.proc[k.cur].priority > k.proc[p].priority
       => "PREEMPTED" \in k2.proc[k.cur].rts

LEMMA RtsUnsetIs ==
    ASSUME NEW k \in Kernels, Lists(k), NEW p \in Procs, NEW flags
    PROVE  Freed(k, p, flags, RTS_UNSET(k, p, flags))
<1>1. PICK v : v = k.proc[p].rts \ flags
  OBVIOUS
<1>2. v \in SUBSET Flags
  <2>1. k.proc[p].rts \in SUBSET Flags
    BY KFields DEF Slots
  <2> QED
    BY <1>1, <2>1
<1>3. PICK u : u = [k EXCEPT !.proc[p].rts = v]
  OBVIOUS
<1>4. RtsSet(k, p, v, u)
  BY <1>2, <1>3, SetRts
<1>5. /\ u \in Kernels /\ OnlyFlags(k, u) /\ SameQueues(k, u)
      /\ \A x \in Procs : u.proc[x].rts = Still(k, p, flags, x)
  BY <1>1, <1>4 DEF RtsSet, SameQueues, OnlyFlags, Still
<1>6. Holds(u, Runnable(k))
  BY <1>5, HoldsSame DEF Lists
<1>7. u.proc[p].rts = v /\ \A x \in Procs : x # p => u.proc[x].rts = k.proc[x].rts
  BY <1>4 DEF RtsSet
<1>8. RTS_UNSET(k, p, flags) = IF k.proc[p].rts # {} /\ v = {} THEN enqueue(u, p) ELSE u
  BY <1>1, <1>3, <1>7 DEF RTS_UNSET, proc_is_runnable
<1>9. CASE k.proc[p].rts # {} /\ v = {}
  <2>1. p \in Runnable(u) /\ Runnable(u) \ {p} = Runnable(k)
    BY <1>7, <1>9 DEF Runnable
  <2>2. PICK k2 : k2 = enqueue(u, p)
    OBVIOUS
  <2>3. Holds(u, Runnable(u) \ {p})
    BY <1>6, <2>1
  <2>4. Preempted(u, p, k2)
    BY <1>5, <2>1, <2>2, <2>3, EnqueueIs
  <2>5. u.cur = k.cur /\ \A x \in Procs : u.proc[x].priority = k.proc[x].priority
    BY <1>5 DEF OnlyFlags
  <2>6. OnlyFlags(k, k2)
    BY <1>5, <2>4 DEF Preempted, OnlyFlags
  <2>7. \A x \in Procs :
          \/ k2.proc[x].rts = Still(k, p, flags, x)
          \/ x = k.cur /\ k2.proc[x].rts = Still(k, p, flags, x) \cup {"PREEMPTED"}
    BY <1>5, <2>4, <2>5 DEF Preempted
  <2>8. k.cur # NULL => k.cur \in Procs
    BY KFields DEF Pointers
  <2>9. k.cur # NULL /\ k.proc[k.cur].priority > k.proc[p].priority
           => "PREEMPTED" \in k2.proc[k.cur].rts
    BY <2>4, <2>5, <2>8 DEF Preempted
  <2>10. k2 \in Kernels /\ Lists(k2)
    BY <2>4 DEF Preempted
  <2>11. RTS_UNSET(k, p, flags) = k2
    BY <1>8, <1>9, <2>2
  <2> QED
    BY <2>6, <2>7, <2>9, <2>10, <2>11 DEF Freed
<1>10. CASE ~ (k.proc[p].rts # {} /\ v = {})
  <2>1. Runnable(u) = Runnable(k)
    BY <1>1, <1>7, <1>10 DEF Runnable
  <2>2. RTS_UNSET(k, p, flags) = u
    BY <1>8, <1>10
  <2>3. Lists(u)
    BY <1>6, <2>1 DEF Lists
  <2> QED
    BY <1>1, <1>5, <1>10, <2>2, <2>3 DEF Freed
<1> QED
  BY <1>9, <1>10

-----------------------------------------------------------------------------
(* Only the current process is marked as preempted; it is marked when a    *)
(* better one is runnable; and a process that sends knows to whom.         *)
Marked(k) == \A p \in Procs : "PREEMPTED" \in k.proc[p].rts => p = k.cur

Best(k) ==
    \A p \in Procs : /\ k.cur # NULL /\ k.proc[p].rts = {}
                     /\ k.proc[p].priority < k.proc[k.cur].priority
                     => "PREEMPTED" \in k.proc[k.cur].rts

Aimed(k) == \A p \in Procs : "SENDING" \in k.proc[p].rts => k.proc[p].sendto \in Procs

Sound(k) == k \in Kernels /\ Lists(k) /\ Marked(k) /\ Best(k)

Ok(k) == Sound(k) /\ Aimed(k)

LEMMA CurIs ==
    ASSUME NEW k \in Kernels
    PROVE  k.cur # NULL => /\ k.cur \in Procs /\ k.proc[k.cur].priority \in Nat
<1>1. k.cur # NULL => k.cur \in Procs
  BY KFields DEF Pointers
<1> QED
  BY <1>1, KFields, Constants

LEMMA SoundSet ==
    ASSUME NEW k, Sound(k), NEW p \in Procs, NEW flags \in SUBSET (Flags \ {"PREEMPTED"}),
           flags # {}, NEW k2, k2 = RTS_SET(k, p, flags)
    PROVE  Sound(k2) /\ RtsDone(k, p, k.proc[p].rts \cup flags, k2)
<1>1. k \in Kernels /\ Lists(k) /\ Marked(k) /\ Best(k)
  BY DEF Sound
<1>2. RtsDone(k, p, k.proc[p].rts \cup flags, k2)
  BY <1>1, RtsSetIs
<1>3. /\ k2 \in Kernels /\ Lists(k2) /\ k2.cur = k.cur
      /\ \A x \in Procs : k2.proc[x].priority = k.proc[x].priority
      /\ \A x \in Procs : k2.proc[x].rts = IF x = p THEN k.proc[p].rts \cup flags ELSE k.proc[x].rts
  BY <1>2 DEF RtsDone, OnlyFlags
<1>4. Marked(k2)
  BY <1>1, <1>3 DEF Marked
<1>5. Best(k2)
  <2> SUFFICES ASSUME NEW x \in Procs, k2.cur # NULL, k2.proc[x].rts = {},
                      k2.proc[x].priority < k2.proc[k2.cur].priority
               PROVE  "PREEMPTED" \in k2.proc[k2.cur].rts
    BY DEF Best
  <2>1. k.cur \in Procs
    BY <1>1, <1>3, CurIs
  <2>2. k.proc[x].rts = {} /\ k.proc[x].priority < k.proc[k.cur].priority
    BY <1>3, <2>1
  <2>3. "PREEMPTED" \in k.proc[k.cur].rts
    BY <1>1, <1>3, <2>2 DEF Best
  <2> QED
    BY <1>3, <2>1, <2>3
<1> QED
  BY <1>2, <1>3, <1>4, <1>5 DEF Sound

LEMMA OkSet ==
    ASSUME NEW k, Ok(k), NEW p \in Procs,
           NEW flags \in SUBSET (Flags \ {"PREEMPTED", "SENDING"}), flags # {},
           NEW k2, k2 = RTS_SET(k, p, flags)
    PROVE  Ok(k2) /\ RtsDone(k, p, k.proc[p].rts \cup flags, k2)
<1>1. Sound(k) /\ Aimed(k)
  BY DEF Ok
<1>2. Sound(k2) /\ RtsDone(k, p, k.proc[p].rts \cup flags, k2)
  BY <1>1, SoundSet
<1>3. Aimed(k2)
  BY <1>1, <1>2 DEF Aimed, RtsDone, OnlyFlags
<1> QED
  BY <1>2, <1>3 DEF Ok

LEMMA OkUnset ==
    ASSUME NEW k, Ok(k), NEW p \in Procs, NEW flags, "PREEMPTED" \notin flags,
           NEW k2, k2 = RTS_UNSET(k, p, flags)
    PROVE  Ok(k2) /\ Freed(k, p, flags, k2)
<1>1. k \in Kernels /\ Lists(k) /\ Marked(k) /\ Best(k) /\ Aimed(k)
  BY DEF Ok, Sound
<1>2. Freed(k, p, flags, k2)
  BY <1>1, RtsUnsetIs
<1>3. /\ k2 \in Kernels /\ Lists(k2) /\ k2.cur = k.cur
      /\ \A x \in Procs : /\ k2.proc[x].priority = k.proc[x].priority
                          /\ k2.proc[x].sendto = k.proc[x].sendto
  BY <1>2 DEF Freed, OnlyFlags
<1>4. \A x \in Procs :
         \/ k2.proc[x].rts = Still(k, p, flags, x)
         \/ x = k.cur /\ k2.proc[x].rts = Still(k, p, flags, x) \cup {"PREEMPTED"}
  BY <1>2 DEF Freed
<1>5. \A x \in Procs : \A f : f \in Still(k, p, flags, x) => f \in k.proc[x].rts
  BY DEF Still
<1>6. Marked(k2)
  BY <1>1, <1>3, <1>4, <1>5 DEF Marked
<1>7. Aimed(k2)
  <2>1. \A x \in Procs : "SENDING" \in k2.proc[x].rts => "SENDING" \in k.proc[x].rts
    BY <1>4, <1>5
  <2> QED
    BY <1>1, <1>3, <2>1 DEF Aimed
<1>8. Best(k2)
  <2> SUFFICES ASSUME NEW x \in Procs, k2.cur # NULL, k2.proc[x].rts = {},
                      k2.proc[x].priority < k2.proc[k2.cur].priority
               PROVE  "PREEMPTED" \in k2.proc[k2.cur].rts
    BY DEF Best
  <2>1. k.cur \in Procs /\ k.cur # NULL /\ k.proc[k.cur].priority \in Nat
    BY <1>1, <1>3, CurIs
  <2>2. /\ k.proc[x].priority < k.proc[k.cur].priority /\ k.proc[x].priority \in Nat
        /\ Still(k, p, flags, x) = {}
    BY <1>1, <1>3, <1>4, <2>1, KFields, Constants, ZenonT(40)
  <2>3. CASE k.proc[x].rts = {}
    <3>1. "PREEMPTED" \in k.proc[k.cur].rts
      BY <1>1, <2>1, <2>2, <2>3 DEF Best
    <3>2. "PREEMPTED" \in Still(k, p, flags, k.cur)
      BY <3>1 DEF Still
    <3> QED
      BY <1>3, <1>4, <2>1, <3>2
  <2>4. CASE k.proc[x].rts # {}
    <3>1. x = p /\ k.proc[p].rts \ flags = {} /\ k.proc[p].rts # {}
      BY <2>2, <2>4 DEF Still
    <3>2. k.proc[k.cur].priority > k.proc[p].priority
      BY <2>1, <2>2, <3>1
    <3> QED
      BY <1>2, <1>3, <2>1, <3>1, <3>2 DEF Freed
  <2> QED
    BY <2>3, <2>4
<1> QED
  BY <1>2, <1>3, <1>6, <1>7, <1>8 DEF Ok, Sound

-----------------------------------------------------------------------------
(* Steps that touch neither the queues nor what keeps processes from       *)
(* running.                                                                *)
Quiet(k, k2) ==
    /\ k2 \in Kernels /\ k2.cur = k.cur /\ SameQueues(k, k2)
    /\ \A x \in Procs : /\ k2.proc[x].rts = k.proc[x].rts
                        /\ k2.proc[x].sendto = k.proc[x].sendto \/ k2.proc[x].sendto \in Procs

LEMMA QuietSound ==
    ASSUME NEW k, Sound(k), NEW k2, Quiet(k, k2)
    PROVE  Sound(k2)
<1>1. /\ k2 \in Kernels /\ k2.cur = k.cur /\ SameQueues(k, k2)
      /\ \A x \in Procs : /\ k2.proc[x].rts = k.proc[x].rts
                          /\ k2.proc[x].priority = k.proc[x].priority
  BY DEF Quiet, SameQueues
<1>2. k \in Kernels /\ Lists(k) /\ Marked(k) /\ Best(k)
  BY DEF Sound
<1>3. Runnable(k2) = Runnable(k)
  BY <1>1 DEF Runnable
<1>4. Lists(k2)
  BY <1>1, <1>2, <1>3, HoldsSame DEF Lists
<1>5. Marked(k2)
  BY <1>1, <1>2 DEF Marked
<1>6. k.cur # NULL => k.cur \in Procs
  BY <1>2, CurIs
<1>7. Best(k2)
  BY <1>1, <1>2, <1>6 DEF Best
<1> QED
  BY <1>1, <1>4, <1>5, <1>7 DEF Sound

LEMMA QuietOk ==
    ASSUME NEW k, Ok(k), NEW k2, Quiet(k, k2)
    PROVE  Ok(k2) /\ k2.cur = k.cur
<1>1. Sound(k2)
  BY QuietSound DEF Ok
<1>2. Aimed(k2)
  BY DEF Ok, Aimed, Quiet
<1> QED
  BY <1>1, <1>2 DEF Ok, Quiet

LEMMA QuietTwice ==
    ASSUME NEW k, NEW k2, NEW k3, Quiet(k, k2), Quiet(k2, k3)
    PROVE  Quiet(k, k3)
BY DEF Quiet, SameQueues

LEMMA QuietSelf ==
    ASSUME NEW k \in Kernels
    PROVE  Quiet(k, k)
BY DEF Quiet, SameQueues

SameSlot(s, r) ==
    /\ r.rts = s.rts /\ r.priority = s.priority /\ r.nextready = s.nextready
    /\ r.sendto = s.sendto \/ r.sendto \in Procs

SameCallers(k, k2) ==
    \A x \in Procs : /\ k2.proc[x].caller_q = k.proc[x].caller_q
                     /\ k2.proc[x].q_link = k.proc[x].q_link

(* Neither the queues of senders change.                                   *)
Calm(k, k2) == Quiet(k, k2) /\ SameCallers(k, k2)

LEMMA CalmTwice ==
    ASSUME NEW k, NEW k2, NEW k3, Calm(k, k2), Calm(k2, k3)
    PROVE  Calm(k, k3)
<1>1. Quiet(k, k3)
  BY QuietTwice DEF Calm
<1> QED
  BY <1>1 DEF Calm, SameCallers

LEMMA CalmSelf ==
    ASSUME NEW k \in Kernels
    PROVE  Calm(k, k)
BY QuietSelf DEF Calm, SameCallers

LEMMA SlotQuiet ==
    ASSUME NEW k \in Kernels, NEW p \in Procs, NEW r \in Slots, SameSlot(k.proc[p], r),
           NEW k2, k2 = [k EXCEPT !.proc = [k.proc EXCEPT ![p] = r]]
    PROVE  /\ Quiet(k, k2) /\ k2.priv = k.priv
           /\ r.caller_q = k.proc[p].caller_q /\ r.q_link = k.proc[p].q_link => Calm(k, k2)
<1>1. /\ k2 \in Kernels /\ k2.proc = [k.proc EXCEPT ![p] = r] /\ k2.head = k.head
      /\ k2.tail = k.tail /\ k2.cur = k.cur /\ k2.priv = k.priv
  <2>1. [k.proc EXCEPT ![p] = r] \in [Procs -> Slots]
    BY KFields
  <2> QED
    BY <2>1 DEF Kernels
<1>2. \A x \in Procs : k2.proc[x] = IF x = p THEN r ELSE k.proc[x]
  BY <1>1, KFields
<1> QED
  BY <1>1, <1>2 DEF Quiet, SameQueues, NextOf, SameSlot, Calm, SameCallers

LEMMA MiscCalm ==
    ASSUME NEW k \in Kernels, NEW p \in Procs, NEW v \in SUBSET MiscFlags, NEW k2,
           k2 = [k EXCEPT !.proc[p].misc = v]
    PROVE  Calm(k, k2) /\ k2.priv = k.priv
<1>1. PICK r : r = [k.proc[p] EXCEPT !.misc = v]
  OBVIOUS
<1>2. /\ r \in Slots /\ SameSlot(k.proc[p], r)
      /\ r.caller_q = k.proc[p].caller_q /\ r.q_link = k.proc[p].q_link
  <2>1. k.proc[p] \in Slots
    BY KFields
  <2> QED
    BY <1>1, <2>1 DEF Slots, SameSlot
<1>3. k2 = [k EXCEPT !.proc = [k.proc EXCEPT ![p] = r]]
  BY <1>1 DEF Kernels
<1> QED
  BY <1>2, <1>3, SlotQuiet

LEMMA TimeCalm ==
    ASSUME NEW k \in Kernels, NEW p \in Procs, NEW v \in {0, 1}, NEW k2,
           k2 = [k EXCEPT !.proc[p].time_left = v]
    PROVE  Calm(k, k2) /\ k2.priv = k.priv
<1>1. PICK r : r = [k.proc[p] EXCEPT !.time_left = v]
  OBVIOUS
<1>2. /\ r \in Slots /\ SameSlot(k.proc[p], r)
      /\ r.caller_q = k.proc[p].caller_q /\ r.q_link = k.proc[p].q_link
  <2>1. k.proc[p] \in Slots
    BY KFields
  <2> QED
    BY <1>1, <2>1 DEF Slots, SameSlot
<1>3. k2 = [k EXCEPT !.proc = [k.proc EXCEPT ![p] = r]]
  BY <1>1 DEF Kernels
<1> QED
  BY <1>2, <1>3, SlotQuiet

LEMMA FromCalm ==
    ASSUME NEW k \in Kernels, NEW p \in Procs, NEW v \in Pointers \cup {ANY}, NEW k2,
           k2 = [k EXCEPT !.proc[p].getfrom = v]
    PROVE  Calm(k, k2) /\ k2.priv = k.priv
<1>1. PICK r : r = [k.proc[p] EXCEPT !.getfrom = v]
  OBVIOUS
<1>2. /\ r \in Slots /\ SameSlot(k.proc[p], r)
      /\ r.caller_q = k.proc[p].caller_q /\ r.q_link = k.proc[p].q_link
  <2>1. k.proc[p] \in Slots
    BY KFields
  <2> QED
    BY <1>1, <2>1 DEF Slots, SameSlot
<1>3. k2 = [k EXCEPT !.proc = [k.proc EXCEPT ![p] = r]]
  BY <1>1 DEF Kernels
<1> QED
  BY <1>2, <1>3, SlotQuiet

LEMMA CallersQuiet ==
    ASSUME NEW k \in Kernels, NEW p \in Procs, NEW v \in Pointers, NEW k2,
           k2 = [k EXCEPT !.proc[p].caller_q = v]
    PROVE  Quiet(k, k2) /\ k2.priv = k.priv
<1>1. PICK r : r = [k.proc[p] EXCEPT !.caller_q = v]
  OBVIOUS
<1>2. r \in Slots /\ SameSlot(k.proc[p], r)
  <2>1. k.proc[p] \in Slots
    BY KFields
  <2> QED
    BY <1>1, <2>1 DEF Slots, SameSlot
<1>3. k2 = [k EXCEPT !.proc = [k.proc EXCEPT ![p] = r]]
  BY <1>1 DEF Kernels
<1> QED
  BY <1>2, <1>3, SlotQuiet

LEMMA LinkQuiet ==
    ASSUME NEW k \in Kernels, NEW p \in Procs, NEW v \in Pointers, NEW k2,
           k2 = [k EXCEPT !.proc[p].q_link = v]
    PROVE  Quiet(k, k2) /\ k2.priv = k.priv
<1>1. PICK r : r = [k.proc[p] EXCEPT !.q_link = v]
  OBVIOUS
<1>2. r \in Slots /\ SameSlot(k.proc[p], r)
  <2>1. k.proc[p] \in Slots
    BY KFields
  <2> QED
    BY <1>1, <2>1 DEF Slots, SameSlot
<1>3. k2 = [k EXCEPT !.proc = [k.proc EXCEPT ![p] = r]]
  BY <1>1 DEF Kernels
<1> QED
  BY <1>2, <1>3, SlotQuiet

LEMMA ToCalm ==
    ASSUME NEW k \in Kernels, NEW p \in Procs, NEW v \in Procs, NEW k2,
           k2 = [k EXCEPT !.proc[p].sendto = v]
    PROVE  Calm(k, k2) /\ k2.priv = k.priv
<1>1. PICK r : r = [k.proc[p] EXCEPT !.sendto = v]
  OBVIOUS
<1>2. /\ r \in Slots /\ SameSlot(k.proc[p], r)
      /\ r.caller_q = k.proc[p].caller_q /\ r.q_link = k.proc[p].q_link
  <2>1. k.proc[p] \in Slots
    BY KFields
  <2> QED
    BY <1>1, <2>1, Constants DEF Slots, SameSlot
<1>3. k2 = [k EXCEPT !.proc = [k.proc EXCEPT ![p] = r]]
  BY <1>1 DEF Kernels
<1> QED
  BY <1>2, <1>3, SlotQuiet

LEMMA SendmsgCalm ==
    ASSUME NEW k \in Kernels, NEW p \in Procs, NEW v \in Types, NEW k2,
           k2 = [k EXCEPT !.proc[p].sendmsg = v]
    PROVE  Calm(k, k2) /\ k2.priv = k.priv
<1>1. PICK r : r = [k.proc[p] EXCEPT !.sendmsg = v]
  OBVIOUS
<1>2. /\ r \in Slots /\ SameSlot(k.proc[p], r)
      /\ r.caller_q = k.proc[p].caller_q /\ r.q_link = k.proc[p].q_link
  <2>1. k.proc[p] \in Slots
    BY KFields
  <2> QED
    BY <1>1, <2>1 DEF Slots, SameSlot
<1>3. k2 = [k EXCEPT !.proc = [k.proc EXCEPT ![p] = r]]
  BY <1>1 DEF Kernels
<1> QED
  BY <1>2, <1>3, SlotQuiet

LEMMA DelivermsgCalm ==
    ASSUME NEW k \in Kernels, NEW p \in Procs, NEW v \in Messages, NEW k2,
           k2 = [k EXCEPT !.proc[p].delivermsg = v]
    PROVE  Calm(k, k2) /\ k2.priv = k.priv
<1>1. PICK r : r = [k.proc[p] EXCEPT !.delivermsg = v]
  OBVIOUS
<1>2. /\ r \in Slots /\ SameSlot(k.proc[p], r)
      /\ r.caller_q = k.proc[p].caller_q /\ r.q_link = k.proc[p].q_link
  <2>1. k.proc[p] \in Slots
    BY KFields
  <2> QED
    BY <1>1, <2>1 DEF Slots, SameSlot
<1>3. k2 = [k EXCEPT !.proc = [k.proc EXCEPT ![p] = r]]
  BY <1>1 DEF Kernels
<1> QED
  BY <1>2, <1>3, SlotQuiet

PrivSet(k, p, v, k2) == Calm(k, k2) /\ k2.priv = [k.priv EXCEPT ![p] = v]

LEMMA PrivQuiet ==
    ASSUME NEW k \in Kernels, NEW p \in Procs, NEW v \in Privs, NEW k2,
           k2 = [k EXCEPT !.priv = [k.priv EXCEPT ![p] = v]]
    PROVE  PrivSet(k, p, v, k2)
<1>1. /\ k2 \in Kernels /\ k2.proc = k.proc /\ k2.head = k.head
      /\ k2.tail = k.tail /\ k2.cur = k.cur /\ k2.priv = [k.priv EXCEPT ![p] = v]
  <2>1. [k.priv EXCEPT ![p] = v] \in [Procs -> Privs]
    BY KFields
  <2> QED
    BY <2>1 DEF Kernels
<1> QED
  BY <1>1 DEF PrivSet, Calm, SameCallers, Quiet, SameQueues, NextOf

LEMMA NotesCalm ==
    ASSUME NEW k \in Kernels, NEW p \in Procs, NEW v \in SUBSET Pointers, NEW k2,
           k2 = [k EXCEPT !.priv[p].notify_pending = v]
    PROVE  Calm(k, k2)
<1>1. PICK r : r = [k.priv[p] EXCEPT !.notify_pending = v]
  OBVIOUS
<1>2. r \in Privs
  <2>1. k.priv[p] \in Privs
    BY KFields
  <2> QED
    BY <1>1, <2>1 DEF Privs
<1>3. k2 = [k EXCEPT !.priv = [k.priv EXCEPT ![p] = r]]
  BY <1>1 DEF Kernels
<1>4. PrivSet(k, p, r, k2)
  BY <1>2, <1>3, PrivQuiet
<1> QED
  BY <1>4 DEF PrivSet

TableSet(k, p, v, k2) == Calm(k, k2) /\ k2.priv[p].asyntab = v

LEMMA TableCalm ==
    ASSUME NEW k \in Kernels, NEW p \in Procs, NEW v \in Seq(Entries), NEW k2,
           k2 = [k EXCEPT !.priv[p].asyntab = v]
    PROVE  TableSet(k, p, v, k2)
<1>1. PICK r : r = [k.priv[p] EXCEPT !.asyntab = v]
  OBVIOUS
<1>2. r \in Privs /\ r.asyntab = v
  <2>1. k.priv[p] \in Privs
    BY KFields
  <2> QED
    BY <1>1, <2>1 DEF Privs
<1>3. k2 = [k EXCEPT !.priv = [k.priv EXCEPT ![p] = r]]
  BY <1>1 DEF Kernels
<1>4. Calm(k, k2) /\ k2.priv = [k.priv EXCEPT ![p] = r]
  <2>1. PrivSet(k, p, r, k2)
    BY <1>2, <1>3, PrivQuiet
  <2> QED
    BY <2>1 DEF PrivSet
<1>5. k2.priv[p] = r
  BY <1>4, KFields
<1> QED
  BY <1>2, <1>4, <1>5 DEF TableSet

LEMMA PanicCalm ==
    ASSUME NEW k \in Kernels, NEW c
    PROVE  Calm(k, assert(k, c)) /\ assert(k, c).priv = k.priv
<1>1. PICK k2 : k2 = assert(k, c)
  OBVIOUS
<1>2. k2 = [k EXCEPT !.panic = k.panic \/ ~ c]
  BY <1>1 DEF assert
<1>3. (k.panic \/ ~ c) \in BOOLEAN
  OBVIOUS
<1>4. /\ k2 \in Kernels /\ k2.proc = k.proc /\ k2.head = k.head
      /\ k2.tail = k.tail /\ k2.cur = k.cur /\ k2.priv = k.priv
  BY <1>2, <1>3 DEF Kernels
<1> QED
  BY <1>1, <1>4 DEF Calm, SameCallers, Quiet, SameQueues, NextOf

-----------------------------------------------------------------------------
(* The functions of the kernel, from the small ones up.                    *)
Leads(k, k2) == Ok(k2) /\ k2.cur = k.cur

LEMMA OkKernel ==
    ASSUME NEW k, Ok(k)
    PROVE  k \in Kernels
BY DEF Ok, Sound

LEMMA LeadsTwice ==
    ASSUME NEW k, NEW k2, NEW k3, Leads(k, k2), Leads(k2, k3)
    PROVE  Leads(k, k3)
BY DEF Leads

LEMMA LeadsSelf ==
    ASSUME NEW k, Ok(k)
    PROVE  Leads(k, k)
BY DEF Leads

LEMMA QuietLeads ==
    ASSUME NEW k, Ok(k), NEW k2, Quiet(k, k2)
    PROVE  Leads(k, k2)
BY QuietOk DEF Leads

LEMMA CalmLeads ==
    ASSUME NEW k, Ok(k), NEW k2, Calm(k, k2)
    PROVE  Leads(k, k2) /\ SameCallers(k, k2)
BY QuietLeads DEF Calm

LEMMA CalmKernel ==
    ASSUME NEW k, NEW k2, Calm(k, k2)
    PROVE  k2 \in Kernels
BY DEF Calm, Quiet

LEMMA SetMiscCalm ==
    ASSUME NEW k \in Kernels, NEW p \in Procs, NEW f \in MiscFlags
    PROVE  /\ Calm(k, SetMisc(k, p, f)) /\ SetMisc(k, p, f).priv = k.priv
           /\ Calm(k, UnsetMisc(k, p, f)) /\ UnsetMisc(k, p, f).priv = k.priv
<1>1. PICK v, w : v = k.proc[p].misc \cup {f} /\ w = k.proc[p].misc \ {f}
  OBVIOUS
<1>2. v \in SUBSET MiscFlags /\ w \in SUBSET MiscFlags
  <2>1. k.proc[p].misc \in SUBSET MiscFlags
    BY KFields DEF Slots
  <2> QED
    BY <1>1, <2>1
<1>3. PICK k2, k3 : k2 = SetMisc(k, p, f) /\ k3 = UnsetMisc(k, p, f)
  OBVIOUS
<1>4. k2 = [k EXCEPT !.proc[p].misc = v] /\ k3 = [k EXCEPT !.proc[p].misc = w]
  BY <1>1, <1>3 DEF SetMisc, UnsetMisc
<1>5. Calm(k, k2) /\ k2.priv = k.priv
  BY <1>2, <1>4, MiscCalm
<1>6. Calm(k, k3) /\ k3.priv = k.priv
  BY <1>2, <1>4, MiscCalm
<1> QED
  BY <1>3, <1>5, <1>6

LEMMA DeliverCalm ==
    ASSUME NEW k \in Kernels, NEW d \in Procs, NEW m \in Messages
    PROVE  Calm(k, Deliver(k, d, m)) /\ Deliver(k, d, m).priv = k.priv
<1>1. PICK a : a = assert(k, ~ Misc(k, d, "DELIVERMSG"))
  OBVIOUS
<1>2. Calm(k, a) /\ a.priv = k.priv
  BY <1>1, PanicCalm
<1>3. a \in Kernels
  BY <1>2, CalmKernel
<1>4. PICK b : b = [a EXCEPT !.proc[d].delivermsg = m]
  OBVIOUS
<1>5. Calm(a, b) /\ b.priv = a.priv
  BY <1>3, <1>4, DelivermsgCalm
<1>6. b \in Kernels
  BY <1>5, CalmKernel
<1>7. PICK c : c = SetMisc(b, d, "DELIVERMSG")
  OBVIOUS
<1>8. Calm(b, c) /\ c.priv = b.priv
  <2>1. "DELIVERMSG" \in MiscFlags
    BY DEF MiscFlags
  <2> QED
    BY <1>6, <1>7, <2>1, SetMiscCalm
<1>9. Deliver(k, d, m) = c
  <2>1. Deliver(k, d, m) = [a EXCEPT !.proc[d].delivermsg = m,
                                     !.proc[d].misc = @ \cup {"DELIVERMSG"}]
    BY <1>1 DEF Deliver
  <2>2. b.proc[d].misc = a.proc[d].misc
    BY <1>3, <1>4, KFields DEF Slots, Kernels
  <2>3. PICK v : v = a.proc[d].misc \cup {"DELIVERMSG"}
    OBVIOUS
  <2>4. c = [b EXCEPT !.proc[d].misc = v]
    BY <1>7, <2>2, <2>3 DEF SetMisc
  <2>5. Deliver(k, d, m) = [a EXCEPT !.proc[d].delivermsg = m, !.proc[d].misc = v]
    BY <2>1, <2>3, <1>3, KFields DEF Slots, Kernels
  <2> QED
    BY <1>4, <2>4, <2>5
<1> QED
  BY <1>2, <1>5, <1>8, <1>9, CalmTwice

LEMMA MessageIn ==
    ASSUME NEW src \in Pointers, NEW type \in Types
    PROVE  Message(src, type) \in Messages
BY DEF Message, Messages

(* The queue of senders of a process.                                      *)
LEMMA CallersIn ==
    ASSUME NEW k \in Kernels, NEW d \in Procs
    PROVE  Callers(k, d) \in Seq(Procs)
<1>1. k.proc[d].caller_q \in Pointers
  BY KFields DEF Slots
<1>2. [s \in Procs |-> k.proc[s].q_link] \in [Procs -> Pointers]
  BY KFields DEF Slots
<1> QED
  BY <1>1, <1>2, ChainType DEF Callers

LEMMA CallersSame ==
    ASSUME NEW k, NEW k2, SameCallers(k, k2), NEW d \in Procs
    PROVE  Callers(k2, d) = Callers(k, d)
<1>1. k2.proc[d].caller_q = k.proc[d].caller_q
  BY DEF SameCallers
<1>2. [s \in Procs |-> k2.proc[s].q_link] = [s \in Procs |-> k.proc[s].q_link]
  BY DEF SameCallers
<1> QED
  BY <1>1, <1>2 DEF Callers

LEMMA CallersTwice ==
    ASSUME NEW k, NEW k2, NEW k3, SameCallers(k, k2), SameCallers(k2, k3)
    PROVE  SameCallers(k, k3)
BY DEF SameCallers

LEMMA CallersSelf == ASSUME NEW k PROVE SameCallers(k, k)
BY DEF SameCallers

(* mini_notify                                                             *)
LEMMA NotifyLeads ==
    ASSUME NEW k, Ok(k), NEW src \in Pointers, NEW d \in Procs
    PROVE  Leads(k, mini_notify(k, src, d)) /\ SameCallers(k, mini_notify(k, src, d))
<1>0. k \in Kernels
  BY OkKernel
<1>1. CASE WILLRECEIVE(k, d, src) /\ ~ Misc(k, d, "REPLY_PEND")
  <2>1. PICK a : a = Deliver(k, d, Message(src, "NOTIFY"))
    OBVIOUS
  <2>2. Message(src, "NOTIFY") \in Messages
    BY MessageIn DEF Types
  <2>3. Calm(k, a)
    BY <1>0, <2>1, <2>2, DeliverCalm
  <2>4. Leads(k, a) /\ SameCallers(k, a) /\ Ok(a)
    BY <2>3, CalmLeads DEF Leads
  <2>5. PICK b : b = RTS_UNSET(a, d, {"RECEIVING"})
    OBVIOUS
  <2>6. Ok(b) /\ Freed(a, d, {"RECEIVING"}, b)
    BY <2>4, <2>5, OkUnset
  <2>7. Leads(a, b) /\ SameCallers(a, b)
    BY <2>6 DEF Leads, Freed, OnlyFlags, SameCallers
  <2>8. mini_notify(k, src, d) = b
    BY <1>1, <2>1, <2>5 DEF mini_notify
  <2> QED
    BY <2>4, <2>7, <2>8, LeadsTwice, CallersTwice
<1>2. CASE ~ (WILLRECEIVE(k, d, src) /\ ~ Misc(k, d, "REPLY_PEND"))
  <2>1. PICK v : v = k.priv[d].notify_pending \cup {src}
    OBVIOUS
  <2>2. v \in SUBSET Pointers
    <3>1. k.priv[d].notify_pending \in SUBSET Pointers
      BY <1>0, KFields DEF Privs
    <3> QED
      BY <2>1, <3>1
  <2>3. PICK b : b = [k EXCEPT !.priv[d].notify_pending = v]
    OBVIOUS
  <2>4. Calm(k, b)
    BY <1>0, <2>2, <2>3, NotesCalm
  <2>5. mini_notify(k, src, d) = b
    BY <1>2, <2>1, <2>3 DEF mini_notify
  <2> QED
    BY <2>4, <2>5, CalmLeads
<1> QED
  BY <1>1, <1>2

(* cause_sig, and the end of a delayed stop.                               *)
LEMMA SignalLeads ==
    ASSUME NEW k, Ok(k), NEW p \in Procs
    PROVE  Leads(k, cause_sig(k, p)) /\ SameCallers(k, cause_sig(k, p))
<1>1. CASE Flag(k, p, "SIGNALED")
  BY <1>1, LeadsSelf, CallersSelf DEF cause_sig
<1>2. CASE ~ Flag(k, p, "SIGNALED")
  <2>1. PICK flags : flags = {"SIGNALED", "SIG_PENDING"}
    OBVIOUS
  <2>2. flags \in SUBSET (Flags \ {"PREEMPTED", "SENDING"}) /\ flags # {}
    BY <2>1 DEF Flags
  <2>3. PICK a : a = RTS_SET(k, p, flags)
    OBVIOUS
  <2>4. Ok(a) /\ RtsDone(k, p, k.proc[p].rts \cup flags, a)
    BY <2>2, <2>3, OkSet
  <2>5. Leads(k, a) /\ SameCallers(k, a)
    BY <2>4 DEF Leads, RtsDone, OnlyFlags, SameCallers
  <2>6. PICK b : b = mini_notify(a, HARDWARE, PM)
    OBVIOUS
  <2>7. HARDWARE \in Pointers /\ PM \in Procs
    BY Constants DEF HARDWARE, NULL
  <2>8. Leads(a, b) /\ SameCallers(a, b)
    BY <2>4, <2>6, <2>7, NotifyLeads
  <2>9. cause_sig(k, p) = b
    BY <1>2, <2>1, <2>3, <2>6 DEF cause_sig
  <2> QED
    BY <2>5, <2>8, <2>9, LeadsTwice, CallersTwice
<1> QED
  BY <1>1, <1>2

LEMMA DelayLeads ==
    ASSUME NEW k, Ok(k), NEW p \in Procs
    PROVE  Leads(k, sig_delay_done(k, p)) /\ SameCallers(k, sig_delay_done(k, p))
<1>1. PICK a : a = UnsetMisc(k, p, "SIG_DELAY")
  OBVIOUS
<1>2. "SIG_DELAY" \in MiscFlags /\ k \in Kernels
  BY OkKernel DEF MiscFlags
<1>3. Calm(k, a)
  BY <1>1, <1>2, SetMiscCalm
<1>4. Leads(k, a) /\ SameCallers(k, a) /\ Ok(a)
  BY <1>3, CalmLeads DEF Leads
<1>5. PICK b : b = cause_sig(a, p)
  OBVIOUS
<1>6. Leads(a, b) /\ SameCallers(a, b)
  BY <1>4, <1>5, SignalLeads
<1>7. sig_delay_done(k, p) = b
  BY <1>1, <1>5 DEF sig_delay_done
<1> QED
  BY <1>4, <1>6, <1>7, LeadsTwice, CallersTwice

(* A sender leaves the queue of a process.                                 *)
LEMMA RemoveQuiet ==
    ASSUME NEW k \in Kernels, NEW d \in Procs, NEW i \in 1 .. Len(Callers(k, d))
    PROVE  Quiet(k, RemoveCaller(k, d, i)) /\ RemoveCaller(k, d, i).priv = k.priv
<1>1. PICK queue : queue = Callers(k, d)
  OBVIOUS
<1>2. queue \in Seq(Procs) /\ i \in 1 .. Len(queue) /\ Len(queue) \in Nat
  BY <1>1, CallersIn
<1>3. queue[i] \in Procs /\ (i # 1 => queue[i - 1] \in Procs)
  BY <1>2
<1>4. PICK next : next = k.proc[queue[i]].q_link
  OBVIOUS
<1>5. next \in Pointers
  BY <1>3, <1>4, KFields DEF Slots
<1>6. PICK k2 : k2 = RemoveCaller(k, d, i)
  OBVIOUS
<1>7. CASE i = 1
  <2>1. k2 = [k EXCEPT !.proc[d].caller_q = next]
    BY <1>1, <1>4, <1>6, <1>7 DEF RemoveCaller
  <2>2. Quiet(k, k2) /\ k2.priv = k.priv
    BY <1>5, <2>1, CallersQuiet
  <2> QED
    BY <1>6, <2>2
<1>8. CASE i # 1
  <2>1. k2 = [k EXCEPT !.proc[queue[i - 1]].q_link = next]
    BY <1>1, <1>4, <1>6, <1>8 DEF RemoveCaller
  <2>2. PICK p \in Procs : p = queue[i - 1]
    BY <1>3, <1>8
  <2>3. k2 = [k EXCEPT !.proc[p].q_link = next]
    BY <2>1, <2>2
  <2>4. Quiet(k, k2) /\ k2.priv = k.priv
    BY <1>5, <2>3, LinkQuiet
  <2> QED
    BY <1>6, <2>4
<1> QED
  BY <1>7, <1>8

LEMMA UnlinkQuiet ==
    ASSUME NEW k \in Kernels, NEW d \in Procs, NEW i \in 1 .. Len(Callers(k, d))
    PROVE  Quiet(k, Unlink(k, d, i))
<1>1. PICK a : a = RemoveCaller(k, d, i)
  OBVIOUS
<1>2. Quiet(k, a)
  BY <1>1, RemoveQuiet
<1>3. a \in Kernels
  BY <1>2 DEF Quiet
<1>4. PICK p : p = Callers(k, d)[i]
  OBVIOUS
<1>5. p \in Procs
  <2>1. Callers(k, d) \in Seq(Procs)
    BY CallersIn
  <2> QED
    BY <1>4, <2>1
<1>6. PICK b : b = [a EXCEPT !.proc[p].q_link = NULL]
  OBVIOUS
<1>7. Quiet(a, b)
  BY <1>3, <1>5, <1>6, LinkQuiet, Constants
<1>8. Unlink(k, d, i) = b
  BY <1>1, <1>4, <1>6 DEF Unlink
<1> QED
  BY <1>2, <1>7, <1>8, QuietTwice

LEMMA QueuedLeads ==
    ASSUME NEW k, Ok(k), NEW caller \in Procs, NEW i \in 1 .. Len(Callers(k, caller))
    PROVE  Leads(k, ReceiveQueued(k, caller, i))
<1>0. k \in Kernels
  BY OkKernel
<1>1. PICK sender : sender = Callers(k, caller)[i]
  OBVIOUS
<1>2. sender \in Procs
  <2>1. Callers(k, caller) \in Seq(Procs)
    BY <1>0, CallersIn
  <2> QED
    BY <1>1, <2>1
<1>3. PICK m : m = Message(sender, k.proc[sender].sendmsg)
  OBVIOUS
<1>4. m \in Messages
  <2>1. k.proc[sender].sendmsg \in Types /\ sender \in Pointers
    BY <1>0, <1>2, KFields, Constants DEF Slots
  <2> QED
    BY <1>3, <2>1, MessageIn
<1>5. PICK a : a = Deliver(k, caller, m)
  OBVIOUS
<1>6. Calm(k, a)
  BY <1>0, <1>4, <1>5, DeliverCalm
<1>7. Leads(k, a) /\ SameCallers(k, a) /\ Ok(a)
  BY <1>6, CalmLeads DEF Leads
<1>8. PICK b : b = RTS_UNSET(a, sender, {"SENDING"})
  OBVIOUS
<1>9. Ok(b) /\ Freed(a, sender, {"SENDING"}, b)
  BY <1>2, <1>7, <1>8, OkUnset
<1>10. Leads(a, b) /\ SameCallers(a, b)
  BY <1>9 DEF Leads, Freed, OnlyFlags, SameCallers
<1>11. PICK c : c = IF Misc(k, sender, "SIG_DELAY") THEN sig_delay_done(b, sender) ELSE b
  OBVIOUS
<1>12. Leads(b, c) /\ SameCallers(b, c)
  <2>1. Leads(b, sig_delay_done(b, sender)) /\ SameCallers(b, sig_delay_done(b, sender))
    BY <1>2, <1>9, DelayLeads
  <2> QED
    BY <1>9, <1>11, <2>1, LeadsSelf, CallersSelf
<1>13. Leads(k, c) /\ SameCallers(k, c)
  BY <1>7, <1>10, <1>12, LeadsTwice, CallersTwice
<1>14. Callers(c, caller) = Callers(k, caller) /\ c \in Kernels /\ Ok(c)
  <2>1. Ok(c)
    BY <1>13 DEF Leads
  <2> QED
    BY <1>13, <2>1, CallersSame, OkKernel
<1>15. PICK e : e = Unlink(c, caller, i)
  OBVIOUS
<1>16. Quiet(c, e)
  BY <1>14, <1>15, UnlinkQuiet
<1>17. Leads(c, e)
  BY <1>14, <1>16, QuietLeads
<1>18. ReceiveQueued(k, caller, i) = e
  BY <1>1, <1>3, <1>5, <1>8, <1>11, <1>15 DEF ReceiveQueued
<1> QED
  BY <1>13, <1>17, <1>18, LeadsTwice

-----------------------------------------------------------------------------
(* Asynchronous messages.                                                  *)
LEMMA TableDone ==
    ASSUME NEW t \in Seq(Entries), NEW i
    PROVE  /\ [t EXCEPT ![i].done = TRUE] \in Seq(Entries)
           /\ Len([t EXCEPT ![i].done = TRUE]) = Len(t)
<1>1. PICK n \in Nat : n = Len(t)
  OBVIOUS
<1>2. t \in [1 .. n -> Entries]
  BY <1>1
<1>3. PICK u : u = [t EXCEPT ![i].done = TRUE]
  OBVIOUS
<1>4. \A e \in Entries : [e EXCEPT !.done = TRUE] \in Entries
  BY DEF Entries
<1>5. u \in [1 .. n -> Entries]
  BY <1>2, <1>3, <1>4
<1>6. u \in Seq(Entries) /\ Len(u) = n
  BY <1>5, AsSequence
<1> QED
  BY <1>1, <1>3, <1>6

(* Entry i of the table of p is marked as done.                            *)
EntryDone(k, p, k2) ==
    Calm(k, k2) /\ Len(k2.priv[p].asyntab) = Len(k.priv[p].asyntab)

LEMMA EntryCalm ==
    ASSUME NEW k \in Kernels, NEW p \in Procs, NEW i, NEW k2,
           k2 = [k EXCEPT !.priv[p].asyntab[i].done = TRUE]
    PROVE  EntryDone(k, p, k2)
<1>1. k.priv[p] \in Privs /\ k.priv[p].asyntab \in Seq(Entries)
  BY KFields DEF Privs
<1>2. PICK t : t = [k.priv[p].asyntab EXCEPT ![i].done = TRUE]
  OBVIOUS
<1>3. t \in Seq(Entries) /\ Len(t) = Len(k.priv[p].asyntab)
  BY <1>1, <1>2, TableDone
<1>4. k2 = [k EXCEPT !.priv[p].asyntab = t]
  BY <1>2
<1>5. TableSet(k, p, t, k2)
  BY <1>3, <1>4, TableCalm
<1> QED
  BY <1>3, <1>5 DEF TableSet, EntryDone

LEMMA TryOneCalm ==
    ASSUME NEW k \in Kernels, NEW src \in Procs, NEW d \in Procs
    PROVE  Calm(k, try_one(k, src, d))
<1> DEFINE left == Deliverable(k, src, d)
           over == \A j \in DOMAIN k.priv[src].asyntab : k.priv[src].asyntab[j].done
<1>1. CASE left # {}
  <2>1. ~ over
    <3>1. PICK j : j \in left
      BY <1>1
    <3>2. j \in DOMAIN k.priv[src].asyntab /\ ~ k.priv[src].asyntab[j].done
      BY <3>1 DEF Deliverable, Undone
    <3> QED
      BY <3>2
  <2>2. PICK i : i = Min(left)
    OBVIOUS
  <2>3. PICK a : a = Deliver(k, d, Message(src, "ASYN"))
    OBVIOUS
  <2>4. Message(src, "ASYN") \in Messages
    BY MessageIn, Constants DEF Types
  <2>5. Calm(k, a)
    BY <2>3, <2>4, DeliverCalm
  <2>6. a \in Kernels
    BY <2>5, CalmKernel
  <2>7. PICK b : b = [a EXCEPT !.priv[src].asyntab[i].done = TRUE]
    OBVIOUS
  <2>8. Calm(a, b)
    <3>1. EntryDone(a, src, b)
      BY <2>6, <2>7, EntryCalm
    <3> QED
      BY <3>1 DEF EntryDone
  <2>9. try_one(k, src, d) = b
    BY <1>1, <2>1, <2>2, <2>3, <2>7 DEF try_one
  <2> QED
    BY <2>5, <2>8, <2>9, CalmTwice
<1>2. CASE left = {} /\ over
  <2>1. PICK b : b = [k EXCEPT !.priv[src].asyntab = <<>>]
    OBVIOUS
  <2>2. <<>> \in Seq(Entries)
    OBVIOUS
  <2>3. Calm(k, b)
    <3>1. TableSet(k, src, <<>>, b)
      BY <2>1, <2>2, TableCalm
    <3> QED
      BY <3>1 DEF TableSet
  <2>4. try_one(k, src, d) = b
    BY <1>2, <2>1 DEF try_one
  <2> QED
    BY <2>3, <2>4
<1>3. CASE left = {} /\ ~ over
  <2>1. try_one(k, src, d) = k
    BY <1>3 DEF try_one
  <2> QED
    BY <2>1, CalmSelf
<1> QED
  BY <1>1, <1>2, <1>3

(* The loop of try_async over the processes of a set.                      *)
Trying(k, d, tried, f) ==
    f = [s \in 0 .. NR_PROCS |->
            IF s = 0 THEN k
            ELSE IF s \in tried THEN try_one(f[s - 1], s, d) ELSE f[s - 1]]

LEMMA TryingCalm ==
    ASSUME NEW k \in Kernels, NEW d \in Procs, NEW tried \in SUBSET Procs,
           NEW f, Trying(k, d, tried, f)
    PROVE  Calm(k, f[NR_PROCS])
<1> DEFINE S == {x \in Kernels : Calm(k, x)}
<1>1. \A s \in 0 .. NR_PROCS : f[s] = IF s = 0 THEN k
          ELSE IF s \in tried THEN try_one(f[s - 1], s, d) ELSE f[s - 1]
  BY DEF Trying
<1>2. f[0] \in S
  <2>1. f[0] = k
    BY <1>1, Constants
  <2> QED
    BY <2>1, CalmSelf
<1>3. ASSUME NEW s \in 1 .. NR_PROCS, f[s - 1] \in S PROVE f[s] \in S
  <2>0. s \in 0 .. NR_PROCS /\ s # 0
    BY Constants
  <2>1. PICK x : x = f[s - 1]
    OBVIOUS
  <2>2. x \in Kernels /\ Calm(k, x)
    BY <1>3, <2>1
  <2>3. f[s] = IF s \in tried THEN try_one(x, s, d) ELSE x
    BY <1>1, <2>0, <2>1
  <2>4. CASE s \in tried
    <3>1. Calm(x, try_one(x, s, d))
      BY <2>2, <2>4, TryOneCalm
    <3>2. Calm(k, try_one(x, s, d))
      BY <2>2, <3>1, CalmTwice
    <3>3. try_one(x, s, d) \in Kernels
      BY <3>1, CalmKernel
    <3> QED
      BY <2>3, <2>4, <3>2, <3>3
  <2>5. CASE s \notin tried
    BY <1>3, <2>1, <2>3, <2>5
  <2> QED
    BY <2>4, <2>5
<1>4. NR_PROCS \in Nat /\ NR_PROCS \in 0 .. NR_PROCS
  BY Constants
<1>5. f[NR_PROCS] \in S
  <2> HIDE DEF S
  <2>1. \A i \in 0 .. NR_PROCS : f[i] \in S
    BY <1>2, <1>3, <1>4, StaysIn
  <2> QED
    BY <1>4, <2>1
<1> QED
  BY <1>5

TryStep(k, d, tried) ==
    [s \in 1 .. NR_PROCS |-> [x \in Kernels |-> IF s \in tried THEN try_one(x, s, d) ELSE x]]

LEMMA TryingExists ==
    ASSUME NEW k \in Kernels, NEW d \in Procs, NEW tried \in SUBSET Procs
    PROVE  \E f : Trying(k, d, tried, f)
<1>1. NR_PROCS \in Nat
  BY Constants
<1>2. PICK f : Loop(NR_PROCS, k, TryStep(k, d, tried), f)
  BY <1>1, LoopExists
<1>3. \A s \in 0 .. NR_PROCS : f[s] = IF s = 0 THEN k ELSE TryStep(k, d, tried)[s][f[s - 1]]
  BY <1>2 DEF Loop
<1>4. f[0] \in Kernels
  BY <1>1, <1>3
<1>5. ASSUME NEW s \in 1 .. NR_PROCS, f[s - 1] \in Kernels
      PROVE  f[s] \in Kernels /\ f[s] = IF s \in tried THEN try_one(f[s - 1], s, d) ELSE f[s - 1]
  <2>0. s \in 0 .. NR_PROCS /\ s # 0
    BY <1>1
  <2>1. PICK x \in Kernels : x = f[s - 1]
    BY <1>5
  <2>2. f[s] = TryStep(k, d, tried)[s][x]
    BY <1>3, <2>0, <2>1
  <2>3. f[s] = IF s \in tried THEN try_one(x, s, d) ELSE x
    BY <2>2 DEF TryStep
  <2>4. s \in tried => try_one(x, s, d) \in Kernels
    <3>1. s \in tried => Calm(x, try_one(x, s, d))
      BY TryOneCalm
    <3> QED
      BY <3>1, CalmKernel
  <2> QED
    BY <2>1, <2>3, <2>4
<1>6. \A i \in 0 .. NR_PROCS : f[i] \in Kernels
  BY <1>1, <1>4, <1>5, StaysIn
<1>7. f = [s \in 0 .. NR_PROCS |-> f[s]]
  BY <1>2 DEF Loop
<1>8. ASSUME NEW s \in 0 .. NR_PROCS
      PROVE  f[s] = IF s = 0 THEN k
                    ELSE IF s \in tried THEN try_one(f[s - 1], s, d) ELSE f[s - 1]
  <2>1. CASE s = 0
    BY <1>3, <2>1
  <2>2. CASE s # 0
    <3>1. s \in 1 .. NR_PROCS /\ s - 1 \in 0 .. NR_PROCS
      BY <1>1, <2>2
    <3> QED
      BY <1>5, <1>6, <2>2, <3>1
  <2> QED
    BY <2>1, <2>2
<1>9. Trying(k, d, tried, f)
  BY <1>7, <1>8 DEF Trying
<1> QED
  BY <1>9

LEMMA TryAsyncCalm ==
    ASSUME NEW k \in Kernels, NEW d \in Procs
    PROVE  Calm(k, try_async(k, d))
<1> DEFINE live == {s \in System : ~ isempty(k, s)}
           found == {s \in live : Deliverable(k, s, d) # {}}
           set == IF found = {} THEN live ELSE {s \in live : s <= Min(found)}
<1>1. PICK tried : tried = set
  OBVIOUS
<1>2. tried \in SUBSET Procs
  BY <1>1, Constants
<1>3. PICK f : f = CHOOSE g : Trying(k, d, tried, g)
  OBVIOUS
<1>4. Trying(k, d, tried, f)
  BY <1>2, <1>3, TryingExists
<1>5. PICK a : a = f[NR_PROCS]
  OBVIOUS
<1>6. Calm(k, a)
  BY <1>2, <1>4, <1>5, TryingCalm
<1>7. try_async(k, d) = IF found = {} /\ \A s \in live : Postponed(k, s, d) = {}
                          THEN UnsetMisc(a, d, "ASYNMSG") ELSE a
  BY <1>1, <1>3, <1>5 DEF try_async, Trying
<1>8. a \in Kernels
  BY <1>6, CalmKernel
<1>9. Calm(k, UnsetMisc(a, d, "ASYNMSG"))
  <2>1. "ASYNMSG" \in MiscFlags
    BY DEF MiscFlags
  <2>2. Calm(a, UnsetMisc(a, d, "ASYNMSG"))
    BY <1>8, <2>1, SetMiscCalm
  <2> QED
    BY <1>6, <2>2, CalmTwice
<1> QED
  BY <1>6, <1>7, <1>9

-----------------------------------------------------------------------------
(* Receiving.                                                              *)
LEMMA NotesIn ==
    ASSUME NEW k \in Kernels, NEW p \in Procs, NEW src
    PROVE  PendingNotes(k, p, src) \in SUBSET Pointers
<1>1. PICK map : map = k.priv[p].notify_pending
  OBVIOUS
<1>2. map \in SUBSET Pointers /\ map \in SUBSET Nat
  BY <1>1, KFields, Constants DEF Privs
<1> DEFINE chunk(j) == {i \in map : i \div BITCHUNK_BITS = j \div BITCHUNK_BITS}
<1>3. ASSUME NEW j \in map PROVE Min(chunk(j)) \in map
  <2>1. chunk(j) \in SUBSET Nat /\ chunk(j) # {} /\ chunk(j) \subseteq map
    BY <1>2
  <2>2. Min(chunk(j)) \in chunk(j)
    <3> HIDE DEF chunk
    <3> QED
      BY <2>1, MinIn
  <2> QED
    BY <2>1, <2>2
<1>4. PendingNotes(k, p, src) = {i \in {Min(chunk(j)) : j \in map} : src \in {ANY, i}}
  BY <1>1 DEF PendingNotes
<1> HIDE DEF chunk
<1> QED
  BY <1>2, <1>3, <1>4

(* The last step of a successful receive.                                  *)
LEMMA DoneLeads ==
    ASSUME NEW k, NEW k2, Leads(k, k2), NEW p \in Procs
    PROVE  Leads(k, UnsetMisc(k2, p, "REPLY_PEND"))
<1>1. Ok(k2) /\ k2 \in Kernels /\ "REPLY_PEND" \in MiscFlags
  BY OkKernel DEF Leads, MiscFlags
<1>2. Calm(k2, UnsetMisc(k2, p, "REPLY_PEND"))
  BY <1>1, SetMiscCalm
<1>3. Leads(k2, UnsetMisc(k2, p, "REPLY_PEND"))
  BY <1>1, <1>2, CalmLeads
<1> QED
  BY <1>3, LeadsTwice

LEMMA ReceiveLeads ==
    ASSUME NEW k, Ok(k), NEW caller \in Procs, NEW src \in Procs \cup {ANY}
    PROVE  Leads(k, mini_receive(k, caller, src))
<1>0. k \in Kernels
  BY OkKernel
<1>1. PICK free, notes :
         /\ free = ~ Flag(k, caller, "SENDING")
         /\ notes = IF Misc(k, caller, "REPLY_PEND") THEN {} ELSE PendingNotes(k, caller, src)
  OBVIOUS
<1>2. PICK tried :
         tried = IF Misc(k, caller, "ASYNMSG") /\ free /\ notes = {}
                   THEN IF src = ANY THEN try_async(k, caller) ELSE try_one(k, src, caller)
                   ELSE k
  OBVIOUS
<1>3. PICK first : first = SelectInSeq(Callers(k, caller), LAMBDA s : src \in {ANY, s})
  OBVIOUS
<1>4. PICK asyn : asyn = AsynMessages(k, caller, src)
  OBVIOUS
<1>5. free \in BOOLEAN /\ asyn \in BOOLEAN
  BY <1>1, <1>4 DEF AsynMessages
<1>6. notes \in SUBSET Pointers
  <2>1. PendingNotes(k, caller, src) \in SUBSET Pointers
    BY <1>0, NotesIn
  <2> QED
    BY <1>1, <2>1
<1>7. Calm(k, tried)
  <2>1. Calm(k, k)
    BY <1>0, CalmSelf
  <2>2. Calm(k, try_async(k, caller))
    BY <1>0, TryAsyncCalm
  <2>3. src # ANY => Calm(k, try_one(k, src, caller))
    BY <1>0, TryOneCalm
  <2> QED
    BY <1>2, <2>1, <2>2, <2>3
<1>8. Leads(k, tried) /\ SameCallers(k, tried) /\ Ok(tried)
  BY <1>7, CalmLeads DEF Leads
<1>9. first \in 0 .. Len(Callers(k, caller))
  <2>1. PICK I : I = {i \in 1 .. Len(Callers(k, caller)) : src \in {ANY, Callers(k, caller)[i]}}
    OBVIOUS
  <2>2. first = IF I # {} THEN Min(I) ELSE 0
    BY <1>3, <2>1 DEF SelectInSeq
  <2>3. Callers(k, caller) \in Seq(Procs)
    BY <1>0, CallersIn
  <2>4. Len(Callers(k, caller)) \in Nat
    BY <2>3
  <2>5. I \in SUBSET Nat /\ I \subseteq 0 .. Len(Callers(k, caller))
    BY <2>1, <2>4
  <2>6. I # {} => Min(I) \in I
    BY <2>5, MinIn
  <2>7. 0 \in 0 .. Len(Callers(k, caller))
    BY <2>4
  <2>8. CASE I = {}
    BY <2>2, <2>7, <2>8
  <2>9. CASE I # {}
    <3>1. first = Min(I) /\ Min(I) \in I
      BY <2>2, <2>6, <2>9
    <3> QED
      BY <2>5, <3>1
  <2> QED
    BY <2>8, <2>9
<1>10. CASE free /\ notes # {}
  <2>1. PICK i : i = Min(notes)
    OBVIOUS
  <2>2. i \in Pointers
    <3>1. notes \in SUBSET Nat
      BY <1>6, Constants
    <3>2. Min(notes) \in notes
      BY <1>10, <3>1, MinIn
    <3> QED
      BY <1>6, <2>1, <3>2
  <2>3. PICK a : a = Deliver(k, caller, Message(i, "NOTIFY"))
    OBVIOUS
  <2>4. Message(i, "NOTIFY") \in Messages
    BY <2>2, MessageIn DEF Types
  <2>5. Calm(k, a)
    BY <1>0, <2>3, <2>4, DeliverCalm
  <2>6. a \in Kernels
    BY <2>5, CalmKernel
  <2>7. PICK v : v = a.priv[caller].notify_pending \ {i}
    OBVIOUS
  <2>8. v \in SUBSET Pointers
    BY <2>6, <2>7, KFields DEF Privs
  <2>9. PICK b : b = [a EXCEPT !.priv[caller].notify_pending = v]
    OBVIOUS
  <2>10. Calm(a, b)
    BY <2>6, <2>8, <2>9, NotesCalm
  <2>11. Calm(k, b)
    BY <2>5, <2>10, CalmTwice
  <2>12. Leads(k, b)
    BY <2>11, CalmLeads
  <2>13. Leads(k, UnsetMisc(b, caller, "REPLY_PEND"))
    BY <2>12, DoneLeads
  <2>14. b = [Deliver(k, caller, Message(Min(notes), "NOTIFY")) EXCEPT
                 !.priv[caller].notify_pending = @ \ {Min(notes)}]
    BY <2>1, <2>3, <2>7, <2>9
  <2>15. mini_receive(k, caller, src) = UnsetMisc(b, caller, "REPLY_PEND")
    BY <1>1, <1>10, <2>14 DEF mini_receive
  <2> QED
    BY <2>13, <2>15
<1>11. CASE free /\ notes = {} /\ asyn
  <2>1. mini_receive(k, caller, src) = UnsetMisc(tried, caller, "REPLY_PEND")
    BY <1>1, <1>2, <1>4, <1>11 DEF mini_receive
  <2>2. Leads(k, UnsetMisc(tried, caller, "REPLY_PEND"))
    BY <1>8, DoneLeads
  <2> QED
    BY <2>1, <2>2
<1>12. CASE free /\ notes = {} /\ ~ asyn /\ first # 0
  <2>1. PICK b : b = ReceiveQueued(tried, caller, first)
    OBVIOUS
  <2>2. mini_receive(k, caller, src) = UnsetMisc(b, caller, "REPLY_PEND")
    BY <1>1, <1>2, <1>3, <1>4, <1>12, <2>1 DEF mini_receive
  <2>3. Callers(tried, caller) = Callers(k, caller)
    BY <1>8, CallersSame
  <2>4. Len(Callers(k, caller)) \in Nat
    <3>1. Callers(k, caller) \in Seq(Procs)
      BY <1>0, CallersIn
    <3> QED
      BY <3>1
  <2>5. first \in 1 .. Len(Callers(tried, caller))
    BY <1>9, <1>12, <2>3, <2>4
  <2>6. Leads(tried, b)
    BY <1>8, <2>1, <2>5, QueuedLeads
  <2>7. Leads(k, b)
    BY <1>8, <2>6, LeadsTwice
  <2> QED
    BY <2>2, <2>7, DoneLeads
<1>13. CASE ~ (free /\ notes # {}) /\ ~ (free /\ notes = {} /\ asyn)
            /\ ~ (free /\ notes = {} /\ ~ asyn /\ first # 0)
  <2>1. PICK a : a = [tried EXCEPT !.proc[caller].getfrom = src]
    OBVIOUS
  <2>2. PICK b : b = RTS_SET(a, caller, {"RECEIVING"})
    OBVIOUS
  <2>3. mini_receive(k, caller, src) =
           IF deadlock(k, "RECEIVE", caller, src) THEN tried ELSE b
    BY <1>1, <1>2, <1>3, <1>4, <1>13, <2>1, <2>2 DEF mini_receive
  <2>4. tried \in Kernels /\ src \in Pointers \cup {ANY}
    BY <1>8, OkKernel, Constants
  <2>5. Calm(tried, a)
    BY <2>1, <2>4, FromCalm
  <2>6. Leads(tried, a) /\ Ok(a)
    BY <1>8, <2>5, CalmLeads DEF Leads
  <2>7. {"RECEIVING"} \in SUBSET (Flags \ {"PREEMPTED", "SENDING"}) /\ {"RECEIVING"} # {}
    BY DEF Flags
  <2>8. Ok(b) /\ RtsDone(a, caller, a.proc[caller].rts \cup {"RECEIVING"}, b)
    BY <2>2, <2>6, <2>7, OkSet
  <2>9. Leads(a, b)
    BY <2>8 DEF Leads, RtsDone, OnlyFlags
  <2>10. Leads(k, b)
    BY <1>8, <2>6, <2>9, LeadsTwice
  <2> QED
    BY <1>8, <2>3, <2>10
<1> QED
  BY <1>5, <1>10, <1>11, <1>12, <1>13

-----------------------------------------------------------------------------
(* Sending.                                                                *)
LEMMA BlockedOk ==
    ASSUME NEW k, Ok(k), NEW caller \in Procs, NEW d \in Procs, NEW type \in Types, NEW c, NEW k2,
           k2 = [RTS_SET(assert(k, c), caller, {"SENDING"}) EXCEPT
                    !.proc[caller].sendmsg = type, !.proc[caller].sendto = d]
    PROVE  Leads(k, k2)
<1>1. PICK a : a = assert(k, c)
  OBVIOUS
<1>2. Calm(k, a)
  BY <1>1, PanicCalm, OkKernel
<1>3. Ok(a) /\ a.cur = k.cur
  BY <1>2, CalmLeads DEF Leads
<1>4. PICK b : b = RTS_SET(a, caller, {"SENDING"})
  OBVIOUS
<1>5. {"SENDING"} \in SUBSET (Flags \ {"PREEMPTED"}) /\ {"SENDING"} # {} /\ Sound(a) /\ Aimed(a)
  BY <1>3 DEF Flags, Ok
<1>6. Sound(b) /\ RtsDone(a, caller, a.proc[caller].rts \cup {"SENDING"}, b)
  BY <1>4, <1>5, SoundSet
<1>7. b \in Kernels
  BY <1>6 DEF Sound
<1>8. PICK e : e = [b EXCEPT !.proc[caller].sendmsg = type]
  OBVIOUS
<1>9. Calm(b, e)
  BY <1>7, <1>8, SendmsgCalm
<1>10. e \in Kernels
  BY <1>9, CalmKernel
<1>11. k2 = [e EXCEPT !.proc[caller].sendto = d]
  BY <1>1, <1>4, <1>8
<1>12. Calm(e, k2)
  BY <1>10, <1>11, ToCalm
<1>13. Calm(b, k2)
  BY <1>9, <1>12, CalmTwice
<1>14. Sound(k2)
  BY <1>6, <1>13, QuietSound DEF Calm
<1>15. k2.proc[caller].sendto = d
  <2>1. e.proc \in [Procs -> Slots] /\ e.proc[caller] \in Slots
    BY <1>10, KFields
  <2>2. PICK r : r = [e.proc[caller] EXCEPT !.sendto = d]
    OBVIOUS
  <2>3. r.sendto = d
    BY <2>1, <2>2 DEF Slots
  <2>4. k2.proc = [e.proc EXCEPT ![caller] = r]
    BY <1>10, <1>11, <2>2 DEF Kernels
  <2> QED
    BY <2>1, <2>3, <2>4
<1>16. /\ \A x \in Procs : k2.proc[x].rts = b.proc[x].rts
       /\ \A x \in Procs : k2.proc[x].sendto = b.proc[x].sendto \/ k2.proc[x].sendto \in Procs
       /\ k2.cur = b.cur
  BY <1>13 DEF Calm, Quiet
<1>17. /\ b.cur = a.cur
       /\ \A x \in Procs : b.proc[x].sendto = a.proc[x].sendto
       /\ \A x \in Procs : x # caller => b.proc[x].rts = a.proc[x].rts
  BY <1>6 DEF RtsDone, OnlyFlags
<1>18. Aimed(k2)
  BY <1>5, <1>15, <1>16, <1>17 DEF Aimed
<1> QED
  BY <1>3, <1>14, <1>16, <1>17, <1>18 DEF Leads, Ok

LEMMA SendLeads ==
    ASSUME NEW k, Ok(k), NEW caller \in Procs, NEW d \in Procs, NEW type \in Types, NEW nonblocking
    PROVE  Leads(k, mini_send(k, caller, d, type, nonblocking).k)
<1>0. k \in Kernels
  BY OkKernel
<1>1. PICK a : a = UnsetMisc(Deliver(k, d, Message(caller, type)), d, "REPLY_PEND")
  OBVIOUS
<1>2. Calm(k, a)
  <2>1. PICK b : b = Deliver(k, d, Message(caller, type))
    OBVIOUS
  <2>2. Message(caller, type) \in Messages
    BY MessageIn, Constants
  <2>3. Calm(k, b)
    BY <1>0, <2>1, <2>2, DeliverCalm
  <2>4. b \in Kernels /\ "REPLY_PEND" \in MiscFlags
    BY <2>3, CalmKernel DEF MiscFlags
  <2>5. Calm(b, a)
    BY <1>1, <2>1, <2>4, SetMiscCalm
  <2> QED
    BY <2>3, <2>5, CalmTwice
<1>3. Leads(k, a) /\ Ok(a)
  BY <1>2, CalmLeads DEF Leads
<1>4. PICK b : b = RTS_UNSET(a, d, {"RECEIVING"})
  OBVIOUS
<1>5. Leads(k, b)
  <2>1. Ok(b) /\ Freed(a, d, {"RECEIVING"}, b)
    BY <1>3, <1>4, OkUnset
  <2>2. Leads(a, b)
    BY <2>1 DEF Leads, Freed, OnlyFlags
  <2> QED
    BY <1>3, <2>2, LeadsTwice
<1>6. PICK blocked :
         blocked = [RTS_SET(assert(k, k.proc[caller].q_link = NULL), caller, {"SENDING"}) EXCEPT
                       !.proc[caller].sendmsg = type, !.proc[caller].sendto = d]
  OBVIOUS
<1>7. Leads(k, blocked)
  BY <1>6, BlockedOk
<1>8. Ok(blocked) /\ blocked \in Kernels
  BY <1>7, OkKernel DEF Leads
<1>9. PICK queue : queue = Callers(k, d)
  OBVIOUS
<1>10. PICK e : e = IF queue = <<>> THEN [blocked EXCEPT !.proc[d].caller_q = caller]
                    ELSE [blocked EXCEPT !.proc[Last(queue)].q_link = caller]
  OBVIOUS
<1>11. Quiet(blocked, e)
  <2>0. caller \in Pointers
    BY Constants
  <2>1. CASE queue = <<>>
    <3>1. e = [blocked EXCEPT !.proc[d].caller_q = caller]
      BY <1>10, <2>1
    <3> QED
      BY <1>8, <2>0, <3>1, CallersQuiet
  <2>2. CASE queue # <<>>
    <3>1. PICK last : last = Last(queue)
      OBVIOUS
    <3>2. last \in Procs
      <4>1. queue \in Seq(Procs)
        BY <1>0, <1>9, CallersIn
      <4> QED
        BY <2>2, <3>1, <4>1 DEF Last
    <3>3. e = [blocked EXCEPT !.proc[last].q_link = caller]
      BY <1>10, <2>2, <3>1
    <3> QED
      BY <1>8, <2>0, <3>2, <3>3, LinkQuiet
  <2> QED
    BY <2>1, <2>2
<1>12. Leads(k, e)
  <2>1. Leads(blocked, e)
    BY <1>8, <1>11, QuietLeads
  <2> QED
    BY <1>7, <2>1, LeadsTwice
<1>13. mini_send(k, caller, d, type, nonblocking) =
         IF isempty(k, d) THEN [k |-> k, r |-> "EDEADSRCDST"]
         ELSE IF WILLRECEIVE(k, d, caller) THEN [k |-> b, r |-> "OK"]
         ELSE IF nonblocking THEN [k |-> k, r |-> "ENOTREADY"]
         ELSE IF deadlock(k, "SEND", caller, d) THEN [k |-> k, r |-> "ELOCKED"]
         ELSE [k |-> e, r |-> "OK"]
  BY <1>1, <1>4, <1>6, <1>9, <1>10 DEF mini_send
<1>14. mini_send(k, caller, d, type, nonblocking).k \in {k, b, e}
  BY <1>13
<1>15. Leads(k, k)
  BY LeadsSelf
<1> QED
  BY <1>5, <1>12, <1>14, <1>15

-----------------------------------------------------------------------------
(* senda: each entry of the table is tried once.                           *)
SameRoom(k, k2, p) == Len(k2.priv[p].asyntab) = Len(k.priv[p].asyntab)

LEMMA SendaEntryLeads ==
    ASSUME NEW k, Ok(k), NEW caller \in Procs, NEW i \in 1 .. Len(k.priv[caller].asyntab)
    PROVE  Leads(k, SendaEntry(caller, k, i)) /\ SameRoom(k, SendaEntry(caller, k, i), caller)
<1>0. k \in Kernels
  BY OkKernel
<1>1. PICK e : e = k.priv[caller].asyntab[i]
  OBVIOUS
<1>2. e.dst \in Procs
  <2>1. k.priv[caller].asyntab \in Seq(Entries)
    BY <1>0, KFields DEF Privs
  <2>2. e \in Entries
    BY <1>1, <2>1
  <2> QED
    BY <2>2 DEF Entries
<1>3. PICK d \in Procs : d = e.dst
  BY <1>2
<1>4. PICK will : will = (WILLRECEIVE(k, d, caller) /\ ~ (e.noreply /\ Misc(k, d, "REPLY_PEND")))
  OBVIOUS
<1>5. CASE isempty(k, d)
  <2>1. PICK b : b = [k EXCEPT !.priv[caller].asyntab[i].done = TRUE]
    OBVIOUS
  <2>2. Calm(k, b) /\ Len(b.priv[caller].asyntab) = Len(k.priv[caller].asyntab)
    <3>1. EntryDone(k, caller, b)
      BY <1>0, <2>1, EntryCalm
    <3> QED
      BY <3>1 DEF EntryDone
  <2>3. SendaEntry(caller, k, i) = b
    BY <1>1, <1>3, <1>5, <2>1 DEF SendaEntry
  <2> QED
    BY <2>2, <2>3, CalmLeads DEF SameRoom
<1>6. CASE ~ isempty(k, d) /\ will
  <2>1. PICK a : a = Deliver(k, d, Message(caller, "ASYN"))
    OBVIOUS
  <2>2. Message(caller, "ASYN") \in Messages
    BY MessageIn, Constants DEF Types
  <2>3. Calm(k, a) /\ a.priv = k.priv
    BY <1>0, <2>1, <2>2, DeliverCalm
  <2>4. Leads(k, a) /\ Ok(a)
    BY <2>3, CalmLeads DEF Leads
  <2>5. PICK b : b = RTS_UNSET(a, d, {"RECEIVING"})
    OBVIOUS
  <2>6. Ok(b) /\ Freed(a, d, {"RECEIVING"}, b)
    BY <2>4, <2>5, OkUnset
  <2>7. Leads(a, b) /\ b.priv = a.priv /\ b \in Kernels
    BY <2>6, OkKernel DEF Leads, Freed, OnlyFlags
  <2>8. PICK c : c = [b EXCEPT !.priv[caller].asyntab[i].done = TRUE]
    OBVIOUS
  <2>9. Calm(b, c) /\ Len(c.priv[caller].asyntab) = Len(b.priv[caller].asyntab)
    <3>1. EntryDone(b, caller, c)
      BY <2>7, <2>8, EntryCalm
    <3> QED
      BY <3>1 DEF EntryDone
  <2>10. Leads(b, c)
    BY <2>6, <2>9, CalmLeads
  <2>11. SendaEntry(caller, k, i) = c
    BY <1>1, <1>3, <1>4, <1>6, <2>1, <2>5, <2>8 DEF SendaEntry
  <2>12. Leads(k, c)
    BY <2>4, <2>7, <2>10, LeadsTwice
  <2> QED
    BY <2>3, <2>7, <2>9, <2>11, <2>12 DEF SameRoom
<1>7. CASE ~ isempty(k, d) /\ ~ will
  <2>1. PICK b : b = SetMisc(k, d, "ASYNMSG")
    OBVIOUS
  <2>2. Calm(k, b) /\ b.priv = k.priv
    <3>1. "ASYNMSG" \in MiscFlags
      BY DEF MiscFlags
    <3> QED
      BY <1>0, <2>1, <3>1, SetMiscCalm
  <2>3. SendaEntry(caller, k, i) = b
    BY <1>1, <1>3, <1>4, <1>7, <2>1 DEF SendaEntry
  <2> QED
    BY <2>2, <2>3, CalmLeads DEF SameRoom
<1> QED
  BY <1>5, <1>6, <1>7

Sending(k0, n, caller, f) ==
    f = [i \in 0 .. n |-> IF i = 0 THEN k0 ELSE SendaEntry(caller, f[i - 1], i)]

Room(k, caller, n) ==
    {x \in Kernels : Leads(k, x) /\ Len(x.priv[caller].asyntab) = n}

LEMMA RoomStep ==
    ASSUME NEW k, NEW caller \in Procs, NEW n \in Nat, NEW x \in Room(k, caller, n), NEW i \in 1 .. n
    PROVE  SendaEntry(caller, x, i) \in Room(k, caller, n)
<1>1. x \in Kernels /\ Leads(k, x) /\ Len(x.priv[caller].asyntab) = n /\ Ok(x)
  BY DEF Room, Leads
<1>2. PICK y : y = SendaEntry(caller, x, i)
  OBVIOUS
<1>3. i \in 1 .. Len(x.priv[caller].asyntab)
  BY <1>1
<1>4. Leads(x, y) /\ SameRoom(x, y, caller)
  BY <1>1, <1>2, <1>3, SendaEntryLeads
<1>5. Leads(k, y) /\ y \in Kernels
  <2>1. Leads(k, y)
    BY <1>1, <1>4, LeadsTwice
  <2> QED
    BY <2>1, OkKernel DEF Leads
<1> QED
  BY <1>1, <1>2, <1>4, <1>5 DEF Room, SameRoom

SendStep(k, n, caller) ==
    [i \in 1 .. n |-> [x \in Kernels |-> SendaEntry(caller, x, i)]]

LEMMA SendingExists ==
    ASSUME NEW k, NEW caller \in Procs, NEW n \in Nat, NEW k0 \in Room(k, caller, n)
    PROVE  \E f : Sending(k0, n, caller, f)
<1>2. PICK f : Loop(n, k0, SendStep(k, n, caller), f)
  BY LoopExists
<1>3. \A i \in 0 .. n : f[i] = IF i = 0 THEN k0 ELSE SendStep(k, n, caller)[i][f[i - 1]]
  BY <1>2 DEF Loop
<1>4. f[0] \in Room(k, caller, n)
  BY <1>3
<1>5. ASSUME NEW i \in 1 .. n, f[i - 1] \in Room(k, caller, n)
      PROVE  f[i] \in Room(k, caller, n) /\ f[i] = SendaEntry(caller, f[i - 1], i)
  <2>0. i \in 0 .. n /\ i # 0
    OBVIOUS
  <2>1. PICK x \in Room(k, caller, n) : x = f[i - 1]
    BY <1>5
  <2>2. x \in Kernels
    BY DEF Room
  <2>3. f[i] = SendStep(k, n, caller)[i][x]
    BY <1>3, <2>0, <2>1
  <2>4. f[i] = SendaEntry(caller, x, i)
    BY <2>2, <2>3 DEF SendStep
  <2>5. SendaEntry(caller, x, i) \in Room(k, caller, n)
    BY RoomStep
  <2> QED
    BY <2>1, <2>4, <2>5
<1>6. \A i \in 0 .. n : f[i] \in Room(k, caller, n)
  BY <1>4, <1>5, StaysIn
<1>7. f = [i \in 0 .. n |-> f[i]]
  BY <1>2 DEF Loop
<1>8. ASSUME NEW i \in 0 .. n
      PROVE  f[i] = IF i = 0 THEN k0 ELSE SendaEntry(caller, f[i - 1], i)
  <2>1. CASE i = 0
    BY <1>3, <2>1
  <2>2. CASE i # 0
    <3>1. i \in 1 .. n /\ i - 1 \in 0 .. n
      BY <2>2
    <3> QED
      BY <1>5, <1>6, <2>2, <3>1
  <2> QED
    BY <2>1, <2>2
<1>9. Sending(k0, n, caller, f)
  BY <1>7, <1>8 DEF Sending
<1> QED
  BY <1>9

LEMMA SendaLeads ==
    ASSUME NEW k, Ok(k), NEW caller \in Procs, NEW table \in Seq(Entries)
    PROVE  Leads(k, mini_senda(k, caller, table))
<1>1. PICK n \in Nat : n = Len(table)
  OBVIOUS
<1>2. PICK k0 : k0 = [k EXCEPT !.priv[caller].asyntab = table]
  OBVIOUS
<1>3. TableSet(k, caller, table, k0)
  BY <1>2, TableCalm, OkKernel
<1>4. k0 \in Room(k, caller, n)
  <2>1. Calm(k, k0) /\ k0.priv[caller].asyntab = table
    BY <1>3 DEF TableSet
  <2>2. Leads(k, k0) /\ k0 \in Kernels
    BY <2>1, CalmLeads, CalmKernel
  <2> QED
    BY <1>1, <2>1, <2>2 DEF Room
<1>5. PICK f : f = CHOOSE g : Sending(k0, n, caller, g)
  OBVIOUS
<1>6. Sending(k0, n, caller, f)
  BY <1>4, <1>5, SendingExists
<1>7. \A i \in 0 .. n : f[i] = IF i = 0 THEN k0 ELSE SendaEntry(caller, f[i - 1], i)
  BY <1>6 DEF Sending
<1>8. f[0] \in Room(k, caller, n)
  BY <1>4, <1>7
<1>9. ASSUME NEW i \in 1 .. n, f[i - 1] \in Room(k, caller, n)
      PROVE  f[i] \in Room(k, caller, n)
  <2>1. i \in 0 .. n /\ i # 0
    OBVIOUS
  <2>2. PICK x \in Room(k, caller, n) : x = f[i - 1]
    BY <1>9
  <2>3. SendaEntry(caller, x, i) \in Room(k, caller, n)
    BY RoomStep
  <2> QED
    BY <1>7, <2>1, <2>2, <2>3
<1>10. \A i \in 0 .. n : f[i] \in Room(k, caller, n)
  BY <1>8, <1>9, StaysIn
<1>11. PICK sent : sent = f[n]
  OBVIOUS
<1>12. sent \in Kernels /\ Leads(k, sent) /\ Ok(sent)
  BY <1>10, <1>11 DEF Room, Leads
<1>13. PICK b : b = [sent EXCEPT !.priv[caller].asyntab = <<>>]
  OBVIOUS
<1>14. Leads(k, b)
  <2>1. <<>> \in Seq(Entries)
    OBVIOUS
  <2>2. TableSet(sent, caller, <<>>, b)
    BY <1>12, <1>13, <2>1, TableCalm
  <2>3. Leads(sent, b)
    BY <1>12, <2>2, CalmLeads DEF TableSet
  <2> QED
    BY <1>12, <2>3, LeadsTwice
<1>15. mini_senda(k, caller, table) =
         IF \A i \in DOMAIN table : sent.priv[caller].asyntab[i].done THEN b ELSE sent
  <2> DEFINE g == CHOOSE h : Sending([k EXCEPT !.priv[caller].asyntab = table],
                                     Len(table), caller, h)
             out == g[Len(table)]
  <2>1. mini_senda(k, caller, table) =
          IF \A i \in DOMAIN table : out.priv[caller].asyntab[i].done
            THEN [out EXCEPT !.priv[caller].asyntab = <<>>] ELSE out
    BY DEF mini_senda, Sending
  <2>2. f = g
    BY <1>1, <1>2, <1>5
  <2>3. sent = out
    BY <1>1, <1>11, <2>2
  <2> HIDE DEF out
  <2> QED
    BY <1>13, <2>1, <2>3
<1> QED
  BY <1>12, <1>14, <1>15

(* The system calls of message passing.                                    *)
LEMMA IpcLeads ==
    ASSUME NEW k, Ok(k), NEW caller \in Procs,
           NEW call \in {"SEND", "SENDNB", "SENDREC", "RECEIVE", "NOTIFY"},
           NEW other \in Procs \cup {ANY}, other = ANY => call = "RECEIVE"
    PROVE  Leads(k, do_sync_ipc(k, caller, call, other))
<1>0. k \in Kernels /\ "MSG" \in Types /\ "REPLY_PEND" \in MiscFlags /\ caller \in Pointers
  BY OkKernel, Constants DEF Types, MiscFlags
<1>1. CASE other # ANY /\ isempty(k, other)
  BY <1>1, LeadsSelf DEF do_sync_ipc
<1>2. ASSUME ~ (other # ANY /\ isempty(k, other)), call = "SEND"
      PROVE  Leads(k, do_sync_ipc(k, caller, call, other))
  <2>1. do_sync_ipc(k, caller, call, other) = mini_send(k, caller, other, "MSG", FALSE).k
    BY <1>2 DEF do_sync_ipc
  <2> QED
    BY <1>0, <1>2, <2>1, SendLeads
<1>3. ASSUME ~ (other # ANY /\ isempty(k, other)), call = "SENDNB"
      PROVE  Leads(k, do_sync_ipc(k, caller, call, other))
  <2>1. do_sync_ipc(k, caller, call, other) = mini_send(k, caller, other, "MSG", TRUE).k
    BY <1>3 DEF do_sync_ipc
  <2> QED
    BY <1>0, <1>3, <2>1, SendLeads
<1>4. ASSUME ~ (other # ANY /\ isempty(k, other)), call = "SENDREC"
      PROVE  Leads(k, do_sync_ipc(k, caller, call, other))
  <2>1. PICK asked : asked = SetMisc(k, caller, "REPLY_PEND")
    OBVIOUS
  <2>2. Calm(k, asked)
    BY <1>0, <2>1, SetMiscCalm
  <2>3. Leads(k, asked) /\ Ok(asked)
    BY <2>2, CalmLeads DEF Leads
  <2>4. PICK s : s = mini_send(asked, caller, other, "MSG", FALSE)
    OBVIOUS
  <2>5. Leads(asked, s.k)
    BY <1>0, <1>4, <2>3, <2>4, SendLeads
  <2>6. Ok(s.k)
    BY <2>5 DEF Leads
  <2>7. PICK t : t = mini_receive(s.k, caller, other)
    OBVIOUS
  <2>8. Leads(s.k, t)
    BY <2>6, <2>7, ReceiveLeads
  <2>9. do_sync_ipc(k, caller, call, other) = IF s.r = "OK" THEN t ELSE s.k
    BY <1>4, <2>1, <2>4, <2>7 DEF do_sync_ipc
  <2>10. Leads(k, s.k)
    BY <2>3, <2>5, LeadsTwice
  <2>11. Leads(k, t)
    BY <2>8, <2>10, LeadsTwice
  <2> QED
    BY <2>9, <2>10, <2>11
<1>5. ASSUME ~ (other # ANY /\ isempty(k, other)), call = "RECEIVE"
      PROVE  Leads(k, do_sync_ipc(k, caller, call, other))
  <2>1. PICK a : a = UnsetMisc(k, caller, "REPLY_PEND")
    OBVIOUS
  <2>2. Calm(k, a)
    BY <1>0, <2>1, SetMiscCalm
  <2>3. Leads(k, a) /\ Ok(a)
    BY <2>2, CalmLeads DEF Leads
  <2>4. PICK t : t = mini_receive(a, caller, other)
    OBVIOUS
  <2>5. Leads(a, t)
    BY <2>3, <2>4, ReceiveLeads
  <2>6. do_sync_ipc(k, caller, call, other) = t
    BY <1>5, <2>1, <2>4 DEF do_sync_ipc
  <2> QED
    BY <2>3, <2>5, <2>6, LeadsTwice
<1>6. ASSUME ~ (other # ANY /\ isempty(k, other)), call = "NOTIFY"
      PROVE  Leads(k, do_sync_ipc(k, caller, call, other))
  <2>1. do_sync_ipc(k, caller, call, other) = mini_notify(k, caller, other)
    BY <1>6 DEF do_sync_ipc
  <2> QED
    BY <1>0, <1>6, <2>1, NotifyLeads
<1> QED
  BY <1>1, <1>2, <1>3, <1>4, <1>5, <1>6

-----------------------------------------------------------------------------
(* The end of a quantum, and the answer of the scheduler.                  *)
LEMMA NoTimeLeads ==
    ASSUME NEW k, Ok(k), NEW p \in Procs
    PROVE  Leads(k, proc_no_time(k, p))
<1>0. k \in Kernels
  BY OkKernel
<1>1. CASE p \in Scheduled
  <2>1. PICK a : a = RTS_SET(k, p, {"NO_QUANTUM"})
    OBVIOUS
  <2>2. {"NO_QUANTUM"} \in SUBSET (Flags \ {"PREEMPTED", "SENDING"}) /\ {"NO_QUANTUM"} # {}
    BY DEF Flags
  <2>3. Ok(a) /\ RtsDone(k, p, k.proc[p].rts \cup {"NO_QUANTUM"}, a)
    BY <2>1, <2>2, OkSet
  <2>4. Leads(k, a)
    BY <2>3 DEF Leads, RtsDone, OnlyFlags
  <2>5. PICK sent : sent = mini_send(a, p, SCHED, "NO_QUANTUM", FALSE)
    OBVIOUS
  <2>6. SCHED \in Procs /\ "NO_QUANTUM" \in Types
    BY Constants DEF Types
  <2>7. Leads(a, sent.k)
    BY <2>3, <2>5, <2>6, SendLeads
  <2>8. PICK b : b = assert(sent.k, sent.r = "OK")
    OBVIOUS
  <2>9. Ok(sent.k) /\ sent.k \in Kernels
    BY <2>7, OkKernel DEF Leads
  <2>10. Calm(sent.k, b)
    BY <2>8, <2>9, PanicCalm
  <2>11. Leads(sent.k, b)
    BY <2>9, <2>10, CalmLeads
  <2>12. proc_no_time(k, p) = b
    BY <1>1, <2>1, <2>5, <2>8 DEF proc_no_time, notify_scheduler
  <2>13. Leads(k, sent.k)
    BY <2>4, <2>7, LeadsTwice
  <2> QED
    BY <2>11, <2>12, <2>13, LeadsTwice
<1>2. CASE p \notin Scheduled
  <2>1. PICK b : b = [k EXCEPT !.proc[p].time_left = 1]
    OBVIOUS
  <2>2. Calm(k, b)
    BY <1>0, <2>1, TimeCalm
  <2>3. proc_no_time(k, p) = b
    BY <1>2, <2>1 DEF proc_no_time
  <2> QED
    BY <2>2, <2>3, CalmLeads
<1> QED
  BY <1>1, <1>2

(* A process that cannot run gets another priority.                        *)
LEMMA PriorityLeads ==
    ASSUME NEW k, Ok(k), NEW p \in Procs, k.proc[p].rts # {}, p # k.cur,
           NEW v \in Queues, NEW k2, k2 = [k EXCEPT !.proc[p].priority = v]
    PROVE  Leads(k, k2)
<1>1. k \in Kernels /\ Lists(k) /\ Marked(k) /\ Best(k) /\ Aimed(k)
  BY DEF Ok, Sound
<1>2. PICK r : r = [k.proc[p] EXCEPT !.priority = v]
  OBVIOUS
<1>3. /\ r \in Slots /\ r.priority = v /\ r.rts = k.proc[p].rts
      /\ r.nextready = k.proc[p].nextready /\ r.sendto = k.proc[p].sendto
  <2>1. k.proc[p] \in Slots
    BY <1>1, KFields
  <2> QED
    BY <1>2, <2>1 DEF Slots
<1>4. /\ k2 \in Kernels /\ k2.proc = [k.proc EXCEPT ![p] = r] /\ k2.head = k.head
      /\ k2.tail = k.tail /\ k2.cur = k.cur
  <2>1. [k.proc EXCEPT ![p] = r] \in [Procs -> Slots]
    BY <1>1, <1>3, KFields
  <2>2. k2 = [k EXCEPT !.proc = [k.proc EXCEPT ![p] = r]]
    BY <1>1, <1>2 DEF Kernels
  <2> QED
    BY <1>1, <2>1, <2>2 DEF Kernels
<1>5. \A x \in Procs : k2.proc[x] = IF x = p THEN r ELSE k.proc[x]
  BY <1>1, <1>4, KFields
<1>6. NextOf(k2) = NextOf(k)
  BY <1>3, <1>5 DEF NextOf
<1>7. Runnable(k2) = Runnable(k) /\ p \notin Runnable(k)
  BY <1>3, <1>5 DEF Runnable
<1>8. ASSUME NEW q \in Queues PROVE \E n, s : Queue(k2, Runnable(k), q, n, s)
  <2>1. PICK n, s : Queue(k, Runnable(k), q, n, s)
    BY <1>1 DEF Lists, Holds
  <2>2. \A x \in Procs : Has(n, s, x) <=> x \in Runnable(k) /\ k2.proc[x].priority = q
    BY <1>5, <1>7, <2>1 DEF Queue
  <2>3. Queue(k2, Runnable(k), q, n, s)
    BY <1>4, <1>6, <2>1, <2>2 DEF Queue
  <2> QED
    BY <2>3
<1>9. Lists(k2)
  BY <1>7, <1>8 DEF Lists, Holds
<1>10. /\ \A x \in Procs : k2.proc[x].rts = k.proc[x].rts /\ k2.proc[x].sendto = k.proc[x].sendto
       /\ \A x \in Procs : x # p => k2.proc[x].priority = k.proc[x].priority
  BY <1>3, <1>5
<1>11. Marked(k2) /\ Aimed(k2)
  BY <1>1, <1>4, <1>10 DEF Marked, Aimed
<1>12. k.cur # NULL => k.cur \in Procs
  BY <1>1, CurIs
<1>13. Best(k2)
  BY <1>1, <1>4, <1>10, <1>12 DEF Best
<1> QED
  BY <1>4, <1>9, <1>11, <1>13 DEF Leads, Ok, Sound

LEMMA ScheduleLeads ==
    ASSUME NEW k, Ok(k), NEW p \in Procs, p # k.cur, NEW priority \in Queues
    PROVE  Leads(k, sched_proc(k, p, priority))
<1>1. PICK off : off = IF proc_is_runnable(k, p) THEN RTS_SET(k, p, {"NO_QUANTUM"}) ELSE k
  OBVIOUS
<1>2. Leads(k, off) /\ off.proc[p].rts # {}
  <2>1. CASE proc_is_runnable(k, p)
    <3>1. {"NO_QUANTUM"} \in SUBSET (Flags \ {"PREEMPTED", "SENDING"}) /\ {"NO_QUANTUM"} # {}
      BY DEF Flags
    <3>2. off = RTS_SET(k, p, {"NO_QUANTUM"})
      BY <1>1, <2>1
    <3>3. Ok(off) /\ RtsDone(k, p, k.proc[p].rts \cup {"NO_QUANTUM"}, off)
      BY <3>1, <3>2, OkSet
    <3> QED
      BY <3>3 DEF Leads, RtsDone, OnlyFlags
  <2>2. CASE ~ proc_is_runnable(k, p)
    BY <1>1, <2>2, LeadsSelf DEF proc_is_runnable
  <2> QED
    BY <2>1, <2>2
<1>3. Ok(off) /\ off.cur = k.cur
  BY <1>2 DEF Leads
<1>4. PICK a : a = [off EXCEPT !.proc[p].priority = priority]
  OBVIOUS
<1>5. Leads(off, a)
  BY <1>2, <1>3, <1>4, PriorityLeads
<1>6. Ok(a) /\ a \in Kernels
  BY <1>5, OkKernel DEF Leads
<1>7. PICK b : b = [a EXCEPT !.proc[p].time_left = 1]
  OBVIOUS
<1>8. Calm(a, b)
  BY <1>6, <1>7, TimeCalm
<1>9. Leads(a, b) /\ Ok(b)
  BY <1>6, <1>8, CalmLeads DEF Leads
<1>10. PICK c : c = RTS_UNSET(b, p, {"NO_QUANTUM"})
  OBVIOUS
<1>11. Ok(c) /\ Freed(b, p, {"NO_QUANTUM"}, c)
  BY <1>9, <1>10, OkUnset
<1>12. Leads(b, c)
  BY <1>11 DEF Leads, Freed, OnlyFlags
<1>13. sched_proc(k, p, priority) = c
  <2>1. b = [off EXCEPT !.proc[p].priority = priority, !.proc[p].time_left = 1]
    BY <1>4, <1>7
  <2> QED
    BY <1>1, <1>10, <2>1 DEF sched_proc
<1>14. Leads(k, a)
  BY <1>2, <1>5, LeadsTwice
<1>15. Leads(k, b)
  BY <1>9, <1>14, LeadsTwice
<1> QED
  BY <1>12, <1>13, <1>15, LeadsTwice

-----------------------------------------------------------------------------
(* The exit of a process.                                                  *)

(* Other flags for a process that cannot run, before and after.            *)
StillBlocked(k, p, v) ==
    /\ k.proc[p].rts # {} /\ v # {}
    /\ "SENDING" \in v => "SENDING" \in k.proc[p].rts
    /\ "PREEMPTED" \in v <=> "PREEMPTED" \in k.proc[p].rts
FlagsGiven(k, p, v, k2) == k2 = [k EXCEPT !.proc[p].rts = v]
FlagsNow(k, p, v, k2) == Leads(k, k2) /\ k2.proc[p].rts = v

LEMMA FlagsLead ==
    ASSUME NEW k, Ok(k), NEW p \in Procs, NEW v \in SUBSET Flags,
           StillBlocked(k, p, v), NEW k2, FlagsGiven(k, p, v, k2)
    PROVE  FlagsNow(k, p, v, k2)
<1>0. /\ k2 = [k EXCEPT !.proc[p].rts = v] /\ k.proc[p].rts # {} /\ v # {}
      /\ "SENDING" \in v => "SENDING" \in k.proc[p].rts
      /\ "PREEMPTED" \in v <=> "PREEMPTED" \in k.proc[p].rts
  BY DEF FlagsGiven, StillBlocked
<1>1. k \in Kernels /\ Lists(k) /\ Marked(k) /\ Best(k) /\ Aimed(k)
  BY DEF Ok, Sound
<1>2. RtsSet(k, p, v, k2)
  BY <1>0, <1>1, SetRts
<1>3. /\ k2 \in Kernels /\ k2.cur = k.cur /\ SameQueues(k, k2)
      /\ \A x \in Procs : k2.proc[x].rts = IF x = p THEN v ELSE k.proc[x].rts
      /\ \A x \in Procs : /\ k2.proc[x].priority = k.proc[x].priority
                          /\ k2.proc[x].sendto = k.proc[x].sendto
  BY <1>2 DEF RtsSet, OnlyFlags, SameQueues
<1>4. Runnable(k2) = Runnable(k)
  BY <1>0, <1>3 DEF Runnable
<1>5. Lists(k2)
  BY <1>1, <1>3, <1>4, HoldsSame DEF Lists
<1>6. Marked(k2) /\ Aimed(k2)
  BY <1>0, <1>1, <1>3 DEF Marked, Aimed
<1>7. k.cur # NULL => k.cur \in Procs
  BY <1>1, CurIs
<1>8. Best(k2)
  BY <1>0, <1>1, <1>3, <1>7 DEF Best
<1> QED
  BY <1>3, <1>5, <1>6, <1>8 DEF FlagsNow, Leads, Ok, Sound

Dying(k, rc) == "NO_ENDPOINT" \in k.proc[rc].rts

LEMMA ClearIpcLeads ==
    ASSUME NEW k, Ok(k), NEW rc \in Procs, Dying(k, rc)
    PROVE  Leads(k, clear_ipc(k, rc)) /\ Dying(clear_ipc(k, rc), rc)
<1>0. k \in Kernels
  BY OkKernel
<1>1. PICK d, i : d = k.proc[rc].sendto /\ i = SelectInSeq(Callers(k, d), LAMBDA s : s = rc)
  OBVIOUS
<1>2. PICK u : u = IF ~ Flag(k, rc, "SENDING") THEN k
                   ELSE IF i = 0 THEN k ELSE RemoveCaller(k, d, i)
  OBVIOUS
<1>3. Quiet(k, u)
  <2>1. CASE ~ Flag(k, rc, "SENDING") \/ i = 0
    <3>1. u = k
      BY <1>2, <2>1
    <3> QED
      BY <1>0, <3>1, QuietSelf
  <2>2. CASE Flag(k, rc, "SENDING") /\ i # 0
    <3>1. d \in Procs
      BY <1>1, <2>2 DEF Flag, Ok, Aimed
    <3>2. Callers(k, d) \in Seq(Procs)
      BY <1>0, <3>1, CallersIn
    <3>3. PICK I : I = {j \in 1 .. Len(Callers(k, d)) : Callers(k, d)[j] = rc}
      OBVIOUS
    <3>4. i = IF I # {} THEN Min(I) ELSE 0
      BY <1>1, <3>3 DEF SelectInSeq
    <3>5. I \in SUBSET Nat /\ I \subseteq 1 .. Len(Callers(k, d))
      BY <3>3
    <3>6. I # {} => Min(I) \in I
      BY <3>5, MinIn
    <3>7. i \in 1 .. Len(Callers(k, d))
      BY <2>2, <3>4, <3>5, <3>6
    <3>8. Quiet(k, RemoveCaller(k, d, i))
      BY <1>0, <3>1, <3>7, RemoveQuiet
    <3> QED
      BY <1>2, <2>2, <3>8
  <2> QED
    BY <2>1, <2>2
<1>4. Leads(k, u) /\ Ok(u)
  BY <1>3, QuietLeads DEF Leads
<1>5. PICK v : v = u.proc[rc].rts \ {"SENDING", "RECEIVING"}
  OBVIOUS
<1>6. u.proc[rc].rts = k.proc[rc].rts /\ u.proc[rc].rts \in SUBSET Flags
  <2>1. u \in Kernels /\ u.proc[rc].rts = k.proc[rc].rts
    BY <1>3 DEF Quiet
  <2> QED
    BY <2>1, KFields DEF Slots
<1>7. "NO_ENDPOINT" \in v /\ v \in SUBSET Flags /\ u.proc[rc].rts # {} /\ v # {}
  BY <1>5, <1>6 DEF Dying
<1>8. "SENDING" \notin v /\ ("PREEMPTED" \in v <=> "PREEMPTED" \in u.proc[rc].rts)
  BY <1>5
<1>9. PICK k2 : k2 = [u EXCEPT !.proc[rc].rts = v]
  OBVIOUS
<1>10. Leads(u, k2) /\ k2.proc[rc].rts = v
  <2>1. StillBlocked(u, rc, v) /\ FlagsGiven(u, rc, v, k2)
    BY <1>7, <1>8, <1>9 DEF StillBlocked, FlagsGiven
  <2>2. FlagsNow(u, rc, v, k2)
    BY <1>4, <1>7, <2>1, FlagsLead
  <2> QED
    BY <2>2 DEF FlagsNow
<1>11. clear_ipc(k, rc) = k2
  BY <1>1, <1>2, <1>5, <1>9 DEF clear_ipc
<1> QED
  BY <1>4, <1>7, <1>10, <1>11, LeadsTwice DEF Dying

(* One turn of the loop of clear_ipc_refs.                                 *)
ClearOne(k2, rc, rp) ==
    LET k3 == [k2 EXCEPT !.priv[rp].notify_pending = @ \ ({rc} \cap System)]
    IN  IF P_BLOCKEDON(k3, rp) = rc
          THEN RTS_UNSET(k3, rp, {"RECEIVING", "SENDING"}) ELSE k3

Clearing(k, rc, m, f) ==
    f = [p \in 0 .. NR_PROCS |->
            IF p = 0 THEN k
            ELSE IF p \in m THEN ClearOne(f[p - 1], rc, p) ELSE f[p - 1]]

Cleared(k, rc) == {x \in Kernels : Leads(k, x) /\ Dying(x, rc)}

LEMMA ClearOneIn ==
    ASSUME NEW k, NEW rc \in Procs, NEW x \in Cleared(k, rc), NEW rp \in Procs
    PROVE  ClearOne(x, rc, rp) \in Cleared(k, rc)
<1>1. x \in Kernels /\ Leads(k, x) /\ Dying(x, rc) /\ Ok(x)
  BY DEF Cleared, Leads
<1>2. PICK v : v = x.priv[rp].notify_pending \ ({rc} \cap System)
  OBVIOUS
<1>3. v \in SUBSET Pointers
  <2>1. x.priv[rp].notify_pending \in SUBSET Pointers
    BY <1>1, KFields DEF Privs
  <2> QED
    BY <1>2, <2>1
<1>4. PICK a : a = [x EXCEPT !.priv[rp].notify_pending = v]
  OBVIOUS
<1>5. Calm(x, a)
  BY <1>1, <1>3, <1>4, NotesCalm
<1>6. Leads(x, a) /\ Ok(a) /\ a \in Kernels
  BY <1>1, <1>5, CalmLeads, CalmKernel DEF Leads
<1>7. Dying(a, rc)
  BY <1>1, <1>5 DEF Calm, Quiet, Dying
<1>8. Leads(k, a)
  BY <1>1, <1>6, LeadsTwice
<1>9. PICK flags : flags = {"RECEIVING", "SENDING"}
  OBVIOUS
<1>10. PICK b : b = RTS_UNSET(a, rp, flags)
  OBVIOUS
<1>11. "PREEMPTED" \notin flags /\ "NO_ENDPOINT" \notin flags
  BY <1>9
<1>12. Ok(b) /\ Freed(a, rp, flags, b)
  BY <1>6, <1>10, <1>11, OkUnset
<1>13. Leads(a, b) /\ b \in Kernels
  BY <1>12, OkKernel DEF Leads, Freed, OnlyFlags
<1>14. Dying(b, rc)
  <2>1. "NO_ENDPOINT" \in Still(a, rp, flags, rc)
    BY <1>7, <1>11 DEF Dying, Still
  <2> QED
    BY <1>12, <2>1 DEF Dying, Freed
<1>15. Leads(k, b)
  BY <1>8, <1>13, LeadsTwice
<1>16. ClearOne(x, rc, rp) = IF P_BLOCKEDON(a, rp) = rc THEN b ELSE a
  BY <1>2, <1>4, <1>9, <1>10 DEF ClearOne
<1>17. a \in Cleared(k, rc) /\ b \in Cleared(k, rc)
  BY <1>6, <1>7, <1>8, <1>13, <1>14, <1>15 DEF Cleared
<1> QED
  BY <1>16, <1>17

ClearStep(rc, m) ==
    [p \in 1 .. NR_PROCS |-> [x \in Kernels |-> IF p \in m THEN ClearOne(x, rc, p) ELSE x]]

LEMMA ClearingExists ==
    ASSUME NEW k, NEW rc \in Procs, k \in Cleared(k, rc), NEW m \in SUBSET Procs
    PROVE  \E f : Clearing(k, rc, m, f)
<1>1. NR_PROCS \in Nat
  BY Constants
<1>2. PICK f : Loop(NR_PROCS, k, ClearStep(rc, m), f)
  BY <1>1, LoopExists
<1>3. \A p \in 0 .. NR_PROCS : f[p] = IF p = 0 THEN k ELSE ClearStep(rc, m)[p][f[p - 1]]
  BY <1>2 DEF Loop
<1>4. f[0] \in Cleared(k, rc)
  BY <1>1, <1>3
<1>5. ASSUME NEW p \in 1 .. NR_PROCS, f[p - 1] \in Cleared(k, rc)
      PROVE  /\ f[p] \in Cleared(k, rc)
             /\ f[p] = IF p \in m THEN ClearOne(f[p - 1], rc, p) ELSE f[p - 1]
  <2>0. p \in 0 .. NR_PROCS /\ p # 0
    BY <1>1
  <2>1. PICK x \in Cleared(k, rc) : x = f[p - 1]
    BY <1>5
  <2>2. x \in Kernels
    BY DEF Cleared
  <2>3. f[p] = ClearStep(rc, m)[p][x]
    BY <1>3, <2>0, <2>1
  <2>4. f[p] = IF p \in m THEN ClearOne(x, rc, p) ELSE x
    BY <2>2, <2>3 DEF ClearStep
  <2>5. p \in m => ClearOne(x, rc, p) \in Cleared(k, rc)
    BY ClearOneIn
  <2> QED
    BY <2>1, <2>4, <2>5
<1>6. \A i \in 0 .. NR_PROCS : f[i] \in Cleared(k, rc)
  BY <1>1, <1>4, <1>5, StaysIn
<1>7. f = [p \in 0 .. NR_PROCS |-> f[p]]
  BY <1>2 DEF Loop
<1>8. ASSUME NEW p \in 0 .. NR_PROCS
      PROVE  f[p] = IF p = 0 THEN k
                    ELSE IF p \in m THEN ClearOne(f[p - 1], rc, p) ELSE f[p - 1]
  <2>1. CASE p = 0
    BY <1>3, <2>1
  <2>2. CASE p # 0
    <3>1. p \in 1 .. NR_PROCS /\ p - 1 \in 0 .. NR_PROCS
      BY <1>1, <2>2
    <3> QED
      BY <1>5, <1>6, <2>2, <3>1
  <2> QED
    BY <2>1, <2>2
<1>9. Clearing(k, rc, m, f)
  BY <1>7, <1>8 DEF Clearing
<1> QED
  BY <1>9

LEMMA ClearRefsLead ==
    ASSUME NEW k, Ok(k), NEW rc \in Procs, Dying(k, rc)
    PROVE  Leads(k, clear_ipc_refs(k, rc)) /\ Dying(clear_ipc_refs(k, rc), rc)
<1>0. NR_PROCS \in Nat
  BY Constants
<1>1. PICK m : m = {q \in Procs : ~ isempty(k, q)}
  OBVIOUS
<1>2. m \in SUBSET Procs
  BY <1>1
<1>3. k \in Cleared(k, rc)
  BY OkKernel, LeadsSelf DEF Cleared
<1>4. PICK f : f = CHOOSE g : Clearing(k, rc, m, g)
  OBVIOUS
<1>5. Clearing(k, rc, m, f)
  BY <1>2, <1>3, <1>4, ClearingExists
<1>6. \A p \in 0 .. NR_PROCS : f[p] = IF p = 0 THEN k
          ELSE IF p \in m THEN ClearOne(f[p - 1], rc, p) ELSE f[p - 1]
  BY <1>5 DEF Clearing
<1>7. f[0] \in Cleared(k, rc)
  BY <1>0, <1>3, <1>6
<1>8. ASSUME NEW p \in 1 .. NR_PROCS, f[p - 1] \in Cleared(k, rc)
      PROVE  f[p] \in Cleared(k, rc)
  <2>0. p \in 0 .. NR_PROCS /\ p # 0
    BY <1>0
  <2>1. PICK x \in Cleared(k, rc) : x = f[p - 1]
    BY <1>8
  <2>2. f[p] = IF p \in m THEN ClearOne(x, rc, p) ELSE x
    BY <1>6, <2>0, <2>1
  <2>3. p \in m => ClearOne(x, rc, p) \in Cleared(k, rc)
    BY <1>2, ClearOneIn
  <2> QED
    BY <2>2, <2>3
<1>9. \A i \in 0 .. NR_PROCS : f[i] \in Cleared(k, rc)
  BY <1>0, <1>7, <1>8, StaysIn
<1>10. f[NR_PROCS] \in Cleared(k, rc)
  BY <1>0, <1>9
<1>11. clear_ipc_refs(k, rc) = f[NR_PROCS]
  BY <1>1, <1>4 DEF clear_ipc_refs, Clearing, ClearOne
<1> QED
  BY <1>10, <1>11 DEF Cleared

LEMMA ClearLeads ==
    ASSUME NEW k, Ok(k), NEW rc \in Procs, rc # k.cur
    PROVE  Leads(k, do_clear(k, rc))
<1>1. PICK off : off = RTS_SET(k, rc, {"NO_ENDPOINT"})
  OBVIOUS
<1>2. {"NO_ENDPOINT"} \in SUBSET (Flags \ {"PREEMPTED", "SENDING"}) /\ {"NO_ENDPOINT"} # {}
  BY DEF Flags
<1>3. Ok(off) /\ RtsDone(k, rc, k.proc[rc].rts \cup {"NO_ENDPOINT"}, off)
  BY <1>1, <1>2, OkSet
<1>4. Leads(k, off) /\ Dying(off, rc) /\ off \in Kernels
  BY <1>3, OkKernel DEF Leads, RtsDone, OnlyFlags, Dying
<1>5. PICK a : a = [off EXCEPT !.priv[rc].asyntab = <<>>]
  OBVIOUS
<1>6. Calm(off, a)
  <2>1. <<>> \in Seq(Entries)
    OBVIOUS
  <2>2. TableSet(off, rc, <<>>, a)
    BY <1>4, <1>5, <2>1, TableCalm
  <2> QED
    BY <2>2 DEF TableSet
<1>7. Leads(off, a) /\ Ok(a) /\ Dying(a, rc)
  <2>1. Leads(off, a)
    BY <1>3, <1>6, CalmLeads
  <2> QED
    BY <1>4, <1>6, <2>1 DEF Leads, Calm, Quiet, Dying
<1>8. PICK b : b = clear_ipc(a, rc)
  OBVIOUS
<1>9. Leads(a, b) /\ Dying(b, rc) /\ Ok(b)
  BY <1>7, <1>8, ClearIpcLeads DEF Leads
<1>10. PICK c : c = clear_ipc_refs(b, rc)
  OBVIOUS
<1>11. Leads(b, c) /\ Dying(c, rc) /\ Ok(c)
  BY <1>9, <1>10, ClearRefsLead DEF Leads
<1>12. PICK k2 : k2 = [c EXCEPT !.proc[rc].rts = {"SLOT_FREE"}]
  OBVIOUS
<1>13. Leads(c, k2)
  <2>1. c.cur = k.cur
    BY <1>4, <1>7, <1>9, <1>11 DEF Leads
  <2>2. "PREEMPTED" \notin c.proc[rc].rts
    BY <1>11, <2>1 DEF Ok, Sound, Marked
  <2>3. PICK v : v = {"SLOT_FREE"}
    OBVIOUS
  <2>4. v \in SUBSET Flags /\ v # {} /\ "SENDING" \notin v /\ "PREEMPTED" \notin v
    BY <2>3 DEF Flags
  <2>5. k2 = [c EXCEPT !.proc[rc].rts = v] /\ c.proc[rc].rts # {}
    BY <1>11, <1>12, <2>3 DEF Dying
  <2>6. StillBlocked(c, rc, v) /\ FlagsGiven(c, rc, v, k2)
    BY <2>2, <2>4, <2>5 DEF StillBlocked, FlagsGiven
  <2>7. FlagsNow(c, rc, v, k2)
    BY <1>11, <2>4, <2>6, FlagsLead
  <2> QED
    BY <2>7 DEF FlagsNow
<1>14. do_clear(k, rc) = k2
  BY <1>1, <1>5, <1>8, <1>10, <1>12 DEF do_clear
<1>15. Leads(k, a)
  BY <1>4, <1>7, LeadsTwice
<1>16. Leads(k, b)
  BY <1>9, <1>15, LeadsTwice
<1>17. Leads(k, c)
  BY <1>11, <1>16, LeadsTwice
<1> QED
  BY <1>13, <1>14, <1>17, LeadsTwice

-----------------------------------------------------------------------------
(* The invariant.  Between the steps of the system the processor runs a    *)
(* process that can run, or none can, or switch_to_user is under way.      *)
KernelInv ==
    /\ Ok(K)
    /\ mode \in {"user", "idle", "switch"}
    /\ mode = "user" => K.cur \in Procs /\ K.proc[K.cur].rts = {}
    /\ mode = "idle" => K.cur = NULL /\ Runnable(K) = {}

LEMMA BecomesIs ==
    ASSUME NEW k \in Kernels, Become(k)
    PROVE  K' = k
<1>1. k = [proc |-> k.proc, head |-> k.head, tail |-> k.tail, priv |-> k.priv,
           cur |-> k.cur, panic |-> k.panic]
  BY DEF Kernels
<1> QED
  BY <1>1 DEF Become, K

LEMMA InitOk == Init => KernelInv
<1> SUFFICES ASSUME Init PROVE KernelInv
  OBVIOUS
<1>1. PICK k : k = K
  OBVIOUS
<1>2. PICK slot : slot = [p \in Procs |->
                 [rts |-> {"RECEIVING"}, misc |-> {}, priority |-> Prio[p], time_left |-> 1,
                  getfrom |-> ANY, sendto |-> NULL, caller_q |-> NULL, q_link |-> NULL,
                  nextready |-> NULL, sendmsg |-> "NONE", delivermsg |-> NoMessage]]
  OBVIOUS
<1>3. \A p \in Procs : slot[p] \in Slots
  <2>1. NoMessage \in Messages
    BY DEF NoMessage, Message, Messages, Types, Pointers
  <2>2. \A p \in Procs : Prio[p] \in Queues
    BY KernelAssumption
  <2> QED
    BY <1>2, <2>1, <2>2 DEF Slots, Flags, Types, Pointers
<1>4. PICK pr : pr = [notify_pending |-> {}, asyntab |-> <<>>]
  OBVIOUS
<1>5. pr \in Privs
  <2>1. <<>> \in Seq(Entries)
    OBVIOUS
  <2> QED
    BY <1>4, <2>1 DEF Privs
<1>6. /\ k.proc = slot /\ k.cur = NULL /\ k.panic = FALSE
      /\ k.head = [q \in Queues |-> NULL] /\ k.tail = [q \in Queues |-> NULL]
      /\ k.priv = [p \in Procs |-> pr]
      /\ k = [proc |-> k.proc, head |-> k.head, tail |-> k.tail, priv |-> k.priv,
              cur |-> k.cur, panic |-> k.panic]
  BY <1>1, <1>2, <1>4 DEF K, Init
<1>7. k \in Kernels
  <2>1. k.proc \in [Procs -> Slots] /\ k.priv \in [Procs -> Privs]
    BY <1>2, <1>3, <1>5, <1>6
  <2>2. k.head \in [Queues -> Pointers] /\ k.tail \in [Queues -> Pointers]
    BY <1>6 DEF Pointers
  <2>3. k.cur \in Pointers /\ k.panic \in BOOLEAN
    BY <1>6 DEF Pointers
  <2> QED
    BY <1>6, <2>1, <2>2, <2>3 DEF Kernels
<1>8. \A p \in Procs : k.proc[p].rts = {"RECEIVING"}
  BY <1>2, <1>6
<1>9. Runnable(k) = {}
  BY <1>8 DEF Runnable
<1>10. Lists(k)
  <2> SUFFICES ASSUME NEW q \in Queues PROVE \E n, s : Queue(k, Runnable(k), q, n, s)
    BY DEF Lists, Holds
  <2>1. PICK s : s = [i \in 1 .. 0 |-> NULL]
    OBVIOUS
  <2>2. List(0, s, k.head[q], NextOf(k))
    BY <1>6, <2>1 DEF List
  <2>3. k.tail[q] = EndOf(0, s)
    BY <1>6 DEF EndOf
  <2>4. Queue(k, Runnable(k), q, 0, s)
    BY <1>9, <2>2, <2>3 DEF Queue, Has
  <2> QED
    BY <2>4
<1>11. Ok(k)
  BY <1>6, <1>7, <1>8, <1>10 DEF Ok, Sound, Marked, Best, Aimed
<1>12. mode = "idle"
  BY DEF Init
<1> QED
  BY <1>1, <1>6, <1>9, <1>11, <1>12 DEF KernelInv

(* Once the trap has been dealt with, switch_to_user follows.              *)
LEMMA Switches ==
    ASSUME NEW k, NEW k2, Leads(k, k2), Become(k2), mode' = "switch"
    PROVE  KernelInv'
<1>1. Ok(k2) /\ k2 \in Kernels
  BY OkKernel DEF Leads
<1>2. K' = k2
  BY <1>1, BecomesIs
<1> QED
  BY <1>1, <1>2 DEF KernelInv

(* What the process that enters the kernel leaves of its quantum.          *)
Lefts(p) == {proc[p].time_left} \cup (IF p \in Slow THEN {0} ELSE {})

Trapped(p, left, k) == k = [K EXCEPT !.proc[p].time_left = left]

LEMMA Enters ==
    ASSUME KernelInv, NEW p \in Procs, NEW left \in Lefts(p), proc_ptr = p,
           NEW k, Trapped(p, left, k)
    PROVE  Ok(k) /\ k.cur = p
<1>1. Ok(K) /\ K \in Kernels /\ K.proc = proc /\ K.cur = proc_ptr
  BY OkKernel DEF KernelInv, K
<1>2. left \in {0, 1}
  <2>1. K.proc[p].time_left \in {0, 1}
    BY <1>1, KFields DEF Slots
  <2> QED
    BY <1>1, <2>1 DEF Lefts
<1>3. k = [K EXCEPT !.proc[p].time_left = left]
  BY DEF Trapped
<1>4. Calm(K, k)
  BY <1>1, <1>2, <1>3, TimeCalm
<1> QED
  BY <1>1, <1>4, CalmLeads DEF Leads

LEMMA IpcStep ==
    ASSUME KernelInv, NEW p \in Procs, do_ipc(p)
    PROVE  KernelInv'
<1>1. PICK c \in Calls : c[2] = p /\ Enter(p, LAMBDA k : do_sync_ipc(k, p, c[1], c[3]))
  BY DEF do_ipc
<1>2. /\ mode' = "switch" /\ proc_ptr = p
      /\ \E left \in Lefts(p) :
            Become(do_sync_ipc([K EXCEPT !.proc[p].time_left = left], p, c[1], c[3]))
  BY <1>1 DEF Enter, Lefts
<1>3. PICK left \in Lefts(p) :
         Become(do_sync_ipc([K EXCEPT !.proc[p].time_left = left], p, c[1], c[3]))
  BY <1>2
<1>4. PICK k : Trapped(p, left, k)
  BY DEF Trapped
<1>5. Ok(k) /\ k.cur = p
  BY <1>2, <1>4, Enters
<1>6. Become(do_sync_ipc(k, p, c[1], c[3]))
  BY <1>3, <1>4 DEF Trapped
<1>7. PICK call, other : call = c[1] /\ other = c[3]
  OBVIOUS
<1>8. /\ call \in {"SEND", "SENDNB", "SENDREC", "RECEIVE", "NOTIFY"}
      /\ other \in Procs \cup {ANY}
      /\ other = ANY => call = "RECEIVE"
  BY <1>7, KernelAssumption
<1>9. Leads(k, do_sync_ipc(k, p, call, other))
  BY <1>5, <1>8, IpcLeads
<1> QED
  BY <1>2, <1>6, <1>7, <1>9, Switches

LEMMA SendaStep ==
    ASSUME KernelInv, NEW p \in Procs, senda(p)
    PROVE  KernelInv'
<1>1. PICK t \in Tables[p] : p \in System /\ Enter(p, LAMBDA k : mini_senda(k, p, t))
  BY DEF senda
<1>2. /\ mode' = "switch" /\ proc_ptr = p
      /\ \E left \in Lefts(p) :
            Become(mini_senda([K EXCEPT !.proc[p].time_left = left], p, t))
  BY <1>1 DEF Enter, Lefts
<1>3. PICK left \in Lefts(p) : Become(mini_senda([K EXCEPT !.proc[p].time_left = left], p, t))
  BY <1>2
<1>4. PICK k : Trapped(p, left, k)
  BY DEF Trapped
<1>5. Ok(k) /\ k.cur = p
  BY <1>2, <1>4, Enters
<1>6. Become(mini_senda(k, p, t))
  BY <1>3, <1>4 DEF Trapped
<1>7. t \in Seq(Entries)
  BY <1>1, KernelAssumption DEF Entries
<1>8. Leads(k, mini_senda(k, p, t))
  BY <1>5, <1>7, SendaLeads
<1> QED
  BY <1>2, <1>6, <1>8, Switches

LEMMA ScheduleStep ==
    ASSUME KernelInv, NEW target \in Scheduled, NEW priority \in Queues,
           schedule(SCHED, target, priority)
    PROVE  KernelInv'
<1>1. Enter(SCHED, LAMBDA k : sched_proc(k, target, priority))
  BY DEF schedule
<1>2. /\ mode' = "switch" /\ proc_ptr = SCHED
      /\ \E left \in Lefts(SCHED) :
            Become(sched_proc([K EXCEPT !.proc[SCHED].time_left = left], target, priority))
  BY <1>1 DEF Enter, Lefts
<1>3. PICK left \in Lefts(SCHED) :
         Become(sched_proc([K EXCEPT !.proc[SCHED].time_left = left], target, priority))
  BY <1>2
<1>4. PICK k : Trapped(SCHED, left, k)
  BY DEF Trapped
<1>5. Ok(k) /\ k.cur = SCHED
  BY <1>2, <1>4, Enters, Constants
<1>6. Become(sched_proc(k, target, priority))
  BY <1>3, <1>4 DEF Trapped
<1>7. target \in Procs /\ target # k.cur
  BY <1>5, KernelAssumption
<1>8. Leads(k, sched_proc(k, target, priority))
  BY <1>5, <1>7, ScheduleLeads
<1> QED
  BY <1>2, <1>6, <1>8, Switches

LEMMA ClearStepOk ==
    ASSUME KernelInv, NEW target \in Mortal, clear(PM, target)
    PROVE  KernelInv'
<1>1. Enter(PM, LAMBDA k : do_clear(k, target))
  BY DEF clear
<1>2. /\ mode' = "switch" /\ proc_ptr = PM
      /\ \E left \in Lefts(PM) : Become(do_clear([K EXCEPT !.proc[PM].time_left = left], target))
  BY <1>1 DEF Enter, Lefts
<1>3. PICK left \in Lefts(PM) : Become(do_clear([K EXCEPT !.proc[PM].time_left = left], target))
  BY <1>2
<1>4. PICK k : Trapped(PM, left, k)
  BY DEF Trapped
<1>5. Ok(k) /\ k.cur = PM
  BY <1>2, <1>4, Enters, Constants
<1>6. Become(do_clear(k, target))
  BY <1>3, <1>4 DEF Trapped
<1>7. target \in Procs /\ target # k.cur
  BY <1>5, KernelAssumption
<1>8. Leads(k, do_clear(k, target))
  BY <1>5, <1>7, ClearLeads
<1> QED
  BY <1>2, <1>6, <1>8, Switches

LEMMA KillStep ==
    ASSUME KernelInv, NEW p \in System, NEW target \in Signalled, kill(p, target)
    PROVE  KernelInv'
<1>1. Enter(p, LAMBDA k : cause_sig(k, target))
  BY DEF kill
<1>2. /\ mode' = "switch" /\ proc_ptr = p
      /\ \E left \in Lefts(p) : Become(cause_sig([K EXCEPT !.proc[p].time_left = left], target))
  BY <1>1 DEF Enter, Lefts
<1>3. PICK left \in Lefts(p) : Become(cause_sig([K EXCEPT !.proc[p].time_left = left], target))
  BY <1>2
<1>4. PICK k : Trapped(p, left, k)
  BY DEF Trapped
<1>5. Ok(k) /\ target \in Procs
  BY <1>2, <1>4, Enters, Constants, KernelAssumption
<1>6. Become(cause_sig(k, target))
  BY <1>3, <1>4 DEF Trapped
<1>7. Leads(k, cause_sig(k, target))
  BY <1>5, SignalLeads
<1> QED
  BY <1>2, <1>6, <1>7, Switches

(* A flag other than that of preemption is cleared, or set.                *)
LEMMA UnsetLeads ==
    ASSUME NEW k, Ok(k), NEW p \in Procs, NEW flags, "PREEMPTED" \notin flags
    PROVE  Leads(k, RTS_UNSET(k, p, flags))
<1>1. PICK k2 : k2 = RTS_UNSET(k, p, flags)
  OBVIOUS
<1>2. Ok(k2) /\ Freed(k, p, flags, k2)
  BY <1>1, OkUnset
<1> QED
  BY <1>1, <1>2 DEF Leads, Freed, OnlyFlags

LEMMA SetLeads ==
    ASSUME NEW k, Ok(k), NEW p \in Procs,
           NEW flags \in SUBSET (Flags \ {"PREEMPTED", "SENDING"}), flags # {}
    PROVE  Leads(k, RTS_SET(k, p, flags))
<1>1. PICK k2 : k2 = RTS_SET(k, p, flags)
  OBVIOUS
<1>2. Ok(k2) /\ RtsDone(k, p, k.proc[p].rts \cup flags, k2)
  BY <1>1, OkSet
<1> QED
  BY <1>1, <1>2 DEF Leads, RtsDone, OnlyFlags

LEMMA GetksigStep ==
    ASSUME KernelInv, NEW p \in Procs, getksig(p)
    PROVE  KernelInv'
<1>0. PICK T : T = {t \in Procs : Flag(K, t, "SIGNALED")}
  OBVIOUS
<1>1. Enter(p, LAMBDA k : RTS_UNSET(k, Min(T), {"SIGNALED"})) /\ T # {}
  BY <1>0 DEF getksig
<1>2. /\ mode' = "switch" /\ proc_ptr = p
      /\ \E left \in Lefts(p) :
            Become(RTS_UNSET([K EXCEPT !.proc[p].time_left = left], Min(T), {"SIGNALED"}))
  BY <1>1 DEF Enter, Lefts
<1>3. PICK left \in Lefts(p) :
         Become(RTS_UNSET([K EXCEPT !.proc[p].time_left = left], Min(T), {"SIGNALED"}))
  BY <1>2
<1>4. PICK k : Trapped(p, left, k)
  BY DEF Trapped
<1>5. Ok(k)
  BY <1>2, <1>4, Enters
<1>6. PICK t : t = Min(T)
  OBVIOUS
<1>7. t \in Procs
  <2>1. T \in SUBSET Nat
    BY <1>0, Constants
  <2>2. t \in T
    BY <1>1, <1>6, <2>1, MinIn
  <2> QED
    BY <1>0, <2>2
<1>8. Become(RTS_UNSET(k, t, {"SIGNALED"}))
  BY <1>3, <1>4, <1>6 DEF Trapped
<1>9. Leads(k, RTS_UNSET(k, t, {"SIGNALED"}))
  BY <1>5, <1>7, UnsetLeads
<1> QED
  BY <1>2, <1>8, <1>9, Switches

LEMMA EndksigStep ==
    ASSUME KernelInv, NEW target \in Signalled, endksig(PM, target)
    PROVE  KernelInv'
<1>1. Enter(PM, LAMBDA k : RTS_UNSET(k, target, {"SIG_PENDING"}))
  BY DEF endksig
<1>2. /\ mode' = "switch" /\ proc_ptr = PM
      /\ \E left \in Lefts(PM) :
            Become(RTS_UNSET([K EXCEPT !.proc[PM].time_left = left], target, {"SIG_PENDING"}))
  BY <1>1 DEF Enter, Lefts
<1>3. PICK left \in Lefts(PM) :
         Become(RTS_UNSET([K EXCEPT !.proc[PM].time_left = left], target, {"SIG_PENDING"}))
  BY <1>2
<1>4. PICK k : Trapped(PM, left, k)
  BY DEF Trapped
<1>5. Ok(k) /\ target \in Procs
  BY <1>2, <1>4, Enters, Constants, KernelAssumption
<1>6. Become(RTS_UNSET(k, target, {"SIG_PENDING"}))
  BY <1>3, <1>4 DEF Trapped
<1>7. Leads(k, RTS_UNSET(k, target, {"SIG_PENDING"}))
  BY <1>5, UnsetLeads
<1> QED
  BY <1>2, <1>6, <1>7, Switches

LEMMA StopStep ==
    ASSUME KernelInv, NEW target \in Signalled, runctl_stop(PM, target)
    PROVE  KernelInv'
<1>1. Enter(PM, LAMBDA k : IF Flag(k, target, "SENDING") \/ Misc(k, target, "SIG_DELAY")
                             THEN SetMisc(k, target, "SIG_DELAY")
                             ELSE RTS_SET(k, target, {"PROC_STOP"}))
  BY DEF runctl_stop
<1>2. /\ mode' = "switch" /\ proc_ptr = PM
      /\ \E left \in Lefts(PM) : \E k :
            /\ Trapped(PM, left, k)
            /\ Become(IF Flag(k, target, "SENDING") \/ Misc(k, target, "SIG_DELAY")
                        THEN SetMisc(k, target, "SIG_DELAY")
                        ELSE RTS_SET(k, target, {"PROC_STOP"}))
  BY <1>1 DEF Enter, Lefts, Trapped
<1>3. PICK left \in Lefts(PM) : \E k :
            /\ Trapped(PM, left, k)
            /\ Become(IF Flag(k, target, "SENDING") \/ Misc(k, target, "SIG_DELAY")
                        THEN SetMisc(k, target, "SIG_DELAY")
                        ELSE RTS_SET(k, target, {"PROC_STOP"}))
  BY <1>2
<1>4. PICK k : /\ Trapped(PM, left, k)
               /\ Become(IF Flag(k, target, "SENDING") \/ Misc(k, target, "SIG_DELAY")
                           THEN SetMisc(k, target, "SIG_DELAY")
                           ELSE RTS_SET(k, target, {"PROC_STOP"}))
  BY <1>3
<1>5. Ok(k) /\ target \in Procs
  BY <1>2, <1>4, Enters, Constants, KernelAssumption
<1>6. Leads(k, SetMisc(k, target, "SIG_DELAY"))
  <2>1. k \in Kernels /\ "SIG_DELAY" \in MiscFlags
    BY <1>5, OkKernel DEF MiscFlags
  <2>2. Calm(k, SetMisc(k, target, "SIG_DELAY"))
    BY <1>5, <2>1, SetMiscCalm
  <2> QED
    BY <1>5, <2>2, CalmLeads
<1>7. Leads(k, RTS_SET(k, target, {"PROC_STOP"}))
  <2>1. {"PROC_STOP"} \in SUBSET (Flags \ {"PREEMPTED", "SENDING"}) /\ {"PROC_STOP"} # {}
    BY DEF Flags
  <2> QED
    BY <1>5, <2>1, SetLeads
<1>8. PICK k2 : k2 = IF Flag(k, target, "SENDING") \/ Misc(k, target, "SIG_DELAY")
                       THEN SetMisc(k, target, "SIG_DELAY")
                       ELSE RTS_SET(k, target, {"PROC_STOP"})
  OBVIOUS
<1>9. Leads(k, k2)
  BY <1>6, <1>7, <1>8
<1>10. Become(k2)
  BY <1>4, <1>8
<1> QED
  BY <1>2, <1>9, <1>10, Switches

LEMMA ResumeStep ==
    ASSUME KernelInv, NEW target \in Signalled, runctl_resume(PM, target)
    PROVE  KernelInv'
<1>1. Enter(PM, LAMBDA k : RTS_UNSET(k, target, {"PROC_STOP"}))
  BY DEF runctl_resume
<1>2. /\ mode' = "switch" /\ proc_ptr = PM
      /\ \E left \in Lefts(PM) :
            Become(RTS_UNSET([K EXCEPT !.proc[PM].time_left = left], target, {"PROC_STOP"}))
  BY <1>1 DEF Enter, Lefts
<1>3. PICK left \in Lefts(PM) :
         Become(RTS_UNSET([K EXCEPT !.proc[PM].time_left = left], target, {"PROC_STOP"}))
  BY <1>2
<1>4. PICK k : Trapped(PM, left, k)
  BY DEF Trapped
<1>5. Ok(k) /\ target \in Procs
  BY <1>2, <1>4, Enters, Constants, KernelAssumption
<1>6. Become(RTS_UNSET(k, target, {"PROC_STOP"}))
  BY <1>3, <1>4 DEF Trapped
<1>7. Leads(k, RTS_UNSET(k, target, {"PROC_STOP"}))
  BY <1>5, UnsetLeads
<1> QED
  BY <1>2, <1>6, <1>7, Switches

LEMMA TickStep ==
    ASSUME KernelInv, NEW p \in Procs, clock_tick(p)
    PROVE  KernelInv'
<1>1. Enter(p, LAMBDA k : k)
  BY DEF clock_tick
<1>2. /\ mode' = "switch" /\ proc_ptr = p
      /\ \E left \in Lefts(p) : Become([K EXCEPT !.proc[p].time_left = left])
  BY <1>1 DEF Enter, Lefts
<1>3. PICK left \in Lefts(p) : Become([K EXCEPT !.proc[p].time_left = left])
  BY <1>2
<1>4. PICK k : Trapped(p, left, k)
  BY DEF Trapped
<1>5. Ok(k)
  BY <1>2, <1>4, Enters
<1>6. Become(k)
  BY <1>3, <1>4 DEF Trapped
<1>7. Leads(k, k)
  BY <1>5, LeadsSelf
<1> QED
  BY <1>2, <1>6, <1>7, Switches

LEMMA InterruptStep ==
    ASSUME KernelInv, NEW d \in Drivers, interrupt(d)
    PROVE  KernelInv'
<1>0. HARDWARE \in Pointers /\ d \in Procs
  BY KernelAssumption DEF HARDWARE, Pointers, NULL
<1>1. CASE mode = "idle" /\ Become(mini_notify(K, HARDWARE, d)) /\ mode' = "switch"
  <2>1. PICK k : k = K
    OBVIOUS
  <2>2. Ok(k)
    BY <2>1 DEF KernelInv
  <2>3. Leads(k, mini_notify(k, HARDWARE, d))
    BY <1>0, <2>2, NotifyLeads
  <2> QED
    BY <1>1, <2>1, <2>3, Switches
<1>2. ASSUME NEW p \in Procs, Enter(p, LAMBDA k : mini_notify(k, HARDWARE, d))
      PROVE  KernelInv'
  <2>1. /\ mode' = "switch" /\ proc_ptr = p
        /\ \E left \in Lefts(p) :
              Become(mini_notify([K EXCEPT !.proc[p].time_left = left], HARDWARE, d))
    BY <1>2 DEF Enter, Lefts
  <2>2. PICK left \in Lefts(p) :
           Become(mini_notify([K EXCEPT !.proc[p].time_left = left], HARDWARE, d))
    BY <2>1
  <2>3. PICK k : Trapped(p, left, k)
    BY DEF Trapped
  <2>4. Ok(k)
    BY <2>1, <2>3, Enters
  <2>5. Become(mini_notify(k, HARDWARE, d))
    BY <2>2, <2>3 DEF Trapped
  <2>6. Leads(k, mini_notify(k, HARDWARE, d))
    BY <1>0, <2>4, NotifyLeads
  <2> QED
    BY <2>1, <2>5, <2>6, Switches
<1>3. \/ mode = "idle" /\ Become(mini_notify(K, HARDWARE, d)) /\ mode' = "switch"
      \/ \E p \in Procs : Enter(p, LAMBDA k : mini_notify(k, HARDWARE, d))
  BY DEF interrupt
<1> QED
  BY <1>1, <1>2, <1>3

(* The misc flags and the quantum of a process that goes on.               *)
LEMMA GoesOn ==
    ASSUME KernelInv, check_misc_flags
    PROVE  KernelInv'
<1>1. PICK k : k = K
  OBVIOUS
<1>2. Ok(k) /\ k \in Kernels /\ k.cur = proc_ptr
  BY <1>1, OkKernel DEF KernelInv, K
<1>3. PICK p \in Procs : p = proc_ptr
  BY <1>2, KFields DEF check_misc_flags, CurRunnable, Pointers
<1>4. PICK u : u = UnsetMisc(k, p, "DELIVERMSG")
  OBVIOUS
<1>5. Leads(k, u) /\ Ok(u) /\ u \in Kernels
  <2>1. "DELIVERMSG" \in MiscFlags
    BY DEF MiscFlags
  <2>2. Calm(k, u)
    BY <1>2, <1>4, <2>1, SetMiscCalm
  <2> QED
    BY <1>2, <2>2, CalmLeads, CalmKernel DEF Leads
<1>6. PICK a : a = [u EXCEPT !.proc[p].delivermsg = NoMessage]
  OBVIOUS
<1>7. Leads(u, a) /\ Ok(a)
  <2>1. NoMessage \in Messages
    BY DEF NoMessage, Message, Messages, Types, Pointers
  <2>2. Calm(u, a)
    BY <1>5, <1>6, <2>1, DelivermsgCalm
  <2> QED
    BY <1>5, <2>2, CalmLeads DEF Leads
<1>8. PICK b : b = IF k.proc[p].time_left = 0 THEN proc_no_time(a, p) ELSE a
  OBVIOUS
<1>9. Leads(a, b)
  BY <1>7, <1>8, NoTimeLeads, LeadsSelf
<1>10. Leads(k, a)
  BY <1>5, <1>7, LeadsTwice
<1>11. Leads(k, b)
  BY <1>9, <1>10, LeadsTwice
<1>12. k.proc = proc
  BY <1>1 DEF K
<1>13. Become(b) /\ mode' = IF proc_is_runnable(b, p) THEN "user" ELSE "switch"
  BY <1>1, <1>3, <1>4, <1>6, <1>8, <1>12 DEF check_misc_flags
<1>14. Ok(b) /\ b \in Kernels /\ b.cur = p
  BY <1>2, <1>3, <1>11, OkKernel DEF Leads
<1>15. K' = b
  BY <1>13, <1>14, BecomesIs
<1> QED
  BY <1>13, <1>14, <1>15 DEF KernelInv, proc_is_runnable

-----------------------------------------------------------------------------
(* The choice of the next process.                                         *)

(* The process that ran is back in its queue if it can run.                *)
Settled(k) ==
    /\ k \in Kernels /\ Lists(k) /\ Aimed(k)
    /\ \A x \in Procs : "PREEMPTED" \notin k.proc[x].rts

PutBack(k, p, k2) ==
    k2 = IF k.proc[p].time_left # 0 THEN enqueue_head(k, p) ELSE enqueue(k, p)

LEMMA PutBackIs ==
    ASSUME NEW k \in Kernels, NEW p \in Procs, p \in Runnable(k), Holds(k, Runnable(k) \ {p}),
           k.cur = p, NEW k2, PutBack(k, p, k2)
    PROVE  k2 \in Kernels /\ OnlyQueues(k, k2) /\ Lists(k2)
<1>1. PICK m : m = Runnable(k) \ {p}
  OBVIOUS
<1>2. p \notin m /\ m \cup {p} = Runnable(k) /\ Holds(k, m)
  BY <1>1
<1>3. k2 \in Kernels /\ OnlyQueues(k, k2) /\ Holds(k2, m \cup {p})
  <2>1. CASE k.proc[p].time_left # 0
    <3>1. PICK x : x = enqueue_head(k, p)
      OBVIOUS
    <3>2. x \in Kernels /\ OnlyQueues(k, x) /\ Holds(x, m \cup {p})
      BY <1>2, <3>1, PushIs
    <3> QED
      BY <2>1, <3>1, <3>2 DEF PutBack
  <2>2. CASE ~ (k.proc[p].time_left # 0)
    <3>1. PICK x : x = Put(k, p)
      OBVIOUS
    <3>2. x \in Kernels /\ OnlyQueues(k, x) /\ Holds(x, m \cup {p})
      BY <1>2, <3>1, PutIs
    <3>3. enqueue(k, p) = Preempt(x, p)
      BY <3>1 DEF enqueue, Put
    <3>4. x.cur = p /\ x.proc[p].priority \in Nat
      BY <3>2, KFields, Constants DEF OnlyQueues
    <3>5. ~ (x.proc[p].priority > x.proc[p].priority)
      BY <3>4
    <3>6. Preempt(x, p) = x
      BY <3>4, <3>5 DEF Preempt
    <3> QED
      BY <2>2, <3>2, <3>3, <3>6 DEF PutBack
  <2> QED
    BY <2>1, <2>2
<1>4. Runnable(k2) = Runnable(k)
  BY <1>3 DEF Runnable, OnlyQueues
<1> QED
  BY <1>2, <1>3, <1>4 DEF Lists

(* The current process, which cannot run, loses the mark of preemption.    *)
Unmarked(k, p, k2) == k2 = [k EXCEPT !.proc[p].rts = k.proc[p].rts \ {"PREEMPTED"}]

Requeued(k, p, back, k2) ==
    k2 = IF ~ Flag(k, p, "PREEMPTED") \/ ~ proc_is_runnable(back, p) THEN back
         ELSE IF back.proc[p].time_left # 0 THEN enqueue_head(back, p) ELSE enqueue(back, p)

LEMMA RequeuedIs ==
    ASSUME NEW k, Ok(k), NEW p \in Procs, k.cur = p, k.proc[p].rts # {},
           NEW back, Unmarked(k, p, back), NEW k2, Requeued(k, p, back, k2)
    PROVE  Settled(k2)
<1>1. k \in Kernels /\ Lists(k) /\ Marked(k) /\ Aimed(k)
  BY DEF Ok, Sound
<1>2. PICK v : v = k.proc[p].rts \ {"PREEMPTED"}
  OBVIOUS
<1>3. v \in SUBSET Flags
  <2>1. k.proc[p].rts \in SUBSET Flags
    BY <1>1, KFields DEF Slots
  <2> QED
    BY <1>2, <2>1
<1>4. back = [k EXCEPT !.proc[p].rts = v]
  BY <1>2 DEF Unmarked
<1>5. RtsSet(k, p, v, back)
  BY <1>1, <1>3, <1>4, SetRts
<1>6. /\ back \in Kernels /\ back.cur = p /\ SameQueues(k, back)
      /\ \A x \in Procs : back.proc[x].sendto = k.proc[x].sendto
      /\ \A x \in Procs : back.proc[x].rts = IF x = p THEN v ELSE k.proc[x].rts
  BY <1>5 DEF RtsSet, OnlyFlags, SameQueues
<1>7. /\ \A x \in Procs : "PREEMPTED" \notin back.proc[x].rts
      /\ Aimed(back)
  BY <1>1, <1>2, <1>6 DEF Marked, Aimed
<1>8. Holds(back, Runnable(k))
  BY <1>1, <1>6, HoldsSame DEF Lists
<1>9. CASE ~ Flag(k, p, "PREEMPTED") \/ ~ proc_is_runnable(back, p)
  <2>1. k2 = back
    BY <1>9 DEF Requeued
  <2>2. v # {}
    BY <1>2, <1>6, <1>9 DEF Flag, proc_is_runnable
  <2>3. Runnable(back) = Runnable(k)
    BY <1>6, <2>2 DEF Runnable
  <2> QED
    BY <1>6, <1>7, <1>8, <2>1, <2>3 DEF Settled, Lists
<1>10. CASE ~ (~ Flag(k, p, "PREEMPTED") \/ ~ proc_is_runnable(back, p))
  <2>1. PutBack(back, p, k2)
    BY <1>10 DEF Requeued, PutBack
  <2>2. p \in Runnable(back)
    BY <1>10 DEF Runnable, proc_is_runnable
  <2>3. Runnable(back) \ {p} = Runnable(k)
    BY <1>6 DEF Runnable
  <2>4. k2 \in Kernels /\ OnlyQueues(back, k2) /\ Lists(k2)
    BY <1>6, <1>8, <2>1, <2>2, <2>3, PutBackIs
  <2>5. Aimed(k2) /\ \A x \in Procs : "PREEMPTED" \notin k2.proc[x].rts
    BY <1>7, <2>4 DEF OnlyQueues, Aimed
  <2> QED
    BY <2>4, <2>5 DEF Settled
<1> QED
  BY <1>9, <1>10

(* Nothing is to be put back when nothing ran.                             *)
LEMMA IdleIs ==
    ASSUME NEW k, Ok(k), k.cur = NULL
    PROVE  Settled(k)
BY Constants DEF Ok, Sound, Marked, Settled

(* The heads of the queues: a runnable process makes its queue busy, and   *)
(* the head of a busy queue can run.                                       *)
LEMMA HeadsAre ==
    ASSUME NEW k \in Kernels, Lists(k)
    PROVE  /\ \A x \in Procs : k.proc[x].rts = {} => k.head[k.proc[x].priority] # NULL
           /\ \A q \in Queues : k.head[q] # NULL =>
                 /\ k.head[q] \in Procs /\ k.proc[k.head[q]].rts = {}
                 /\ k.proc[k.head[q]].priority = q
<1>1. ASSUME NEW x \in Procs, k.proc[x].rts = {}
      PROVE  k.head[k.proc[x].priority] # NULL
  <2>1. PICK q \in Queues : q = k.proc[x].priority
    BY KFields
  <2>2. PICK n, s : Queue(k, Runnable(k), q, n, s)
    BY DEF Lists, Holds
  <2>3. n \in Nat /\ s \in [1 .. n -> Procs] /\ k.head[q] = IF n = 0 THEN NULL ELSE s[1]
    BY <2>2 DEF Queue, List
  <2>4. Has(n, s, x)
    BY <1>1, <2>1, <2>2 DEF Queue, Runnable
  <2>5. n # 0
    BY <2>4 DEF Has
  <2>6. 1 \in 1 .. n
    BY <2>3, <2>5
  <2>7. k.head[q] \in Procs
    BY <2>3, <2>5, <2>6
  <2> QED
    BY <2>1, <2>7, Constants
<1>2. ASSUME NEW q \in Queues, k.head[q] # NULL
      PROVE  /\ k.head[q] \in Procs /\ k.proc[k.head[q]].rts = {}
             /\ k.proc[k.head[q]].priority = q
  <2>1. PICK n, s : Queue(k, Runnable(k), q, n, s)
    BY DEF Lists, Holds
  <2>2. n \in Nat /\ s \in [1 .. n -> Procs] /\ k.head[q] = IF n = 0 THEN NULL ELSE s[1]
    BY <2>1 DEF Queue, List
  <2>3. 1 \in 1 .. n
    BY <1>2, <2>2
  <2>4. k.head[q] \in Procs /\ Has(n, s, k.head[q])
    BY <1>2, <2>2, <2>3 DEF Has
  <2>5. k.head[q] \in Runnable(k) /\ k.proc[k.head[q]].priority = q
    BY <2>1, <2>4 DEF Queue
  <2> QED
    BY <2>4, <2>5 DEF Runnable
<1> QED
  BY <1>1, <1>2

Picked(k, next, k2) == next = pick_proc(k) /\ k2 = [k EXCEPT !.cur = next]

LEMMA PickIs ==
    ASSUME NEW k, Settled(k), NEW next, NEW k2, Picked(k, next, k2)
    PROVE  Ok(k2) /\ k2.cur = next /\ (next = NULL => Runnable(k2) = {})
<1>1. k \in Kernels /\ Lists(k) /\ Aimed(k) /\ \A x \in Procs : "PREEMPTED" \notin k.proc[x].rts
  BY DEF Settled
<1>2. /\ \A x \in Procs : k.proc[x].rts = {} => k.head[k.proc[x].priority] # NULL
      /\ \A q \in Queues : k.head[q] # NULL =>
            /\ k.head[q] \in Procs /\ k.proc[k.head[q]].rts = {}
            /\ k.proc[k.head[q]].priority = q
  BY <1>1, HeadsAre
<1>3. PICK busy : busy = {q \in Queues : k.head[q] # NULL}
  OBVIOUS
<1>4. next = IF busy = {} THEN NULL ELSE k.head[Min(busy)]
  BY <1>3 DEF Picked, pick_proc
<1>5. busy \in SUBSET Nat
  BY <1>3, Constants
<1>6. busy # {} => Min(busy) \in busy /\ \A y \in busy : Min(busy) <= y
  BY <1>5, MinIn
<1>7. \A x \in Procs : k.proc[x].rts = {} => k.proc[x].priority \in busy
  BY <1>1, <1>2, <1>3, KFields
<1>8. next \in Pointers
  <2>1. CASE busy = {}
    BY <1>4, <2>1, Constants
  <2>2. CASE busy # {}
    BY <1>1, <1>3, <1>4, <1>6, <2>2, KFields
  <2> QED
    BY <2>1, <2>2
<1>9. k2 = [k EXCEPT !.cur = next]
  BY DEF Picked
<1>10. /\ k2 \in Kernels /\ k2.cur = next /\ k2.proc = k.proc /\ k2.head = k.head
       /\ k2.tail = k.tail
  BY <1>1, <1>8, <1>9 DEF Kernels
<1>11. SameQueues(k, k2) /\ Runnable(k2) = Runnable(k)
  BY <1>10 DEF SameQueues, NextOf, Runnable
<1>12. Lists(k2)
  BY <1>1, <1>11, HoldsSame DEF Lists
<1>13. Marked(k2) /\ Aimed(k2)
  BY <1>1, <1>10 DEF Marked, Aimed
<1>14. Best(k2)
  <2> SUFFICES ASSUME NEW x \in Procs, next # NULL, k.proc[x].rts = {},
                      k.proc[x].priority < k.proc[next].priority
               PROVE  FALSE
    BY <1>10 DEF Best
  <2>1. busy # {}
    BY <1>4
  <2>2. PICK b : b = Min(busy)
    OBVIOUS
  <2>3. b \in busy /\ next = k.head[b] /\ k.proc[x].priority \in busy /\ b <= k.proc[x].priority
    BY <1>4, <1>6, <1>7, <2>1, <2>2
  <2>4. k.proc[next].priority = b
    BY <1>2, <1>3, <2>3
  <2>5. b \in Nat /\ k.proc[x].priority \in Nat
    BY <1>5, <2>3
  <2> QED
    BY <2>3, <2>4, <2>5
<1>15. next = NULL => Runnable(k2) = {}
  <2> SUFFICES ASSUME next = NULL, NEW x \in Runnable(k) PROVE FALSE
    BY <1>11
  <2>1. busy # {}
    BY <1>7 DEF Runnable
  <2>2. next \in Procs
    BY <1>2, <1>3, <1>4, <1>6, <2>1
  <2> QED
    BY <2>2, Constants
<1> QED
  BY <1>10, <1>12, <1>13, <1>14, <1>15 DEF Ok, Sound

LEMMA PickStep ==
    ASSUME KernelInv, pick_new
    PROVE  KernelInv'
<1>1. PICK k : k = K
  OBVIOUS
<1>2. Ok(k) /\ k \in Kernels /\ k.cur = proc_ptr /\ k.proc = proc
  BY <1>1, OkKernel DEF KernelInv, K
<1>3. PICK p : p = proc_ptr
  OBVIOUS
<1>4. PICK back : back = IF p = NULL THEN k
                         ELSE [k EXCEPT !.proc[p].rts = @ \ {"PREEMPTED"}]
  OBVIOUS
<1>5. PICK queued :
         queued = IF p = NULL \/ ~ Flag(k, p, "PREEMPTED") \/ ~ proc_is_runnable(back, p)
                    THEN back
                  ELSE IF back.proc[p].time_left # 0 THEN enqueue_head(back, p)
                  ELSE enqueue(back, p)
  OBVIOUS
<1>6. PICK next : next = pick_proc(queued)
  OBVIOUS
<1>7. PICK k2 : k2 = [queued EXCEPT !.cur = next]
  OBVIOUS
<1>8. Become(k2) /\ mode' = IF next = NULL THEN "idle" ELSE "switch"
  BY <1>1, <1>3, <1>4, <1>5, <1>6, <1>7 DEF pick_new
<1>9. Settled(queued)
  <2>1. CASE p = NULL
    BY <1>2, <1>3, <1>4, <1>5, <2>1, IdleIs
  <2>2. CASE p # NULL
    <3>1. p \in Procs /\ k.cur = p
      BY <1>2, <1>3, <2>2, CurIs
    <3>2. k.proc[p].rts # {}
      BY <1>1, <1>3, <2>2 DEF pick_new, CurRunnable, proc_is_runnable
    <3>3. Unmarked(k, p, back)
      BY <1>4, <2>2 DEF Unmarked
    <3>4. Requeued(k, p, back, queued)
      BY <1>5, <2>2 DEF Requeued
    <3> QED
      BY <1>2, <3>1, <3>2, <3>3, <3>4, RequeuedIs
  <2> QED
    BY <2>1, <2>2
<1>10. Picked(queued, next, k2)
  BY <1>6, <1>7 DEF Picked
<1>11. Ok(k2) /\ k2.cur = next /\ (next = NULL => Runnable(k2) = {})
  BY <1>9, <1>10, PickIs
<1>12. K' = k2
  BY <1>8, <1>11, OkKernel, BecomesIs
<1> QED
  BY <1>8, <1>11, <1>12 DEF KernelInv

-----------------------------------------------------------------------------
(* The theorems.                                                           *)

LEMMA NextKeeps == KernelInv /\ [Next]_vars => KernelInv'
<1> SUFFICES ASSUME KernelInv, [Next]_vars PROVE KernelInv'
  OBVIOUS
<1>1. ASSUME NEW p \in Procs, do_ipc(p) \/ senda(p) \/ getksig(p) \/ clock_tick(p)
      PROVE  KernelInv'
  BY <1>1, IpcStep, SendaStep, GetksigStep, TickStep
<1>2. ASSUME NEW target \in Scheduled, NEW priority \in Queues,
             schedule(SCHED, target, priority)
      PROVE  KernelInv'
  BY <1>2, ScheduleStep
<1>3. ASSUME NEW target \in Mortal, clear(PM, target)
      PROVE  KernelInv'
  BY <1>3, ClearStepOk
<1>4. ASSUME NEW target \in Signalled, NEW p \in System, kill(p, target)
      PROVE  KernelInv'
  BY <1>4, KillStep
<1>5. ASSUME NEW target \in Signalled,
             endksig(PM, target) \/ runctl_stop(PM, target) \/ runctl_resume(PM, target)
      PROVE  KernelInv'
  BY <1>5, EndksigStep, StopStep, ResumeStep
<1>6. ASSUME NEW d \in Drivers, interrupt(d)
      PROVE  KernelInv'
  BY <1>6, InterruptStep
<1>7. CASE pick_new
  BY <1>7, PickStep
<1>8. CASE check_misc_flags
  BY <1>8, GoesOn
<1>9. CASE UNCHANGED vars
  <2>1. K' = K /\ mode' = mode
    BY <1>9 DEF vars, K
  <2> QED
    BY <2>1 DEF KernelInv
<1> QED
  BY <1>1, <1>2, <1>3, <1>4, <1>5, <1>6, <1>7, <1>8, <1>9 DEF Next

(* Whatever traps, interrupts and switches happen, the run queues, the     *)
(* flags of the processes and the choice of the current one fit together.  *)
THEOREM KernelSound == Spec => []KernelInv
<1>1. Init => KernelInv
  BY InitOk
<1>2. KernelInv /\ [Next]_vars => KernelInv'
  BY NextKeeps
<1> QED
  BY <1>1, <1>2, PTL DEF Spec

(* Every flag stays one of proc.h, every queue number one of a queue, and  *)
(* every link a process or NULL.                                           *)
THEOREM KernelTypes == Spec => []TypeOK
<1>1. KernelInv => TypeOK
  <2> SUFFICES ASSUME KernelInv PROVE TypeOK
    OBVIOUS
  <2>1. K \in Kernels
    BY OkKernel DEF KernelInv
  <2>2. /\ proc \in [Procs -> Slots] /\ priv \in [Procs -> Privs] /\ proc_ptr \in Pointers
        /\ rdy_head \in [Queues -> Pointers] /\ rdy_tail \in [Queues -> Pointers]
    BY <2>1, KFields DEF K
  <2>3. \A p \in Procs :
          /\ proc[p].rts \subseteq Flags /\ proc[p].misc \subseteq MiscFlags
          /\ proc[p].priority \in Queues /\ proc[p].time_left \in {0, 1}
          /\ proc[p].sendto \in Pointers /\ proc[p].caller_q \in Pointers
          /\ proc[p].q_link \in Pointers /\ proc[p].nextready \in Pointers
          /\ proc[p].getfrom \in Pointers \cup {ANY}
    BY <2>2 DEF Slots
  <2>4. \A p \in Procs : priv[p].notify_pending \subseteq Pointers
    BY <2>2 DEF Privs
  <2>5. \A p \in Procs :
          {proc[p].sendto, proc[p].caller_q, proc[p].q_link, proc[p].nextready}
             \subseteq Pointers
    BY <2>3
  <2>6. mode \in {"user", "idle", "switch"}
    BY DEF KernelInv
  <2> QED
    BY <2>2, <2>3, <2>4, <2>5, <2>6 DEF TypeOK
<1> QED
  BY <1>1, KernelSound, PTL

(* What runqueues_ok() of debug.c checks holds between any two steps: each *)
(* queue is a list without repetition that ends at its tail, and holds     *)
(* exactly the runnable processes of its priority.                         *)
THEOREM RunQueuesSafe == Spec => []RunQueuesOK
<1>1. KernelInv => RunQueuesOK
  <2> SUFFICES ASSUME KernelInv, NEW q \in Queues, NEW ready, ready = Ready(K, q)
               PROVE  /\ IsInjective(ready)
                      /\ ToSet(ready) =
                            {p \in Alive : proc_is_runnable(K, p) /\ proc[p].priority = q}
                      /\ rdy_tail[q] = IF ready = <<>> THEN NULL ELSE Last(ready)
                      /\ ready # <<>> => proc[Last(ready)].nextready = NULL
    BY DEF RunQueuesOK
  <2>1. PICK k : k = K
    OBVIOUS
  <2>2. /\ k \in Kernels /\ Lists(k)
        /\ k.proc = proc /\ k.tail = rdy_tail /\ ready = Ready(k, q)
    BY <2>1, OkKernel DEF KernelInv, Ok, Sound, K
  <2>3. PICK n, s : Queue(k, Runnable(k), q, n, s)
    BY <2>2 DEF Lists, Holds
  <2>4. ready = s /\ Len(s) = n /\ n \in Nat /\ s \in [1 .. n -> Procs]
    BY <2>2, <2>3, ReadyIs
  <2>5. /\ DOMAIN s = 1 .. n
        /\ \A i, j \in 1 .. n : s[i] = s[j] => i = j
        /\ \A i \in 1 .. n : NextOf(k)[s[i]] = IF i = n THEN NULL ELSE s[i + 1]
        /\ k.tail[q] = EndOf(n, s)
        /\ \A x \in Procs : Has(n, s, x) <=> x \in Runnable(k) /\ k.proc[x].priority = q
    BY <2>3, <2>4 DEF Queue, List
  <2>6. IsInjective(ready)
    BY <2>4, <2>5 DEF IsInjective
  <2>7. ToSet(ready) = {x \in Procs : Has(n, s, x)}
    BY <2>4, <2>5 DEF ToSet, Has
  <2>8. {x \in Procs : Has(n, s, x)} =
           {p \in Alive : proc_is_runnable(K, p) /\ proc[p].priority = q}
    <3>1. \A x \in Procs : x \in Runnable(k) <=> x \in Alive /\ proc_is_runnable(K, x)
      BY <2>1 DEF Runnable, Alive, isempty, Flag, proc_is_runnable
    <3>2. Alive \subseteq Procs
      BY DEF Alive
    <3> QED
      BY <2>2, <2>5, <3>1, <3>2
  <2>9. ready = <<>> <=> n = 0
    BY <2>4
  <2>10. n # 0 => n \in 1 .. n
    BY <2>4
  <2>11. ready # <<>> => Last(ready) = s[n] /\ NextOf(k)[s[n]] = NULL /\ s[n] \in Procs
    BY <2>4, <2>5, <2>9, <2>10 DEF Last
  <2>12. rdy_tail[q] = IF ready = <<>> THEN NULL ELSE Last(ready)
    BY <2>2, <2>5, <2>9, <2>11 DEF EndOf
  <2>13. ready # <<>> => proc[Last(ready)].nextready = NULL
    BY <2>2, <2>11 DEF NextOf
  <2> QED
    BY <2>6, <2>7, <2>8, <2>12, <2>13
<1> QED
  BY <1>1, KernelSound, PTL

(* A process in user mode has the best priority of those that can run, and *)
(* nobody stays marked as preempted, hence out of the queues, when the     *)
(* kernel is left.                                                         *)
THEOREM BestSafe == Spec => []BestRuns
<1>1. KernelInv => BestRuns
  <2> SUFFICES ASSUME KernelInv, mode \in {"user", "idle"}, NEW p \in Alive
               PROVE  /\ ~ Flag(K, p, "PREEMPTED")
                      /\ proc_is_runnable(K, p) =>
                            proc_ptr # NULL /\ proc[proc_ptr].priority <= proc[p].priority
    BY DEF BestRuns
  <2>1. PICK k : k = K
    OBVIOUS
  <2>2. /\ k \in Kernels /\ Marked(k) /\ Best(k)
        /\ k.cur = proc_ptr /\ k.proc = proc /\ p \in Procs
    BY <2>1, OkKernel DEF KernelInv, Ok, Sound, K, Alive
  <2>3. CASE mode = "user"
    <3>1. k.cur \in Procs /\ k.proc[k.cur].rts = {}
      BY <2>1, <2>3 DEF KernelInv
    <3>2. ~ Flag(k, p, "PREEMPTED")
      BY <2>2, <3>1 DEF Marked, Flag
    <3>3. k.cur # NULL /\ k.proc[k.cur].priority \in Nat /\ k.proc[p].priority \in Nat
      BY <2>2, <3>1, KFields, Constants
    <3>4. proc_is_runnable(k, p) => ~ (k.proc[p].priority < k.proc[k.cur].priority)
      BY <2>2, <3>1, <3>3 DEF Best, proc_is_runnable
    <3>5. proc_is_runnable(k, p) => k.proc[k.cur].priority <= k.proc[p].priority
      BY <3>3, <3>4
    <3> QED
      BY <2>1, <2>2, <3>2, <3>3, <3>5
  <2>4. CASE mode = "idle"
    <3>1. k.cur = NULL /\ Runnable(k) = {}
      BY <2>1, <2>4 DEF KernelInv
    <3>2. ~ Flag(k, p, "PREEMPTED")
      BY <2>2, <3>1, Constants DEF Marked, Flag
    <3>3. ~ proc_is_runnable(k, p)
      BY <2>2, <3>1 DEF Runnable, proc_is_runnable
    <3> QED
      BY <2>1, <3>2, <3>3
  <2> QED
    BY <2>3, <2>4
<1> QED
  BY <1>1, KernelSound, PTL

=============================================================================
