--------------------------- MODULE IPCWaitProofs ---------------------------
(***************************************************************************)
(* What holds of the semaphores of the IPC server for any clients whose    *)
(* arrays of operations have at most one that can block: who waits is on   *)
(* the list of its call, nobody else is, and no unit is lost or invented.  *)
(***************************************************************************)
EXTENDS IPCProofs

-----------------------------------------------------------------------------
(* Lists of waiting processes.                                             *)

(* p waits on the list with value v.                                       *)
On(list, p, v) == \E j \in 1 .. Len(list) : list[j].who = p /\ list[j].val = v

(* Nobody is on the list twice.                                            *)
Apart(list) == \A j, l \in 1 .. Len(list) : list[j].who = list[l].who => j = l

(* The entry of list at place j is taken out.                              *)
OneLess(list, j, r) ==
    /\ j \in 1 .. Len(list) /\ Len(r) = Len(list) - 1
    /\ \A i \in 1 .. Len(list) - 1 : r[i] = IF i < j THEN list[i] ELSE list[i + 1]

LEMMA OneOut ==
    ASSUME NEW list, Len(list) \in Nat, Apart(list), NEW j, NEW r, OneLess(list, j, r)
    PROVE  /\ Apart(r)
           /\ \A p, v : On(r, p, v) <=> On(list, p, v) /\ p # list[j].who
<1> DEFINE from(i) == IF i < j THEN i ELSE i + 1
<1>0. j \in 1 .. Len(list) /\ Len(r) = Len(list) - 1
  BY DEF OneLess
<1>1. ASSUME NEW i \in 1 .. Len(r)
      PROVE  from(i) \in 1 .. Len(list) /\ r[i] = list[from(i)] /\ from(i) # j
  BY <1>0 DEF OneLess
<1>2. ASSUME NEW i \in 1 .. Len(r), NEW l \in 1 .. Len(r), from(i) = from(l)
      PROVE  i = l
  BY <1>0, <1>2
<1>3. ASSUME NEW c \in 1 .. Len(list), c # j
      PROVE  \E i \in 1 .. Len(r) : from(i) = c
  <2>1. CASE c < j
    BY <1>0, <2>1
  <2>2. CASE j < c
    <3>1. c - 1 \in 1 .. Len(r) /\ from(c - 1) = c
      BY <1>0, <2>2
    <3> QED
      BY <3>1
  <2> QED
    BY <1>0, <1>3, <2>1, <2>2
<1> HIDE DEF from
<1>4. Apart(r)
  BY <1>1, <1>2 DEF Apart
<1>5. ASSUME NEW p, NEW v, On(r, p, v)
      PROVE  On(list, p, v) /\ p # list[j].who
  BY <1>0, <1>1, <1>5 DEF On, Apart
<1>6. ASSUME NEW p, NEW v, On(list, p, v), p # list[j].who
      PROVE  On(r, p, v)
  <2>1. PICK c \in 1 .. Len(list) : list[c].who = p /\ list[c].val = v
    BY <1>6 DEF On
  <2>2. PICK i \in 1 .. Len(r) : from(i) = c
    BY <1>3, <1>6, <2>1
  <2> QED
    BY <1>1, <2>1, <2>2 DEF On
<1> QED
  BY <1>4, <1>5, <1>6

(* One more process at the end.                                            *)
LEMMA OneMore ==
    ASSUME NEW S, NEW list \in Seq(S), Apart(list), NEW e \in S,
           \A v : ~ On(list, e.who, v)
    PROVE  /\ Apart(Append(list, e))
           /\ \A p, v : On(Append(list, e), p, v) <=>
                 On(list, p, v) \/ (p = e.who /\ v = e.val)
<1> DEFINE m == Append(list, e)
<1>1. Len(list) \in Nat /\ Len(m) = Len(list) + 1 /\ m[Len(list) + 1] = e
  BY AppendProperties
<1>2. \A i \in 1 .. Len(list) : m[i] = list[i]
  BY AppendProperties
<1>3. \A i \in 1 .. Len(list) : list[i].who # e.who
  BY DEF On
<1> HIDE DEF m
<1>4. Apart(m)
  <2> SUFFICES ASSUME NEW i \in 1 .. Len(m), NEW l \in 1 .. Len(m), m[i].who = m[l].who
               PROVE  i = l
    BY DEF Apart
  <2>1. i \in 1 .. Len(list) \/ i = Len(list) + 1
    BY <1>1
  <2>2. l \in 1 .. Len(list) \/ l = Len(list) + 1
    BY <1>1
  <2> QED
    BY <1>1, <1>2, <1>3, <2>1, <2>2 DEF Apart
<1>5. ASSUME NEW p, NEW v, On(m, p, v)
      PROVE  On(list, p, v) \/ (p = e.who /\ v = e.val)
  <2>1. PICK i \in 1 .. Len(m) : m[i].who = p /\ m[i].val = v
    BY <1>5 DEF On
  <2>2. i \in 1 .. Len(list) \/ i = Len(list) + 1
    BY <1>1
  <2> QED
    BY <1>1, <1>2, <2>1, <2>2 DEF On
<1>6. ASSUME NEW p, NEW v, On(list, p, v) PROVE On(m, p, v)
  <2>1. 1 .. Len(list) \subseteq 1 .. Len(m)
    BY <1>1
  <2> QED
    BY <1>2, <1>6, <2>1 DEF On
<1>7. On(m, e.who, e.val)
  BY <1>1 DEF On
<1> QED
  BY <1>4, <1>5, <1>6, <1>7 DEF m

-----------------------------------------------------------------------------
(* Which process a semaphore's update wakes on each of its lists.          *)
Wakes(s, z, p) ==
    IF z THEN ZeroServed(s) /\ p = s.zlist[1].who
    ELSE FirstServed(s) # 0 /\ p = s.nlist[FirstServed(s)].who

LEMMA WakesListed ==
    ASSUME NEW s \in Semaphore, ~ Overrun(s)
    PROVE  /\ \A p : p \in WokenBy(s) <=> \E z \in BOOLEAN : Wakes(s, z, p)
           /\ \A z \in BOOLEAN : \A p : Wakes(s, z, p) =>
                 p \in Procs /\ \E v \in Nat : On(Listed(s, z), p, v)
<1>1. ASSUME NEW p PROVE p \in WokenBy(s) <=> \E z \in BOOLEAN : Wakes(s, z, p)
  <2>1. Wakes(s, TRUE, p) <=> ZeroServed(s) /\ p = s.zlist[1].who
    BY DEF Wakes
  <2>2. Wakes(s, FALSE, p) <=> FirstServed(s) # 0 /\ p = s.nlist[FirstServed(s)].who
    BY DEF Wakes
  <2> QED
    BY <2>1, <2>2, WokenProcs
<1>2. ASSUME NEW z \in BOOLEAN, NEW p, Wakes(s, z, p)
      PROVE  p \in Procs /\ \E v \in Nat : On(Listed(s, z), p, v)
  <2>1. PICK j \in 1 .. Len(Listed(s, z)) : Listed(s, z)[j].who = p
    <3>1. CASE z
      <4>1. 1 \in 1 .. Len(s.zlist) /\ p = s.zlist[1].who
        BY <1>2, <3>1, WokenProcs DEF Wakes
      <4> QED
        BY <3>1, <4>1 DEF Listed
    <3>2. CASE ~ z
      <4>1. FirstServed(s) \in 1 .. Len(s.nlist) /\ p = s.nlist[FirstServed(s)].who
        <5>1. s.nlist \in Seq(UnitWaiter)
          BY DEF Semaphore
        <5>2. Len(s.nlist) \in Nat
          BY <5>1
        <5> QED
          BY <1>2, <3>2, <5>2, FirstServedIn DEF Wakes
      <4> QED
        BY <3>2, <4>1 DEF Listed
    <3> QED
      BY <3>1, <3>2
  <2>2. Listed(s, z)[j].who \in Procs /\ Listed(s, z)[j].val \in Nat
    BY ListTypes
  <2> QED
    BY <2>1, <2>2 DEF On
<1> QED
  BY <1>1, <1>2

LEMMA UpdateLists ==
    ASSUME NEW s \in Semaphore, ~ Overrun(s), NEW z \in BOOLEAN, Apart(Listed(s, z)),
           NEW u, u = update_one(s)
    PROVE  /\ Apart(Listed(u, z))
           /\ \A p, v : On(Listed(u, z), p, v) <=> On(Listed(s, z), p, v) /\ ~ Wakes(s, z, p)
<1>1. Len(Listed(s, z)) \in Nat
  BY ListTypes
<1>2. CASE z
  <2>1. CASE ZeroServed(s)
    <3>1. s.zlist \in Seq(ZeroWaiter) /\ s.zlist # <<>> /\ u.zlist = Tail(s.zlist)
      BY <2>1, OneUpdated, WokenProcs
    <3>2. OneLess(s.zlist, 1, u.zlist)
      BY <3>1 DEF OneLess
    <3>3. Listed(s, z) = s.zlist /\ Listed(u, z) = u.zlist
      BY <1>2 DEF Listed
    <3>4. \A p : Wakes(s, z, p) <=> p = s.zlist[1].who
      BY <1>2, <2>1 DEF Wakes
    <3> QED
      BY <1>1, <3>2, <3>3, <3>4, OneOut
  <2>2. CASE ~ ZeroServed(s)
    <3>1. Listed(u, z) = Listed(s, z)
      BY <1>2, <2>2, OneUpdated DEF Listed
    <3>2. \A p : ~ Wakes(s, z, p)
      BY <1>2, <2>2 DEF Wakes
    <3> QED
      BY <3>1, <3>2
  <2> QED
    BY <2>1, <2>2
<1>3. CASE ~ z
  <2>1. CASE FirstServed(s) # 0
    <3>1. s.nlist \in Seq(UnitWaiter) /\ Len(s.nlist) \in Nat
      BY DEF Semaphore
    <3>2. FirstServed(s) \in 1 .. Len(s.nlist) /\ u.nlist = RemoveAt(s.nlist, FirstServed(s))
      BY <2>1, <3>1, OneUpdated, FirstServedIn
    <3>3. OneLess(s.nlist, FirstServed(s), u.nlist)
      BY <3>1, <3>2, Removed DEF OneLess
    <3>4. Listed(s, z) = s.nlist /\ Listed(u, z) = u.nlist
      BY <1>3 DEF Listed
    <3>5. \A p : Wakes(s, z, p) <=> p = s.nlist[FirstServed(s)].who
      BY <1>3, <2>1 DEF Wakes
    <3> QED
      BY <1>1, <3>3, <3>4, <3>5, OneOut
  <2>2. CASE FirstServed(s) = 0
    <3>1. Listed(u, z) = Listed(s, z)
      BY <1>3, <2>2, OneUpdated DEF Listed
    <3>2. \A p : ~ Wakes(s, z, p)
      BY <1>3, <2>2 DEF Wakes
    <3> QED
      BY <3>1, <3>2
  <2> QED
    BY <2>1, <2>2
<1> QED
  BY <1>2, <1>3

(* VM's report takes the process off the list.                             *)
LEMMA LeaveList ==
    ASSUME NEW S, NEW list \in Seq(S), Apart(list), NEW q
    PROVE  /\ Apart(Without(list, q))
           /\ \A p, v : On(Without(list, q), p, v) <=> On(list, p, v) /\ p # q
<1>1. CASE Without(list, q) = list /\ \A j \in 1 .. Len(list) : list[j].who # q
  BY <1>1 DEF On
<1>2. CASE \E j \in 1 .. Len(list) : list[j].who = q /\ Without(list, q) = RemoveAt(list, j)
  <2>1. PICK j \in 1 .. Len(list) : list[j].who = q /\ Without(list, q) = RemoveAt(list, j)
    BY <1>2
  <2>2. OneLess(list, j, Without(list, q))
    BY <2>1, Removed DEF OneLess
  <2>3. Len(list) \in Nat
    OBVIOUS
  <2> QED
    BY <2>1, <2>2, <2>3, OneOut
<1> QED
  BY <1>1, <1>2, LeftList

-----------------------------------------------------------------------------
(* What the lists satisfy between two calls, when VM is to report the      *)
(* processes in a.                                                         *)
Called(c, id, n, v) == c.st = "wait" /\ c.call.id = id /\ c.call.num = n /\ c.call.op = -v

Dying(c) == c.st \in {"exiting", "gone"}

Once(k) ==
    \A i \in 1 .. Len(k.sem) : \A n \in 1 .. Len(k.sem[i].sems), z \in BOOLEAN :
        Apart(Listed(k.sem[i].sems[n], z))

(* Who is on a list made that call, or died and is to be reported.         *)
Entered(k, a) ==
    \A i \in 1 .. Len(k.sem) : \A n \in 1 .. Len(k.sem[i].sems), z \in BOOLEAN :
        \A p \in Procs, v \in Nat : On(Listed(k.sem[i].sems[n], z), p, v) =>
            \/ Called(k.client[p], k.sem[i].id, n, v)
            \/ Dying(k.client[p]) /\ p \in a

(* Who waits is on a list.                                                 *)
Remembered(k) ==
    \A p \in Procs : k.client[p].st = "wait" =>
        \E i \in 1 .. Len(k.sem) : \E n \in 1 .. Len(k.sem[i].sems), z \in BOOLEAN, v \in Nat :
            On(Listed(k.sem[i].sems[n], z), p, v)

Waits(k, a) == Once(k) /\ Entered(k, a) /\ Remembered(k)

(* Values and history; an id that was not yet given out has no history.    *)
Alive(k) == \A p \in Procs : k.client[p].st \in {"run", "wait", "unborn"}

Counted(k) ==
    \A i \in 1 .. Len(k.sem) : \A n \in 1 .. Len(k.sem[i].sems) :
        /\ k.sem[i].sems[n].semval <= k.ledger[k.sem[i].id][n]
        /\ Alive(k) => k.sem[i].sems[n].semval = k.ledger[k.sem[i].id][n]

Fresh(k) == \A id \in Ids, n \in 1 .. SEMMSL : id >= k.ident => k.ledger[id][n] = 0

Units(k) == Counted(k) /\ Fresh(k)

(* The value on a list tells which list it is.                             *)
LEMMA OneKind ==
    ASSUME NEW s \in Semaphore, NEW t \in Semaphore, NEW z \in BOOLEAN, NEW y \in BOOLEAN,
           NEW p, NEW v, On(Listed(s, z), p, v), NEW q, On(Listed(t, y), q, v)
    PROVE  z = y
<1>1. PICK j \in 1 .. Len(Listed(s, z)) : Listed(s, z)[j].val = v
  BY DEF On
<1>2. PICK l \in 1 .. Len(Listed(t, y)) : Listed(t, y)[l].val = v
  BY DEF On
<1>3. z <=> v = 0
  BY <1>1, ListTypes
<1>4. y <=> v = 0
  BY <1>2, ListTypes
<1> QED
  BY <1>3, <1>4

(* Who is woken anywhere waits on a list that is served.                   *)
LEMMA WokenWhere ==
    ASSUME NEW k \in Memory, NEW r, Served(k, r), NEW p
    PROVE  p \in Woken(k) <=>
              \E i \in 1 .. Len(k.sem) : \E n \in 1 .. Len(k.sem[i].sems), z \in BOOLEAN :
                 Wakes(k.sem[i].sems[n], z, p)
<1>1. ASSUME NEW i \in 1 .. Len(k.sem), NEW n \in 1 .. Len(k.sem[i].sems)
      PROVE  /\ k.sem[i].sems[n] \in Semaphore /\ ~ Overrun(k.sem[i].sems[n])
             /\ p \in WokenBy(k.sem[i].sems[n]) <=>
                   \E z \in BOOLEAN : Wakes(k.sem[i].sems[n], z, p)
  <2>1. k.sem[i].sems[n] \in Semaphore
    BY Sems
  <2>2. ~ Overrun(k.sem[i].sems[n])
    BY DEF Served
  <2> QED
    BY <2>1, <2>2, WakesListed
<1>2. p \in Woken(k) <=>
         \E i \in 1 .. Len(k.sem) : \E n \in 1 .. Len(k.sem[i].sems) :
            p \in WokenBy(k.sem[i].sems[n])
  <2>1. p \in Woken(k) <=> \E s \in Every(k) : p \in WokenBy(s)
    BY DEF Woken
  <2>2. \A s : s \in Every(k) <=> \E i \in 1 .. Len(k.sem) :
           \E n \in 1 .. Len(k.sem[i].sems) : s = k.sem[i].sems[n]
    BY EveryIs
  <2> QED
    BY <2>1, <2>2, Zenon
<1> QED
  BY <1>1, <1>2

(* A waiting process is woken exactly where it waits.                      *)
LEMMA WokenHere ==
    ASSUME NEW k, Good(k), NEW a, Waits(k, a), NEW r, Served(k, r),
           NEW i \in 1 .. Len(k.sem), NEW n \in 1 .. Len(k.sem[i].sems), NEW z \in BOOLEAN,
           NEW p \in Procs, NEW v \in Nat, k.client[p].st = "wait",
           On(Listed(k.sem[i].sems[n], z), p, v), p \in Woken(k)
    PROVE  Wakes(k.sem[i].sems[n], z, p)
<1>0. k \in Memory
  BY DEF Good
<1>1. PICK j \in 1 .. Len(k.sem) : \E m \in 1 .. Len(k.sem[j].sems), y \in BOOLEAN :
         Wakes(k.sem[j].sems[m], y, p)
  BY <1>0, WokenWhere
<1>2. PICK m \in 1 .. Len(k.sem[j].sems), y \in BOOLEAN : Wakes(k.sem[j].sems[m], y, p)
  BY <1>1
<1>3. k.sem[j].sems[m] \in Semaphore /\ ~ Overrun(k.sem[j].sems[m])
  BY <1>0, Sems DEF Served
<1>4. PICK w \in Nat : On(Listed(k.sem[j].sems[m], y), p, w)
  BY <1>2, <1>3, WakesListed
<1>5. Called(k.client[p], k.sem[i].id, n, v) /\ Called(k.client[p], k.sem[j].id, m, w)
  BY <1>4 DEF Waits, Entered, Dying
<1>6. i = j
  BY <1>5 DEF Called, Good, Unique
<1>7. n = m /\ v = w
  BY <1>5 DEF Called
<1>8. z = y
  BY <1>3, <1>4, <1>6, <1>7, OneKind
<1> QED
  BY <1>2, <1>6, <1>7, <1>8

(* update_semaphores: the lists.                                           *)
LEMMA UpdateWaits ==
    ASSUME NEW k, Good(k), NEW a, Waits(k, a), NEW r, r \in Memory, SameSets(k, r), Served(k, r)
    PROVE  Waits(r, a)
<1>0. k \in Memory /\ Len(r.sem) = Len(k.sem)
  BY DEF Good, SameSets
<1>1. ASSUME NEW i \in 1 .. Len(k.sem), NEW n \in 1 .. Len(k.sem[i].sems), NEW z \in BOOLEAN
      PROVE  /\ Apart(Listed(r.sem[i].sems[n], z))
             /\ \A p, v : On(Listed(r.sem[i].sems[n], z), p, v) <=>
                   /\ On(Listed(k.sem[i].sems[n], z), p, v)
                   /\ ~ Wakes(k.sem[i].sems[n], z, p)
  <2>1. k.sem[i].sems[n] \in Semaphore /\ ~ Overrun(k.sem[i].sems[n])
    BY <1>0, Sems DEF Served
  <2>2. Apart(Listed(k.sem[i].sems[n], z))
    BY DEF Waits, Once
  <2>3. r.sem[i].sems[n] = update_one(k.sem[i].sems[n])
    BY DEF Served
  <2> QED
    BY <2>1, <2>2, <2>3, UpdateLists
<1>2. \A i \in 1 .. Len(k.sem) :
         r.sem[i].id = k.sem[i].id /\ Len(r.sem[i].sems) = Len(k.sem[i].sems)
  BY DEF SameSets
<1>3. \A p \in Procs : r.client[p] =
         IF p \in Woken(k) /\ k.client[p].st = "wait" THEN Client("run") ELSE k.client[p]
  BY DEF Served
<1>4. Once(r)
  BY <1>0, <1>1, <1>2 DEF Once
<1>5. Entered(r, a)
  <2> SUFFICES ASSUME NEW i \in 1 .. Len(k.sem), NEW n \in 1 .. Len(k.sem[i].sems),
                      NEW z \in BOOLEAN, NEW p \in Procs, NEW v \in Nat,
                      On(Listed(r.sem[i].sems[n], z), p, v)
               PROVE  \/ Called(r.client[p], k.sem[i].id, n, v)
                      \/ Dying(r.client[p]) /\ p \in a
    BY <1>0, <1>2 DEF Entered
  <2>1. On(Listed(k.sem[i].sems[n], z), p, v) /\ ~ Wakes(k.sem[i].sems[n], z, p)
    BY <1>1
  <2>2. CASE Called(k.client[p], k.sem[i].id, n, v)
    <3>1. k.client[p].st = "wait"
      BY <2>2 DEF Called
    <3>2. p \notin Woken(k)
      BY <2>1, <3>1, WokenHere
    <3> QED
      BY <1>3, <2>2, <3>2
  <2>3. CASE Dying(k.client[p]) /\ p \in a
    BY <1>3, <2>3 DEF Dying
  <2> QED
    BY <2>1, <2>2, <2>3 DEF Waits, Entered
<1>6. Remembered(r)
  <2> SUFFICES ASSUME NEW p \in Procs, r.client[p].st = "wait"
               PROVE  \E i \in 1 .. Len(k.sem) :
                         \E n \in 1 .. Len(k.sem[i].sems), z \in BOOLEAN, v \in Nat :
                            On(Listed(r.sem[i].sems[n], z), p, v)
    BY <1>0, <1>2 DEF Remembered
  <2>1. k.client[p].st = "wait" /\ p \notin Woken(k)
    BY <1>3 DEF Client
  <2>2. PICK i \in 1 .. Len(k.sem) :
           \E n \in 1 .. Len(k.sem[i].sems), z \in BOOLEAN, v \in Nat :
              On(Listed(k.sem[i].sems[n], z), p, v)
    BY <2>1 DEF Waits, Remembered
  <2>3. PICK n \in 1 .. Len(k.sem[i].sems), z \in BOOLEAN, v \in Nat :
           On(Listed(k.sem[i].sems[n], z), p, v)
    BY <2>2
  <2>4. ~ Wakes(k.sem[i].sems[n], z, p)
    BY <1>0, <2>1, WokenWhere
  <2> QED
    BY <1>1, <2>3, <2>4, ZenonT(40)
<1> QED
  BY <1>4, <1>5, <1>6 DEF Waits

-----------------------------------------------------------------------------
(* update_semaphores: the units.                                           *)

(* Whoever is told of semaphore n of set i waits on one of its lists.      *)
LEMMA ToldHere ==
    ASSUME NEW k, Good(k), NEW a, Waits(k, a), NEW r, Served(k, r),
           NEW i \in 1 .. Len(k.sem), NEW n \in 1 .. Len(k.sem[i].sems),
           NEW p \in Told(k, Woken(k), k.sem[i].id, n)
    PROVE  /\ p \in Procs /\ OpOf(k)[p] = k.client[p].call.op
           /\ \E z \in BOOLEAN, v \in Nat :
                 /\ Wakes(k.sem[i].sems[n], z, p) /\ k.client[p].call.op = -v
                 /\ z <=> v = 0
<1>0. k \in Memory /\ Woken(k) \in SUBSET Procs
  BY DEF Good, Served
<1>1. /\ p \in Procs /\ p \in Woken(k) /\ k.client[p].st = "wait"
      /\ k.client[p].call.id = k.sem[i].id /\ k.client[p].call.num = n
  BY <1>0 DEF Told
<1>2. PICK j \in 1 .. Len(k.sem) : \E m \in 1 .. Len(k.sem[j].sems), z \in BOOLEAN, v \in Nat :
         On(Listed(k.sem[j].sems[m], z), p, v)
  BY <1>1 DEF Waits, Remembered
<1>3. PICK m \in 1 .. Len(k.sem[j].sems), z \in BOOLEAN, v \in Nat :
         On(Listed(k.sem[j].sems[m], z), p, v)
  BY <1>2
<1>4. Called(k.client[p], k.sem[j].id, m, v)
  BY <1>1, <1>3 DEF Waits, Entered, Dying
<1>5. j = i /\ m = n
  BY <1>1, <1>4 DEF Called, Good, Unique
<1>6. Wakes(k.sem[i].sems[n], z, p)
  BY <1>1, <1>3, <1>5, WokenHere
<1>7. z <=> v = 0
  <2>1. k.sem[j].sems[m] \in Semaphore
    BY <1>0, Sems
  <2>2. PICK l \in 1 .. Len(Listed(k.sem[j].sems[m], z)) : Listed(k.sem[j].sems[m], z)[l].val = v
    BY <1>3 DEF On
  <2> QED
    BY <2>1, <2>2, ListTypes
<1>8. k.client[p].call.op = -v
  BY <1>4 DEF Called
<1> QED
  BY <1>1, <1>6, <1>7, <1>8 DEF OpOf

(* The numbers of semaphore n of set i.                                    *)
LEMMA Numbers ==
    ASSUME NEW k, Good(k), NEW i \in 1 .. Len(k.sem), NEW n \in 1 .. Len(k.sem[i].sems)
    PROVE  /\ k.sem[i].id \in Ids /\ n \in 1 .. SEMMSL
           /\ k.ledger[k.sem[i].id][n] \in Int /\ k.sem[i].sems[n].semval \in Nat
<1>0. k \in Memory
  BY DEF Good
<1>1. k.sem[i] \in SemSet /\ k.sem[i].sems[n] \in Semaphore /\ Len(k.sem[i].sems) \in Nat
  BY <1>0, Sems
<1>2. Len(k.sem[i].sems) < SEMMSL /\ SEMMSL \in Nat
  BY Constants DEF Good, Room
<1>3. n \in 1 .. SEMMSL
  BY <1>1, <1>2
<1>4. k.sem[i].id \in Ids
  BY <1>1 DEF SemSet
<1>5. k.ledger \in [Ids -> [1 .. SEMMSL -> Int]]
  BY <1>0, MemoryFields
<1>6. k.sem[i].sems[n].semval \in Nat
  BY <1>1, Constants DEF Semaphore
<1> QED
  BY <1>3, <1>4, <1>5, <1>6

(* What the history of semaphore n of set i gains: the units of the one    *)
(* process that gets some, if it still waits for the answer.               *)
Gains(k, r, id, n, s, f) ==
    /\ f = 0 => r.ledger[id][n] = k.ledger[id][n]
    /\ f # 0 =>
          /\ s.nlist[f].who \in Procs /\ s.nlist[f].val \in Nat
          /\ \/ /\ k.client[s.nlist[f].who].st = "wait"
                /\ r.ledger[id][n] = k.ledger[id][n] - s.nlist[f].val
             \/ /\ Dying(k.client[s.nlist[f].who])
                /\ r.ledger[id][n] = k.ledger[id][n]

LEMMA Gained ==
    ASSUME NEW k, Good(k), NEW a, Waits(k, a), NEW r, Served(k, r),
           NEW i \in 1 .. Len(k.sem), NEW n \in 1 .. Len(k.sem[i].sems)
    PROVE  Gains(k, r, k.sem[i].id, n, k.sem[i].sems[n], FirstServed(k.sem[i].sems[n]))
<1> PICK s, f : s = k.sem[i].sems[n] /\ f = FirstServed(s)
  OBVIOUS
<1> SUFFICES Gains(k, r, k.sem[i].id, n, s, f)
  OBVIOUS
<1>0. k \in Memory /\ Woken(k) \in SUBSET Procs
  BY DEF Good, Served
<1>1. s \in Semaphore /\ ~ Overrun(s)
  BY <1>0, Sems DEF Served
<1>2. k.sem[i].id \in Ids /\ n \in 1 .. SEMMSL /\ k.ledger[k.sem[i].id][n] \in Int
  BY Numbers
<1>3. PICK id, T : id = k.sem[i].id /\ T = Told(k, Woken(k), id, n)
  OBVIOUS
<1>4. PICK g : Adding(OpOf(k), T, g) /\ r.ledger[id][n] = k.ledger[id][n] + g[T]
  BY <1>2, <1>3 DEF Served
<1>5. IsFiniteSet(T) /\ T \in SUBSET Procs
  <2>1. T \in SUBSET Procs
    BY <1>0, <1>3 DEF Told
  <2>2. IsFiniteSet(Procs)
    BY IPCAssumption
  <2> QED
    BY <2>1, <2>2, FS_Subset
<1>6. k.ledger[id][n] \in Int
  BY <1>2, <1>3
<1>7. ASSUME NEW p \in T
      PROVE  /\ OpOf(k)[p] \in Int
             /\ \/ OpOf(k)[p] = 0
                \/ f # 0 /\ p = s.nlist[f].who
  <2>1. PICK z \in BOOLEAN, v \in Nat :
           Wakes(s, z, p) /\ OpOf(k)[p] = -v /\ (z <=> v = 0)
    <3>1. p \in Told(k, Woken(k), k.sem[i].id, n)
      BY <1>3
    <3>2. /\ OpOf(k)[p] = k.client[p].call.op
          /\ \E z \in BOOLEAN, v \in Nat :
                /\ Wakes(k.sem[i].sems[n], z, p) /\ k.client[p].call.op = -v
                /\ z <=> v = 0
      BY <3>1, ToldHere
    <3> QED
      BY <3>2
  <2> QED
    BY <2>1 DEF Wakes
<1>8. CASE f = 0
  <2>1. \A p \in T : OpOf(k)[p] \in Int /\ (p # 0 => OpOf(k)[p] = 0)
    BY <1>7, <1>8
  <2>2. g[T] = IF 0 \in T THEN OpOf(k)[0] ELSE 0
    BY <1>4, <1>5, <2>1, SumOfOne
  <2>3. g[T] = 0
    BY <1>7, <1>8, <2>2
  <2> QED
    BY <1>3, <1>4, <1>6, <1>8, <2>3 DEF Gains
<1>9. CASE f # 0
  <2>1. PICK q, v : q = s.nlist[f].who /\ v = s.nlist[f].val
    OBVIOUS
  <2>2. f \in 1 .. Len(s.nlist) /\ s.nlist = Listed(s, FALSE)
    <3>1. Len(s.nlist) \in Nat
      BY <1>1 DEF Semaphore
    <3> QED
      BY <1>1, <1>9, <3>1, FirstServedIn DEF Listed
  <2>3. q \in Procs /\ v \in Nat /\ On(Listed(s, FALSE), q, v)
    BY <1>1, <2>1, <2>2, ListTypes DEF On
  <2>4. q \in Woken(k)
    <3>1. Wakes(s, FALSE, q)
      BY <1>9, <2>1 DEF Wakes
    <3> QED
      BY <1>0, <3>1, WokenWhere
  <2>5. g[T] = IF q \in T THEN OpOf(k)[q] ELSE 0
    <3>1. \A p \in T : OpOf(k)[p] \in Int /\ (p # q => OpOf(k)[p] = 0)
      BY <1>7, <2>1
    <3> QED
      BY <1>4, <1>5, <3>1, SumOfOne
  <2>6. CASE Called(k.client[q], id, n, v)
    <3>1. k.client[q].st = "wait" /\ q \in T
      BY <1>3, <2>4, <2>6 DEF Called, Told
    <3>2. OpOf(k)[q] = -v
      BY <2>3, <2>6 DEF Called, OpOf
    <3>3. r.ledger[id][n] = k.ledger[id][n] - v
      BY <1>4, <1>6, <2>3, <2>5, <3>1, <3>2
    <3> QED
      BY <1>3, <1>9, <2>1, <2>3, <3>1, <3>3 DEF Gains
  <2>7. CASE Dying(k.client[q])
    <3>1. q \notin T
      BY <1>3, <2>7 DEF Dying, Told
    <3>2. r.ledger[id][n] = k.ledger[id][n]
      BY <1>4, <1>6, <2>5, <3>1
    <3> QED
      BY <1>3, <1>9, <2>1, <2>3, <2>7, <3>2 DEF Gains
  <2> QED
    BY <1>3, <2>3, <2>6, <2>7 DEF Waits, Entered
<1> QED
  BY <1>8, <1>9

LEMMA UpdateUnits ==
    ASSUME NEW k, Good(k), NEW a, Waits(k, a), Units(k),
           NEW r, r \in Memory, SameSets(k, r), Served(k, r)
    PROVE  Units(r)
<1>0. k \in Memory /\ Len(r.sem) = Len(k.sem) /\ r.ident = k.ident
  BY DEF Good, SameSets
<1>1. \A p \in Procs : r.client[p] =
         IF p \in Woken(k) /\ k.client[p].st = "wait" THEN Client("run") ELSE k.client[p]
  BY DEF Served
<1>2. Alive(r) => Alive(k)
  BY <1>1 DEF Alive
<1>3. Counted(r)
  <2> SUFFICES ASSUME NEW i \in 1 .. Len(k.sem), NEW n \in 1 .. Len(k.sem[i].sems)
               PROVE  /\ r.sem[i].sems[n].semval <= r.ledger[k.sem[i].id][n]
                      /\ Alive(k) => r.sem[i].sems[n].semval = r.ledger[k.sem[i].id][n]
    <3>1. \A i \in 1 .. Len(k.sem) :
             r.sem[i].id = k.sem[i].id /\ Len(r.sem[i].sems) = Len(k.sem[i].sems)
      BY DEF SameSets
    <3> QED
      BY <1>0, <1>2, <3>1, ZenonT(40) DEF Counted
  <2>1. PICK s, f, id : s = k.sem[i].sems[n] /\ f = FirstServed(s) /\ id = k.sem[i].id
    OBVIOUS
  <2>0. Gains(k, r, id, n, s, f)
    BY <2>1, Gained
  <2>2. s \in Semaphore /\ ~ Overrun(s) /\ r.sem[i].sems[n] = update_one(s)
    BY <1>0, <2>1, Sems DEF Served
  <2>3. s.semval \in Int /\ k.ledger[id][n] \in Int
    BY <2>1, Numbers
  <2>4. s.semval <= k.ledger[id][n] /\ (Alive(k) => s.semval = k.ledger[id][n])
    BY <2>1 DEF Units, Counted
  <2>5. CASE f = 0
    <3>1. r.sem[i].sems[n].semval = s.semval
      BY <2>1, <2>2, <2>5, OneUpdated, ZenonT(40)
    <3>2. r.ledger[id][n] = k.ledger[id][n]
      BY <2>0, <2>5 DEF Gains
    <3> QED
      BY <2>1, <2>4, <3>1, <3>2
  <2>6. CASE f # 0
    <3>1. PICK q, v : q = s.nlist[f].who /\ v = s.nlist[f].val
      OBVIOUS
    <3>2. r.sem[i].sems[n].semval = s.semval - v
      BY <2>1, <2>2, <2>6, <3>1, OneUpdated
    <3>3. q \in Procs /\ v \in Nat
      BY <2>0, <2>6, <3>1 DEF Gains
    <3>4. \/ k.client[q].st = "wait" /\ r.ledger[id][n] = k.ledger[id][n] - v
          \/ Dying(k.client[q]) /\ r.ledger[id][n] = k.ledger[id][n]
      BY <2>0, <2>6, <3>1 DEF Gains
    <3>5. Alive(k) => ~ Dying(k.client[q])
      BY <3>3 DEF Alive, Dying
    <3>6. r.sem[i].sems[n].semval <= r.ledger[id][n]
      BY <2>3, <2>4, <3>2, <3>3, <3>4
    <3>7. Alive(k) => r.sem[i].sems[n].semval = r.ledger[id][n]
      BY <2>3, <2>4, <3>2, <3>3, <3>4, <3>5
    <3> QED
      BY <2>1, <3>6, <3>7
  <2> QED
    BY <2>5, <2>6
<1>4. Fresh(r)
  <2> SUFFICES ASSUME NEW id \in Ids, NEW n \in 1 .. SEMMSL, id >= k.ident
               PROVE  r.ledger[id][n] = 0
    BY <1>0 DEF Fresh
  <2>1. PICK T : T = Told(k, Woken(k), id, n)
    OBVIOUS
  <2>2. PICK g : Adding(OpOf(k), T, g) /\ r.ledger[id][n] = k.ledger[id][n] + g[T]
    BY <2>1 DEF Served
  <2>3. T = {}
    <3> SUFFICES ASSUME NEW p \in T PROVE FALSE
      OBVIOUS
    <3>1. p \in Procs /\ k.client[p].st = "wait" /\ k.client[p].call.id = id
      BY <2>1 DEF Told, Served
    <3>2. PICK j \in 1 .. Len(k.sem) :
             \E m \in 1 .. Len(k.sem[j].sems), z \in BOOLEAN, v \in Nat :
                On(Listed(k.sem[j].sems[m], z), p, v)
      BY <3>1 DEF Waits, Remembered
    <3>3. k.sem[j].id = id
      BY <3>1, <3>2 DEF Waits, Entered, Dying, Called
    <3>4. k.sem[j].id < k.ident /\ k.ident \in Nat /\ id \in Nat
      BY <1>0, MemoryFields, Constants DEF Good, Unique
    <3> QED
      BY <3>3, <3>4
  <2>4. g[T] = 0
    <3>1. IsFiniteSet(T)
      BY <2>3, FS_EmptySet
    <3>2. \A p \in T : OpOf(k)[p] \in Int /\ (p # 0 => OpOf(k)[p] = 0)
      BY <2>3
    <3>3. g[T] = IF 0 \in T THEN OpOf(k)[0] ELSE 0
      BY <2>2, <3>1, <3>2, SumOfOne
    <3> QED
      BY <2>3, <3>3
  <2>5. k.ledger[id][n] = 0
    BY DEF Units, Fresh
  <2> QED
    BY <2>2, <2>4, <2>5
<1> QED
  BY <1>3, <1>4 DEF Units

(* After update_semaphores, whether it ends or not.                        *)
LEMMA UpdateKeeps ==
    ASSUME NEW k, Good(k), NEW a, Waits(k, a), Units(k), NEW r, r = update_semaphores(k)
    PROVE  Waits(r, a) /\ Units(r)
<1>1. r \in Memory /\ SameSets(k, r) /\ (Served(k, r) \/ Stopped(k, r))
  BY Updated DEF Good
<1>2. CASE Served(k, r)
  BY <1>1, <1>2, UpdateWaits, UpdateUnits
<1>3. CASE Stopped(k, r)
  <2>1. r.sem = k.sem /\ r.client = k.client /\ r.ledger = k.ledger /\ r.ident = k.ident
    BY <1>1, <1>3 DEF Stopped, SameSets
  <2>2. Waits(r, a)
    BY <2>1, ZenonT(40) DEF Waits, Once, Entered, Remembered
  <2>3. Units(r)
    BY <2>1 DEF Units, Counted, Fresh, Alive
  <2> QED
    BY <2>2, <2>3
<1> QED
  BY <1>1, <1>2, <1>3

-----------------------------------------------------------------------------
(* The calls.                                                              *)

(* Lists and callers are left alone.                                       *)
LEMMA SameLists ==
    ASSUME NEW k, NEW a, Waits(k, a), NEW r, SameSets(k, r), r.client = k.client,
           \A i \in 1 .. Len(k.sem) : \A n \in 1 .. Len(k.sem[i].sems), z \in BOOLEAN :
              Listed(r.sem[i].sems[n], z) = Listed(k.sem[i].sems[n], z)
    PROVE  Waits(r, a)
<1>1. /\ Len(r.sem) = Len(k.sem)
      /\ \A i \in 1 .. Len(k.sem) :
            r.sem[i].id = k.sem[i].id /\ Len(r.sem[i].sems) = Len(k.sem[i].sems)
  BY DEF SameSets
<1>2. Once(r)
  BY <1>1, SMTT(30) DEF Waits, Once
<1>3. Entered(r, a)
  BY <1>1, ZenonT(40) DEF Waits, Entered
<1>4. Remembered(r)
  <2> SUFFICES ASSUME NEW p \in Procs, r.client[p].st = "wait"
               PROVE  \E i \in 1 .. Len(k.sem) :
                         \E n \in 1 .. Len(k.sem[i].sems), z \in BOOLEAN, v \in Nat :
                            On(Listed(r.sem[i].sems[n], z), p, v)
    BY <1>1 DEF Remembered
  <2>1. PICK i \in 1 .. Len(k.sem) :
           \E n \in 1 .. Len(k.sem[i].sems), z \in BOOLEAN, v \in Nat :
              On(Listed(k.sem[i].sems[n], z), p, v)
    BY DEF Waits, Remembered
  <2> QED
    BY <2>1
<1> QED
  BY <1>2, <1>3, <1>4 DEF Waits

(* A semaphore's value changes with its history, or is set to it.          *)
Revalued(s, t, h, l) ==
    /\ \A z \in BOOLEAN : Listed(t, z) = Listed(s, z)
    /\ \/ t.semval = l
       \/ \E d \in Int : t.semval = s.semval + d /\ l = h + d

SetRevalued(k, i, q, l) ==
    /\ \A n \in 1 .. Len(k.sem[i].sems) :
          Revalued(k.sem[i].sems[n], q[n], k.ledger[k.sem[i].id][n], l[k.sem[i].id][n])
    /\ \A d \in Ids : d # k.sem[i].id => l[d] = k.ledger[d]

LEMMA ValuesWritten ==
    ASSUME NEW k, Good(k), NEW a, Waits(k, a), Units(k), NEW i \in 1 .. Len(k.sem),
           NEW q, NEW l, NEW x, Written(k, x, i, q, l, k.client),
           SetRevalued(k, i, q, l)
    PROVE  Good(x) /\ Waits(x, a) /\ Units(x)
<1> PICK id : id = k.sem[i].id
  OBVIOUS
<1>0. /\ \A n \in 1 .. Len(k.sem[i].sems) :
            Revalued(k.sem[i].sems[n], q[n], k.ledger[id][n], l[id][n])
      /\ \A d \in Ids : d # id => l[d] = k.ledger[d]
  BY DEF SetRevalued
<1>1. /\ x \in Memory /\ SameSets(k, x) /\ x.sem[i].sems = q /\ x.ledger = l
      /\ x.client = k.client /\ \A j \in 1 .. Len(k.sem) : j # i => x.sem[j] = k.sem[j]
  BY DEF Written
<1>2. Good(x)
  BY <1>1, GoodSame
<1>3. ASSUME NEW j \in 1 .. Len(k.sem), NEW n \in 1 .. Len(k.sem[j].sems), NEW z \in BOOLEAN
      PROVE  Listed(x.sem[j].sems[n], z) = Listed(k.sem[j].sems[n], z)
  <2>1. CASE j = i
    BY <1>0, <1>1, <2>1 DEF Revalued
  <2>2. CASE j # i
    BY <1>1, <2>2
  <2> QED
    BY <2>1, <2>2
<1>4. Waits(x, a)
  BY <1>1, <1>3, SameLists
<1>5. /\ Len(x.sem) = Len(k.sem) /\ x.ident = k.ident
      /\ \A j \in 1 .. Len(k.sem) :
            x.sem[j].id = k.sem[j].id /\ Len(x.sem[j].sems) = Len(k.sem[j].sems)
  BY <1>1 DEF SameSets
<1>6. Alive(x) <=> Alive(k)
  BY <1>1 DEF Alive
<1>7. Counted(x)
  <2> SUFFICES ASSUME NEW j \in 1 .. Len(k.sem), NEW n \in 1 .. Len(k.sem[j].sems)
               PROVE  /\ x.sem[j].sems[n].semval <= l[k.sem[j].id][n]
                      /\ Alive(k) => x.sem[j].sems[n].semval = l[k.sem[j].id][n]
    BY <1>1, <1>5, <1>6, SMTT(30) DEF Counted
  <2>1. /\ k.sem[j].sems[n].semval <= k.ledger[k.sem[j].id][n]
        /\ Alive(k) => k.sem[j].sems[n].semval = k.ledger[k.sem[j].id][n]
    BY DEF Units, Counted
  <2>2. /\ k.sem[j].id \in Ids
        /\ k.ledger[k.sem[j].id][n] \in Int /\ k.sem[j].sems[n].semval \in Nat
    BY Numbers
  <2>3. CASE j = i
    <3>1. q[n].semval = l[id][n] \/
             \E d \in Int : /\ q[n].semval = k.sem[j].sems[n].semval + d
                            /\ l[id][n] = k.ledger[id][n] + d
      BY <1>0, <2>3 DEF Revalued
    <3>2. x.sem[j].sems[n] = q[n] /\ k.sem[j].id = id
      BY <1>1, <2>3
    <3>3. q[n].semval \in Nat
      <4>1. n \in 1 .. Len(x.sem[j].sems) /\ j \in 1 .. Len(x.sem)
        BY <1>5
      <4> QED
        BY <1>2, <3>2, <4>1, Numbers
    <3>4. CASE q[n].semval = l[id][n]
      BY <3>2, <3>3, <3>4
    <3>5. ASSUME NEW d \in Int, q[n].semval = k.sem[j].sems[n].semval + d,
                 l[id][n] = k.ledger[id][n] + d
          PROVE  /\ q[n].semval <= l[id][n]
                 /\ Alive(k) => q[n].semval = l[id][n]
      <4>1. PICK u, h : u = k.sem[j].sems[n].semval /\ h = k.ledger[id][n]
        OBVIOUS
      <4>2. u \in Int /\ h \in Int /\ u <= h /\ (Alive(k) => u = h)
        BY <2>1, <2>2, <3>2, <4>1
      <4>3. q[n].semval = u + d /\ l[id][n] = h + d
        BY <3>5, <4>1
      <4>4. u + d <= h + d
        BY <4>2
      <4> QED
        BY <4>2, <4>3, <4>4
    <3> QED
      BY <3>1, <3>2, <3>4, <3>5
  <2>4. CASE j # i
    <3>1. k.sem[j].id # id
      BY <2>4 DEF Good, Unique
    <3> QED
      BY <1>0, <1>1, <2>1, <2>2, <2>4, <3>1
  <2> QED
    BY <2>3, <2>4
<1>8. Fresh(x)
  <2>1. id < k.ident /\ id \in Nat /\ k.ident \in Nat
    <3>1. id \in Ids /\ k.ident \in Ids
      <4>1. k \in Memory
        BY DEF Good
      <4>2. k.sem[i] \in SemSet
        BY <4>1, Sems
      <4> QED
        BY <4>1, <4>2, MemoryFields DEF SemSet
    <3> QED
      BY <3>1, Constants DEF Good, Unique
  <2>2. ASSUME NEW d \in Ids, d >= k.ident PROVE l[d] = k.ledger[d]
    <3>1. d # id
      BY <2>1, <2>2, Constants
    <3> QED
      BY <1>0, <3>1
  <2> QED
    BY <1>1, <1>5, <2>2 DEF Fresh, Units
<1> QED
  BY <1>2, <1>4, <1>7, <1>8 DEF Units

(* SETVAL.                                                                 *)
LEMMA KeepsSetval ==
    ASSUME NEW k, Good(k), NEW a, Waits(k, a), Units(k), NEW p, NEW id,
           NEW n \in 1 .. SEMMSL, NEW val \in SetVals, NEW r, r = setval(k, p, id, n, val)
    PROVE  Waits(r, a) /\ Units(r)
<1>0. k \in Memory
  BY DEF Good
<1>1. CASE r = k
  BY <1>1
<1>2. CASE r # k
  <2>1. PICK i \in 1 .. Len(k.sem) : ValueSet(k, r, i, n, val)
    BY <1>0, <1>2, SetOne
  <2>2. /\ n \in 1 .. Len(k.sem[i].sems) /\ val \in 0 .. USHRT - 1
        /\ r = update_semaphores(Assign(k, i, n, val))
    BY <2>1 DEF ValueSet
  <2>3. PICK x, q, l : /\ x = Assign(k, i, n, val)
                       /\ q = [k.sem[i].sems EXCEPT ![n] = [@ EXCEPT !.semval = val]]
                       /\ l = [k.ledger EXCEPT ![k.sem[i].id] = [@ EXCEPT ![n] = val]]
    OBVIOUS
  <2>4. Written(k, x, i, q, l, k.client)
    BY <1>0, <2>2, <2>3, Assigned
  <2>5. k.sem[i].id \in Ids /\ k.ledger \in [Ids -> [1 .. SEMMSL -> Int]]
    BY <1>0, Numbers, <2>2, MemoryFields
  <2>6. \A d \in Ids : d # k.sem[i].id => l[d] = k.ledger[d]
    BY <2>3, <2>5
  <2>7. /\ k.sem[i].sems \in Seq(Semaphore)
        /\ \A m \in 1 .. Len(k.sem[i].sems) : k.sem[i].sems[m] \in Semaphore
    BY <1>0, Sems
  <2>8. ASSUME NEW m \in 1 .. Len(k.sem[i].sems)
        PROVE  Revalued(k.sem[i].sems[m], q[m], k.ledger[k.sem[i].id][m], l[k.sem[i].id][m])
    <3>0. k.ledger[k.sem[i].id][m] \in Int /\ k.sem[i].sems[m].semval \in Nat /\ m \in 1 .. SEMMSL
      BY Numbers
    <3>1. CASE m = n
      <4>0. q[m] = [k.sem[i].sems[m] EXCEPT !.semval = val]
        BY <2>3, <2>7, <3>1
      <4>1. l[k.sem[i].id][m] = val
        BY <2>3, <2>5, <3>0, <3>1
      <4>2. q[m].semval = val /\ \A z \in BOOLEAN : Listed(q[m], z) = Listed(k.sem[i].sems[m], z)
        BY <2>2, <2>7, <4>0, HoldingValue DEF Listed
      <4> QED
        BY <4>1, <4>2 DEF Revalued
    <3>2. CASE m # n
      <4>1. q[m] = k.sem[i].sems[m] /\ l[k.sem[i].id][m] = k.ledger[k.sem[i].id][m]
        BY <2>3, <2>5, <2>7, <3>0, <3>2
      <4>2. q[m].semval = k.sem[i].sems[m].semval + 0
            /\ l[k.sem[i].id][m] = k.ledger[k.sem[i].id][m] + 0
        BY <3>0, <4>1, SMTT(30)
      <4>3. \E d \in Int : /\ q[m].semval = k.sem[i].sems[m].semval + d
                         /\ l[k.sem[i].id][m] = k.ledger[k.sem[i].id][m] + d
        BY <4>2
      <4>4. \A z \in BOOLEAN : Listed(q[m], z) = Listed(k.sem[i].sems[m], z)
        BY <4>1
      <4> QED
        BY <4>3, <4>4 DEF Revalued
    <3> QED
      BY <3>1, <3>2
  <2>9. Good(x) /\ Waits(x, a) /\ Units(x)
    <3>1. SetRevalued(k, i, q, l)
      BY <2>6, <2>8 DEF SetRevalued
    <3> QED
      BY <2>4, <3>1, ValuesWritten
  <2> QED
    BY <2>2, <2>3, <2>9, UpdateKeeps
<1> QED
  BY <1>1, <1>2

(* SETALL.                                                                 *)
LEMMA KeepsSetall ==
    ASSUME NEW k, Good(k), NEW a, Waits(k, a), Units(k), NEW p, NEW id,
           NEW buf \in SetAlls, NEW r, r = setall(k, p, id, buf)
    PROVE  Waits(r, a) /\ Units(r)
<1>0. k \in Memory /\ \A i \in 1 .. Len(k.sem) : Len(k.sem[i].sems) < SEMMSL
  BY DEF Good, Room
<1>1. CASE r = k
  BY <1>1
<1>2. CASE r # k
  <2>1. PICK i \in 1 .. Len(k.sem) : \E q, l, x :
           r = update_semaphores(x) /\ GivenAll(k, x, i, q, l)
    BY <1>0, <1>2, AllSet
  <2>2. PICK q, l, x : r = update_semaphores(x) /\ GivenAll(k, x, i, q, l)
    BY <2>1
  <2>3. Written(k, x, i, q, l, k.client)
    BY <2>2 DEF GivenAll
  <2>6. \A d \in Ids : d # k.sem[i].id => l[d] = k.ledger[d]
    BY <2>2 DEF GivenAll
  <2>4. ASSUME NEW n \in 1 .. Len(k.sem[i].sems)
        PROVE  Revalued(k.sem[i].sems[n], q[n], k.ledger[k.sem[i].id][n], l[k.sem[i].id][n])
    <3>1. PICK v \in 0 .. USHRT - 1 :
             /\ q[n] = [k.sem[i].sems[n] EXCEPT !.semval = v]
             /\ \/ v = k.sem[i].sems[n].semval
                   /\ l[k.sem[i].id][n] = k.ledger[k.sem[i].id][n]
                \/ v = l[k.sem[i].id][n]
      BY <2>2 DEF GivenAll
    <3>2. k.sem[i].sems[n] \in Semaphore
      BY <1>0, Sems
    <3>3. q[n].semval = v /\ \A z \in BOOLEAN : Listed(q[n], z) = Listed(k.sem[i].sems[n], z)
      BY <3>1, <3>2, HoldingValue DEF Listed
    <3>4. k.ledger[k.sem[i].id][n] \in Int /\ k.sem[i].sems[n].semval \in Nat
      BY Numbers
    <3>5. CASE v = l[k.sem[i].id][n]
      BY <3>3, <3>5 DEF Revalued
    <3>6. CASE v = k.sem[i].sems[n].semval /\ l[k.sem[i].id][n] = k.ledger[k.sem[i].id][n]
      <4>1. /\ q[n].semval = k.sem[i].sems[n].semval + 0
            /\ l[k.sem[i].id][n] = k.ledger[k.sem[i].id][n] + 0
        BY <3>3, <3>4, <3>6
      <4> QED
        BY <3>3, <4>1, SMTT(30) DEF Revalued
    <3> QED
      BY <3>1, <3>5, <3>6
  <2>5. Good(x) /\ Waits(x, a) /\ Units(x)
    <3>1. SetRevalued(k, i, q, l)
      BY <2>4, <2>6 DEF SetRevalued
    <3> QED
      BY <2>3, <3>1, ValuesWritten
  <2> QED
    BY <2>2, <2>5, UpdateKeeps
<1> QED
  BY <1>1, <1>2

(* IPC_SET.                                                                *)
LEMMA KeepsSet ==
    ASSUME NEW k, Good(k), NEW a, Waits(k, a), Units(k), NEW p, NEW id,
           NEW uid \in NewOwners, NEW mode \in Modes, NEW r, r = ipc_set(k, p, id, uid, mode)
    PROVE  Waits(r, a) /\ Units(r)
<1>1. /\ SameSets(k, r) /\ r.client = k.client /\ r.ledger = k.ledger
      /\ \A i \in 1 .. Len(k.sem) : r.sem[i].sems = k.sem[i].sems
  BY SetPerm DEF Good
<1>2. Waits(r, a)
  BY <1>1, SameLists
<1>3. /\ Len(r.sem) = Len(k.sem) /\ r.ident = k.ident
      /\ \A i \in 1 .. Len(k.sem) : r.sem[i].id = k.sem[i].id
  BY <1>1 DEF SameSets
<1>4. Alive(r) <=> Alive(k)
  BY <1>1 DEF Alive
<1>5. Counted(r)
  <2> SUFFICES ASSUME NEW i \in 1 .. Len(r.sem), NEW n \in 1 .. Len(r.sem[i].sems)
               PROVE  /\ r.sem[i].sems[n].semval <= r.ledger[r.sem[i].id][n]
                      /\ Alive(r) => r.sem[i].sems[n].semval = r.ledger[r.sem[i].id][n]
    BY DEF Counted
  <2>1. /\ i \in 1 .. Len(k.sem) /\ r.sem[i].sems = k.sem[i].sems /\ r.sem[i].id = k.sem[i].id
        /\ r.ledger = k.ledger
    BY <1>1, <1>3
  <2>2. /\ k.sem[i].sems[n].semval <= k.ledger[k.sem[i].id][n]
        /\ Alive(k) => k.sem[i].sems[n].semval = k.ledger[k.sem[i].id][n]
    BY <2>1 DEF Units, Counted
  <2> QED
    BY <1>4, <2>1, <2>2
<1>6. Fresh(r)
  BY <1>1, <1>3 DEF Units, Fresh
<1> QED
  BY <1>2, <1>5, <1>6 DEF Units

(* IPC_RMID.                                                               *)
LEMMA KeepsGone ==
    ASSUME NEW k, Good(k), NEW a, Waits(k, a), Units(k), NEW r, NEW i \in 1 .. Len(k.sem),
           SetGone(k, r, i)
    PROVE  Waits(r, a) /\ Units(r)
<1> DEFINE from(j) == IF j = i THEN Len(k.sem) ELSE j
<1>0. k \in Memory /\ Len(r.sem) = Len(k.sem) - 1 /\ r.ident = k.ident /\ Len(k.sem) \in Nat
  BY Sems DEF Good, SetGone
<1>1. ASSUME NEW j \in 1 .. Len(r.sem)
      PROVE  from(j) \in 1 .. Len(k.sem) /\ from(j) # i /\ r.sem[j] = k.sem[from(j)]
  BY <1>0 DEF SetGone
<1>2. ASSUME NEW c \in 1 .. Len(k.sem), c # i
      PROVE  \E j \in 1 .. Len(r.sem) : from(j) = c
  <2>1. CASE c = Len(k.sem)
    <3>1. i \in 1 .. Len(r.sem)
      BY <1>0, <1>2, <2>1
    <3> QED
      BY <2>1, <3>1
  <2>2. CASE c # Len(k.sem)
    <3>1. c \in 1 .. Len(r.sem)
      BY <1>0, <2>2
    <3> QED
      BY <1>2, <3>1
  <2> QED
    BY <2>1, <2>2
<1> HIDE DEF from
<1>3. \A p \in Procs : r.client[p] =
         IF p \in AllWhos(k.sem[i]) /\ k.client[p].st = "wait" THEN Client("run")
         ELSE k.client[p]
  BY DEF SetGone
<1>4. ASSUME NEW p, NEW n \in 1 .. Len(k.sem[i].sems), NEW z \in BOOLEAN, NEW v,
             On(Listed(k.sem[i].sems[n], z), p, v)
      PROVE  p \in AllWhos(k.sem[i])
  <2>1. OnList(k.sem[i], n, z, p)
    BY <1>4 DEF On, OnList
  <2>2. k.sem[i] \in SemSet
    BY <1>0, Sems
  <2> QED
    BY <2>1, <2>2, WhosAre
<1>5. ASSUME NEW p \in Procs, p \in AllWhos(k.sem[i]), k.client[p].st = "wait"
      PROVE  k.client[p].call.id = k.sem[i].id
  <2>1. k.sem[i] \in SemSet
    BY <1>0, Sems
  <2>2. PICK n \in 1 .. Len(k.sem[i].sems), z \in BOOLEAN : OnList(k.sem[i], n, z, p)
    BY <1>5, <2>1, WhosAre
  <2>3. k.sem[i].sems[n] \in Semaphore
    BY <1>0, Sems
  <2>4. PICK v \in Nat : On(Listed(k.sem[i].sems[n], z), p, v)
    BY <2>2, <2>3, ListTypes DEF OnList, On
  <2> QED
    BY <1>5, <2>4 DEF Waits, Entered, Dying, Called
<1>6. Once(r)
  BY <1>1 DEF Waits, Once
<1>7. Entered(r, a)
  <2> SUFFICES ASSUME NEW j \in 1 .. Len(r.sem), NEW n \in 1 .. Len(r.sem[j].sems),
                      NEW z \in BOOLEAN, NEW p \in Procs, NEW v \in Nat,
                      On(Listed(r.sem[j].sems[n], z), p, v)
               PROVE  \/ Called(r.client[p], r.sem[j].id, n, v)
                      \/ Dying(r.client[p]) /\ p \in a
    BY DEF Entered
  <2>1. PICK c \in 1 .. Len(k.sem) : c # i /\ r.sem[j] = k.sem[c]
    BY <1>1
  <2>2. CASE Called(k.client[p], k.sem[c].id, n, v)
    <3>1. k.client[p].st = "wait" /\ k.client[p].call.id = k.sem[c].id
      BY <2>2 DEF Called
    <3>2. k.sem[c].id # k.sem[i].id
      BY <2>1 DEF Good, Unique
    <3>3. p \notin AllWhos(k.sem[i])
      BY <1>5, <3>1, <3>2
    <3> QED
      BY <1>3, <2>1, <2>2, <3>3
  <2>3. CASE Dying(k.client[p]) /\ p \in a
    BY <1>3, <2>3 DEF Dying
  <2> QED
    BY <2>1, <2>2, <2>3 DEF Waits, Entered
<1>8. Remembered(r)
  <2> SUFFICES ASSUME NEW p \in Procs, r.client[p].st = "wait"
               PROVE  \E j \in 1 .. Len(r.sem) :
                         \E n \in 1 .. Len(r.sem[j].sems), z \in BOOLEAN, v \in Nat :
                            On(Listed(r.sem[j].sems[n], z), p, v)
    BY DEF Remembered
  <2>1. k.client[p].st = "wait" /\ p \notin AllWhos(k.sem[i])
    BY <1>3 DEF Client
  <2>2. PICK c \in 1 .. Len(k.sem) :
           \E n \in 1 .. Len(k.sem[c].sems), z \in BOOLEAN, v \in Nat :
              On(Listed(k.sem[c].sems[n], z), p, v)
    BY <2>1 DEF Waits, Remembered
  <2>3. c # i
    BY <1>4, <2>1, <2>2
  <2>4. PICK j \in 1 .. Len(r.sem) : from(j) = c
    BY <1>2, <2>3
  <2>5. r.sem[j] = k.sem[c]
    BY <1>1, <2>4
  <2> QED
    BY <2>2, <2>5
<1>9. Units(r)
  <2>1. \A d \in Ids, n \in 1 .. SEMMSL :
           r.ledger[d][n] = IF d = k.sem[i].id THEN 0 ELSE k.ledger[d][n]
    BY DEF SetGone
  <2>2. Alive(r) => Alive(k)
    BY <1>3 DEF Alive
  <2>3. Counted(r)
    <3> SUFFICES ASSUME NEW j \in 1 .. Len(r.sem), NEW n \in 1 .. Len(r.sem[j].sems)
                 PROVE  /\ r.sem[j].sems[n].semval <= r.ledger[r.sem[j].id][n]
                        /\ Alive(r) => r.sem[j].sems[n].semval = r.ledger[r.sem[j].id][n]
      BY DEF Counted
    <3>1. PICK c \in 1 .. Len(k.sem) : c # i /\ r.sem[j] = k.sem[c]
      BY <1>1
    <3>2. n \in 1 .. Len(k.sem[c].sems) /\ k.sem[c].id # k.sem[i].id
      BY <3>1 DEF Good, Unique
    <3>3. k.sem[c].id \in Ids /\ n \in 1 .. SEMMSL
      BY <3>2, Numbers
    <3>4. r.ledger[r.sem[j].id][n] = k.ledger[k.sem[c].id][n]
      BY <2>1, <3>1, <3>2, <3>3, ZenonT(40)
    <3>5. /\ k.sem[c].sems[n].semval <= k.ledger[k.sem[c].id][n]
          /\ Alive(k) => k.sem[c].sems[n].semval = k.ledger[k.sem[c].id][n]
      BY <3>2 DEF Units, Counted
    <3> QED
      BY <2>2, <3>1, <3>4, <3>5
  <2>4. Fresh(r)
    BY <1>0, <2>1 DEF Fresh, Units
  <2> QED
    BY <2>3, <2>4 DEF Units
<1> QED
  BY <1>6, <1>7, <1>8, <1>9 DEF Waits

(* semget.                                                                 *)
LEMMA KeepsMade ==
    ASSUME NEW k, Good(k), NEW a, Waits(k, a), Units(k), NEW r, NEW new, SetMade(k, r, new)
    PROVE  Waits(r, a) /\ Units(r)
<1>0. /\ k \in Memory /\ Len(r.sem) = Len(k.sem) + 1 /\ r.ident = k.ident + 1
      /\ Len(k.sem) \in Nat /\ r.client = k.client /\ r.ledger = k.ledger
      /\ k.ident \in Ids
  BY MemoryFields DEF Good, SetMade
<1>1. /\ new.id = k.ident /\ new \in SemSet /\ Len(new.sems) < SEMMSL
      /\ \A n \in 1 .. Len(new.sems) : new.sems[n] = NewSemaphore
  BY DEF SetMade
<1>2. ASSUME NEW j \in 1 .. Len(r.sem)
      PROVE  (j \in 1 .. Len(k.sem) /\ r.sem[j] = k.sem[j]) \/ r.sem[j] = new
  BY <1>0 DEF SetMade
<1>3. ASSUME NEW n \in 1 .. Len(new.sems), NEW z \in BOOLEAN
      PROVE  Listed(new.sems[n], z) = <<>> /\ new.sems[n].semval = 0
  BY <1>1 DEF NewSemaphore, Listed
<1>4. Once(r)
  <2> SUFFICES ASSUME NEW j \in 1 .. Len(r.sem), NEW n \in 1 .. Len(r.sem[j].sems),
                      NEW z \in BOOLEAN
               PROVE  Apart(Listed(r.sem[j].sems[n], z))
    BY DEF Once
  <2>1. CASE r.sem[j] = new
    BY <1>3, <2>1 DEF Apart
  <2> QED
    BY <1>2, <2>1 DEF Waits, Once
<1>5. Entered(r, a)
  <2> SUFFICES ASSUME NEW j \in 1 .. Len(r.sem), NEW n \in 1 .. Len(r.sem[j].sems),
                      NEW z \in BOOLEAN, NEW p \in Procs, NEW v \in Nat,
                      On(Listed(r.sem[j].sems[n], z), p, v)
               PROVE  \/ Called(k.client[p], r.sem[j].id, n, v)
                      \/ Dying(k.client[p]) /\ p \in a
    BY <1>0 DEF Entered
  <2>1. CASE r.sem[j] = new
    BY <1>3, <2>1 DEF On
  <2> QED
    BY <1>2, <2>1 DEF Waits, Entered
<1>6. Remembered(r)
  <2> SUFFICES ASSUME NEW p \in Procs, k.client[p].st = "wait"
               PROVE  \E j \in 1 .. Len(r.sem) :
                         \E n \in 1 .. Len(r.sem[j].sems), z \in BOOLEAN, v \in Nat :
                            On(Listed(r.sem[j].sems[n], z), p, v)
    BY <1>0 DEF Remembered
  <2>1. PICK j \in 1 .. Len(k.sem) :
           \E n \in 1 .. Len(k.sem[j].sems), z \in BOOLEAN, v \in Nat :
              On(Listed(k.sem[j].sems[n], z), p, v)
    BY DEF Waits, Remembered
  <2>2. j \in 1 .. Len(r.sem) /\ r.sem[j] = k.sem[j]
    BY <1>0 DEF SetMade
  <2> QED
    BY <2>1, <2>2
<1>7. Alive(r) <=> Alive(k)
  BY <1>0 DEF Alive
<1>8. Counted(r)
  <2> SUFFICES ASSUME NEW j \in 1 .. Len(r.sem), NEW n \in 1 .. Len(r.sem[j].sems)
               PROVE  /\ r.sem[j].sems[n].semval <= k.ledger[r.sem[j].id][n]
                      /\ Alive(k) => r.sem[j].sems[n].semval = k.ledger[r.sem[j].id][n]
    BY <1>0, <1>7 DEF Counted
  <2>1. CASE r.sem[j] = new
    <3>1. n \in 1 .. SEMMSL
      <4>1. Len(new.sems) \in Nat /\ SEMMSL \in Nat
        BY <1>1, Constants DEF SemSet
      <4> QED
        BY <1>1, <2>1, <4>1
    <3>2. k.ident \in Nat
      BY <1>0, Constants
    <3>3. k.ident >= k.ident
      BY <3>2
    <3>4. k.ledger[k.ident][n] = 0
      BY <1>0, <3>1, <3>3 DEF Units, Fresh
    <3>5. new.sems[n].semval = 0
      BY <1>1, <2>1 DEF NewSemaphore
    <3> QED
      BY <1>1, <2>1, <3>4, <3>5
  <2> QED
    BY <1>2, <2>1 DEF Units, Counted
<1>9. Fresh(r)
  <2>0. k.ident \in Nat /\ Ids \subseteq Nat
    BY <1>0, Constants
  <2>1. ASSUME NEW d \in Ids, d >= k.ident + 1 PROVE d >= k.ident
    <3>1. d \in Nat
      BY <2>0
    <3> QED
      BY <2>0, <2>1, <3>1
  <2> QED
    BY <1>0, <2>1 DEF Units, Fresh
<1> QED
  BY <1>4, <1>5, <1>6, <1>8, <1>9 DEF Waits, Units

(* VM's report of p, which leaves the processes to report.                 *)
LEMMA KeepsReported ==
    ASSUME NEW k, Good(k), NEW a, Waits(k, a), Units(k), NEW p \in Procs, NEW r,
           Reported(k, r, p)
    PROVE  Waits(r, a \ {p}) /\ Units(r)
<1>0. /\ k \in Memory /\ SameSets(k, r) /\ r.ledger = k.ledger
      /\ \A q \in Procs : q # p => r.client[q] = k.client[q]
  BY DEF Good, Reported
<1>1. /\ Len(r.sem) = Len(k.sem) /\ r.ident = k.ident
      /\ \A i \in 1 .. Len(k.sem) :
            r.sem[i].id = k.sem[i].id /\ Len(r.sem[i].sems) = Len(k.sem[i].sems)
  BY <1>0 DEF SameSets
<1>2. ASSUME NEW i \in 1 .. Len(k.sem), NEW n \in 1 .. Len(k.sem[i].sems), NEW z \in BOOLEAN
      PROVE  /\ Apart(Listed(r.sem[i].sems[n], z))
             /\ \A q, v : On(Listed(r.sem[i].sems[n], z), q, v) <=>
                   On(Listed(k.sem[i].sems[n], z), q, v) /\ q # p
  <2>1. Listed(r.sem[i].sems[n], z) = Without(Listed(k.sem[i].sems[n], z), p)
    BY DEF Reported
  <2>2. k.sem[i].sems[n] \in Semaphore
    BY <1>0, Sems
  <2>3. Listed(k.sem[i].sems[n], z) \in Seq(Waiter(z))
    BY <2>2, ListTypes
  <2>4. Apart(Listed(k.sem[i].sems[n], z))
    BY DEF Waits, Once
  <2> QED
    BY <2>1, <2>3, <2>4, LeaveList
<1>3. ASSUME k.client[p].st = "wait" PROVE r.client[p] = Client("run")
  <2>1. PICK i \in 1 .. Len(k.sem) :
           \E n \in 1 .. Len(k.sem[i].sems), z \in BOOLEAN, v \in Nat :
              On(Listed(k.sem[i].sems[n], z), p, v)
    BY <1>3 DEF Waits, Remembered
  <2>2. \E n \in 1 .. Len(k.sem[i].sems), z \in BOOLEAN : OnList(k.sem[i], n, z, p)
    BY <2>1 DEF On, OnList
  <2>3. k.sem[i] \in SemSet
    BY <1>0, Sems
  <2>4. p \in AllWhos(k.sem[i])
    BY <2>2, <2>3, WhosAre
  <2> QED
    BY <1>3, <2>4 DEF Reported
<1>4. ASSUME k.client[p].st # "wait" PROVE r.client[p] = k.client[p]
  BY <1>4 DEF Reported
<1>5. Once(r)
  BY <1>1, <1>2 DEF Once
<1>6. Entered(r, a \ {p})
  <2> SUFFICES ASSUME NEW i \in 1 .. Len(k.sem), NEW n \in 1 .. Len(k.sem[i].sems),
                      NEW z \in BOOLEAN, NEW q \in Procs, NEW v \in Nat,
                      On(Listed(r.sem[i].sems[n], z), q, v)
               PROVE  \/ Called(r.client[q], k.sem[i].id, n, v)
                      \/ Dying(r.client[q]) /\ q \in a \ {p}
    BY <1>1 DEF Entered
  <2>1. On(Listed(k.sem[i].sems[n], z), q, v) /\ q # p
    BY <1>2
  <2> QED
    BY <1>0, <2>1 DEF Waits, Entered
<1>7. Remembered(r)
  <2> SUFFICES ASSUME NEW q \in Procs, r.client[q].st = "wait"
               PROVE  \E i \in 1 .. Len(k.sem) :
                         \E n \in 1 .. Len(k.sem[i].sems), z \in BOOLEAN, v \in Nat :
                            On(Listed(r.sem[i].sems[n], z), q, v)
    BY <1>1 DEF Remembered
  <2>1. q # p
    BY <1>3, <1>4 DEF Client
  <2>2. PICK i \in 1 .. Len(k.sem) :
           \E n \in 1 .. Len(k.sem[i].sems), z \in BOOLEAN, v \in Nat :
              On(Listed(k.sem[i].sems[n], z), q, v)
    BY <1>0, <2>1 DEF Waits, Remembered
  <2> QED
    BY <1>2, <2>1, <2>2
<1>8. Alive(r) => Alive(k)
  <2> SUFFICES ASSUME Alive(r), NEW q \in Procs
               PROVE  k.client[q].st \in {"run", "wait", "unborn"}
    BY DEF Alive
  <2> QED
    BY <1>0, <1>4 DEF Alive
<1>9. Units(r)
  <2>1. Counted(r)
    <3> SUFFICES ASSUME NEW i \in 1 .. Len(k.sem), NEW n \in 1 .. Len(k.sem[i].sems)
                 PROVE  /\ r.sem[i].sems[n].semval <= k.ledger[k.sem[i].id][n]
                        /\ Alive(k) => r.sem[i].sems[n].semval = k.ledger[k.sem[i].id][n]
      BY <1>0, <1>1, <1>8, SMTT(30) DEF Counted
    <3>1. r.sem[i].sems[n].semval = k.sem[i].sems[n].semval
      BY DEF Reported
    <3> QED
      BY <3>1 DEF Units, Counted
  <2>2. Fresh(r)
    BY <1>0, <1>1 DEF Units, Fresh
  <2> QED
    BY <2>1, <2>2 DEF Units
<1> QED
  BY <1>5, <1>6, <1>7, <1>9 DEF Waits

-----------------------------------------------------------------------------
(* semop, for arrays in which only a lone operation may have to wait, and  *)
(* values that stay within their 16 bits.                                  *)
SingleWaits ==
    \A sops \in SemOps : Len(sops) > 1 => \A b \in 1 .. Len(sops) : sops[b].nowait

NoWrap == \A sops \in SemOps : \A b \in 1 .. Len(sops) : MaxValue + sops[b].op <= USHRT

LEMMA OpsTypes ==
    ASSUME NEW sops \in SemOps
    PROVE  /\ sops \in Seq(Operation) /\ Len(sops) \in Nat /\ DOMAIN sops = 1 .. Len(sops)
           /\ \A b \in 1 .. Len(sops) : sops[b] \in Operation /\ sops[b].op \in Int
<1>1. sops \in Seq(Operation)
  BY IPCAssumption DEF Operation
<1>2. \A b \in 1 .. Len(sops) : sops[b] \in Operation
  BY <1>1
<1> QED
  BY <1>1, <1>2 DEF Operation

(* What an array that is not refused satisfies.                            *)
LEMMA NotRefused ==
    ASSUME NEW sem, NEW p, NEW sops \in SemOps, ~ RefusedOps(sem, p, sops)
    PROVE  /\ Len(sops) >= 1
           /\ \A b \in 1 .. Len(sops) :
                 /\ ~ (sops[b].num > Len(sem.sems))
                 /\ sops[b].nowait => ~ Blocks(sem.sems[sops[b].num], sops[b])
<1>1. DOMAIN sops = 1 .. Len(sops) /\ Len(sops) \in Nat
  BY OpsTypes
<1>2. Len(sops) \in 1 .. SEMOPM
  BY DEF RefusedOps
<1>3. \A b \in 1 .. Len(sops) : ~ (sops[b].num > Len(sem.sems))
  BY <1>1 DEF RefusedOps
<1>4. \A b \in 1 .. Len(sops) : sops[b].nowait => ~ Blocks(sem.sems[sops[b].num], sops[b])
  BY <1>1 DEF RefusedOps
<1>5. SEMOPM \in Nat
  BY IPCAssumption
<1> QED
  BY <1>1, <1>2, <1>3, <1>4, <1>5

(* An operation that waits puts its process at the end of one list.        *)
Joins(s, t, e) ==
    /\ t.semval = s.semval /\ e.val \in Nat
    /\ \E y \in BOOLEAN :
          /\ e \in Waiter(y) /\ Listed(t, y) = Append(Listed(s, y), e)
          /\ \A z \in BOOLEAN : z = y \/ Listed(t, z) = Listed(s, z)

LEMMA Enlisted ==
    ASSUME NEW s \in Semaphore, NEW op \in Operation, Blocks(s, op), NEW p \in Procs
    PROVE  Joins(s, Apply(s, p, op), [who |-> p, val |-> -op.op])
<1> SUFFICES ASSUME NEW t, t = Apply(s, p, op), NEW e, e = [who |-> p, val |-> -op.op]
             PROVE  Joins(s, t, e)
  OBVIOUS
<1>0. /\ op.op \in Int /\ s.semval \in Nat
      /\ s = [semval |-> s.semval, zlist |-> s.zlist, nlist |-> s.nlist, zalloc |-> s.zalloc]
  BY Constants DEF Operation, Semaphore
<1>1. CASE op.op = 0
  <2>1. e = [who |-> p, val |-> 0]
    BY <1>1
  <2>2. t = [s EXCEPT !.zlist = Append(@, e), !.zalloc = TRUE]
    BY <1>1, <2>1 DEF Apply
  <2>3. t.semval = s.semval /\ t.zlist = Append(s.zlist, e) /\ t.nlist = s.nlist
    BY <1>0, <2>2
  <2>5. e \in Waiter(TRUE)
    BY <2>1 DEF Waiter, ZeroWaiter
  <2>8. e.val \in Nat
    BY <2>1
  <2>7. Listed(t, TRUE) = Append(Listed(s, TRUE), e) /\ Listed(t, FALSE) = Listed(s, FALSE)
    BY <2>3 DEF Listed
  <2> QED
    BY <2>3, <2>5, <2>7, <2>8 DEF Joins
<1>2. CASE op.op # 0
  <2>1. s.semval + op.op < 0
    BY <1>2 DEF Blocks
  <2>2. -op.op \in Nat \ {0}
    BY <1>0, <1>2, <2>1
  <2>3. t = [s EXCEPT !.nlist = Append(@, e)]
    BY <1>2 DEF Apply
  <2>4. t.semval = s.semval /\ t.nlist = Append(s.nlist, e) /\ t.zlist = s.zlist
    BY <1>0, <2>3
  <2>5. e \in Waiter(FALSE)
    BY <2>2 DEF Waiter, UnitWaiter
  <2>6. Listed(t, FALSE) = Append(Listed(s, FALSE), e) /\ Listed(t, TRUE) = Listed(s, TRUE)
    BY <2>4 DEF Listed
  <2> QED
    BY <2>2, <2>4, <2>5, <2>6 DEF Joins
<1> QED
  BY <1>1, <1>2

(* An operation that need not wait changes the value by its amount.        *)
LEMMA Operated ==
    ASSUME NEW s \in Semaphore, NEW op \in Operation, ~ Blocks(s, op), NEW p \in Procs,
           s.semval + op.op < USHRT, NEW t, t = Apply(s, p, op)
    PROVE  /\ t.semval = s.semval + op.op
           /\ \A z \in BOOLEAN : Listed(t, z) = Listed(s, z)
<1>0. /\ op.op \in Int /\ s.semval \in Nat
      /\ s = [semval |-> s.semval, zlist |-> s.zlist, nlist |-> s.nlist, zalloc |-> s.zalloc]
  BY Constants DEF Operation, Semaphore
<1>1. s.semval + op.op \in Nat
  BY <1>0 DEF Blocks
<1>2. (s.semval + op.op) % USHRT = s.semval + op.op
  BY <1>1, Constants, ModSmall
<1>3. t = [s EXCEPT !.semval = (s.semval + op.op) % USHRT]
  BY DEF Apply
<1>4. t.semval = s.semval + op.op /\ t.zlist = s.zlist /\ t.nlist = s.nlist
  BY <1>0, <1>2, <1>3
<1> QED
  BY <1>4 DEF Listed

(* The values after the operations, when none had to wait.                 *)
Below(sem, sops) ==
    \A b \in 1 .. Len(sops) :
        sops[b].op > 0 /\ sops[b].num <= Len(sem.sems) => sem.sems[sops[b].num].semval < MaxValue

NoneWaits(sem, done) == \A b \in 1 .. Len(done) : ~ Blocks(sem.sems[done[b].num], done[b])

OpsBooked(k, i, done, l) ==
    /\ \A d \in Ids : d # k.sem[i].id => l[d] = k.ledger[d]
    /\ \A n \in 1 .. SEMMSL : l[k.sem[i].id][n] =
          IF Chosen(done, n) = 0 THEN k.ledger[k.sem[i].id][n]
          ELSE k.ledger[k.sem[i].id][n] + done[Chosen(done, n)].op

LEMMA OpsRevalue ==
    ASSUME NEW k, Good(k), NEW p \in Procs, NEW i \in 1 .. Len(k.sem), NEW sops \in SemOps,
           NEW x, NEW done, NEW q, NEW l, NEW c, OpsApplied(k, x, p, i, sops, done, q, l, c),
           NoWrap, Below(k.sem[i], sops), NoneWaits(k.sem[i], done), OpsBooked(k, i, done, l)
    PROVE  SetRevalued(k, i, q, l)
<1> USE DEF Below, NoneWaits, OpsBooked
<1>0. /\ done \in Seq(Operation) /\ Len(done) <= Len(sops)
      /\ \A b \in 1 .. Len(done) : done[b] = sops[b]
      /\ \A n \in 1 .. Len(k.sem[i].sems) :
            q[n] = IF Chosen(done, n) = 0 THEN k.sem[i].sems[n]
                   ELSE Apply(k.sem[i].sems[n], p, done[Chosen(done, n)])
  BY DEF OpsApplied
<1>2. Len(done) \in Nat
  BY <1>0
<1>1. ASSUME NEW n \in 1 .. Len(k.sem[i].sems)
      PROVE  Revalued(k.sem[i].sems[n], q[n], k.ledger[k.sem[i].id][n], l[k.sem[i].id][n])
  <2>0. /\ n \in 1 .. SEMMSL /\ k.ledger[k.sem[i].id][n] \in Int
        /\ k.sem[i].sems[n].semval \in Nat
    BY Numbers
  <2>1. CASE Chosen(done, n) = 0
    <3>1. q[n] = k.sem[i].sems[n] /\ l[k.sem[i].id][n] = k.ledger[k.sem[i].id][n]
      BY <1>0, <2>0, <2>1
    <3>2. /\ q[n].semval = k.sem[i].sems[n].semval + 0
          /\ l[k.sem[i].id][n] = k.ledger[k.sem[i].id][n] + 0
      BY <2>0, <3>1, SMTT(30)
    <3>3. \A z \in BOOLEAN : Listed(q[n], z) = Listed(k.sem[i].sems[n], z)
      BY <3>1
    <3> QED
      BY <3>2, <3>3, SMTT(30) DEF Revalued
  <2>2. CASE Chosen(done, n) # 0
    <3>1. PICK b : b = Chosen(done, n)
      OBVIOUS
    <3>2. b \in 1 .. Len(done) /\ done[b].num = n
      BY <1>0, <1>2, <2>2, <3>1, ChosenIs
    <3>3. b \in 1 .. Len(sops) /\ done[b] = sops[b]
      <4>1. Len(sops) \in Nat
        BY OpsTypes
      <4> QED
        BY <1>0, <1>2, <3>2, <4>1
    <3>4. done[b] \in Operation /\ done[b].op \in Int
      BY <3>3, OpsTypes
    <3>5. k.sem[i].sems[n] \in Semaphore /\ ~ Blocks(k.sem[i].sems[n], done[b])
      BY <3>2, Sems DEF Good
    <3>6. k.sem[i].sems[n].semval + done[b].op < USHRT
      <4>1. CASE done[b].op > 0
        <5>1. n <= Len(k.sem[i].sems)
          <6>1. Len(k.sem[i].sems) \in Nat
            BY Sems DEF Good
          <6> QED
            BY <6>1
        <5>2. k.sem[i].sems[n].semval < MaxValue
          BY <3>2, <3>3, <4>1, <5>1
        <5>3. MaxValue + done[b].op <= USHRT
          BY <3>3 DEF NoWrap
        <5> QED
          BY <2>0, <3>4, <5>2, <5>3, Constants, SMTT(30)
      <4>2. CASE ~ (done[b].op > 0)
        <5>1. k.sem[i].sems[n].semval \in 0 .. USHRT - 1
          BY <3>5 DEF Semaphore
        <5> QED
          BY <3>4, <4>2, <5>1, Constants, SMTT(30)
      <4> QED
        BY <4>1, <4>2
    <3>7. /\ q[n].semval = k.sem[i].sems[n].semval + done[b].op
          /\ \A z \in BOOLEAN : Listed(q[n], z) = Listed(k.sem[i].sems[n], z)
      <4>1. q[n] = Apply(k.sem[i].sems[n], p, done[b])
        BY <1>0, <2>2, <3>1
      <4>2. PICK s, t, op : s = k.sem[i].sems[n] /\ t = q[n] /\ op = done[b]
        OBVIOUS
      <4>3. /\ s \in Semaphore /\ op \in Operation /\ ~ Blocks(s, op)
            /\ s.semval + op.op < USHRT /\ t = Apply(s, p, op)
        BY <3>4, <3>5, <3>6, <4>1, <4>2
      <4>4. t.semval = s.semval + op.op /\ \A z \in BOOLEAN : Listed(t, z) = Listed(s, z)
        BY <4>3, Operated
      <4> QED
        BY <4>2, <4>4
    <3>8. l[k.sem[i].id][n] = k.ledger[k.sem[i].id][n] + done[b].op
      BY <2>0, <2>2, <3>1
    <3> QED
      BY <3>4, <3>7, <3>8 DEF Revalued
  <2> QED
    BY <2>1, <2>2
<1> QED
  BY <1>1 DEF SetRevalued

(* The lists after the operation, when it has to wait.                     *)
Queued(k, x, p, i, m, op, q, c) ==
    /\ Written(k, x, i, q, k.ledger, c) /\ Blocks(k.sem[i].sems[m], op)
    /\ \A n \in 1 .. Len(k.sem[i].sems) :
          q[n] = IF n = m THEN Apply(k.sem[i].sems[m], p, op) ELSE k.sem[i].sems[n]
    /\ c = [k.client EXCEPT ![p] = [st |-> "wait",
              call |-> [id |-> k.sem[i].id, num |-> m, op |-> op.op]]]

LEMMA KeepsWaiting ==
    ASSUME NEW k, Good(k), NEW a, Waits(k, a), Units(k), NEW p \in Procs,
           k.client[p].st = "run", NEW i \in 1 .. Len(k.sem), NEW m \in 1 .. Len(k.sem[i].sems),
           NEW op \in Operation, NEW q, NEW c, NEW x, Queued(k, x, p, i, m, op, q, c)
    PROVE  Good(x) /\ Waits(x, a) /\ Units(x)
<1> USE DEF Queued
<1>0. /\ x \in Memory /\ SameSets(k, x) /\ x.sem[i].sems = q /\ x.ledger = k.ledger
      /\ x.client = c /\ k \in Memory
      /\ \A j \in 1 .. Len(k.sem) : j # i => x.sem[j] = k.sem[j]
  BY DEF Written, Good
<1>1. Good(x)
  BY <1>0, GoodSame
<1>2. /\ Len(x.sem) = Len(k.sem) /\ x.ident = k.ident
      /\ \A j \in 1 .. Len(k.sem) :
            x.sem[j].id = k.sem[j].id /\ Len(x.sem[j].sems) = Len(k.sem[j].sems)
  BY <1>0 DEF SameSets
<1>3. /\ k.client \in [Procs -> Caller]
      /\ \A o \in Procs : o # p => x.client[o] = k.client[o]
      /\ x.client[p] = [st |-> "wait", call |-> [id |-> k.sem[i].id, num |-> m, op |-> op.op]]
  BY <1>0, MemoryFields
<1>4. PICK s, t, e : /\ s = k.sem[i].sems[m] /\ t = Apply(s, p, op)
                     /\ e = [who |-> p, val |-> -op.op]
  OBVIOUS
<1>5. s \in Semaphore /\ op.op \in Int /\ Blocks(s, op)
  BY <1>0, <1>4, Sems DEF Operation
<1>6. PICK y \in BOOLEAN :
         /\ t.semval = s.semval /\ e \in Waiter(y) /\ -op.op \in Nat
         /\ Listed(t, y) = Append(Listed(s, y), e)
         /\ \A z \in BOOLEAN : z = y \/ Listed(t, z) = Listed(s, z)
  <2>1. Joins(s, t, e)
    BY <1>4, <1>5, Enlisted
  <2>2. e.val = -op.op
    BY <1>4
  <2> QED
    BY <2>1, <2>2 DEF Joins
<1>7. ASSUME NEW j \in 1 .. Len(k.sem), NEW n \in 1 .. Len(k.sem[j].sems), NEW z \in BOOLEAN,
             NEW v \in Nat
      PROVE  ~ On(Listed(k.sem[j].sems[n], z), p, v)
  BY DEF Waits, Entered, Called, Dying
<1>8. /\ Apart(Listed(t, y))
      /\ \A o, v : On(Listed(t, y), o, v) <=> On(Listed(s, y), o, v) \/ (o = p /\ v = -op.op)
  <2>1. Listed(s, y) \in Seq(Waiter(y))
    BY <1>5, ListTypes
  <2>2. e.who = p /\ e.val = -op.op
    BY <1>4
  <2>3. ASSUME NEW v, On(Listed(s, y), p, v) PROVE FALSE
    <3>1. v \in Nat
      BY <1>5, <2>3, ListTypes DEF On
    <3> QED
      BY <1>4, <1>5, <1>7, <2>3, <3>1
  <2>4. Apart(Listed(s, y))
    BY <1>4, <1>5 DEF Waits, Once
  <2> QED
    BY <1>6, <2>1, <2>2, <2>3, <2>4, OneMore
<1>9. ASSUME NEW j \in 1 .. Len(k.sem), NEW n \in 1 .. Len(k.sem[j].sems), NEW z \in BOOLEAN
      PROVE  \/ /\ j = i /\ n = m /\ z = y
                /\ x.sem[j].sems[n] = t
             \/ Listed(x.sem[j].sems[n], z) = Listed(k.sem[j].sems[n], z)
  <2>1. CASE j # i
    BY <1>0, <2>1
  <2>2. CASE j = i /\ n # m
    BY <1>0, <2>2
  <2>3. CASE j = i /\ n = m
    <3>1. x.sem[j].sems[n] = t
      BY <1>0, <1>4, <2>3
    <3> QED
      BY <1>4, <1>6, <2>3, <3>1
  <2> QED
    BY <2>1, <2>2, <2>3
<1>10. Once(x)
  <2> SUFFICES ASSUME NEW j \in 1 .. Len(k.sem), NEW n \in 1 .. Len(k.sem[j].sems),
                      NEW z \in BOOLEAN
               PROVE  Apart(Listed(x.sem[j].sems[n], z))
    BY <1>2 DEF Once
  <2> QED
    BY <1>8, <1>9 DEF Waits, Once
<1>11. Entered(x, a)
  <2> SUFFICES ASSUME NEW j \in 1 .. Len(k.sem), NEW n \in 1 .. Len(k.sem[j].sems),
                      NEW z \in BOOLEAN, NEW o \in Procs, NEW v \in Nat,
                      On(Listed(x.sem[j].sems[n], z), o, v)
               PROVE  \/ Called(x.client[o], k.sem[j].id, n, v)
                      \/ Dying(x.client[o]) /\ o \in a
    BY <1>2 DEF Entered
  <2>1. CASE On(Listed(k.sem[j].sems[n], z), o, v)
    <3>1. o # p
      BY <1>7, <2>1
    <3>2. x.client[o] = k.client[o]
      BY <1>3, <3>1
    <3> QED
      BY <2>1, <3>2 DEF Waits, Entered
  <2>2. CASE ~ On(Listed(k.sem[j].sems[n], z), o, v)
    <3>1. j = i /\ n = m /\ z = y /\ x.sem[j].sems[n] = t
      BY <1>9, <2>2
    <3>2. o = p /\ v = -op.op
      BY <1>4, <1>8, <2>2, <3>1
    <3>3. op.op = -v
      BY <1>5, <3>2
    <3> QED
      BY <1>3, <3>1, <3>2, <3>3 DEF Called
  <2> QED
    BY <2>1, <2>2
<1>12. Remembered(x)
  <2> SUFFICES ASSUME NEW o \in Procs, x.client[o].st = "wait"
               PROVE  \E j \in 1 .. Len(k.sem) :
                         \E n \in 1 .. Len(k.sem[j].sems), z \in BOOLEAN, v \in Nat :
                            On(Listed(x.sem[j].sems[n], z), o, v)
    BY <1>2 DEF Remembered
  <2>1. CASE o = p
    <3>1. On(Listed(t, y), p, -op.op) /\ x.sem[i].sems[m] = t
      BY <1>0, <1>4, <1>8
    <3> QED
      BY <1>5, <1>6, <2>1, <3>1
  <2>2. CASE o # p
    <3>1. PICK j \in 1 .. Len(k.sem) :
             \E n \in 1 .. Len(k.sem[j].sems), z \in BOOLEAN, v \in Nat :
                On(Listed(k.sem[j].sems[n], z), o, v)
      BY <1>3, <2>2 DEF Waits, Remembered
    <3>2. PICK n \in 1 .. Len(k.sem[j].sems), z \in BOOLEAN, v \in Nat :
             On(Listed(k.sem[j].sems[n], z), o, v)
      BY <3>1
    <3>3. On(Listed(x.sem[j].sems[n], z), o, v)
      BY <1>4, <1>8, <1>9, <3>2
    <3> QED
      BY <3>3
  <2> QED
    BY <2>1, <2>2
<1>13. Alive(x) => Alive(k)
  BY <1>3 DEF Alive
<1>14. Counted(x)
  <2> SUFFICES ASSUME NEW j \in 1 .. Len(x.sem), NEW n \in 1 .. Len(x.sem[j].sems)
               PROVE  /\ x.sem[j].sems[n].semval <= x.ledger[x.sem[j].id][n]
                      /\ Alive(x) => x.sem[j].sems[n].semval = x.ledger[x.sem[j].id][n]
    BY DEF Counted
  <2>0. /\ j \in 1 .. Len(k.sem) /\ n \in 1 .. Len(k.sem[j].sems)
        /\ x.sem[j].id = k.sem[j].id /\ x.ledger = k.ledger
    BY <1>0, <1>2
  <2>1. x.sem[j].sems[n].semval = k.sem[j].sems[n].semval
    <3>1. CASE j # i
      BY <1>0, <2>0, <3>1
    <3>2. CASE j = i /\ n # m
      BY <1>0, <2>0, <3>2
    <3>3. CASE j = i /\ n = m
      BY <1>0, <1>4, <1>6, <2>0, <3>3
    <3> QED
      BY <3>1, <3>2, <3>3
  <2>2. /\ k.sem[j].sems[n].semval <= k.ledger[k.sem[j].id][n]
        /\ Alive(k) => k.sem[j].sems[n].semval = k.ledger[k.sem[j].id][n]
    BY <2>0 DEF Units, Counted
  <2> QED
    BY <1>13, <2>0, <2>1, <2>2
<1>15. Fresh(x)
  BY <1>0, <1>2 DEF Units, Fresh
<1> QED
  BY <1>1, <1>10, <1>11, <1>12, <1>14, <1>15 DEF Waits, Units

(* semop when its operation has to wait.                                   *)
LEMMA OpsWaiting ==
    ASSUME NEW k, Good(k), NEW a, Waits(k, a), Units(k), NEW p \in Procs,
           k.client[p].st = "run", NEW i \in 1 .. Len(k.sem), NEW sops \in SemOps, SingleWaits,
           NEW x, NEW q, NEW l, NEW c, OpsApplied(k, x, p, i, sops, sops, q, l, c),
           l = k.ledger, NEW b \in 1 .. Len(sops),
           Blocks(k.sem[i].sems[sops[b].num], sops[b]),
           c = [k.client EXCEPT ![p] = [st |-> "wait",
                  call |-> [id |-> k.sem[i].id, num |-> sops[b].num, op |-> sops[b].op]]]
    PROVE  Good(x) /\ Waits(x, a) /\ Units(x)
<1>0. /\ Written(k, x, i, q, l, c) /\ ~ RefusedOps(k.sem[i], p, sops)
      /\ \A n \in 1 .. Len(k.sem[i].sems) :
            q[n] = IF Chosen(sops, n) = 0 THEN k.sem[i].sems[n]
                   ELSE Apply(k.sem[i].sems[n], p, sops[Chosen(sops, n)])
  BY DEF OpsApplied
<1>1. sops \in Seq(Operation) /\ Len(sops) \in Nat /\ sops[b] \in Operation
  BY OpsTypes
<1>2. /\ ~ (sops[b].num > Len(k.sem[i].sems))
      /\ sops[b].nowait => ~ Blocks(k.sem[i].sems[sops[b].num], sops[b])
  BY <1>0, NotRefused
<1>3. ~ (Len(sops) > 1)
  BY <1>2 DEF SingleWaits
<1>4. Len(sops) = 1 /\ b = 1
  <2>1. PICK h : h = Len(sops)
    OBVIOUS
  <2>2. h \in Nat /\ b \in 1 .. h /\ ~ (h > 1)
    BY <1>1, <1>3, <2>1
  <2>3. h = 1 /\ b = 1
    BY <2>2
  <2> QED
    BY <2>1, <2>3
<1>5. PICK m, op : m = sops[b].num /\ op = sops[b]
  OBVIOUS
<1>6. op \in Operation /\ m \in 1 .. Len(k.sem[i].sems) /\ Blocks(k.sem[i].sems[m], op)
  <2>1. m \in Nat \ {0}
    BY <1>1, <1>5 DEF Operation
  <2>2. Len(k.sem[i].sems) \in Nat
    BY Sems DEF Good
  <2> QED
    BY <1>1, <1>2, <1>5, <2>1, <2>2
<1>7. ASSUME NEW n \in 1 .. Len(k.sem[i].sems)
      PROVE  q[n] = IF n = m THEN Apply(k.sem[i].sems[m], p, op) ELSE k.sem[i].sems[n]
  <2>1. PICK h : h = Chosen(sops, n)
    OBVIOUS
  <2>2. /\ h \in 0 .. Len(sops) /\ (h # 0 => sops[h].num = n)
        /\ (h = 0 => \A g \in 1 .. Len(sops) : sops[g].num # n)
    BY <1>1, <2>1, ChosenIs
  <2>3. h = 0 \/ h = 1
    BY <1>4, <2>2
  <2>4. q[n] = IF h = 0 THEN k.sem[i].sems[n] ELSE Apply(k.sem[i].sems[n], p, sops[h])
    BY <1>0, <2>1
  <2> QED
    BY <1>4, <1>5, <2>2, <2>3, <2>4
<1>8. c = [k.client EXCEPT ![p] = [st |-> "wait",
             call |-> [id |-> k.sem[i].id, num |-> m, op |-> op.op]]]
  BY <1>5
<1>9. Queued(k, x, p, i, m, op, q, c)
  BY <1>0, <1>6, <1>7, <1>8 DEF Queued
<1> QED
  BY <1>6, <1>9, KeepsWaiting

(* semop when it is done at once.                                          *)
LEMMA OpsDone ==
    ASSUME NEW k, Good(k), NEW a, Waits(k, a), Units(k), NEW p \in Procs,
           NEW i \in 1 .. Len(k.sem), NEW sops \in SemOps, SingleWaits, NoWrap,
           Below(k.sem[i], sops), NEW x, NEW done, NEW q, NEW l,
           OpsApplied(k, x, p, i, sops, done, q, l, k.client), OpsBooked(k, i, done, l),
           done = sops => NoneWaits(k.sem[i], done)
    PROVE  Good(x) /\ Waits(x, a) /\ Units(x)
<1>0. /\ Written(k, x, i, q, l, k.client) /\ ~ RefusedOps(k.sem[i], p, sops)
      /\ done \in Seq(Operation) /\ (done = sops \/ Len(done) < Len(sops))
      /\ \A b \in 1 .. Len(done) : done[b] = sops[b]
  BY DEF OpsApplied
<1>1. NoneWaits(k.sem[i], done)
  <2> SUFFICES ASSUME done # sops, NEW b \in 1 .. Len(done)
               PROVE  ~ Blocks(k.sem[i].sems[done[b].num], done[b])
    BY DEF NoneWaits
  <2>1. Len(done) \in Nat /\ Len(sops) \in Nat /\ Len(done) < Len(sops)
    BY <1>0, OpsTypes
  <2>2. b \in 1 .. Len(sops) /\ Len(sops) > 1
    BY <2>1
  <2>3. sops[b].nowait
    BY <2>2 DEF SingleWaits
  <2>4. ~ Blocks(k.sem[i].sems[sops[b].num], sops[b])
    BY <1>0, <2>2, <2>3, NotRefused
  <2> QED
    BY <1>0, <2>4
<1>2. SetRevalued(k, i, q, l)
  BY <1>1, OpsRevalue
<1> QED
  BY <1>0, <1>2, ValuesWritten

LEMMA KeepsSemop ==
    ASSUME NEW k, Good(k), NEW a, Waits(k, a), Units(k), NEW p \in Procs,
           k.client[p].st = "run", NEW id \in Ids, NEW sops \in SemOps, SingleWaits, NoWrap,
           \A i \in 1 .. Len(k.sem) : k.sem[i].id = id => Below(k.sem[i], sops),
           NEW r, r = do_semop(k, p, id, sops)
    PROVE  Waits(r, a) /\ Units(r)
<1>1. CASE r = update_semaphores(k)
  BY <1>1, UpdateKeeps
<1>2. CASE \E i \in 1 .. Len(k.sem) : k.sem[i].id = id /\ \E x, done, q, l, c :
              r = update_semaphores(x) /\ OpsApplied(k, x, p, i, sops, done, q, l, c)
  <2>1. PICK i \in 1 .. Len(k.sem) : k.sem[i].id = id /\ \E x, done, q, l, c :
              r = update_semaphores(x) /\ OpsApplied(k, x, p, i, sops, done, q, l, c)
    BY <1>2
  <2>2. PICK x, done, q, l, c :
              r = update_semaphores(x) /\ OpsApplied(k, x, p, i, sops, done, q, l, c)
    BY <2>1
  <2>3. Good(x) /\ Waits(x, a) /\ Units(x)
    <3>1. CASE /\ done = sops /\ l = k.ledger
               /\ \E b \in 1 .. Len(done) :
                     /\ Blocks(k.sem[i].sems[done[b].num], done[b])
                     /\ c = [k.client EXCEPT ![p] = [st |-> "wait", call |->
                          [id |-> k.sem[i].id, num |-> done[b].num, op |-> done[b].op]]]
      <4>1. PICK b \in 1 .. Len(sops) :
                     /\ Blocks(k.sem[i].sems[sops[b].num], sops[b])
                     /\ c = [k.client EXCEPT ![p] = [st |-> "wait", call |->
                          [id |-> k.sem[i].id, num |-> sops[b].num, op |-> sops[b].op]]]
        BY <3>1
      <4>2. OpsApplied(k, x, p, i, sops, sops, q, l, c) /\ l = k.ledger
        BY <2>2, <3>1
      <4> QED
        BY <4>1, <4>2, OpsWaiting
    <3>2. CASE /\ c = k.client /\ OpsBooked(k, i, done, l)
               /\ done = sops => NoneWaits(k.sem[i], done)
      <4>1. OpsApplied(k, x, p, i, sops, done, q, l, k.client)
        BY <2>2, <3>2
      <4>2. Below(k.sem[i], sops)
        BY <2>1
      <4> QED
        BY <3>2, <4>1, <4>2, OpsDone
    <3> QED
      BY <2>2, <3>1, <3>2 DEF OpsApplied, OpsBooked, NoneWaits
  <2> QED
    BY <2>2, <2>3, UpdateKeeps
<1> QED
  BY <1>1, <1>2, SemopDone DEF Good

-----------------------------------------------------------------------------
(* Calls on segments leave semaphores alone, but may give out an id.       *)
Aside(k, r) ==
    /\ r.sem = k.sem /\ r.client = k.client /\ r.ledger = k.ledger
    /\ r.ident = k.ident \/ r.ident = k.ident + 1

LEMMA KeepsAside ==
    ASSUME NEW k, Good(k), NEW a, Waits(k, a), Units(k), NEW r, Aside(k, r)
    PROVE  Waits(r, a) /\ Units(r)
<1>1. /\ r.sem = k.sem /\ r.client = k.client /\ r.ledger = k.ledger
      /\ r.ident = k.ident \/ r.ident = k.ident + 1
  BY DEF Aside
<1>2. Waits(r, a)
  BY <1>1 DEF Waits, Once, Entered, Remembered
<1>3. Counted(r)
  BY <1>1 DEF Units, Counted, Alive
<1>4. Fresh(r)
  <2>0. k.ident \in Nat /\ Ids \subseteq Nat
    BY MemoryFields, Constants DEF Good
  <2>1. ASSUME NEW d \in Ids, d >= r.ident PROVE d >= k.ident
    <3>1. d \in Nat
      BY <2>0
    <3> QED
      BY <1>1, <2>0, <2>1, <3>1
  <2> QED
    BY <1>1, <2>1 DEF Units, Fresh
<1> QED
  BY <1>2, <1>3, <1>4 DEF Units

LEMMA SegmentCallsAside ==
    ASSUME NEW k \in Memory, NEW p, NEW id
    PROVE  /\ \A key, mode : Aside(k, do_shmget(k, p, key, mode))
           /\ \A want : Aside(k, do_shmat(k, p, id, want))
           /\ Aside(k, do_shmdt(k, p, id))
           /\ \A uid, mode : Aside(k, shm_set(k, p, id, uid, mode))
           /\ Aside(k, shm_rmid(k, p, id))
           /\ Aside(k, update_refcount_and_destroy(k))
<1>0. /\ k = [sem |-> k.sem, shm |-> k.shm, ident |-> k.ident, client |-> k.client,
              mapped |-> k.mapped, ledger |-> k.ledger, crashed |-> k.crashed]
      /\ k.shm \in Seq(Segment)
  BY MemoryFields
<1>1. ASSUME NEW t PROVE Aside(k, [k EXCEPT !.shm = t])
  BY <1>0 DEF Aside
<1>2. ASSUME NEW t PROVE Aside(k, [k EXCEPT !.mapped = t])
  BY <1>0 DEF Aside
<1>3. ASSUME NEW t PROVE Aside(k, [k EXCEPT !.shm = t, !.ident = k.ident + 1])
  BY <1>0 DEF Aside
<1>4. Aside(k, k)
  BY DEF Aside
<1>5. ASSUME NEW key, NEW mode PROVE Aside(k, do_shmget(k, p, key, mode))
  BY <1>3, <1>4 DEF do_shmget
<1>6. ASSUME NEW want PROVE Aside(k, do_shmat(k, p, id, want))
  BY <1>2, <1>4 DEF do_shmat
<1>7. Aside(k, do_shmdt(k, p, id))
  BY <1>2, <1>4 DEF do_shmdt
<1>8. ASSUME NEW uid, NEW mode PROVE Aside(k, shm_set(k, p, id, uid, mode))
  BY <1>1, <1>4 DEF shm_set
<1>9. Aside(k, shm_rmid(k, p, id))
  BY <1>1, <1>4 DEF shm_rmid
<1>10. Aside(k, update_refcount_and_destroy(k))
  BY <1>0, <1>1, EntriesLeft, ZenonT(40)
<1> QED
  BY <1>5, <1>6, <1>7, <1>8, <1>9, <1>10

(* Births and deaths, with a the processes to report before and b after.   *)
Passed(k, r, a, b) ==
    /\ r.sem = k.sem /\ r.ledger = k.ledger /\ r.ident = k.ident /\ a \subseteq b
    /\ \A q \in Procs : \/ r.client[q] = k.client[q]
                        \/ Dying(r.client[q]) /\ (q \in b \/ Dying(k.client[q]))
                        \/ k.client[q].st = "unborn" /\ r.client[q].st = "run"

LEMMA KeepsPassed ==
    ASSUME NEW k, NEW a, Waits(k, a), Units(k), NEW r, NEW b, Passed(k, r, a, b)
    PROVE  Waits(r, b) /\ Units(r)
<1>1. r.sem = k.sem /\ r.ledger = k.ledger /\ r.ident = k.ident /\ a \subseteq b
  BY DEF Passed
<1>2. \A q \in Procs : \/ r.client[q] = k.client[q]
                       \/ Dying(r.client[q]) /\ (q \in b \/ Dying(k.client[q]))
                       \/ k.client[q].st = "unborn" /\ r.client[q].st = "run"
  BY DEF Passed
<1>3. Once(r)
  BY <1>1 DEF Waits, Once
<1>4. Entered(r, b)
  <2> SUFFICES ASSUME NEW i \in 1 .. Len(k.sem), NEW n \in 1 .. Len(k.sem[i].sems),
                      NEW z \in BOOLEAN, NEW p \in Procs, NEW v \in Nat,
                      On(Listed(k.sem[i].sems[n], z), p, v)
               PROVE  \/ Called(r.client[p], k.sem[i].id, n, v)
                      \/ Dying(r.client[p]) /\ p \in b
    BY <1>1 DEF Entered
  <2>1. CASE Called(k.client[p], k.sem[i].id, n, v)
    BY <1>2, <2>1 DEF Called, Dying
  <2>2. CASE Dying(k.client[p]) /\ p \in a
    BY <1>1, <1>2, <2>2 DEF Dying
  <2> QED
    BY <2>1, <2>2 DEF Waits, Entered
<1>5. Remembered(r)
  <2>1. \A q \in Procs : r.client[q].st = "wait" => k.client[q].st = "wait"
    BY <1>2 DEF Dying
  <2> QED
    BY <1>1, <2>1 DEF Waits, Remembered
<1>6. Alive(r) => Alive(k)
  BY <1>2 DEF Alive, Dying
<1>7. Counted(r)
  BY <1>1, <1>6 DEF Units, Counted
<1>8. Fresh(r)
  BY <1>1 DEF Units, Fresh
<1> QED
  BY <1>3, <1>4, <1>5, <1>7, <1>8 DEF Waits, Units

-----------------------------------------------------------------------------
(* The inductive invariant of the semaphores.                              *)
WaitInv == Waits(K, array) /\ Units(K) /\ (array # {} => notified \/ querying)

LEMMA WaitMain ==
    ASSUME WaitInv, NEW p, NEW k, Good(k), Waits(k, array), Units(k), main(p, k)
    PROVE  WaitInv'
<1>0. array' = array /\ notified' = notified /\ querying' = querying
  BY DEF main
<1>1. Waits(K', array) /\ Units(K')
  <2>1. CASE k.crashed
    <3>1. Become(k)
      BY <2>1 DEF main
    <3>2. K' = k
      BY <3>1, Becomes DEF Good
    <3> QED
      BY <3>2
  <2>2. CASE ~ k.crashed
    <3>1. Become(update_refcount_and_destroy(k))
      BY <2>2 DEF main
    <3>2. Good(update_refcount_and_destroy(k))
      BY GoodLooked
    <3>3. K' = update_refcount_and_destroy(k)
      BY <3>1, <3>2, Becomes DEF Good
    <3>4. Aside(k, update_refcount_and_destroy(k))
      BY SegmentCallsAside DEF Good
    <3> QED
      BY <3>3, <3>4, KeepsAside
  <2> QED
    BY <2>1, <2>2
<1> QED
  BY <1>0, <1>1 DEF WaitInv

LEMMA WaitInit == Init => WaitInv
<1> SUFFICES ASSUME Init PROVE WaitInv
  OBVIOUS
<1>1. Len(K.sem) = 0
  BY KFields DEF Init
<1>2. Once(K) /\ Entered(K, array) /\ Counted(K)
  BY <1>1 DEF Once, Entered, Counted
<1>3. \A p \in Procs : K.client[p].st # "wait"
  BY KFields DEF Init, Client
<1>4. Remembered(K)
  BY <1>3 DEF Remembered
<1>5. Fresh(K)
  BY KFields DEF Init, Fresh
<1> QED
  BY <1>2, <1>4, <1>5 DEF WaitInv, Waits, Units, Init

LEMMA WaitStep ==
    ASSUME SingleWaits, NoWrap
    PROVE  TablesInv /\ WaitInv /\ [Next]_vars => WaitInv'
<1> SUFFICES ASSUME TablesInv, WaitInv, [Next]_vars PROVE WaitInv'
  OBVIOUS
<1>0. Good(K) /\ K \in Memory /\ Waits(K, array) /\ Units(K)
  BY DEF TablesInv, Good, WaitInv
<1>a. BusyIds \subseteq Ids
  BY IPCAssumption DEF Ids
<1>1. ASSUME NEW p \in Procs, semget(p) PROVE WaitInv'
  <2>1. PICK key \in SemKeys, nsems \in Sizes, mode \in Modes :
           identifier < MaxId /\ main(p, do_semget(K, p, key, nsems, mode))
    BY <1>1 DEF semget
  <2>2. PICK r : r = do_semget(K, p, key, nsems, mode)
    OBVIOUS
  <2>3. r = K \/ \E new : SetMade(K, r, new)
    BY <1>0, <2>1, <2>2, KFields, SetGot
  <2>4. Good(r) /\ Waits(r, array) /\ Units(r)
    <3>1. CASE r = K
      BY <1>0, <3>1
    <3>2. CASE \E new : SetMade(K, r, new)
      BY <1>0, <3>2, GoodMade, KeepsMade
    <3> QED
      BY <2>3, <3>1, <3>2
  <2> QED
    BY <2>1, <2>2, <2>4, WaitMain
<1>2. ASSUME NEW p \in Procs, semctl(p) PROVE WaitInv'
  <2>1. CASE \E id \in BusyIds, n \in 1 .. SEMMSL, val \in SetVals : main(p, setval(K, p, id, n, val))
    <3>1. PICK id \in BusyIds, n \in 1 .. SEMMSL, val \in SetVals : main(p, setval(K, p, id, n, val))
      BY <2>1
    <3>2. Waits(setval(K, p, id, n, val), array) /\ Units(setval(K, p, id, n, val))
      BY <1>0, KeepsSetval
    <3>3. Good(setval(K, p, id, n, val))
      BY <1>0, <1>a, SemCallsGood
    <3> QED
      BY <3>1, <3>2, <3>3, WaitMain
  <2>2. CASE \E id \in BusyIds, buf \in SetAlls : main(p, setall(K, p, id, buf))
    <3>1. PICK id \in BusyIds, buf \in SetAlls : main(p, setall(K, p, id, buf))
      BY <2>2
    <3>2. Waits(setall(K, p, id, buf), array) /\ Units(setall(K, p, id, buf))
      BY <1>0, KeepsSetall
    <3>3. Good(setall(K, p, id, buf))
      BY <1>0, <1>a, SemCallsGood
    <3> QED
      BY <3>1, <3>2, <3>3, WaitMain
  <2>3. CASE \E id \in BusyIds, uid \in NewOwners, mode \in Modes :
                main(p, ipc_set(K, p, id, uid, mode))
    <3>1. PICK id \in BusyIds, uid \in NewOwners, mode \in Modes :
             main(p, ipc_set(K, p, id, uid, mode))
      BY <2>3
    <3>2. Waits(ipc_set(K, p, id, uid, mode), array) /\ Units(ipc_set(K, p, id, uid, mode))
      BY <1>0, KeepsSet
    <3>3. Good(ipc_set(K, p, id, uid, mode))
      BY <1>0, <1>a, SemCallsGood
    <3> QED
      BY <3>1, <3>2, <3>3, WaitMain
  <2>4. CASE \E id \in Ids : main(p, ipc_rmid(K, p, id))
    <3>1. PICK id \in Ids : main(p, ipc_rmid(K, p, id))
      BY <2>4
    <3>2. PICK r : r = ipc_rmid(K, p, id)
      OBVIOUS
    <3>3. r = K \/ \E i \in 1 .. Len(K.sem) : SetGone(K, r, i)
      BY <1>0, <3>2, SetRemoved
    <3>4. Waits(r, array) /\ Units(r)
      BY <1>0, <3>3, KeepsGone
    <3>5. Good(r)
      BY <1>0, <3>2, SemCallsGood
    <3> QED
      BY <3>1, <3>2, <3>4, <3>5, WaitMain
  <2> QED
    BY <1>2, <2>1, <2>2, <2>3, <2>4 DEF semctl
<1>3. ASSUME NEW p \in Procs, semop(p) PROVE WaitInv'
  <2>1. PICK id \in BusyIds, sops \in SemOps :
           /\ \A sem \in ToSet(sem_list), o \in ToSet(sops) :
                 o.op > 0 /\ sem.id = id /\ o.num <= Len(sem.sems) =>
                    sem.sems[o.num].semval < MaxValue
           /\ main(p, do_semop(K, p, id, sops))
    BY <1>3 DEF semop
  <2>2. K.sem = sem_list /\ sem_list \in Seq(SemSet) /\ DOMAIN sops = 1 .. Len(sops)
    BY <1>0, KFields, MemoryFields, OpsTypes
  <2>3. ASSUME NEW i \in 1 .. Len(K.sem), K.sem[i].id = id PROVE Below(K.sem[i], sops)
    <3> SUFFICES ASSUME NEW b \in 1 .. Len(sops),
                        sops[b].op > 0, sops[b].num <= Len(K.sem[i].sems)
                 PROVE  K.sem[i].sems[sops[b].num].semval < MaxValue
      BY DEF Below
    <3>1. sops[b] \in ToSet(sops)
      BY <2>2 DEF ToSet
    <3>2. K.sem[i] \in ToSet(sem_list)
      BY <2>2 DEF ToSet
    <3> QED
      BY <2>1, <2>3, <3>1, <3>2
  <2>4. K.client[p].st = "run"
    BY <2>1, KFields DEF main
  <2>5. PICK r : r = do_semop(K, p, id, sops)
    OBVIOUS
  <2>6. Waits(r, array) /\ Units(r)
    BY <1>0, <1>a, <2>3, <2>4, <2>5, KeepsSemop
  <2>7. Good(r)
    BY <1>0, <1>a, <2>5, SemCallsGood
  <2> QED
    BY <2>1, <2>5, <2>6, <2>7, WaitMain
<1>4. ASSUME NEW p \in Procs, shmget(p) PROVE WaitInv'
  <2>1. PICK key \in ShmKeys, mode \in Modes :
           identifier < MaxId /\ main(p, do_shmget(K, p, key, mode))
    BY <1>4 DEF shmget
  <2>2. Good(do_shmget(K, p, key, mode))
    BY <1>0, <2>1, KFields, GoodSegment
  <2> QED
    BY <1>0, <2>1, <2>2, SegmentCallsAside, KeepsAside, WaitMain
<1>5. ASSUME NEW p \in Procs, shmat(p) PROVE WaitInv'
  <2>1. PICK id \in Ids, want \in {{"r"}, {"r", "w"}} :
           mapped[p][id] < MaxAttach /\ main(p, do_shmat(K, p, id, want))
    BY <1>5 DEF shmat
  <2>2. Good(do_shmat(K, p, id, want))
    BY <1>0, <2>1, KFields, GoodAttach
  <2> QED
    BY <1>0, <2>1, <2>2, SegmentCallsAside, KeepsAside, WaitMain
<1>6. ASSUME NEW p \in Procs, shmdt(p) PROVE WaitInv'
  BY <1>0, <1>6, GoodDetach, SegmentCallsAside, KeepsAside, WaitMain DEF shmdt
<1>7. ASSUME NEW p \in Procs, shmctl(p) PROVE WaitInv'
  BY <1>0, <1>7, GoodCtl, SegmentCallsAside, KeepsAside, WaitMain DEF shmctl
<1>8. ASSUME NEW p \in Procs, stat(p) PROVE WaitInv'
  BY <1>0, <1>8, WaitMain DEF stat
<1>9. ASSUME NEW p \in Procs, unpause(p) PROVE WaitInv'
  <2>1. K' = K /\ array' = array \cup {p} /\ notified'
    BY <1>9 DEF unpause, do_notify_sig, K
  <2>2. Passed(K, K', array, array')
    BY <2>1 DEF Passed
  <2> QED
    BY <1>0, <2>1, <2>2, KeepsPassed DEF WaitInv
<1>10. ASSUME NEW p \in Procs, exit_proc(p) PROVE WaitInv'
  <2>1. /\ K'.sem = K.sem /\ K'.ledger = K.ledger /\ K'.ident = K.ident
        /\ K'.client = [client EXCEPT ![p] = Client("exiting")]
        /\ array' = array \cup {p} /\ notified'
    BY <1>10 DEF exit_proc, do_notify_sig, K
  <2>2. K.client = client /\ client \in [Procs -> Caller] /\ Dying(Client("exiting"))
    BY <1>0, KFields, MemoryFields DEF Dying, Client
  <2>3. Passed(K, K', array, array')
    BY <2>1, <2>2 DEF Passed
  <2> QED
    BY <1>0, <2>1, <2>3, KeepsPassed DEF WaitInv
<1>11. ASSUME NEW p \in Procs, vm_exit(p) PROVE WaitInv'
  <2>1. /\ K'.sem = K.sem /\ K'.ledger = K.ledger /\ K'.ident = K.ident
        /\ K'.client = [client EXCEPT ![p] = Client("gone")] /\ client[p].st = "exiting"
        /\ array' = array /\ notified' = notified /\ querying' = querying
    BY <1>11 DEF vm_exit, K
  <2>2. /\ K.client = client /\ client \in [Procs -> Caller] /\ Dying(Client("gone"))
        /\ Dying(client[p])
    BY <1>0, <2>1, KFields, MemoryFields DEF Dying, Client
  <2>3. Passed(K, K', array, array')
    BY <2>1, <2>2 DEF Passed
  <2> QED
    BY <1>0, <2>1, <2>3, KeepsPassed DEF WaitInv
<1>12. ASSUME NEW p \in Procs, NEW c \in Procs, vm_fork(p, c) PROVE WaitInv'
  <2>1. /\ K'.sem = K.sem /\ K'.ledger = K.ledger /\ K'.ident = K.ident
        /\ K'.client = [client EXCEPT ![c] = Client("run")] /\ client[c].st = "unborn"
        /\ array' = array /\ notified' = notified /\ querying' = querying
    BY <1>12 DEF vm_fork, K
  <2>2. K.client = client /\ client \in [Procs -> Caller] /\ Client("run").st = "run"
    BY <1>0, KFields, MemoryFields DEF Client
  <2>3. Passed(K, K', array, array')
    BY <2>1, <2>2 DEF Passed
  <2> QED
    BY <1>0, <2>1, <2>3, KeepsPassed DEF WaitInv
<1>13. ASSUME sem_process_vm_notify PROVE WaitInv'
  <2>1. K' = K /\ array' = array /\ querying'
    BY <1>13 DEF sem_process_vm_notify, K
  <2> QED
    BY <1>0, <2>1 DEF WaitInv
<1>14. ASSUME vm_query_exit PROVE WaitInv'
  <2>1. PICK p \in IF array = {} THEN Procs ELSE array :
           /\ array' = array \ {p} /\ querying' = (array \ {p} # {})
           /\ Become(remove_process(K, p))
    BY <1>14 DEF vm_query_exit
  <2>2. p \in Procs
    BY <2>1 DEF TablesInv
  <2>3. Reported(K, remove_process(K, p), p)
    BY <1>0, ProcessRemoved
  <2>4. K' = remove_process(K, p)
    BY <2>1, <2>3, Becomes DEF Reported
  <2>5. Waits(K', array') /\ Units(K')
    BY <1>0, <2>1, <2>2, <2>3, <2>4, KeepsReported
  <2> QED
    BY <2>1, <2>5 DEF WaitInv
<1>15. ASSUME UNCHANGED vars PROVE WaitInv'
  <2>1. K' = K /\ array' = array /\ notified' = notified /\ querying' = querying
    BY <1>15 DEF vars, K
  <2> QED
    BY <1>0, <2>1 DEF WaitInv
<1> QED
  BY <1>1, <1>2, <1>3, <1>4, <1>5, <1>6, <1>7, <1>8, <1>9, <1>10, <1>11, <1>12, <1>13, <1>14,
     <1>15 DEF Next

(* A process waits in one place.                                           *)
WaitsAt(k, i, n, z, p, v) ==
    /\ i \in 1 .. Len(k.sem) /\ n \in 1 .. Len(k.sem[i].sems) /\ z \in BOOLEAN
    /\ v \in Nat /\ On(Listed(k.sem[i].sems[n], z), p, v)

LEMMA OnePlace ==
    ASSUME NEW k, Good(k), NEW a, Waits(k, a), NEW p \in Procs, k.client[p].st = "wait",
           NEW i, NEW n, NEW z, NEW v, WaitsAt(k, i, n, z, p, v),
           NEW j, NEW m, NEW y, NEW w, WaitsAt(k, j, m, y, p, w)
    PROVE  i = j /\ n = m /\ z = y /\ v = w
<1> USE DEF WaitsAt
<1>1. Called(k.client[p], k.sem[i].id, n, v) /\ Called(k.client[p], k.sem[j].id, m, w)
  BY DEF Waits, Entered, Dying
<1>2. i = j
  BY <1>1 DEF Called, Good, Unique
<1>3. n = m /\ v = w
  BY <1>1 DEF Called
<1>4. k.sem[i].sems[n] \in Semaphore
  BY Sems DEF Good
<1>5. z = y
  BY <1>2, <1>3, <1>4, OneKind
<1> QED
  BY <1>2, <1>3, <1>5

(* The entries of SemaphoresOK, in these terms.                            *)
Kind(z) == IF z THEN "z" ELSE "n"

Place(e, i, n, z, j) ==
    /\ i \in 1 .. Len(K.sem) /\ n \in 1 .. Len(K.sem[i].sems) /\ z \in BOOLEAN
    /\ j \in 1 .. Len(Listed(K.sem[i].sems[n], z)) /\ e = <<i, n, Kind(z), j>>

LEMMA Places ==
    ASSUME TablesInv
    PROVE  /\ \A e \in Entries : \E i, n, z, j : Place(e, i, n, z, j)
           /\ \A e, i, n, z, j : Place(e, i, n, z, j) => e \in Entries
<1>0. K \in Memory /\ K.sem = sem_list
  BY KFields DEF TablesInv, Good
<1>1. sem_list \in Seq(SemSet) /\ DOMAIN sem_list = 1 .. Len(sem_list)
  BY <1>0, MemoryFields
<1>2. ASSUME NEW i \in 1 .. Len(sem_list)
      PROVE  DOMAIN sem_list[i].sems = 1 .. Len(sem_list[i].sems)
  <2>1. sem_list[i].sems \in Seq(Semaphore)
    BY <1>0, Sems
  <2> QED
    BY <2>1
<1>3. ASSUME NEW i \in 1 .. Len(sem_list), NEW n \in 1 .. Len(sem_list[i].sems)
      PROVE  /\ DOMAIN sem_list[i].sems[n].zlist = 1 .. Len(sem_list[i].sems[n].zlist)
             /\ DOMAIN sem_list[i].sems[n].nlist = 1 .. Len(sem_list[i].sems[n].nlist)
  <2>1. sem_list[i].sems[n] \in Semaphore
    BY <1>0, <1>3, Sems
  <2>2. /\ sem_list[i].sems[n].zlist \in Seq(ZeroWaiter)
        /\ sem_list[i].sems[n].nlist \in Seq(UnitWaiter)
    BY <2>1 DEF Semaphore
  <2> QED
    BY <2>2
<1>4. ASSUME NEW e \in Entries PROVE \E i, n, z, j : Place(e, i, n, z, j)
  <2>a. PICK i \in DOMAIN sem_list : \E n \in DOMAIN sem_list[i].sems :
           e \in {<<i, n, "z", j>> : j \in DOMAIN sem_list[i].sems[n].zlist} \cup
                 {<<i, n, "n", j>> : j \in DOMAIN sem_list[i].sems[n].nlist}
    BY <1>4 DEF Entries
  <2>1. PICK n \in DOMAIN sem_list[i].sems :
           e \in {<<i, n, "z", j>> : j \in DOMAIN sem_list[i].sems[n].zlist} \cup
                 {<<i, n, "n", j>> : j \in DOMAIN sem_list[i].sems[n].nlist}
    BY <2>a
  <2>2. i \in 1 .. Len(sem_list) /\ n \in 1 .. Len(sem_list[i].sems)
    BY <1>1, <1>2
  <2>3. CASE \E j \in DOMAIN sem_list[i].sems[n].zlist : e = <<i, n, "z", j>>
    <3>1. PICK j \in 1 .. Len(sem_list[i].sems[n].zlist) : e = <<i, n, "z", j>>
      BY <1>3, <2>2, <2>3
    <3>2. Place(e, i, n, TRUE, j)
      BY <1>0, <2>2, <3>1 DEF Place, Kind, Listed
    <3> QED
      BY <3>2
  <2>4. CASE \E j \in DOMAIN sem_list[i].sems[n].nlist : e = <<i, n, "n", j>>
    <3>1. PICK j \in 1 .. Len(sem_list[i].sems[n].nlist) : e = <<i, n, "n", j>>
      BY <1>3, <2>2, <2>4
    <3>2. Place(e, i, n, FALSE, j)
      BY <1>0, <2>2, <3>1 DEF Place, Kind, Listed
    <3> QED
      BY <3>2
  <2> QED
    BY <2>1, <2>3, <2>4
<1>5. ASSUME NEW e, NEW i, NEW n, NEW z, NEW j, Place(e, i, n, z, j) PROVE e \in Entries
  <2>1. /\ i \in DOMAIN sem_list /\ n \in DOMAIN sem_list[i].sems
        /\ i \in 1 .. Len(sem_list) /\ n \in 1 .. Len(sem_list[i].sems)
    BY <1>0, <1>1, <1>2, <1>5 DEF Place
  <2>2. e \in {<<i, n, "z", l>> : l \in DOMAIN sem_list[i].sems[n].zlist} \cup
              {<<i, n, "n", l>> : l \in DOMAIN sem_list[i].sems[n].nlist}
    <3>1. CASE z
      <4>1. j \in 1 .. Len(sem_list[i].sems[n].zlist) /\ e = <<i, n, "z", j>>
        BY <1>0, <1>5, <3>1 DEF Place, Kind, Listed
      <4> QED
        BY <1>3, <2>1, <4>1
    <3>2. CASE ~ z
      <4>1. j \in 1 .. Len(sem_list[i].sems[n].nlist) /\ e = <<i, n, "n", j>>
        BY <1>0, <1>5, <3>2 DEF Place, Kind, Listed
      <4> QED
        BY <1>3, <2>1, <4>1
    <3> QED
      BY <3>1, <3>2
  <2> QED
    BY <2>1, <2>2 DEF Entries
<1> QED
  BY <1>4, <1>5

LEMMA EntryAt ==
    ASSUME TablesInv, NEW e, NEW i, NEW n, NEW z, NEW j, Place(e, i, n, z, j)
    PROVE  /\ Entry(e) = Listed(K.sem[i].sems[n], z)[j]
           /\ Entry(e).who \in Procs /\ Entry(e).val \in Nat /\ (z <=> Entry(e).val = 0)
           /\ On(Listed(K.sem[i].sems[n], z), Entry(e).who, Entry(e).val)
<1>1. /\ i \in 1 .. Len(K.sem) /\ n \in 1 .. Len(K.sem[i].sems) /\ z \in BOOLEAN
      /\ j \in 1 .. Len(Listed(K.sem[i].sems[n], z))
      /\ e[1] = i /\ e[2] = n /\ e[3] = Kind(z) /\ e[4] = j
  BY DEF Place
<1>2. Entry(e) = Listed(K.sem[i].sems[n], z)[j]
  <2>1. CASE z
    BY <1>1, <2>1, KFields DEF Entry, Kind, Listed
  <2>2. CASE ~ z
    BY <1>1, <2>2, KFields DEF Entry, Kind, Listed
  <2> QED
    BY <2>1, <2>2
<1>3. K.sem[i].sems[n] \in Semaphore
  BY <1>1, Sems DEF TablesInv, Good
<1>4. /\ Entry(e).who \in Procs /\ Entry(e).val \in Nat /\ (z <=> Entry(e).val = 0)
  BY <1>1, <1>2, <1>3, ListTypes
<1> QED
  BY <1>1, <1>2, <1>4 DEF On

LEMMA WaitersFound == TablesInv /\ WaitInv => WaitersOK
<1> SUFFICES ASSUME TablesInv, WaitInv PROVE WaitersOK
  OBVIOUS
<1>0. /\ Good(K) /\ Waits(K, array) /\ K.sem = sem_list /\ K.client = client
      /\ (array # {} => notified \/ querying)
  BY KFields DEF TablesInv, WaitInv
<1>1. ASSUME NEW p \in Procs, client[p].st = "wait"
      PROVE  \E e \in Entries :
              /\ Entry(e).who = p /\ \A f \in Entries : Entry(f).who = p => f = e
              /\ sem_list[e[1]].id = client[p].call.id /\ e[2] = client[p].call.num
              /\ Entry(e).val = -client[p].call.op /\ (e[3] = "z") = (client[p].call.op = 0)
  <2>1. PICK i \in 1 .. Len(K.sem) :
           \E n \in 1 .. Len(K.sem[i].sems), z \in BOOLEAN, v \in Nat :
              On(Listed(K.sem[i].sems[n], z), p, v)
    BY <1>0, <1>1 DEF Waits, Remembered
  <2>2. PICK n \in 1 .. Len(K.sem[i].sems), z \in BOOLEAN, v \in Nat :
              On(Listed(K.sem[i].sems[n], z), p, v)
    BY <2>1
  <2>3. PICK j \in 1 .. Len(Listed(K.sem[i].sems[n], z)) :
              /\ Listed(K.sem[i].sems[n], z)[j].who = p
              /\ Listed(K.sem[i].sems[n], z)[j].val = v
    BY <2>2 DEF On
  <2>4. PICK e : e = <<i, n, Kind(z), j>>
    OBVIOUS
  <2>5. Place(e, i, n, z, j) /\ e \in Entries
    <3>1. Place(e, i, n, z, j)
      BY <2>1, <2>2, <2>3, <2>4 DEF Place
    <3> QED
      BY <3>1, Places
  <2>6. Entry(e).who = p /\ Entry(e).val = v /\ (z <=> v = 0)
    BY <2>3, <2>5, EntryAt
  <2>7. Called(client[p], K.sem[i].id, n, v)
    BY <1>0, <1>1, <2>2 DEF Waits, Entered, Dying
  <2>8. ASSUME NEW f \in Entries, Entry(f).who = p PROVE f = e
    <3>1. PICK i2, n2, z2, j2 : Place(f, i2, n2, z2, j2)
      BY <2>8, Places
    <3>2. PICK w : w = Entry(f).val
      OBVIOUS
    <3>3. /\ i2 \in 1 .. Len(K.sem) /\ n2 \in 1 .. Len(K.sem[i2].sems) /\ z2 \in BOOLEAN
          /\ j2 \in 1 .. Len(Listed(K.sem[i2].sems[n2], z2)) /\ f = <<i2, n2, Kind(z2), j2>>
      BY <3>1 DEF Place
    <3>4. /\ w \in Nat /\ On(Listed(K.sem[i2].sems[n2], z2), p, w)
          /\ Listed(K.sem[i2].sems[n2], z2)[j2].who = p
      BY <2>8, <3>1, <3>2, EntryAt
    <3>5. i = i2 /\ n = n2 /\ z = z2
      <4>1. WaitsAt(K, i, n, z, p, v) /\ WaitsAt(K, i2, n2, z2, p, w)
        BY <2>1, <2>2, <3>3, <3>4 DEF WaitsAt
      <4>2. K.client[p].st = "wait"
        BY <1>0, <1>1
      <4> QED
        BY <1>0, <4>1, <4>2, OnePlace
    <3>6. j = j2
      <4>1. PICK list : list = Listed(K.sem[i].sems[n], z)
        OBVIOUS
      <4>2. j2 \in 1 .. Len(list) /\ list[j2].who = p
        BY <3>3, <3>4, <3>5, <4>1
      <4>3. j \in 1 .. Len(list) /\ list[j].who = p
        BY <2>3, <4>1
      <4>4. Apart(list)
        BY <1>0, <2>1, <2>2, <4>1 DEF Waits, Once
      <4> QED
        BY <4>2, <4>3, <4>4 DEF Apart
    <3> QED
      BY <2>4, <3>3, <3>5, <3>6
  <2>9. /\ sem_list[e[1]].id = client[p].call.id /\ e[2] = client[p].call.num
        /\ client[p].call.op = -v
    BY <1>0, <2>4, <2>7 DEF Called
  <2>10. /\ Entry(e).val = -client[p].call.op /\ (z <=> client[p].call.op = 0)
    BY <2>2, <2>6, <2>9
  <2>11. (e[3] = "z") = (client[p].call.op = 0)
    <3>1. e[3] = Kind(z)
      BY <2>4
    <3>2. (e[3] = "z") <=> z
      BY <3>1 DEF Kind
    <3> QED
      BY <2>10, <3>2
  <2> QED
    BY <2>5, <2>6, <2>8, <2>9, <2>10, <2>11
<1>2. ASSUME NEW e \in Entries
      PROVE  \/ client[Entry(e).who].st = "wait"
             \/ client[Entry(e).who].st \in {"exiting", "gone"} /\ Entry(e).who \in array
  <2>1. PICK i, n, z, j : Place(e, i, n, z, j)
    BY <1>2, Places
  <2>2. PICK p, v : p = Entry(e).who /\ v = Entry(e).val
    OBVIOUS
  <2>3. p \in Procs /\ v \in Nat /\ On(Listed(K.sem[i].sems[n], z), p, v)
    BY <2>1, <2>2, EntryAt
  <2>4. i \in 1 .. Len(K.sem) /\ n \in 1 .. Len(K.sem[i].sems) /\ z \in BOOLEAN
    BY <2>1 DEF Place
  <2>5. Called(K.client[p], K.sem[i].id, n, v) \/ (Dying(K.client[p]) /\ p \in array)
    BY <1>0, <2>3, <2>4 DEF Waits, Entered
  <2> QED
    BY <1>0, <2>2, <2>5 DEF Called, Dying
<1> QED
  BY <1>0, <1>1, <1>2 DEF WaitersOK

LEMMA UnitsFound == TablesInv /\ WaitInv => UnitsKept
<1> SUFFICES ASSUME TablesInv, WaitInv, NEW sem \in ToSet(sem_list), NEW n \in DOMAIN sem.sems
             PROVE  /\ sem.sems[n].semval <= ledger[sem.id][n]
                    /\ (\A p \in Procs : client[p].st \in {"run", "wait", "unborn"}) =>
                           sem.sems[n].semval = ledger[sem.id][n]
  BY DEF UnitsKept
<1>0. K \in Memory /\ K.sem = sem_list /\ K.client = client /\ K.ledger = ledger /\ Units(K)
  BY KFields DEF TablesInv, Good, WaitInv
<1>1. PICK i \in 1 .. Len(K.sem) : sem = K.sem[i]
  BY <1>0, MemoryFields DEF ToSet
<1>2. sem.sems \in Seq(Semaphore)
  BY <1>0, <1>1, Sems DEF SemSet
<1>3. n \in 1 .. Len(K.sem[i].sems)
  BY <1>1, <1>2
<1> QED
  BY <1>0, <1>1, <1>3 DEF Units, Counted, Alive

(* Who waits, and for what, stays as described by WaitInv.                 *)
THEOREM WaitsSound == SingleWaits /\ NoWrap => (Spec => []WaitInv)
<1> SUFFICES ASSUME SingleWaits, NoWrap PROVE Spec => []WaitInv
  OBVIOUS
<1>1. TablesInv /\ WaitInv /\ [Next]_vars => WaitInv'
  BY WaitStep
<1> QED
  BY <1>1, WaitInit, TablesSound, PTL DEF Spec

(* Whatever calls, signals, forks, exits and reports interleave: a process *)
(* waits in semop exactly as long as it is on the list of its call, a list *)
(* names nobody else but the dead that VM has yet to report, and values    *)
(* are what the callers that were told OK left; provided only a lone       *)
(* operation may have to wait and values stay within their 16 bits.        *)
THEOREM SemaphoresSafe == SingleWaits /\ NoWrap => (Spec => []SemaphoresOK)
<1> SUFFICES ASSUME SingleWaits, NoWrap PROVE Spec => []SemaphoresOK
  OBVIOUS
<1>1. TablesInv /\ WaitInv => SemaphoresOK
  BY WaitersFound, UnitsFound DEF SemaphoresOK
<1>2. Spec => []WaitInv
  BY WaitsSound
<1> QED
  BY <1>1, <1>2, TablesSound, PTL

=============================================================================
