--------------------------- MODULE PMSchedProofs ---------------------------
(***************************************************************************)
(* TLAPS proofs about PMSched, for every size of the tables, every queue   *)
(* layout, every set of nice levels and every bound: type correctness, the *)
(* agreement of SCHED's table with the kernel's, and, in the second part,  *)
(* that PM's process life cycle keeps SCHED's table current.               *)
(***************************************************************************)
EXTENDS PMSched, WellFoundedInduction, TLAPS

(* The value of nice_to_priority is a user queue, whatever the nice level  *)
(* (PM's clamps stand in for the range check that is commented out).       *)
LEMMA NiceToPriorityType ==
    ASSUME NEW nice \in Int
    PROVE  nice_to_priority(nice) \in MAX_USER_Q .. MIN_USER_Q
<1> DEFINE range == PRIO_MAX - PRIO_MIN + 1
           x == MAX_USER_Q + CDiv((nice - PRIO_MIN)
                            * (MIN_USER_Q - MAX_USER_Q + 1), range)
<1>1. range \in Nat \ {0} /\ PRIO_MIN \in Int
  BY DEF PRIO_MAX, PRIO_MIN
<1>2. MIN_USER_Q \in Int /\ MAX_USER_Q \in Int /\ MAX_USER_Q <= MIN_USER_Q
  BY ConfigAssumption DEF MIN_USER_Q
<1> HIDE DEF range
<1>3. \A a \in Int : CDiv(a, range) \in Int
  BY <1>1 DEF CDiv
<1>4. (nice - PRIO_MIN) * (MIN_USER_Q - MAX_USER_Q + 1) \in Int
  BY <1>1, <1>2
<1>5. x \in Int
  BY <1>2, <1>3, <1>4
<1> HIDE DEF x
<1>6. ToUnsigned(x) \in Int
  BY <1>5, ConfigAssumption DEF ToUnsigned
<1> QED
  BY <1>2, <1>6 DEF nice_to_priority, range, x

(* An unsigned decrement of a priority below UMOD.                         *)
LEMMA Decrement ==
    ASSUME NEW p \in Nat, p < UMOD
    PROVE  ToUnsigned(p - 1) = IF p = 0 THEN UMOD - 1 ELSE p - 1
<1>1. UMOD \in Nat /\ UMOD > 0
  BY ConfigAssumption
<1>2. CASE p = 0
  <2>1. (0 - 1) % UMOD = UMOD - 1
    BY <1>1
  <2> QED
    BY <1>2, <2>1 DEF ToUnsigned
<1>3. CASE p # 0
  BY <1>1, <1>3 DEF ToUnsigned
<1> QED
  BY <1>2, <1>3

(* A nice level as SCHED stores it: itself, or far above every queue.      *)
LEMMA NiceAsUnsigned ==
    ASSUME NEW nice \in Nices, nice < NR_SCHED_QUEUES
    PROVE  /\ ToUnsigned(nice) \in Nat
           /\ nice >= 0 => ToUnsigned(nice) = nice
           /\ nice < 0 => ToUnsigned(nice) > NR_SCHED_QUEUES
<1>1. /\ UMOD \in Nat /\ UMOD > 2 * (NR_SCHED_QUEUES + 1)
      /\ NR_SCHED_QUEUES \in Nat
  BY ConfigAssumption
<1>2. nice \in Int /\ nice >= -(UMOD \div 2)
  BY <1>1, PMAssumption
<1>3. UMOD - UMOD \div 2 > NR_SCHED_QUEUES /\ UMOD \div 2 <= UMOD
      /\ UMOD \div 2 \in Nat /\ UMOD \div 2 > 0
  BY <1>1
<1>4. CASE nice >= 0
  BY <1>1, <1>2, <1>4 DEF ToUnsigned
<1>5. CASE nice < 0
  <2>1. nice % UMOD = nice + UMOD
    BY <1>1, <1>2, <1>3, <1>5
  <2> QED
    BY <1>1, <1>2, <1>3, <1>5, <2>1 DEF ToUnsigned
<1> QED
  BY <1>2, <1>4, <1>5

-----------------------------------------------------------------------------
(* Helpers on one table.                                                   *)
LEMMA RtsSetType ==
    ASSUME NEW k \in [Slots -> KProc], NEW s \in Slots, NEW f \in RtsFlags
    PROVE  /\ RtsSet(k, s, f) \in [Slots -> KProc]
           /\ \A t \in Slots :
                /\ RtsSet(k, s, f)[t].gen = k[t].gen
                /\ RtsSet(k, s, f)[t].priority = k[t].priority
                /\ RtsSet(k, s, f)[t].scheduler = k[t].scheduler
                /\ RtsSet(k, s, f)[t].rts = IF t = s THEN k[t].rts \cup {f} ELSE k[t].rts
BY DEF RtsSet, KProc

LEMMA RtsUnsetType ==
    ASSUME NEW k \in [Slots -> KProc], NEW s \in Slots, NEW f \in RtsFlags
    PROVE  /\ RtsUnset(k, s, f) \in [Slots -> KProc]
           /\ \A t \in Slots :
                /\ RtsUnset(k, s, f)[t].gen = k[t].gen
                /\ RtsUnset(k, s, f)[t].priority = k[t].priority
                /\ RtsUnset(k, s, f)[t].scheduler = k[t].scheduler
                /\ RtsUnset(k, s, f)[t].rts = IF t = s THEN k[t].rts \ {f} ELSE k[t].rts
BY DEF RtsUnset, KProc

LEMMA InitSlot == INIT_PROC_NR \in Slots
BY ConfigAssumption DEF INIT_PROC_NR, Slots

LEMMA ClearIpcType ==
    ASSUME NEW q \in Seq(Slots \cup {PM_PROC_NR}), NEW s
    PROVE  clear_ipc(q, s) \in Seq(Slots \cup {PM_PROC_NR})
<1> DEFINE i == CHOOSE j \in DOMAIN q : q[j] = s
           S == Slots \cup {PM_PROC_NR}
<1>1. CASE \E j \in DOMAIN q : q[j] = s
  <2>1. i \in 1 .. Len(q)
    BY <1>1
  <2> HIDE DEF i, S
  <2>2. SubSeq(q, 1, i - 1) \in Seq(S) /\ SubSeq(q, i + 1, Len(q)) \in Seq(S)
    BY <2>1 DEF S
  <2>3. SubSeq(q, 1, i - 1) \o SubSeq(q, i + 1, Len(q)) \in Seq(S)
    BY <2>2
  <2> QED
    BY <1>1, <2>3 DEF clear_ipc, S, i
<1>2. CASE ~ \E j \in DOMAIN q : q[j] = s
  BY <1>2 DEF clear_ipc
<1> QED
  BY <1>1, <1>2

(* A non-empty set of slots has a least one, and Min finds it.             *)
LEMMA MinSlot ==
    ASSUME NEW S \in SUBSET Slots, S # {}
    PROVE  Min(S) \in S
<1>1. S \subseteq Nat
  BY ConfigAssumption DEF Slots
<1>2. \E x \in S : \A y \in S : x <= y
  <2> DEFINE R == {ss \in Nat \X Nat : ss[1] < ss[2]}
  <2>1. IsWellFoundedOn(R, Nat)
    BY NatLessThanWellFounded, Zenon DEF OpToRel
  <2> HIDE DEF R
  <2>2. \E x \in S : \A y \in S : ~ (<<y, x>> \in R)
    BY <1>1, <2>1, WFMin
  <2>3. PICK x \in S : \A y \in S : ~ (<<y, x>> \in R)
    BY <2>2
  <2>4. \A y \in S : x <= y
    <3> SUFFICES ASSUME NEW y \in S PROVE x <= y
      OBVIOUS
    <3>1. ~ (<<y, x>> \in Nat \X Nat /\ y < x)
      BY <2>3, Zenon DEF R
    <3>2. x \in Nat /\ y \in Nat
      BY <1>1
    <3> QED
      BY <3>1, <3>2
  <2> QED
    BY <2>4
<1> QED
  BY <1>2 DEF Min

-----------------------------------------------------------------------------
(* What PM's handlers may do to the tables while SCHED is not involved: no *)
(* slot changes hands or queue, and the quantum and the pending message of *)
(* a slot that stays taken are left alone.                                 *)
BothTables == [m : [Slots -> MProc], k : [Slots -> KProc]]

SameSlot(k, k2, t) ==
    /\ k2[t].gen = k[t].gen
    /\ k2[t].priority = k[t].priority
    /\ k2[t].scheduler = k[t].scheduler
    /\ "SLOT_FREE" \notin k2[t].rts =>
         /\ "SLOT_FREE" \notin k[t].rts
         /\ "NO_QUANTUM" \in k2[t].rts <=> "NO_QUANTUM" \in k[t].rts
         /\ "SENDING" \in k2[t].rts <=> "SENDING" \in k[t].rts

Benign(st, st2) ==
    /\ st2 \in BothTables
    /\ \A t \in Slots : /\ st2.m[t].endpoint = st.m[t].endpoint
                        /\ SameSlot(st.k, st2.k, t)

LEMMA BenignTransitive ==
    ASSUME NEW a, NEW b, NEW c, Benign(a, b), Benign(b, c)
    PROVE  Benign(a, c)
BY DEF Benign, SameSlot

LEMMA BenignReflexive ==
    ASSUME NEW a \in BothTables
    PROVE  Benign(a, a)
BY DEF Benign, SameSlot

(* A change of one slot's flags, parent, nice or scheduler in PM's table.  *)
LEMMA BenignM ==
    ASSUME NEW st \in BothTables, NEW m \in [Slots -> MProc],
           \A t \in Slots : m[t].endpoint = st.m[t].endpoint
    PROVE  Benign(st, [m |-> m, k |-> st.k])
BY DEF Benign, SameSlot, BothTables

LEMMA SameSlotRts ==
    ASSUME NEW k \in [Slots -> KProc], NEW s \in Slots,
           NEW f \in {"RECEIVING", "PROC_STOP"}
    PROVE  /\ \A t \in Slots : SameSlot(k, RtsSet(k, s, f), t)
           /\ \A t \in Slots : SameSlot(k, RtsUnset(k, s, f), t)
           /\ RtsSet(k, s, f) \in [Slots -> KProc]
           /\ RtsUnset(k, s, f) \in [Slots -> KProc]
<1>1. f \in RtsFlags /\ f # "SLOT_FREE" /\ f # "NO_QUANTUM" /\ f # "SENDING"
  BY DEF RtsFlags
<1>2. \A t \in Slots : k[t] \in KProc
  OBVIOUS
<1>3. \A t \in Slots : SameSlot(k, RtsSet(k, s, f), t)
  <2> SUFFICES ASSUME NEW t \in Slots PROVE SameSlot(k, RtsSet(k, s, f), t)
    OBVIOUS
  <2> DEFINE k2 == RtsSet(k, s, f)
  <2>1. /\ k2[t].gen = k[t].gen
        /\ k2[t].priority = k[t].priority
        /\ k2[t].scheduler = k[t].scheduler
        /\ k2[t].rts = IF t = s THEN k[t].rts \cup {f} ELSE k[t].rts
    BY <1>1 DEF RtsSet, KProc
  <2> HIDE DEF k2
  <2>2. SameSlot(k, k2, t)
    BY <1>1, <2>1 DEF SameSlot
  <2> QED
    BY <2>2 DEF k2
<1>4. \A t \in Slots : SameSlot(k, RtsUnset(k, s, f), t)
  <2> SUFFICES ASSUME NEW t \in Slots PROVE SameSlot(k, RtsUnset(k, s, f), t)
    OBVIOUS
  <2> DEFINE k2 == RtsUnset(k, s, f)
  <2>1. /\ k2[t].gen = k[t].gen
        /\ k2[t].priority = k[t].priority
        /\ k2[t].scheduler = k[t].scheduler
        /\ k2[t].rts = IF t = s THEN k[t].rts \ {f} ELSE k[t].rts
    BY <1>1 DEF RtsUnset, KProc
  <2> HIDE DEF k2
  <2>2. SameSlot(k, k2, t)
    BY <1>1, <2>1 DEF SameSlot
  <2> QED
    BY <2>2 DEF k2
<1> QED
  BY <1>1, <1>3, <1>4, RtsSetType, RtsUnsetType

LEMMA BenignCleanup ==
    ASSUME NEW st \in BothTables, NEW s \in Slots
    PROVE  Benign(st, cleanup(st, s))
<1>1. st.m \in [Slots -> MProc] /\ {} \in SUBSET MpFlags
  BY DEF BothTables
<1> DEFINE m == [st.m EXCEPT ![s].flags = {}]
<1>2. m \in [Slots -> MProc] /\ \A t \in Slots : m[t].endpoint = st.m[t].endpoint
  BY <1>1 DEF MProc
<1> QED
  BY <1>2, BenignM DEF cleanup

LEMMA BenignTellParent ==
    ASSUME NEW st \in BothTables, NEW s \in Slots
    PROVE  Benign(st, tell_parent(st, s))
<1> DEFINE p == st.m[s].parent
           m0 == [st.m EXCEPT ![p].flags = @ \ {"WAITING"}]
           m == [m0 EXCEPT ![s].flags = (@ \ {"ZOMBIE"}) \cup {"TOLD_PARENT"}]
           k == IF Alive(st.m, p) THEN sendnb(st.k, p) ELSE st.k
<1>1. /\ st.m \in [Slots -> MProc] /\ st.k \in [Slots -> KProc]
      /\ p \in Slots /\ "TOLD_PARENT" \in MpFlags
  BY DEF BothTables, MProc, MpFlags
<1>2. m0 \in [Slots -> MProc] /\ \A t \in Slots : m0[t].endpoint = st.m[t].endpoint
  BY <1>1 DEF MProc
<1> HIDE DEF m0
<1>3. m \in [Slots -> MProc] /\ \A t \in Slots : m[t].endpoint = m0[t].endpoint
  <2>1. m0[s].flags \in SUBSET MpFlags
    BY <1>2 DEF MProc
  <2>2. (m0[s].flags \ {"ZOMBIE"}) \cup {"TOLD_PARENT"} \in SUBSET MpFlags
    BY <1>1, <2>1
  <2> QED
    BY <1>2, <2>2 DEF MProc
<1>4. k \in [Slots -> KProc] /\ \A t \in Slots : SameSlot(st.k, k, t)
  BY <1>1, SameSlotRts DEF sendnb, SameSlot
<1>5. tell_parent(st, s) = [m |-> m, k |-> k]
  BY DEF tell_parent, m0
<1> HIDE DEF p, m0, m, k
<1> QED
  BY <1>2, <1>3, <1>4, <1>5 DEF Benign, BothTables

LEMMA BenignCheckParent ==
    ASSUME NEW st \in BothTables, NEW s \in Slots, NEW b \in BOOLEAN
    PROVE  Benign(st, check_parent(st, s, b))
<1>1. Benign(st, tell_parent(st, s)) /\ tell_parent(st, s) \in BothTables
  BY BenignTellParent DEF Benign
<1>2. Benign(tell_parent(st, s), cleanup(tell_parent(st, s), s))
  BY <1>1, BenignCleanup
<1>3. Benign(st, cleanup(tell_parent(st, s), s))
  BY <1>1, <1>2, BenignTransitive
<1>4. Benign(st, st)
  BY BenignReflexive
<1> QED
  BY <1>1, <1>3, <1>4 DEF check_parent

LEMMA BenignZombify ==
    ASSUME NEW st \in BothTables, NEW s \in Slots
    PROVE  Benign(st, zombify(st, s))
<1> DEFINE m == [st.m EXCEPT ![s].flags = @ \cup {"ZOMBIE"}]
           z == [m |-> m, k |-> st.k]
<1>1. st.m \in [Slots -> MProc] /\ "ZOMBIE" \in MpFlags
  BY DEF BothTables, MpFlags
<1>2. m \in [Slots -> MProc] /\ \A t \in Slots : m[t].endpoint = st.m[t].endpoint
  BY <1>1 DEF MProc
<1> HIDE DEF m
<1>3. Benign(st, z) /\ z \in BothTables
  BY <1>2, BenignM DEF Benign
<1> HIDE DEF z
<1>4. Benign(z, check_parent(z, s, FALSE))
  BY <1>3, BenignCheckParent
<1> QED
  BY <1>3, <1>4, BenignTransitive DEF zombify, z, m

LEMMA BenignDisinherit ==
    ASSUME NEW st \in BothTables, NEW s \in Slots
    PROVE  Benign(st, disinherit(st, s))
<1> DEFINE m == [c \in Slots |->
                   IF MpIs(st.m, c, "IN_USE") /\ st.m[c].parent = s
                   THEN [st.m[c] EXCEPT !.parent = INIT_PROC_NR] ELSE st.m[c]]
           zombies == {c \in Slots : /\ MpIs(st.m, c, "ZOMBIE")
                                     /\ st.m[c].parent = s}
           adopted == [m |-> m, k |-> st.k]
<1>1. st.m \in [Slots -> MProc] /\ INIT_PROC_NR \in Slots
  BY InitSlot DEF BothTables
<1>2. m \in [Slots -> MProc] /\ \A t \in Slots : m[t].endpoint = st.m[t].endpoint
  BY <1>1 DEF MProc
<1> HIDE DEF m
<1>3. Benign(st, adopted) /\ adopted \in BothTables
  BY <1>2, BenignM DEF Benign
<1>4. zombies \in SUBSET Slots
  OBVIOUS
<1>5. disinherit(st, s) = IF zombies = {} THEN adopted
                          ELSE check_parent(adopted, Min(zombies), TRUE)
  BY DEF disinherit, m
<1> HIDE DEF adopted, zombies
<1>6. CASE zombies = {}
  BY <1>3, <1>5, <1>6
<1>7. CASE zombies # {}
  <2>1. Min(zombies) \in Slots
    BY <1>4, <1>7, MinSlot
  <2>2. Benign(adopted, check_parent(adopted, Min(zombies), TRUE))
    BY <1>3, <2>1, BenignCheckParent
  <2> QED
    BY <1>3, <1>5, <1>7, <2>2, BenignTransitive
<1> QED
  BY <1>6, <1>7

LEMMA BenignExitProc ==
    ASSUME NEW st \in BothTables, NEW s \in Slots, NEW b \in BOOLEAN
    PROVE  Benign(st, exit_proc(st, s, b))
<1> DEFINE F == (st.m[s].flags \cap {"IN_USE"}) \cup {"VFS_CALL", "EXITING"}
           m == [st.m EXCEPT ![s].flags = F]
           k == RtsSet(st.k, s, "PROC_STOP")
           stopped == [m |-> m, k |-> k]
           z == IF b THEN stopped ELSE zombify(stopped, s)
<1>1. st.m \in [Slots -> MProc] /\ st.k \in [Slots -> KProc]
  BY DEF BothTables
<1>2. F \in SUBSET MpFlags
  BY <1>1 DEF MProc, MpFlags
<1>3. exit_proc(st, s, b) = disinherit(z, s)
  BY DEF exit_proc
<1> HIDE DEF F
<1>4. m \in [Slots -> MProc] /\ \A t \in Slots : m[t].endpoint = st.m[t].endpoint
  BY <1>1, <1>2 DEF MProc
<1>5. k \in [Slots -> KProc] /\ \A t \in Slots : SameSlot(st.k, k, t)
  BY <1>1, SameSlotRts
<1> HIDE DEF m, k
<1>6. Benign(st, stopped) /\ stopped \in BothTables
  BY <1>4, <1>5 DEF Benign, BothTables
<1> HIDE DEF stopped
<1>7. Benign(stopped, zombify(stopped, s))
  BY <1>6, BenignZombify
<1>8. Benign(st, z)
  BY <1>6, <1>7, BenignTransitive
<1> HIDE DEF z
<1>9. z \in BothTables
  BY <1>8 DEF Benign
<1>10. Benign(z, disinherit(z, s))
  BY <1>9, BenignDisinherit
<1> QED
  BY <1>3, <1>8, <1>10, BenignTransitive

LEMMA BenignCleared ==
    ASSUME NEW st \in BothTables, NEW s \in Slots, NEW b \in BOOLEAN
    PROVE  Benign(st, Cleared(st, s, b))
<1> DEFINE z == IF b THEN zombify(st, s) ELSE st
           k == sys_clear(z.k, s)
           f == [m |-> z.m, k |-> k]
<1>1. Benign(st, z)
  BY BenignZombify, BenignReflexive
<1>2. Cleared(st, s, b) = IF MpIs(f.m, s, "TOLD_PARENT") THEN cleanup(f, s) ELSE f
  BY DEF Cleared
<1> HIDE DEF z
<1>3. z \in BothTables
  BY <1>1 DEF Benign
<1>4. z.k \in [Slots -> KProc] /\ z.m \in [Slots -> MProc]
  BY <1>3 DEF BothTables
<1>5. k \in [Slots -> KProc]
  BY <1>4 DEF sys_clear, KProc, RtsFlags
<1>6. \A t \in Slots : SameSlot(z.k, k, t)
  BY <1>4 DEF sys_clear, KProc, SameSlot
<1> HIDE DEF k
<1>7. Benign(z, f) /\ f \in BothTables
  BY <1>4, <1>5, <1>6 DEF Benign, BothTables
<1> HIDE DEF f
<1>8. Benign(f, cleanup(f, s)) /\ Benign(f, f)
  BY <1>7, BenignCleanup, BenignReflexive
<1>9. Benign(st, f) /\ Benign(st, cleanup(f, s))
  BY <1>1, <1>7, <1>8, BenignTransitive
<1> QED
  BY <1>2, <1>9

-----------------------------------------------------------------------------
(* The invariant survives every benign change of PM's and the kernel's     *)
(* table: PM's side of an action only has to be shown benign.              *)
LEMMA BenignPreserves ==
    ASSUME IInv, NEW st, Benign(Tables, st), SetTables(st), UNCHANGED schedproc
    PROVE  /\ mproc' \in [Slots -> MProc]
           /\ kproc' \in [Slots -> KProc]
           /\ SlotsInv'
           /\ \A t \in Slots : kproc'[t].gen = kproc[t].gen
<1>1. mproc' \in [Slots -> MProc] /\ kproc' \in [Slots -> KProc]
  BY DEF Benign, BothTables, SetTables
<1>2. \A t \in Slots : mproc'[t].endpoint = mproc[t].endpoint
  BY DEF Benign, Tables, SetTables
<1>3. \A t \in Slots : SameSlot(kproc, kproc', t)
  BY DEF Benign, Tables, SetTables
<1>4. \A t \in Slots : SlotInv(t)'
  <2> SUFFICES ASSUME NEW t \in Slots PROVE SlotInv(t)'
    OBVIOUS
  <2>1. SlotInv(t)
    BY DEF IInv, SlotsInv
  <2>2. SameSlot(kproc, kproc', t) /\ mproc'[t].endpoint = mproc[t].endpoint
    BY <1>2, <1>3
  <2>3. Known(t)' => Known(t)
    BY <2>2 DEF SameSlot, Known, sched_isokendpt, EndpointOf, Endpoint, InUse
  <2>4. /\ kproc'[t].scheduler = kproc[t].scheduler
        /\ kproc'[t].priority = kproc[t].priority
        /\ kproc'[t].gen = kproc[t].gen
    BY <2>2 DEF SameSlot
  <2>5. ASSUME Known(t)'
        PROVE  /\ "NO_QUANTUM" \in kproc'[t].rts <=> "NO_QUANTUM" \in kproc[t].rts
               /\ "SENDING" \in kproc'[t].rts <=> "SENDING" \in kproc[t].rts
    BY <2>2, <2>5 DEF SameSlot, Known
  <2> QED
    BY <2>1, <2>2, <2>3, <2>4, <2>5 DEF SlotInv, InUse, Wrapped
<1>5. \A t \in Slots : kproc'[t].gen = kproc[t].gen
  BY <1>3 DEF SameSlot
<1> QED
  BY <1>1, <1>4, <1>5 DEF SlotsInv

-----------------------------------------------------------------------------
(* The effect of schedule_process on the kernel's table: only slot s can   *)
(* change, and it gets the queue and its quantum exactly if the endpoint   *)
(* is current, SCHED is its scheduler and the arguments are in range.      *)
Rescheduled(k, k2, s, e, ok) ==
    /\ k2 \in [Slots -> KProc]
    /\ \A t \in Slots \ {s} : k2[t] = k[t]
    /\ k2[s].gen = k[s].gen
    /\ k2[s].scheduler = k[s].scheduler
    /\ "SLOT_FREE" \in k2[s].rts <=> "SLOT_FREE" \in k[s].rts
    /\ "SENDING" \in k2[s].rts <=> "SENDING" \in k[s].rts
    /\ ok => /\ k2[s].priority = e.priority
             /\ "NO_QUANTUM" \notin k2[s].rts
             /\ e.priority <= NR_SCHED_QUEUES
    /\ ~ok => k2 = k
    /\ k[s].gen = e.endpoint /\ "SLOT_FREE" \notin k[s].rts
         /\ k[s].scheduler = "SCHED" /\ e.time_slice > 0 /\ ~ok
       => Wrapped(e.priority)

LEMMA Reschedule ==
    ASSUME NEW k \in [Slots -> KProc], NEW s \in Slots, NEW e \in SchedProc
    PROVE  /\ Rescheduled(k, schedule_process(k, s, e), s, e,
                          schedule_process_rv(k, s, e) = "OK")
           /\ schedule_process_rv(k, s, e) \in {"OK", "EINVAL", "EPERM"}
<1> DEFINE rv == schedule_process_rv(k, s, e)
           k2 == schedule_process(k, s, e)
<1>1. e.priority \in Nat /\ e.time_slice \in Nat /\ NR_SCHED_QUEUES \in Nat
  BY ConfigAssumption DEF SchedProc
<1>2. rv \in {"OK", "EINVAL", "EPERM"}
  BY DEF schedule_process_rv, do_schedule_rv
<1>3. rv = "OK" => e.priority <= NR_SCHED_QUEUES
  BY DEF schedule_process_rv, do_schedule_rv, SchedProcAccepts
<1>4. k2 = IF rv = "OK" THEN sched_proc(k, s, e.priority) ELSE k
  BY DEF schedule_process_rv, schedule_process, do_schedule, Endpoint
<1>5. k[s].gen = e.endpoint /\ "SLOT_FREE" \notin k[s].rts
        /\ k[s].scheduler = "SCHED" /\ e.time_slice > 0 /\ rv # "OK"
      => Wrapped(e.priority)
  BY <1>1 DEF schedule_process_rv, do_schedule_rv, SchedProcAccepts, Endpoint,
              isokendpt, Wrapped, TASK_Q
<1> HIDE DEF rv, k2
<1>6. CASE rv = "OK"
  <2>1. k2 = [k EXCEPT ![s].priority = e.priority, ![s].rts = @ \ {"NO_QUANTUM"}]
    BY <1>4, <1>6 DEF sched_proc
  <2>2. k2 \in [Slots -> KProc]
    BY <1>1, <2>1 DEF KProc
  <2>3. /\ \A t \in Slots \ {s} : k2[t] = k[t]
        /\ k2[s].gen = k[s].gen /\ k2[s].scheduler = k[s].scheduler
        /\ k2[s].priority = e.priority
        /\ k2[s].rts = k[s].rts \ {"NO_QUANTUM"}
    BY <2>1 DEF KProc
  <2> QED
    BY <1>2, <1>3, <1>6, <2>2, <2>3 DEF Rescheduled, rv, k2
<1>7. CASE rv # "OK"
  BY <1>2, <1>4, <1>5, <1>7 DEF Rescheduled, rv, k2
<1> QED
  BY <1>6, <1>7

(* A slot whose rows did not change keeps its part of the invariant.       *)
LEMMA UntouchedSlot ==
    ASSUME NEW t \in Slots, SlotInv(t), UNCHANGED mproc,
           kproc'[t] = kproc[t], schedproc'[t] = schedproc[t]
    PROVE  SlotInv(t)'
BY DEF SlotInv, Known, sched_isokendpt, EndpointOf, Endpoint, InUse, Wrapped

(* The slot a handler of SCHED works on: it is enough that its new row     *)
(* keeps the bounds, and that a process SCHED knows is one that it may     *)
(* schedule and that was just given its queue unless its priority wrapped. *)
PriorityInv(p) ==
    \/ p < NR_SCHED_QUEUES
    \/ p >= UMOD - MaxUnderflow /\ p < UMOD

LEMMA PriorityBound ==
    ASSUME NEW p \in Nat, PriorityInv(p)
    PROVE  /\ p <= NR_SCHED_QUEUES => p < NR_SCHED_QUEUES
           /\ p < UMOD
BY ConfigAssumption, UnderflowAssumption DEF PriorityInv

LEMMA RescheduledSlot ==
    ASSUME NEW s \in Slots, NEW k, NEW e \in SchedProc, NEW ok \in BOOLEAN,
           SlotInv(s), UNCHANGED mproc, schedproc'[s] = e,
           k[s].gen = kproc[s].gen,
           k[s].priority = kproc[s].priority,
           Rescheduled(k, kproc', s, e, ok),
           PriorityInv(e.priority),
           e.endpoint <= kproc[s].gen,
           "IN_USE" \in e.flags => e.time_slice > 0,
           "IN_USE" \in e.flags /\ e.endpoint = kproc[s].gen
              /\ "SLOT_FREE" \notin k[s].rts => k[s].scheduler = "SCHED"
    PROVE  SlotInv(s)'
<1>1. /\ kproc'[s].gen = kproc[s].gen
      /\ "SLOT_FREE" \in kproc'[s].rts <=> "SLOT_FREE" \in k[s].rts
      /\ kproc'[s].scheduler = k[s].scheduler
  BY DEF Rescheduled
<1>2. e.priority \in Nat /\ kproc[s].priority < NR_SCHED_QUEUES
  BY DEF SchedProc, SlotInv
<1>3. ok => kproc'[s].priority < NR_SCHED_QUEUES
  BY <1>2, PriorityBound DEF Rescheduled
<1>4. ~ok => kproc'[s].priority < NR_SCHED_QUEUES
  BY <1>2 DEF Rescheduled
<1>5. ASSUME Known(s)'
      PROVE  /\ "IN_USE" \in e.flags /\ e.endpoint = kproc[s].gen
             /\ "SLOT_FREE" \notin k[s].rts
  BY <1>1, <1>5 DEF Known, sched_isokendpt, EndpointOf, Endpoint, InUse
<1>6. ASSUME Known(s)'
      PROVE  /\ kproc'[s].scheduler = "SCHED"
             /\ ~ok => Wrapped(e.priority)
  BY <1>1, <1>5, <1>6 DEF Rescheduled
<1>7. ok => kproc'[s].priority = e.priority /\ "NO_QUANTUM" \notin kproc'[s].rts
  BY DEF Rescheduled
<1>8. mproc'[s].endpoint = kproc'[s].gen
  BY <1>1 DEF SlotInv
<1> QED
  BY <1>1, <1>3, <1>4, <1>6, <1>7, <1>8
     DEF SlotInv, InUse, Wrapped, PriorityInv

-----------------------------------------------------------------------------
(* The handlers of SCHED.                                                  *)
LEMMA NoquantumStep ==
    ASSUME IInv, NEW s \in Slots, do_noquantum(s), UNCHANGED mproc
    PROVE  /\ kproc' \in [Slots -> KProc]
           /\ schedproc' \in [Slots -> SchedProc]
           /\ SlotsInv'
           /\ \A t \in Slots : kproc'[t].gen = kproc[t].gen
<1> DEFINE k == RtsUnset(kproc, s, "SENDING")
           e == [schedproc[s] EXCEPT
                   !.priority = IF @ < MIN_USER_Q THEN @ + 1 ELSE @]
<1>1. /\ kproc \in [Slots -> KProc] /\ schedproc \in [Slots -> SchedProc]
      /\ \A t \in Slots : SlotInv(t)
  BY DEF IInv, TypeOK, SlotsInv
<1>2. MIN_USER_Q = NR_SCHED_QUEUES - 1 /\ NR_SCHED_QUEUES \in Nat
  BY ConfigAssumption DEF MIN_USER_Q
<1>3. /\ k \in [Slots -> KProc]
      /\ \A t \in Slots \ {s} : k[t] = kproc[t]
      /\ k[s].gen = kproc[s].gen /\ k[s].priority = kproc[s].priority
      /\ k[s].scheduler = kproc[s].scheduler
      /\ "SLOT_FREE" \in k[s].rts <=> "SLOT_FREE" \in kproc[s].rts
  BY <1>1 DEF RtsUnset, KProc
<1>4. /\ e \in SchedProc
      /\ e.flags = schedproc[s].flags /\ e.endpoint = schedproc[s].endpoint
      /\ e.time_slice = schedproc[s].time_slice
      /\ e.priority = IF schedproc[s].priority < MIN_USER_Q
                      THEN schedproc[s].priority + 1 ELSE schedproc[s].priority
      /\ schedproc[s].priority \in Nat
  BY <1>1, <1>2 DEF SchedProc
<1> HIDE DEF k, e
<1>5. PriorityInv(e.priority)
  BY <1>1, <1>2, <1>4 DEF SlotInv, PriorityInv
<1>6. CASE sched_isokendpt(EndpointOf(s))
  <2>1. schedproc' = [schedproc EXCEPT ![s] = e] /\ kproc' = schedule_process(k, s, e)
    BY <1>6 DEF do_noquantum, k, e
  <2> DEFINE ok == schedule_process_rv(k, s, e) = "OK"
  <2>2. Rescheduled(k, kproc', s, e, ok)
    BY <1>3, <1>4, <2>1, Reschedule
  <2>3. schedproc' \in [Slots -> SchedProc]
    BY <1>1, <1>4, <2>1
  <2>4. /\ schedproc'[s] = e
        /\ \A t \in Slots \ {s} : schedproc'[t] = schedproc[t]
    BY <1>1, <2>1
  <2>5. /\ \A t \in Slots \ {s} : kproc'[t] = kproc[t]
        /\ kproc'[s].gen = kproc[s].gen
        /\ kproc' \in [Slots -> KProc]
    BY <1>3, <2>2 DEF Rescheduled
  <2>6. "IN_USE" \in e.flags => e.time_slice > 0
    BY <1>1, <1>4 DEF SlotInv, InUse
  <2>7. e.endpoint <= kproc[s].gen
    BY <1>1, <1>4 DEF SlotInv
  <2>8. "IN_USE" \in e.flags /\ e.endpoint = kproc[s].gen
          /\ "SLOT_FREE" \notin k[s].rts => k[s].scheduler = "SCHED"
    BY <1>1, <1>3, <1>4
       DEF SlotInv, Known, sched_isokendpt, EndpointOf, Endpoint, InUse
  <2> HIDE DEF ok
  <2>9. ok \in BOOLEAN
    BY DEF ok
  <2>10. SlotInv(s)'
    BY <1>1, <1>3, <1>4, <1>5, <2>2, <2>4, <2>6, <2>7, <2>8, <2>9, RescheduledSlot
  <2>11. \A t \in Slots \ {s} : SlotInv(t)'
    BY <1>1, <2>4, <2>5, UntouchedSlot
  <2> QED
    BY <2>3, <2>5, <2>10, <2>11 DEF SlotsInv
<1>7. CASE ~ sched_isokendpt(EndpointOf(s))
  <2>1. schedproc' = schedproc /\ kproc' = k
    BY <1>7 DEF do_noquantum, k
  <2>2. SlotInv(s)'
    BY <1>1, <1>3, <1>7, <2>1
       DEF SlotInv, Known, sched_isokendpt, EndpointOf, Endpoint, InUse, Wrapped
  <2>3. \A t \in Slots \ {s} : SlotInv(t)'
    BY <1>1, <1>3, <2>1, UntouchedSlot
  <2> QED
    BY <1>1, <1>3, <2>1, <2>2, <2>3 DEF SlotsInv
<1> QED
  BY <1>6, <1>7

LEMMA LotteryStep ==
    ASSUME IInv, do_lottery, UNCHANGED mproc
    PROVE  /\ kproc' \in [Slots -> KProc]
           /\ schedproc' \in [Slots -> SchedProc]
           /\ SlotsInv'
           /\ \A t \in Slots : kproc'[t].gen = kproc[t].gen
<1>1. /\ kproc \in [Slots -> KProc] /\ schedproc \in [Slots -> SchedProc]
      /\ \A t \in Slots : SlotInv(t)
  BY DEF IInv, TypeOK, SlotsInv
<1>2. CASE UNCHANGED <<schedproc, kproc>>
  BY <1>1, <1>2, UntouchedSlot DEF SlotsInv
<1>3. ASSUME NEW s \in Slots, NEW e,
             e = [schedproc[s] EXCEPT !.priority = ToUnsigned(@ - 1)],
             Wrapped(e.priority) => e.priority >= UMOD - MaxUnderflow,
             schedproc' = [schedproc EXCEPT ![s] = e],
             kproc' = schedule_process(kproc, s, e)
      PROVE  /\ kproc' \in [Slots -> KProc]
             /\ schedproc' \in [Slots -> SchedProc]
             /\ SlotsInv'
             /\ \A t \in Slots : kproc'[t].gen = kproc[t].gen
  <2> DEFINE p == schedproc[s].priority
             ok == schedule_process_rv(kproc, s, e) = "OK"
  <2>1. p \in Nat /\ PriorityInv(p)
    BY <1>1 DEF SchedProc, SlotInv, PriorityInv
  <2>2. ToUnsigned(p - 1) = IF p = 0 THEN UMOD - 1 ELSE p - 1
    BY <2>1, PriorityBound, Decrement
  <2>3. UMOD \in Nat /\ UMOD > NR_SCHED_QUEUES + 1 /\ NR_SCHED_QUEUES \in Nat
    BY ConfigAssumption
  <2>4. /\ e \in SchedProc
        /\ e.flags = schedproc[s].flags /\ e.endpoint = schedproc[s].endpoint
        /\ e.time_slice = schedproc[s].time_slice
        /\ e.priority = IF p = 0 THEN UMOD - 1 ELSE p - 1
    BY <1>1, <1>3, <2>1, <2>2, <2>3 DEF SchedProc
  <2>5. MaxUnderflow \in Nat /\ MaxUnderflow > 0
        /\ UMOD - MaxUnderflow > NR_SCHED_QUEUES + 1
    BY UnderflowAssumption
  <2>6. PriorityInv(e.priority)
    BY <1>3, <2>1, <2>3, <2>4, <2>5 DEF PriorityInv, Wrapped
  <2>7. Rescheduled(kproc, kproc', s, e, ok)
    BY <1>1, <1>3, <2>4, Reschedule
  <2>8. /\ schedproc' \in [Slots -> SchedProc]
        /\ schedproc'[s] = e
        /\ \A t \in Slots \ {s} : schedproc'[t] = schedproc[t]
    BY <1>1, <1>3, <2>4
  <2>9. /\ \A t \in Slots \ {s} : kproc'[t] = kproc[t]
        /\ kproc'[s].gen = kproc[s].gen
        /\ kproc' \in [Slots -> KProc]
    BY <2>7 DEF Rescheduled
  <2>10. /\ "IN_USE" \in e.flags => e.time_slice > 0
         /\ e.endpoint <= kproc[s].gen
    BY <1>1, <2>4 DEF SlotInv, InUse
  <2>11. "IN_USE" \in e.flags /\ e.endpoint = kproc[s].gen
           /\ "SLOT_FREE" \notin kproc[s].rts => kproc[s].scheduler = "SCHED"
    BY <1>1, <2>4
       DEF SlotInv, Known, sched_isokendpt, EndpointOf, Endpoint, InUse
  <2> HIDE DEF ok, p
  <2>12. ok \in BOOLEAN
    BY DEF ok
  <2>13. SlotInv(s)'
    BY <1>1, <2>4, <2>6, <2>7, <2>8, <2>10, <2>11, <2>12, RescheduledSlot
  <2>14. \A t \in Slots \ {s} : SlotInv(t)'
    BY <1>1, <2>8, <2>9, UntouchedSlot
  <2> QED
    BY <2>8, <2>9, <2>13, <2>14 DEF SlotsInv
<1>4. \/ UNCHANGED <<schedproc, kproc>>
      \/ \E s \in Slots :
           LET e == [schedproc[s] EXCEPT !.priority = ToUnsigned(@ - 1)]
           IN  /\ Wrapped(e.priority) => e.priority >= UMOD - MaxUnderflow
               /\ schedproc' = [schedproc EXCEPT ![s] = e]
               /\ kproc' = schedule_process(kproc, s, e)
  BY Zenon DEF do_lottery
<1> QED
  BY <1>2, <1>3, <1>4

LEMMA StopStep ==
    ASSUME IInv, call \in Calling, do_stop_scheduling(call), UNCHANGED mproc
    PROVE  /\ schedproc' \in [Slots -> SchedProc]
           /\ SlotsInv'
<1>1. /\ schedproc \in [Slots -> SchedProc]
      /\ \A t \in Slots : SlotInv(t)
      /\ kproc' = kproc
  BY DEF IInv, TypeOK, SlotsInv, do_stop_scheduling
<1>2. PICK s \in Slots : s = call.endpoint.slot
  BY DEF Calling
<1>3. CASE UNCHANGED schedproc
  BY <1>1, <1>3, UntouchedSlot DEF SlotsInv
<1>4. CASE schedproc' = [schedproc EXCEPT ![s].flags = {}]
  <2>1. schedproc' \in [Slots -> SchedProc]
    BY <1>1, <1>2, <1>4 DEF SchedProc
  <2>2. /\ schedproc'[s].flags = {}
        /\ schedproc'[s].endpoint = schedproc[s].endpoint
        /\ schedproc'[s].priority = schedproc[s].priority
        /\ \A t \in Slots \ {s} : schedproc'[t] = schedproc[t]
    BY <1>1, <1>2, <1>4 DEF SchedProc
  <2>3. SlotInv(s)'
    BY <1>1, <1>2, <2>2
       DEF SlotInv, Known, sched_isokendpt, EndpointOf, Endpoint, InUse
  <2>4. \A t \in Slots \ {s} : SlotInv(t)'
    BY <1>1, <2>2, UntouchedSlot
  <2> QED
    BY <2>1, <2>3, <2>4 DEF SlotsInv
<1> QED
  BY <1>2, <1>3, <1>4 DEF do_stop_scheduling

LEMMA CallIsNotNone ==
    ASSUME call \in Calling \cup {NoCall}, call.type \in CallTypes
    PROVE  call \in Calling
BY DEF NoCall, CallTypes

(* The arithmetic of do_nice stays within the integers.                    *)
LEMMA NewTicketsType ==
    ASSUME NEW tickets \in Int, NEW nice \in Int, NEW add \in tickets_to_add(nice)
    PROVE  NewTickets(tickets, nice, add) \in Int
<1>1. UMOD \in Nat /\ UMOD > 0 /\ MAX_TICKETS \in Nat /\ NICE_DIVISOR \in Nat \ {0}
  BY ConfigAssumption
<1> DEFINE d == CDiv(nice * MAX_TICKETS, NICE_DIVISOR)
<1>2. nice * MAX_TICKETS \in Int
  BY <1>1
<1>3. d \in Int
  BY <1>1, <1>2 DEF CDiv
<1> HIDE DEF d
<1>4. \A i \in Int : ToUnsigned(i) \in Int
  BY <1>1 DEF ToUnsigned
<1>5. UMOD \div 2 \in Int
  BY <1>1
<1>6. add \in Int
  BY <1>3, <1>4, <1>5 DEF tickets_to_add, d
<1>7. \A i \in Int : ToSigned(i) \in Int
  BY <1>1 DEF ToSigned
<1>8. /\ ToSigned(ToUnsigned(tickets + add)) \in Int
      /\ ToSigned(ToUnsigned(tickets - add)) \in Int
  BY <1>4, <1>6, <1>7
<1> QED
  BY <1>1, <1>8 DEF NewTickets

LEMMA NiceStep ==
    ASSUME IInv, call \in Calling, call.type = "SET_NICE", do_nice(call),
           UNCHANGED mproc
    PROVE  /\ kproc' \in [Slots -> KProc]
           /\ schedproc' \in [Slots -> SchedProc]
           /\ SlotsInv'
           /\ \A t \in Slots : kproc'[t].gen = kproc[t].gen
           /\ \E rv \in Results : call' = [call EXCEPT !.rv = rv]
<1>0. PICK s \in Slots, nice \in Int : s = call.endpoint.slot /\ nice = call.maxprio
  BY DEF Calling
<1> DEFINE Good == /\ kproc' \in [Slots -> KProc]
           /\ schedproc' \in [Slots -> SchedProc]
           /\ SlotsInv'
           /\ \A t \in Slots : kproc'[t].gen = kproc[t].gen
           /\ \E rv \in Results : call' = [call EXCEPT !.rv = rv]
<1>1. /\ kproc \in [Slots -> KProc] /\ schedproc \in [Slots -> SchedProc]
      /\ \A t \in Slots : SlotInv(t)
  BY DEF IInv, TypeOK, SlotsInv
<1>2. nice \in Nices
  <2>1. call # NoCall
    BY DEF NoCall
  <2> QED
    BY <1>0, <2>1 DEF IInv, CallInv
<1>4. ASSUME NEW rv \in Results, UNCHANGED <<schedproc, kproc>>,
             call' = [call EXCEPT !.rv = rv]
      PROVE  Good
  BY <1>1, <1>4, UntouchedSlot DEF SlotsInv
<1>5. ASSUME sched_isokendpt(call.endpoint), nice < NR_SCHED_QUEUES,
             NEW add \in tickets_to_add(nice),
             NEW e, e = [schedproc[s] EXCEPT !.tickets = NewTickets(@, nice, add)],
             NEW new, new = [e EXCEPT !.priority = ToUnsigned(nice),
                                      !.max_priority = ToUnsigned(nice)],
             NEW rv, rv = schedule_process_rv(kproc, s, new),
             schedproc' = [schedproc EXCEPT ![s] = IF rv = "OK" THEN new ELSE e],
             kproc' = schedule_process(kproc, s, new),
             call' = [call EXCEPT !.rv = rv]
      PROVE  Good
  <2>1. ToUnsigned(nice) \in Nat
    BY <1>2, <1>5, NiceAsUnsigned
  <2>2. schedproc[s] \in SchedProc /\ schedproc[s].tickets \in Int
    BY <1>1 DEF SchedProc
  <2>3. NewTickets(schedproc[s].tickets, nice, add) \in Int
    BY <2>2, NewTicketsType
  <2>4. /\ e \in SchedProc
        /\ e.flags = schedproc[s].flags /\ e.endpoint = schedproc[s].endpoint
        /\ e.time_slice = schedproc[s].time_slice
        /\ e.priority = schedproc[s].priority
    BY <1>5, <2>2, <2>3 DEF SchedProc
  <2>5. /\ new \in SchedProc
        /\ new.flags = schedproc[s].flags /\ new.endpoint = schedproc[s].endpoint
        /\ new.time_slice = schedproc[s].time_slice
        /\ new.priority = ToUnsigned(nice)
    BY <1>5, <2>1, <2>4 DEF SchedProc
  <2> DEFINE ok == rv = "OK"
  <2>6. Rescheduled(kproc, kproc', s, new, ok) /\ rv \in {"OK", "EINVAL", "EPERM"}
    BY <1>1, <1>5, <2>5, Reschedule
  <2>7. rv \in Results /\ \E r \in Results : call' = [call EXCEPT !.rv = r]
    BY <1>5, <2>6 DEF Results
  <2>8. /\ \A t \in Slots \ {s} : kproc'[t] = kproc[t]
        /\ kproc'[s].gen = kproc[s].gen
        /\ kproc' \in [Slots -> KProc]
    BY <2>6 DEF Rescheduled
  <2>9. /\ schedproc' \in [Slots -> SchedProc]
        /\ schedproc'[s] = IF ok THEN new ELSE e
        /\ \A t \in Slots \ {s} : schedproc'[t] = schedproc[t]
    BY <1>1, <1>5, <2>4, <2>5
  <2>10. \A t \in Slots \ {s} : SlotInv(t)'
    BY <1>1, <2>8, <2>9, UntouchedSlot
  <2>11. SlotInv(s)'
    <3>1. CASE ok
      <4>1. new.priority <= NR_SCHED_QUEUES
        BY <2>6, <3>1 DEF Rescheduled
      <4>2. PriorityInv(new.priority)
        <5>1. NR_SCHED_QUEUES \in Nat
          BY ConfigAssumption
        <5> QED
          BY <1>2, <1>5, <2>1, <2>5, <4>1, <5>1, NiceAsUnsigned
             DEF PriorityInv
      <4>3. /\ "IN_USE" \in new.flags => new.time_slice > 0
            /\ new.endpoint <= kproc[s].gen
        BY <1>1, <2>5 DEF SlotInv, InUse
      <4>4. "IN_USE" \in new.flags /\ new.endpoint = kproc[s].gen
              /\ "SLOT_FREE" \notin kproc[s].rts => kproc[s].scheduler = "SCHED"
        BY <1>1, <2>5
           DEF SlotInv, Known, sched_isokendpt, EndpointOf, Endpoint, InUse
      <4>5. schedproc'[s] = new /\ ok \in BOOLEAN
        BY <2>9, <3>1
      <4> HIDE DEF ok
      <4> QED
        BY <1>1, <2>5, <2>6, <4>2, <4>3, <4>4, <4>5, RescheduledSlot
    <3>2. CASE ~ok
      <4>1. kproc' = kproc /\ schedproc'[s] = e
        BY <2>6, <2>9, <3>2 DEF Rescheduled
      <4> QED
        BY <1>1, <2>4, <4>1
           DEF SlotInv, Known, sched_isokendpt, EndpointOf, Endpoint, InUse, Wrapped
    <3> QED
      BY <3>1, <3>2
  <2> QED
    BY <2>7, <2>8, <2>9, <2>10, <2>11 DEF SlotsInv
<1>6. "EBADEPT" \in Results /\ "EINVAL" \in Results
  BY DEF Results
<1>7. \/ \E rv \in Results : /\ UNCHANGED <<schedproc, kproc>>
                             /\ call' = [call EXCEPT !.rv = rv]
      \/ /\ sched_isokendpt(call.endpoint)
         /\ nice < NR_SCHED_QUEUES
         /\ \E add \in tickets_to_add(nice) :
              LET e == [schedproc[s] EXCEPT !.tickets = NewTickets(@, nice, add)]
                  new == [e EXCEPT !.priority = ToUnsigned(nice),
                                   !.max_priority = ToUnsigned(nice)]
                  rv == schedule_process_rv(kproc, s, new)
              IN  /\ schedproc' = [schedproc EXCEPT
                                     ![s] = IF rv = "OK" THEN new ELSE e]
                  /\ kproc' = schedule_process(kproc, s, new)
                  /\ call' = [call EXCEPT !.rv = rv]
  BY <1>0, <1>6, Zenon DEF do_nice
<1> HIDE DEF Good
<1>8. Good
  BY <1>4, <1>5, <1>7, Zenon
<1> QED
  BY <1>8 DEF Good

(* The entry do_start_scheduling fills in: it names the process that holds *)
(* the slot, and has a quantum and a priority in range, its own or those   *)
(* of the parent's entry.                                                  *)
LEMMA StartEntrySound ==
    ASSUME IInv, call \in Calling, call.type \in {"START", "INHERIT"},
           NEW s \in Slots, s = call.endpoint.slot,
           NEW e, e = StartEntry(Populate(schedproc[s], call), call),
           call.maxprio < NR_SCHED_QUEUES,
           call.type = "INHERIT" => sched_isokendpt(call.parent)
    PROVE  /\ e \in SchedProc /\ e.flags = schedproc[s].flags
           /\ e.endpoint = kproc[s].gen
           /\ e.time_slice > 0 /\ PriorityInv(e.priority)
<1>1. /\ kproc \in [Slots -> KProc] /\ schedproc \in [Slots -> SchedProc]
      /\ \A t \in Slots : SlotInv(t)
  BY DEF IInv, TypeOK, SlotsInv
<1>2. call.endpoint.gen = kproc[s].gen /\ kproc[s].gen \in Nat /\ call.maxprio \in Nat
  <2>1. call # NoCall
    BY DEF NoCall
  <2> QED
    BY <1>1, <2>1 DEF IInv, CallInv, KProc
<1>3. PICK e0 : e0 = Populate(schedproc[s], call)
  OBVIOUS
<1>4. /\ e0 \in SchedProc
      /\ e0.flags = schedproc[s].flags /\ e0.endpoint = kproc[s].gen
  BY <1>1, <1>2, <1>3 DEF Populate, SchedProc
<1>5. CASE call.type = "START"
  <2>1. e = [e0 EXCEPT !.priority = call.maxprio, !.tickets = START_TICKETS,
                       !.time_slice = USER_QUANTUM]
    BY <1>3, <1>5 DEF StartEntry
  <2>2. START_TICKETS \in Int /\ USER_QUANTUM \in Nat /\ USER_QUANTUM > 0
    BY ConfigAssumption
  <2>3. PriorityInv(call.maxprio)
    BY DEF PriorityInv
  <2> QED
    BY <1>2, <1>4, <2>1, <2>2, <2>3 DEF SchedProc
<1>6. CASE call.type = "INHERIT"
  <2>1. PICK p \in Slots : p = call.parent.slot
    BY DEF Calling
  <2>2. e = [e0 EXCEPT !.priority = schedproc[p].priority,
                       !.tickets = schedproc[p].tickets,
                       !.time_slice = schedproc[p].time_slice]
    BY <1>3, <1>6, <2>1 DEF StartEntry
  <2>3. InUse(p)
    BY <1>6, <2>1 DEF sched_isokendpt
  <2>4. schedproc[p].time_slice > 0 /\ PriorityInv(schedproc[p].priority)
    BY <1>1, <2>3 DEF SlotInv, PriorityInv
  <2>5. /\ schedproc[p].priority \in Nat /\ schedproc[p].tickets \in Int
        /\ schedproc[p].time_slice \in Nat
    BY <1>1 DEF SchedProc
  <2> QED
    BY <1>4, <2>2, <2>4, <2>5 DEF SchedProc
<1> QED
  BY <1>5, <1>6

LEMMA StartStep ==
    ASSUME IInv, call \in Calling, call.type \in {"START", "INHERIT"},
           do_start_scheduling(call), UNCHANGED mproc
    PROVE  /\ kproc' \in [Slots -> KProc]
           /\ schedproc' \in [Slots -> SchedProc]
           /\ total_tickets' \in Nat
           /\ SlotsInv'
           /\ \A t \in Slots : kproc'[t].gen = kproc[t].gen
           /\ \E rv \in Results : call' = [call EXCEPT !.rv = rv]
<1>1. /\ kproc \in [Slots -> KProc] /\ schedproc \in [Slots -> SchedProc]
      /\ total_tickets \in Nat
      /\ \A t \in Slots : SlotInv(t)
  BY DEF IInv, TypeOK, SlotsInv
<1>2. PICK s \in Slots : s = call.endpoint.slot
  BY DEF Calling
<1>3. /\ call.endpoint = [slot |-> s, gen |-> kproc[s].gen]
      /\ call.endpoint.gen = kproc[s].gen
      /\ call.maxprio \in Nat
      /\ kproc[s].gen \in Nat
  <2>1. call # NoCall
    BY DEF NoCall
  <2>2. call.endpoint.gen = kproc[s].gen /\ call.maxprio \in Nat
    BY <1>2, <2>1 DEF IInv, CallInv
  <2>3. call.endpoint \in [slot : Slots, gen : Nat]
    BY DEF Calling
  <2> QED
    BY <1>2, <2>2, <2>3
<1>4. PICK e0 : e0 = Populate(schedproc[s], call)
  OBVIOUS
<1>5. /\ e0 \in SchedProc
      /\ e0.flags = schedproc[s].flags /\ e0.endpoint = kproc[s].gen
      /\ e0.priority = schedproc[s].priority
      /\ e0.time_slice = schedproc[s].time_slice
  BY <1>1, <1>3, <1>4 DEF Populate, SchedProc
<1>6. PICK e : e = StartEntry(e0, call)
  OBVIOUS
<1>7. "EDEADEPT" \in Results /\ "EINVAL" \in Results /\ "OK" \in Results
  BY DEF Results
<1> DEFINE Unchecked == /\ total_tickets' \in Nat
                        /\ \E rv \in Results : call' = [call EXCEPT !.rv = rv]
<1>8. CASE UNCHANGED <<schedproc, kproc, total_tickets>> /\ Unchecked
  BY <1>1, <1>8, UntouchedSlot DEF SlotsInv
<1>9. ASSUME NEW d \in SchedProc, ~InUse(s),
             d.flags = schedproc[s].flags, d.endpoint = kproc[s].gen,
             PriorityInv(d.priority),
             schedproc' = [schedproc EXCEPT ![s] = d], UNCHANGED kproc
      PROVE  schedproc' \in [Slots -> SchedProc] /\ SlotsInv'
  <2>1. /\ schedproc' \in [Slots -> SchedProc]
        /\ schedproc'[s] = d
        /\ \A t \in Slots \ {s} : schedproc'[t] = schedproc[t]
    BY <1>1, <1>9
  <2>2. SlotInv(s)'
    BY <1>1, <1>3, <1>9, <2>1
       DEF SlotInv, Known, sched_isokendpt, EndpointOf, Endpoint, InUse, PriorityInv
  <2>3. \A t \in Slots \ {s} : SlotInv(t)'
    BY <1>1, <1>9, <2>1, UntouchedSlot
  <2> QED
    BY <2>1, <2>2, <2>3 DEF SlotsInv
<1>10. CASE /\ ~InUse(s) /\ schedproc' = [schedproc EXCEPT ![s] = e0]
            /\ UNCHANGED <<kproc, total_tickets>> /\ Unchecked
  <2>1. PriorityInv(e0.priority)
    BY <1>1, <1>5 DEF SlotInv, PriorityInv
  <2> QED
    BY <1>5, <1>9, <1>10, <1>1, <2>1
<1> DEFINE rv0 == do_schedctl_rv(kproc, call.endpoint)
           k == do_schedctl(kproc, call.endpoint)
           Accepted ==
             /\ ~InUse(s)
             /\ call.maxprio < NR_SCHED_QUEUES
             /\ call.type = "INHERIT" => sched_isokendpt(call.parent)
             /\ total_tickets' = ToUnsigned(total_tickets + e.tickets)
<1>11. ASSUME Accepted
       PROVE  /\ e \in SchedProc /\ e.flags = schedproc[s].flags
              /\ e.endpoint = kproc[s].gen
              /\ e.time_slice > 0 /\ PriorityInv(e.priority)
              /\ total_tickets' \in Nat
  <2>1. /\ e \in SchedProc /\ e.flags = schedproc[s].flags
        /\ e.endpoint = kproc[s].gen
        /\ e.time_slice > 0 /\ PriorityInv(e.priority)
    BY <1>2, <1>4, <1>6, <1>11, StartEntrySound
  <2>2. total_tickets + e.tickets \in Int
    BY <1>1, <2>1 DEF SchedProc
  <2>3. UMOD \in Nat /\ UMOD > 0
    BY ConfigAssumption
  <2>4. total_tickets' \in Nat
    BY <1>11, <2>2, <2>3 DEF ToUnsigned
  <2> QED
    BY <2>1, <2>4
<1>12. CASE /\ Accepted
            /\ rv0 # "OK"
            /\ schedproc' = [schedproc EXCEPT ![s] = e]
            /\ call' = [call EXCEPT !.rv = rv0]
            /\ UNCHANGED kproc
  <2>1. rv0 \in Results
    BY <1>7 DEF do_schedctl_rv
  <2>2. schedproc' \in [Slots -> SchedProc] /\ SlotsInv'
    BY <1>9, <1>11, <1>12
  <2> QED
    BY <1>1, <1>11, <1>12, <2>1, <2>2
<1>13. CASE /\ Accepted
            /\ rv0 = "OK"
            /\ schedproc' = [schedproc EXCEPT ![s] = [e EXCEPT !.flags = {"IN_USE"}]]
            /\ kproc' = schedule_process(k, s, e)
            /\ call' = [call EXCEPT !.rv = schedule_process_rv(k, s, e)]
  <2>1. /\ e \in SchedProc /\ e.endpoint = kproc[s].gen
        /\ e.time_slice > 0 /\ PriorityInv(e.priority)
        /\ total_tickets' \in Nat
    BY <1>11, <1>13
  <2>2. PICK u : u = [e EXCEPT !.flags = {"IN_USE"}]
    OBVIOUS
  <2>3. /\ u \in SchedProc /\ u.endpoint = e.endpoint
        /\ u.priority = e.priority /\ u.time_slice = e.time_slice
    BY <2>1, <2>2 DEF SchedProc
  <2>4. isokendpt(kproc, call.endpoint)
    BY <1>13 DEF do_schedctl_rv
  <2>5. k = [kproc EXCEPT ![s].scheduler = "SCHED"]
    BY <1>2, <2>4 DEF do_schedctl
  <2> HIDE DEF k
  <2>6. /\ k \in [Slots -> KProc] /\ k[s].scheduler = "SCHED"
        /\ k[s].gen = kproc[s].gen /\ k[s].priority = kproc[s].priority
        /\ \A t \in Slots \ {s} : k[t] = kproc[t]
    BY <1>1, <2>5 DEF KProc
  <2> DEFINE rv == schedule_process_rv(k, s, e)
             ok == rv = "OK"
  <2>7. Rescheduled(k, kproc', s, e, ok) /\ rv \in Results
    BY <1>13, <2>1, <2>6, Reschedule DEF Results
  <2> HIDE DEF rv
  <2>8. Rescheduled(k, kproc', s, u, ok)
    BY <2>3, <2>7 DEF Rescheduled
  <2>9. /\ schedproc' \in [Slots -> SchedProc]
        /\ schedproc'[s] = u
        /\ \A t \in Slots \ {s} : schedproc'[t] = schedproc[t]
    BY <1>1, <1>13, <2>2, <2>3
  <2>10. /\ \A t \in Slots \ {s} : kproc'[t] = kproc[t]
         /\ kproc'[s].gen = kproc[s].gen
         /\ kproc' \in [Slots -> KProc]
    BY <2>6, <2>8 DEF Rescheduled
  <2>11. SlotInv(s)'
    <3>1. ok \in BOOLEAN /\ u.endpoint <= kproc[s].gen /\ PriorityInv(u.priority)
      BY <1>3, <2>1, <2>3
    <3>2. /\ "IN_USE" \in u.flags => u.time_slice > 0
          /\ "IN_USE" \in u.flags /\ u.endpoint = kproc[s].gen
               /\ "SLOT_FREE" \notin k[s].rts => k[s].scheduler = "SCHED"
      BY <2>1, <2>3, <2>6
    <3> HIDE DEF ok
    <3> QED
      BY <1>1, <2>3, <2>6, <2>8, <2>9, <3>1, <3>2, RescheduledSlot
  <2>12. \A t \in Slots \ {s} : SlotInv(t)'
    BY <1>1, <2>9, <2>10, UntouchedSlot
  <2>13. \E r \in Results : call' = [call EXCEPT !.rv = r]
    BY <1>13, <2>7 DEF rv
  <2> QED
    BY <2>1, <2>9, <2>10, <2>11, <2>12, <2>13 DEF SlotsInv
<1>14. sched_isemtyendpt(call.endpoint) <=> ~InUse(s)
  BY <1>2 DEF sched_isemtyendpt
<1>15. \/ /\ ~sched_isemtyendpt(call.endpoint)
          /\ call' = [call EXCEPT !.rv = "EDEADEPT"]
          /\ UNCHANGED <<schedproc, kproc, total_tickets>>
       \/ /\ ~InUse(s)
          /\ schedproc' = [schedproc EXCEPT ![s] = e0]
          /\ \/ call' = [call EXCEPT !.rv = "EINVAL"]
             \/ call' = [call EXCEPT !.rv = "EDEADEPT"]
          /\ UNCHANGED <<kproc, total_tickets>>
       \/ /\ Accepted
          /\ rv0 # "OK"
          /\ schedproc' = [schedproc EXCEPT ![s] = e]
          /\ call' = [call EXCEPT !.rv = rv0]
          /\ UNCHANGED kproc
       \/ /\ Accepted
          /\ rv0 = "OK"
          /\ schedproc' = [schedproc EXCEPT ![s] = [e EXCEPT !.flags = {"IN_USE"}]]
          /\ kproc' = schedule_process(k, s, e)
          /\ call' = [call EXCEPT !.rv = schedule_process_rv(k, s, e)]
  BY <1>2, <1>4, <1>6, <1>14, Zenon DEF do_start_scheduling
<1> QED
  BY <1>1, <1>7, <1>8, <1>10, <1>12, <1>13, <1>15

-----------------------------------------------------------------------------
(* A request of PM, and its answer, satisfy CallInv.                       *)
LEMMA RequestSent ==
    ASSUME IInv, NEW type \in CallTypes, NEW s \in Slots, NEW p \in Slots,
           NEW prio \in Int, NEW c \in Slots, NEW core \in BOOLEAN,
           type \in {"START", "INHERIT"} => prio \in Nat,
           type = "SET_NICE" => prio \in Nices,
           taskcall(type, MpEndpoint(mproc, s), MpEndpoint(mproc, p), prio, c, core),
           \A t \in Slots : kproc'[t].gen = kproc[t].gen
    PROVE  /\ call' \in Calling
           /\ CallInv'
           /\ caller_q' \in Seq(Slots \cup {PM_PROC_NR})
<1>1. /\ mproc \in [Slots -> MProc] /\ caller_q \in Seq(Slots \cup {PM_PROC_NR})
      /\ mproc[s].endpoint = kproc[s].gen
  BY DEF IInv, TypeOK, SlotsInv, SlotInv
<1>2. mproc[s].endpoint \in Nat /\ mproc[p].endpoint \in Nat
  BY <1>1 DEF MProc
<1>3. call' = [type |-> type,
               endpoint |-> [slot |-> s, gen |-> mproc[s].endpoint],
               parent |-> [slot |-> p, gen |-> mproc[p].endpoint],
               maxprio |-> prio, caller |-> c, core |-> core, rv |-> "PENDING"]
  BY DEF taskcall, MpEndpoint, Endpoint
<1>4. call' \in Calling
  BY <1>2, <1>3 DEF Calling, Results
<1>5. CallInv'
  BY <1>1, <1>3 DEF CallInv
<1>6. caller_q' \in Seq(Slots \cup {PM_PROC_NR})
  BY <1>1 DEF taskcall
<1> QED
  BY <1>4, <1>5, <1>6

LEMMA RequestAnswered ==
    ASSUME IInv, call \in Calling, NEW rv \in Results,
           call' = [call EXCEPT !.rv = rv],
           \A t \in Slots : kproc'[t].gen = kproc[t].gen
    PROVE  call' \in Calling /\ CallInv'
<1>1. /\ call' \in Calling /\ call'.type = call.type
      /\ call'.endpoint = call.endpoint /\ call'.maxprio = call.maxprio
  BY DEF Calling
<1>2. call # NoCall
  <2>1. call.type \in CallTypes
    BY DEF Calling
  <2> QED
    BY <2>1 DEF NoCall, CallTypes
<1>3. call.endpoint.slot \in Slots
  BY DEF Calling
<1> QED
  BY <1>1, <1>2, <1>3 DEF IInv, CallInv

LEMMA CallUntouched ==
    ASSUME IInv, UNCHANGED call, \A t \in Slots : kproc'[t].gen = kproc[t].gen
    PROVE  CallInv'
<1>1. CASE call = NoCall
  BY <1>1 DEF CallInv
<1>2. CASE call # NoCall
  <2>1. call \in Calling
    BY <1>2 DEF IInv, TypeOK
  <2>2. call.endpoint.slot \in Slots
    BY <2>1 DEF Calling
  <2> QED
    BY <2>2 DEF IInv, CallInv
<1> QED
  BY <1>1, <1>2

LEMMA MainStep ==
    ASSUME IInv, SchedMain
    PROVE  IInv'
<1>1. /\ caller_q \in Seq(Slots \cup {PM_PROC_NR}) /\ caller_q # << >>
      /\ caller_q' = Tail(caller_q)
      /\ UNCHANGED <<mproc, vfs, sched_up>>
      /\ TypeOK
  BY DEF IInv, TypeOK, SchedMain, main
<1>2. caller_q' \in Seq(Slots \cup {PM_PROC_NR})
      /\ Head(caller_q) \in Slots \cup {PM_PROC_NR}
  BY <1>1
<1> DEFINE Good == /\ kproc' \in [Slots -> KProc]
                   /\ schedproc' \in [Slots -> SchedProc]
                   /\ total_tickets' \in Nat
                   /\ call' \in Calling \cup {NoCall}
                   /\ SlotsInv' /\ CallInv'
<1>3. ASSUME Head(caller_q) # PM_PROC_NR, do_noquantum(Head(caller_q)),
             UNCHANGED <<total_tickets, call>>
      PROVE  Good
  <2>1. PICK s \in Slots : s = Head(caller_q)
    BY <1>2, <1>3
  <2>2. /\ kproc' \in [Slots -> KProc] /\ schedproc' \in [Slots -> SchedProc]
        /\ SlotsInv'
        /\ \A t \in Slots : kproc'[t].gen = kproc[t].gen
    BY <1>1, <1>3, <2>1, NoquantumStep
  <2> QED
    BY <1>1, <1>3, <2>2, CallUntouched DEF TypeOK
<1>4. ASSUME call.type \in {"START", "INHERIT"}, do_start_scheduling(call)
      PROVE  Good
  <2>1. call \in Calling
    BY <1>1, <1>4, CallIsNotNone DEF CallTypes, TypeOK
  <2>2. /\ kproc' \in [Slots -> KProc] /\ schedproc' \in [Slots -> SchedProc]
        /\ total_tickets' \in Nat /\ SlotsInv'
        /\ \A t \in Slots : kproc'[t].gen = kproc[t].gen
        /\ \E rv \in Results : call' = [call EXCEPT !.rv = rv]
    BY <1>1, <1>4, <2>1, StartStep
  <2> QED
    BY <2>1, <2>2, RequestAnswered
<1>5. ASSUME call.type = "STOP", do_stop_scheduling(call)
      PROVE  Good
  <2>1. call \in Calling
    BY <1>1, <1>5, CallIsNotNone DEF CallTypes, TypeOK
  <2>2. schedproc' \in [Slots -> SchedProc] /\ SlotsInv'
    BY <1>1, <1>5, <2>1, StopStep
  <2>3. UNCHANGED <<kproc, total_tickets>>
        /\ \E rv \in Results : call' = [call EXCEPT !.rv = rv]
    BY <1>5 DEF do_stop_scheduling, Results
  <2> QED
    BY <1>1, <2>1, <2>2, <2>3, RequestAnswered DEF TypeOK
<1>6. ASSUME call.type = "SET_NICE", do_nice(call)
      PROVE  Good
  <2>1. call \in Calling
    BY <1>1, <1>6, CallIsNotNone DEF CallTypes, TypeOK
  <2>2. /\ kproc' \in [Slots -> KProc] /\ schedproc' \in [Slots -> SchedProc]
        /\ SlotsInv'
        /\ \A t \in Slots : kproc'[t].gen = kproc[t].gen
        /\ \E rv \in Results : call' = [call EXCEPT !.rv = rv]
    BY <1>1, <1>6, <2>1, NiceStep
  <2>3. UNCHANGED total_tickets
    BY <1>6 DEF do_nice
  <2> QED
    BY <1>1, <2>1, <2>2, <2>3, RequestAnswered DEF TypeOK
<1> HIDE DEF Good
<1>7. Good
  BY <1>3, <1>4, <1>5, <1>6, Zenon DEF SchedMain, main
<1> QED
  BY <1>1, <1>2, <1>7 DEF Good, IInv, TypeOK

LEMMA BalanceStep ==
    ASSUME IInv, BalanceQueues
    PROVE  IInv'
<1>1. /\ UNCHANGED <<mproc, vfs, total_tickets, caller_q, call>>
      /\ sched_up' \in BOOLEAN
      /\ \/ UNCHANGED <<schedproc, kproc>>
         \/ do_lottery
      /\ TypeOK
  BY DEF BalanceQueues, balance_queues, IInv, TypeOK
<1>2. CASE UNCHANGED <<schedproc, kproc>>
  <2>1. SlotsInv'
    BY <1>1, <1>2, UntouchedSlot DEF IInv, SlotsInv
  <2>2. CallInv'
    BY <1>1, <1>2, CallUntouched
  <2> QED
    BY <1>1, <1>2, <2>1, <2>2 DEF IInv, TypeOK
<1>3. CASE do_lottery
  <2>1. /\ kproc' \in [Slots -> KProc] /\ schedproc' \in [Slots -> SchedProc]
        /\ SlotsInv'
        /\ \A t \in Slots : kproc'[t].gen = kproc[t].gen
    BY <1>1, <1>3, LotteryStep
  <2>2. CallInv'
    BY <1>1, <2>1, CallUntouched
  <2> QED
    BY <1>1, <2>1, <2>2 DEF IInv, TypeOK
<1> QED
  BY <1>1, <1>2, <1>3

-----------------------------------------------------------------------------
(* The actions of PM and of the kernel.                                    *)
LEMMA TablesType ==
    ASSUME IInv
    PROVE  /\ Tables \in BothTables /\ Tables.m = mproc /\ Tables.k = kproc
           /\ mproc \in [Slots -> MProc] /\ kproc \in [Slots -> KProc]
BY DEF IInv, TypeOK, Tables, BothTables

LEMMA BenignStep ==
    ASSUME IInv, NEW st, Benign(Tables, st), SetTables(st), UNCHANGED schedVars,
           UNCHANGED call \/ call' = NoCall,
           caller_q' \in Seq(Slots \cup {PM_PROC_NR}),
           vfs' \in [Slots -> VfsRequests]
    PROVE  IInv'
<1>1. UNCHANGED <<schedproc, total_tickets, sched_up>> /\ TypeOK
  BY DEF schedVars, IInv
<1>2. /\ mproc' \in [Slots -> MProc] /\ kproc' \in [Slots -> KProc]
      /\ SlotsInv'
      /\ \A t \in Slots : kproc'[t].gen = kproc[t].gen
  BY <1>1, BenignPreserves
<1>3. CallInv'
  <2>1. CASE UNCHANGED call
    BY <1>2, <2>1, CallUntouched
  <2>2. CASE call' = NoCall
    BY <2>2 DEF CallInv
  <2> QED
    BY <2>1, <2>2
<1> QED
  BY <1>1, <1>2, <1>3 DEF IInv, TypeOK

(* PM's half of a handler that ends in a request to SCHED.                 *)
LEMMA RequestStep ==
    ASSUME IInv, NEW st, Benign(Tables, st), SetTables(st), UNCHANGED schedVars,
           NEW type \in CallTypes, NEW s \in Slots, NEW p \in Slots,
           NEW prio \in Int, NEW c \in Slots, NEW core \in BOOLEAN,
           type \in {"START", "INHERIT"} => prio \in Nat,
           type = "SET_NICE" => prio \in Nices,
           taskcall(type, MpEndpoint(mproc, s), MpEndpoint(mproc, p), prio, c, core),
           vfs' \in [Slots -> VfsRequests]
    PROVE  IInv'
<1>1. UNCHANGED <<schedproc, total_tickets, sched_up>> /\ TypeOK
  BY DEF schedVars, IInv
<1>2. /\ mproc' \in [Slots -> MProc] /\ kproc' \in [Slots -> KProc]
      /\ SlotsInv'
      /\ \A t \in Slots : kproc'[t].gen = kproc[t].gen
  BY <1>1, BenignPreserves
<1>3. /\ call' \in Calling /\ CallInv'
      /\ caller_q' \in Seq(Slots \cup {PM_PROC_NR})
  BY <1>2, RequestSent
<1> QED
  BY <1>1, <1>2, <1>3 DEF IInv, TypeOK

(* The process PM works for while it has a request outstanding.            *)
LEMMA CallerSlot ==
    ASSUME IInv, call.type \in CallTypes
    PROVE  /\ call.caller \in Slots /\ call.endpoint.slot \in Slots
           /\ call.core \in BOOLEAN /\ call.maxprio \in Int
<1>1. call \in Calling
  BY CallIsNotNone DEF IInv, TypeOK
<1> QED
  BY <1>1 DEF Calling

LEMMA SchedInitStep ==
    ASSUME IInv, sched_init
    PROVE  IInv'
<1>1. USER_Q \in Nat
  <2>1. /\ MAX_USER_Q \in Nat /\ MIN_USER_Q \in Int /\ MIN_USER_Q >= MAX_USER_Q
    BY ConfigAssumption DEF MIN_USER_Q
  <2> QED
    BY <2>1 DEF USER_Q
<1>2. /\ Benign(Tables, Tables) /\ SetTables(Tables)
      /\ vfs' \in [Slots -> VfsRequests]
      /\ UNCHANGED schedVars
  BY TablesType, BenignReflexive DEF sched_init, SetTables, IInv, TypeOK
<1>3. taskcall("START", MpEndpoint(mproc, INIT_PROC_NR),
               MpEndpoint(mproc, INIT_PROC_NR), USER_Q, INIT_PROC_NR, FALSE)
  BY DEF sched_init
<1>4. "START" \in CallTypes /\ USER_Q \in Int
  BY <1>1 DEF CallTypes
<1> QED
  BY <1>1, <1>2, <1>3, <1>4, InitSlot, RequestStep

LEMMA SchedInitDoneStep ==
    ASSUME IInv, sched_init_done
    PROVE  IInv'
<1> DEFINE st == [m |-> mproc', k |-> kproc']
<1>1. /\ kproc' = kproc /\ UNCHANGED schedVars /\ call' = NoCall
      /\ caller_q' \in Seq(Slots \cup {PM_PROC_NR})
      /\ vfs' \in [Slots -> VfsRequests]
  BY DEF sched_init_done, IInv, TypeOK
<1>2. PICK d \in {"NONE", "KERNEL", "SCHED"} :
        mproc' = [mproc EXCEPT ![INIT_PROC_NR].scheduler = d]
  BY TablesType, InitSlot DEF sched_init_done, MProc
<1>3. /\ mproc' \in [Slots -> MProc]
      /\ \A t \in Slots : mproc'[t].endpoint = mproc[t].endpoint
  BY <1>2, TablesType, InitSlot DEF MProc
<1>4. Benign(Tables, st) /\ SetTables(st)
  BY <1>1, <1>3, TablesType DEF Benign, SameSlot, BothTables, SetTables
<1> QED
  BY <1>1, <1>4, BenignStep

LEMMA SchedStartUserStep ==
    ASSUME IInv, NEW c \in Slots, sched_start_user(c)
    PROVE  IInv'
<1> DEFINE st == [m |-> mproc', k |-> kproc']
<1>1. kproc' = kproc /\ UNCHANGED schedVars /\ mproc[c].parent \in Slots
      /\ mproc[c].nice \in Int
  BY TablesType DEF sched_start_user, MProc
<1>2. vfs' \in [Slots -> VfsRequests]
  BY DEF sched_start_user, IInv, TypeOK, VfsRequests
<1>3. /\ mproc' \in [Slots -> MProc]
      /\ \A t \in Slots : mproc'[t].endpoint = mproc[t].endpoint
  BY TablesType DEF sched_start_user, MProc
<1>4. Benign(Tables, st) /\ SetTables(st)
  BY <1>1, <1>3, TablesType DEF Benign, SameSlot, BothTables, SetTables
<1>5. nice_to_priority(mproc[c].nice) \in Nat
  BY <1>1, NiceToPriorityType, ConfigAssumption DEF MIN_USER_Q
<1>6. PICK p \in Slots, q \in Nat :
        p = mproc[c].parent /\ q = nice_to_priority(mproc[c].nice)
  BY <1>1, <1>5
<1>7. taskcall("INHERIT", MpEndpoint(mproc, c), MpEndpoint(mproc, p), q, c, FALSE)
  BY <1>6 DEF sched_start_user
<1>8. "INHERIT" \in CallTypes /\ q \in Int
  BY DEF CallTypes
<1> QED
  BY <1>1, <1>2, <1>4, <1>7, <1>8, RequestStep

LEMMA ForkStep ==
    ASSUME IInv, NEW p \in Slots, do_fork(p)
    PROVE  IInv'
<1>1. PICK c \in Slots :
        /\ ~MpIs(mproc, c, "IN_USE")
        /\ "SLOT_FREE" \in kproc[c].rts
        /\ kproc' = sys_fork(RtsSet(kproc, p, "RECEIVING"), p, c)
        /\ mproc' = [mproc EXCEPT ![c] =
                      [mproc[p] EXCEPT !.flags = {"IN_USE", "VFS_CALL"},
                                       !.endpoint = kproc'[c].gen,
                                       !.parent = p]]
        /\ vfs' = [vfs EXCEPT ![c] = "PM_FORK"]
  BY DEF do_fork
<1>2. /\ UNCHANGED <<caller_q, schedproc, total_tickets, sched_up, call>>
      /\ TypeOK /\ call = NoCall
  BY DEF do_fork, schedVars, IInv, Calls
<1>3. p # c
  BY <1>1 DEF do_fork, Calls, proc_is_runnable
<1>4. /\ kproc \in [Slots -> KProc] /\ mproc \in [Slots -> MProc]
      /\ \A t \in Slots : SlotInv(t)
  BY TablesType DEF IInv, SlotsInv
<1>5. PICK k : k = RtsSet(kproc, p, "RECEIVING")
  OBVIOUS
<1>6. /\ k \in [Slots -> KProc]
      /\ \A t \in Slots : SameSlot(kproc, k, t)
      /\ \A t \in Slots : k[t].gen \in Nat
  BY <1>4, <1>5, SameSlotRts DEF KProc
<1>7. kproc' = [k EXCEPT ![c] = [k[p] EXCEPT !.gen = k[c].gen + 1,
                                             !.rts = @ \cup {"NO_QUANTUM"}]]
  BY <1>1, <1>5 DEF sys_fork
<1>8. /\ kproc' \in [Slots -> KProc]
      /\ kproc'[c].gen = kproc[c].gen + 1
      /\ kproc'[c].priority = kproc[p].priority
      /\ \A t \in Slots \ {c} : kproc'[t] = k[t]
  <2>1. PICK r : r = [k[p] EXCEPT !.gen = k[c].gen + 1,
                                  !.rts = @ \cup {"NO_QUANTUM"}]
    OBVIOUS
  <2>2. k[p] \in KProc /\ k[c].gen + 1 \in Nat
    BY <1>6
  <2>3. r \in KProc /\ r.gen = k[c].gen + 1 /\ r.priority = k[p].priority
    BY <2>1, <2>2 DEF KProc, RtsFlags
  <2>4. /\ kproc' \in [Slots -> KProc]
        /\ kproc'[c].gen = k[c].gen + 1
        /\ kproc'[c].priority = k[p].priority
        /\ \A t \in Slots \ {c} : kproc'[t] = k[t]
    BY <1>6, <1>7, <2>1, <2>3
  <2>5. k[c].gen = kproc[c].gen /\ k[p].priority = kproc[p].priority
    BY <1>6 DEF SameSlot
  <2> QED
    BY <2>4, <2>5
<1>9. PICK g \in Nat : g = kproc'[c].gen /\ g > kproc[c].gen
  BY <1>4, <1>8 DEF KProc
<1>10. /\ mproc' \in [Slots -> MProc]
       /\ mproc'[c].endpoint = kproc'[c].gen
       /\ \A t \in Slots \ {c} : mproc'[t] = mproc[t]
  <2>1. mproc' = [mproc EXCEPT ![c] =
                    [mproc[p] EXCEPT !.flags = {"IN_USE", "VFS_CALL"},
                                     !.endpoint = g, !.parent = p]]
    BY <1>1, <1>9
  <2>2. PICK r : r = [mproc[p] EXCEPT !.flags = {"IN_USE", "VFS_CALL"},
                                      !.endpoint = g, !.parent = p]
    OBVIOUS
  <2>3. mproc[p] \in MProc
    BY <1>4
  <2>4. r \in MProc /\ r.endpoint = g
    BY <2>2, <2>3 DEF MProc, MpFlags
  <2> QED
    BY <1>4, <1>9, <2>1, <2>2, <2>4
<1>11. SlotInv(c)'
  <2>1. SlotInv(c) /\ SlotInv(p) /\ schedproc' = schedproc
    BY <1>2, <1>4
  <2>2. schedproc[c].endpoint \in Nat /\ kproc[c].gen \in Nat
    BY <1>2, <1>4 DEF TypeOK, SchedProc, KProc
  <2>3. schedproc'[c].endpoint < g
    BY <1>9, <2>1, <2>2 DEF SlotInv
  <2>4. ~Known(c)'
    BY <1>9, <2>1, <2>2, <2>3 DEF Known, sched_isokendpt, EndpointOf, Endpoint
  <2>5. schedproc'[c].endpoint <= kproc'[c].gen
    BY <1>9, <2>1, <2>2, <2>3
  <2> QED
    BY <1>8, <1>10, <2>1, <2>4, <2>5 DEF SlotInv, InUse
<1>12. ASSUME NEW t \in Slots \ {c} PROVE SlotInv(t)'
  <2>1. SameSlot(kproc, kproc', t) /\ mproc'[t] = mproc[t] /\ SlotInv(t)
    BY <1>4, <1>6, <1>8, <1>10 DEF SameSlot
  <2>2. schedproc' = schedproc
    BY <1>2
  <2> QED
    BY <2>1, <2>2 DEF SlotInv, SameSlot, Known, sched_isokendpt, EndpointOf,
                      Endpoint, InUse, Wrapped
<1>13. SlotsInv' /\ CallInv'
  BY <1>2, <1>11, <1>12 DEF SlotsInv, CallInv
<1>14. vfs' \in [Slots -> VfsRequests]
  BY <1>1, <1>2 DEF TypeOK, VfsRequests
<1> QED
  BY <1>2, <1>8, <1>10, <1>13, <1>14 DEF IInv, TypeOK

LEMMA ForkDoneStep ==
    ASSUME IInv, fork_done
    PROVE  IInv'
<1>1. PICK c \in Slots : c = call.caller
  BY CallerSlot DEF fork_done, CallTypes
<1>2. PICK p \in Slots : p = mproc[c].parent
  BY TablesType DEF MProc
<1>3. /\ UNCHANGED schedVars /\ call' = NoCall
      /\ caller_q' \in Seq(Slots \cup {PM_PROC_NR})
      /\ vfs \in [Slots -> VfsRequests]
  BY DEF fork_done, IInv, TypeOK
<1> DEFINE Wake(k, s) == IF Alive(mproc, s) THEN sendnb(k, s) ELSE k
           st == [m |-> mproc', k |-> kproc']
<1>4. ASSUME NEW k \in [Slots -> KProc], NEW s \in Slots
      PROVE  /\ Wake(k, s) \in [Slots -> KProc]
             /\ \A t \in Slots : SameSlot(k, Wake(k, s), t)
  BY SameSlotRts DEF sendnb, SameSlot
<1> HIDE DEF Wake
<1>5. CASE /\ call.rv # "OK"
           /\ LET failed == exit_proc([m |-> [mproc EXCEPT ![c].scheduler = "NONE"],
                                       k |-> kproc], c, FALSE)
              IN  mproc' = failed.m /\ kproc' = Wake(failed.k, p)
           /\ vfs' = [vfs EXCEPT ![c] = "PM_EXIT"]
  <2>1. PICK a : a = [m |-> [mproc EXCEPT ![c].scheduler = "NONE"], k |-> kproc]
    OBVIOUS
  <2>2. Benign(Tables, a) /\ a \in BothTables
    <3>1. /\ a.m \in [Slots -> MProc] /\ a.k = kproc
          /\ \A t \in Slots : a.m[t].endpoint = mproc[t].endpoint
      BY <2>1, TablesType DEF MProc
    <3>2. a = [m |-> a.m, k |-> a.k]
      BY <2>1
    <3> QED
      BY <3>1, <3>2, TablesType DEF Benign, SameSlot, BothTables
  <2>3. PICK f : f = exit_proc(a, c, FALSE)
    OBVIOUS
  <2>4. Benign(Tables, f)
    BY <2>2, <2>3, BenignExitProc, BenignTransitive
  <2>5. f \in BothTables /\ mproc' = f.m /\ kproc' = Wake(f.k, p)
    BY <1>5, <2>1, <2>3, <2>4 DEF Benign
  <2>6. /\ kproc' \in [Slots -> KProc]
        /\ \A t \in Slots : SameSlot(f.k, kproc', t)
        /\ f.m \in [Slots -> MProc]
    BY <1>4, <2>5 DEF BothTables
  <2>7. Benign(f, st) /\ SetTables(st)
    BY <2>5, <2>6 DEF Benign, BothTables, SetTables
  <2>8. Benign(Tables, st)
    BY <2>4, <2>7, BenignTransitive
  <2>9. vfs' \in [Slots -> VfsRequests]
    BY <1>3, <1>5 DEF VfsRequests
  <2> QED
    BY <1>3, <2>7, <2>8, <2>9, BenignStep
<1>6. CASE /\ kproc' = Wake(Wake(kproc, c), p)
           /\ UNCHANGED <<mproc, vfs>>
  <2>1. /\ Wake(kproc, c) \in [Slots -> KProc]
        /\ \A t \in Slots : SameSlot(kproc, Wake(kproc, c), t)
    BY <1>4, TablesType
  <2>2. /\ kproc' \in [Slots -> KProc]
        /\ \A t \in Slots : SameSlot(Wake(kproc, c), kproc', t)
    BY <1>4, <1>6, <2>1
  <2>3. \A t \in Slots : SameSlot(kproc, kproc', t)
    BY <2>1, <2>2 DEF SameSlot
  <2>4. Benign(Tables, st) /\ SetTables(st)
    BY <1>6, <2>2, <2>3, TablesType DEF Benign, BothTables, SetTables
  <2> QED
    BY <1>3, <1>6, <2>4, BenignStep
<1>7. CASE \E b \in BOOLEAN :
             /\ SetTables(exit_proc([m |-> mproc, k |-> Wake(kproc, p)], c, b))
             /\ vfs' = [vfs EXCEPT ![c] = ExitRequest(b)]
  <2>1. PICK a : a = [m |-> mproc, k |-> Wake(kproc, p)]
    OBVIOUS
  <2>2. Benign(Tables, a) /\ a \in BothTables
    BY <1>4, <2>1, TablesType DEF Benign, BothTables
  <2>3. PICK b \in BOOLEAN : /\ SetTables(exit_proc(a, c, b))
                             /\ vfs' = [vfs EXCEPT ![c] = ExitRequest(b)]
    BY <1>7, <2>1
  <2>4. Benign(Tables, exit_proc(a, c, b))
    BY <2>2, BenignExitProc, BenignTransitive
  <2>5. vfs' \in [Slots -> VfsRequests]
    BY <1>3, <2>3 DEF VfsRequests, ExitRequest
  <2> QED
    BY <1>3, <2>3, <2>4, <2>5, BenignStep
<1> QED
  BY <1>1, <1>2, <1>5, <1>6, <1>7, Zenon DEF fork_done, Wake

LEMMA DoExitStep ==
    ASSUME IInv, NEW s \in Slots, do_exit(s)
    PROVE  IInv'
<1>1. PICK a : a = [m |-> mproc, k |-> RtsSet(kproc, s, "RECEIVING")]
  OBVIOUS
<1>2. Benign(Tables, a) /\ a \in BothTables
  <2>1. /\ RtsSet(kproc, s, "RECEIVING") \in [Slots -> KProc]
        /\ \A t \in Slots : SameSlot(kproc, RtsSet(kproc, s, "RECEIVING"), t)
    BY TablesType, SameSlotRts
  <2> QED
    BY <1>1, <2>1, TablesType DEF Benign, BothTables
<1>3. Benign(Tables, exit_proc(a, s, FALSE))
  BY <1>2, BenignExitProc, BenignTransitive
<1>4. SetTables(exit_proc(a, s, FALSE))
  BY <1>1 DEF do_exit
<1>5. /\ UNCHANGED schedVars /\ UNCHANGED call
      /\ caller_q' \in Seq(Slots \cup {PM_PROC_NR})
      /\ vfs' \in [Slots -> VfsRequests]
  BY DEF do_exit, IInv, TypeOK, VfsRequests
<1> QED
  BY <1>3, <1>4, <1>5, BenignStep

LEMMA SigProcStep ==
    ASSUME IInv, NEW s \in Slots, sig_proc(s)
    PROVE  IInv'
<1>1. /\ UNCHANGED schedVars /\ UNCHANGED call
      /\ caller_q' \in Seq(Slots \cup {PM_PROC_NR})
      /\ vfs \in [Slots -> VfsRequests]
  BY DEF sig_proc, IInv, TypeOK
<1>2. CASE /\ mproc' = [mproc EXCEPT ![s].flags = @ \cup {"PM_SIG_PENDING"}]
           /\ kproc' = RtsSet(kproc, s, "PROC_STOP")
           /\ UNCHANGED vfs
  <2> DEFINE st == [m |-> mproc', k |-> kproc']
  <2>1. /\ mproc' \in [Slots -> MProc]
        /\ \A t \in Slots : mproc'[t].endpoint = mproc[t].endpoint
    BY <1>2, TablesType DEF MProc, MpFlags
  <2>2. /\ kproc' \in [Slots -> KProc]
        /\ \A t \in Slots : SameSlot(kproc, kproc', t)
    BY <1>2, TablesType, SameSlotRts
  <2>3. Benign(Tables, st) /\ SetTables(st)
    BY <2>1, <2>2, TablesType DEF Benign, BothTables, SetTables
  <2> QED
    BY <1>1, <1>2, <2>3, BenignStep
<1>3. ASSUME NEW b \in BOOLEAN, SetTables(exit_proc(Tables, s, b)),
             vfs' = [vfs EXCEPT ![s] = ExitRequest(b)]
      PROVE  IInv'
  <2>1. Benign(Tables, exit_proc(Tables, s, b))
    BY TablesType, BenignExitProc
  <2>2. vfs' \in [Slots -> VfsRequests]
    BY <1>1, <1>3 DEF VfsRequests, ExitRequest
  <2> QED
    BY <1>1, <1>3, <2>1, <2>2, BenignStep
<1> QED
  BY <1>2, <1>3, Zenon DEF sig_proc

LEMMA ExitRestartStep ==
    ASSUME IInv, NEW s \in Slots, exit_restart(s)
    PROVE  IInv'
<1>1. PICK m : m = [mproc EXCEPT ![s].flags = @ \ {"VFS_CALL"}]
  OBVIOUS
<1>2. PICK core \in BOOLEAN : core = (vfs[s] = "PM_DUMPCORE")
  OBVIOUS
<1>3. /\ UNCHANGED schedVars
      /\ vfs' \in [Slots -> VfsRequests]
      /\ caller_q \in Seq(Slots \cup {PM_PROC_NR})
  BY DEF exit_restart, IInv, TypeOK, VfsRequests
<1>4. /\ m \in [Slots -> MProc]
      /\ \A t \in Slots : m[t].endpoint = mproc[t].endpoint
  BY <1>1, TablesType DEF MProc
<1>5. PICK a : a = [m |-> m, k |-> kproc]
  OBVIOUS
<1>6. Benign(Tables, a) /\ a \in BothTables
  BY <1>4, <1>5, TablesType DEF Benign, SameSlot, BothTables
<1>7. CASE /\ mproc' = m
           /\ taskcall("STOP", MpEndpoint(mproc, s), MpEndpoint(mproc, s), 0, s, core)
           /\ UNCHANGED kproc
  <2>1. SetTables(a) /\ "STOP" \in CallTypes /\ 0 \in Int
    BY <1>5, <1>7 DEF SetTables, CallTypes
  <2> QED
    BY <1>3, <1>6, <1>7, <2>1, RequestStep
<1>8. PICK n : n = [m EXCEPT ![s].scheduler = "NONE"]
  OBVIOUS
<1>9. /\ n \in [Slots -> MProc]
      /\ \A t \in Slots : n[t].endpoint = mproc[t].endpoint
  BY <1>4, <1>8 DEF MProc
<1>10. PICK b : b = [m |-> n, k |-> kproc]
  OBVIOUS
<1>11. Benign(Tables, b) /\ b \in BothTables
  BY <1>9, <1>10, TablesType DEF Benign, SameSlot, BothTables
<1>12. CASE /\ SetTables(Cleared(b, s, core))
            /\ caller_q' = clear_ipc(caller_q, s)
            /\ UNCHANGED call
  <2>1. Benign(Tables, Cleared(b, s, core))
    BY <1>11, BenignCleared, BenignTransitive
  <2>2. caller_q' \in Seq(Slots \cup {PM_PROC_NR})
    BY <1>3, <1>12, ClearIpcType
  <2> QED
    BY <1>3, <1>12, <2>1, <2>2, BenignStep
<1> QED
  BY <1>1, <1>2, <1>7, <1>8, <1>10, <1>12, Zenon DEF exit_restart

LEMMA ExitRestartDoneStep ==
    ASSUME IInv, exit_restart_done
    PROVE  IInv'
<1>1. PICK s \in Slots, core \in BOOLEAN : s = call.caller /\ core = call.core
  BY CallerSlot DEF exit_restart_done, CallTypes
<1>2. PICK m : m = [mproc EXCEPT ![s].scheduler = "NONE"]
  OBVIOUS
<1>3. /\ m \in [Slots -> MProc]
      /\ \A t \in Slots : m[t].endpoint = mproc[t].endpoint
  BY <1>2, TablesType DEF MProc
<1>4. PICK a : a = [m |-> m, k |-> kproc]
  OBVIOUS
<1>5. Benign(Tables, a) /\ a \in BothTables
  BY <1>3, <1>4, TablesType DEF Benign, SameSlot, BothTables
<1>6. Benign(Tables, Cleared(a, s, core))
  BY <1>5, BenignCleared, BenignTransitive
<1>7. /\ SetTables(Cleared(a, s, core))
      /\ caller_q' = clear_ipc(caller_q, s)
      /\ call' = NoCall
      /\ UNCHANGED <<schedVars, vfs>>
  BY <1>1, <1>2, <1>4 DEF exit_restart_done
<1>8. /\ caller_q' \in Seq(Slots \cup {PM_PROC_NR})
      /\ vfs' \in [Slots -> VfsRequests]
      /\ UNCHANGED schedVars
  BY <1>7, ClearIpcType DEF IInv, TypeOK
<1> QED
  BY <1>6, <1>7, <1>8, BenignStep

LEMMA WaitpidStep ==
    ASSUME IInv, NEW p \in Slots, do_waitpid(p)
    PROVE  IInv'
<1>1. /\ UNCHANGED schedVars /\ UNCHANGED call
      /\ caller_q' \in Seq(Slots \cup {PM_PROC_NR})
      /\ vfs' \in [Slots -> VfsRequests]
  BY DEF do_waitpid, IInv, TypeOK
<1> DEFINE children == {c \in Slots : /\ MpIs(mproc, c, "IN_USE")
                                      /\ ~MpIs(mproc, c, "TOLD_PARENT")
                                      /\ mproc[c].parent = p}
<1>2. PICK zombies \in SUBSET Slots :
        zombies = {c \in children : MpIs(mproc, c, "ZOMBIE")}
  OBVIOUS
<1> HIDE DEF children
<1>3. CASE /\ zombies # {}
           /\ LET c == Min(zombies)
                  told == tell_parent(Tables, c)
              IN  SetTables(IF MpIs(mproc, c, "VFS_CALL") THEN told
                            ELSE cleanup(told, c))
  <2>1. PICK c \in Slots : c = Min(zombies)
    BY <1>3, MinSlot
  <2>2. PICK told : told = tell_parent(Tables, c)
    OBVIOUS
  <2>3. Benign(Tables, told) /\ told \in BothTables
    BY <2>2, TablesType, BenignTellParent DEF Benign
  <2>4. Benign(Tables, cleanup(told, c))
    BY <2>3, BenignCleanup, BenignTransitive
  <2>5. PICK st : SetTables(st) /\ (st = told \/ st = cleanup(told, c))
    BY <1>3, <2>1, <2>2
  <2>6. Benign(Tables, st)
    BY <2>3, <2>4, <2>5
  <2> QED
    BY <1>1, <2>5, <2>6, BenignStep
<1>4. CASE /\ mproc' = [mproc EXCEPT ![p].flags = @ \cup {"WAITING"}]
           /\ kproc' = RtsSet(kproc, p, "RECEIVING")
  <2> DEFINE st == [m |-> mproc', k |-> kproc']
  <2>1. /\ mproc' \in [Slots -> MProc]
        /\ \A t \in Slots : mproc'[t].endpoint = mproc[t].endpoint
    BY <1>4, TablesType DEF MProc, MpFlags
  <2>2. /\ kproc' \in [Slots -> KProc]
        /\ \A t \in Slots : SameSlot(kproc, kproc', t)
    BY <1>4, TablesType, SameSlotRts
  <2>3. Benign(Tables, st) /\ SetTables(st)
    BY <2>1, <2>2, TablesType DEF Benign, BothTables, SetTables
  <2> QED
    BY <1>1, <2>3, BenignStep
<1> QED
  BY <1>2, <1>3, <1>4, Zenon DEF do_waitpid, children

LEMMA SetpriorityStep ==
    ASSUME IInv, NEW p \in Slots, NEW s \in Slots, NEW nice \in Nices,
           do_getsetpriority(p, s, nice)
    PROVE  IInv'
<1> DEFINE st == [m |-> mproc', k |-> kproc']
<1>1. /\ UNCHANGED <<schedVars, mproc>>
      /\ vfs' \in [Slots -> VfsRequests]
      /\ taskcall("SET_NICE", MpEndpoint(mproc, s), MpEndpoint(mproc, s),
                  nice, p, FALSE)
      /\ kproc' = RtsSet(kproc, p, "RECEIVING")
  BY DEF do_getsetpriority, IInv, TypeOK
<1>2. /\ kproc' \in [Slots -> KProc]
      /\ \A t \in Slots : SameSlot(kproc, kproc', t)
  BY <1>1, TablesType, SameSlotRts
<1>3. Benign(Tables, st) /\ SetTables(st)
  BY <1>1, <1>2, TablesType DEF Benign, BothTables, SetTables
<1>4. "SET_NICE" \in CallTypes /\ nice \in Int /\ UNCHANGED schedVars
  <2>1. UMOD \div 2 \in Int
    BY ConfigAssumption
  <2> QED
    BY <1>1, <2>1, PMAssumption DEF CallTypes
<1> QED
  BY <1>1, <1>3, <1>4, RequestStep

LEMMA SetpriorityDoneStep ==
    ASSUME IInv, setpriority_done
    PROVE  IInv'
<1> DEFINE st == [m |-> mproc', k |-> kproc']
<1>1. PICK c \in Slots, s \in Slots, nice \in Int :
        c = call.caller /\ s = call.endpoint.slot /\ nice = call.maxprio
  BY CallerSlot DEF setpriority_done, CallTypes
<1>2. /\ UNCHANGED schedVars /\ call' = NoCall
      /\ caller_q' \in Seq(Slots \cup {PM_PROC_NR})
      /\ vfs' \in [Slots -> VfsRequests]
      /\ kproc' = RtsUnset(kproc, c, "RECEIVING")
  BY <1>1 DEF setpriority_done, sendnb, IInv, TypeOK
<1>3. PICK n \in Int : mproc' = [mproc EXCEPT ![s].nice = n]
  BY <1>1, TablesType DEF setpriority_done, MProc
<1>4. /\ mproc' \in [Slots -> MProc]
      /\ \A t \in Slots : mproc'[t].endpoint = mproc[t].endpoint
  BY <1>3, TablesType DEF MProc
<1>5. /\ kproc' \in [Slots -> KProc]
      /\ \A t \in Slots : SameSlot(kproc, kproc', t)
  BY <1>2, TablesType, SameSlotRts
<1>6. Benign(Tables, st) /\ SetTables(st)
  BY <1>4, <1>5, TablesType DEF Benign, BothTables, SetTables
<1> QED
  BY <1>2, <1>6, BenignStep

LEMMA OutOfQuantumStep ==
    ASSUME IInv, NEW s \in Slots, OutOfQuantum(s)
    PROVE  IInv'
<1>1. /\ UNCHANGED <<schedproc, total_tickets, sched_up, call, mproc, vfs>>
      /\ TypeOK
      /\ kproc' = RtsSet(RtsSet(kproc, s, "NO_QUANTUM"), s, "SENDING")
      /\ caller_q' = Append(caller_q, s)
  BY DEF OutOfQuantum, notify_scheduler, schedVars, IInv
<1>2. kproc \in [Slots -> KProc] /\ \A t \in Slots : SlotInv(t)
  BY <1>1 DEF TypeOK, IInv, SlotsInv
<1>3. /\ kproc' \in [Slots -> KProc]
      /\ \A t \in Slots \ {s} : kproc'[t] = kproc[t]
      /\ kproc'[s].gen = kproc[s].gen /\ kproc'[s].priority = kproc[s].priority
      /\ kproc'[s].scheduler = kproc[s].scheduler
      /\ "SENDING" \in kproc'[s].rts
      /\ "SLOT_FREE" \in kproc'[s].rts <=> "SLOT_FREE" \in kproc[s].rts
  BY <1>1, <1>2 DEF RtsSet, KProc, RtsFlags
<1>4. \A t \in Slots \ {s} : SlotInv(t)'
  BY <1>1, <1>2, <1>3, UntouchedSlot
<1>5. SlotInv(s)'
  BY <1>1, <1>2, <1>3
     DEF SlotInv, Known, sched_isokendpt, EndpointOf, Endpoint, InUse, Wrapped
<1>6. CallInv'
  BY <1>1, <1>3, CallUntouched
<1>7. caller_q' \in Seq(Slots \cup {PM_PROC_NR})
  BY <1>1 DEF TypeOK
<1> QED
  BY <1>1, <1>3, <1>4, <1>5, <1>6, <1>7 DEF IInv, TypeOK, SlotsInv

-----------------------------------------------------------------------------
LEMMA InitIInv == Init => IInv
<1> SUFFICES ASSUME Init PROVE IInv
  OBVIOUS
<1>1. NR_SCHED_QUEUES \in Nat \ {0}
  BY ConfigAssumption
<1>2. TypeOK
  <2>1. kproc \in [Slots -> KProc]
    BY DEF Init, KProc, RtsFlags
  <2>2. schedproc \in [Slots -> SchedProc]
    BY DEF Init, init_scheduling, SchedProc
  <2>3. mproc \in [Slots -> MProc]
    BY InitSlot DEF Init, MProc, MpFlags
  <2>4. vfs \in [Slots -> VfsRequests]
    BY DEF Init, VfsRequests
  <2> QED
    BY <2>1, <2>2, <2>3, <2>4 DEF Init, init_scheduling, TypeOK
<1>3. CallInv
  BY DEF Init, CallInv
<1>4. ASSUME NEW s \in Slots PROVE SlotInv(s)
  <2>1. ~InUse(s)
    BY DEF Init, init_scheduling, InUse
  <2> QED
    BY <1>1, <2>1
       DEF Init, init_scheduling, SlotInv, Known, sched_isokendpt, EndpointOf, Endpoint
<1> QED
  BY <1>2, <1>3, <1>4 DEF IInv, SlotsInv

LEMMA StutterIInv == IInv /\ UNCHANGED vars => IInv'
<1> SUFFICES ASSUME IInv, UNCHANGED vars PROVE IInv'
  OBVIOUS
<1>1. UNCHANGED <<kproc, caller_q, schedproc, total_tickets, sched_up, call,
                  mproc, vfs>>
  BY DEF vars
<1>2. TypeOK'
  BY <1>1 DEF IInv, TypeOK
<1>3. CallInv'
  BY <1>1, CallUntouched
<1>4. SlotsInv'
  BY <1>1, UntouchedSlot DEF IInv, SlotsInv
<1> QED
  BY <1>2, <1>3, <1>4 DEF IInv

LEMMA NextIInv == IInv /\ [Next]_vars => IInv'
<1> SUFFICES ASSUME IInv, [Next]_vars PROVE IInv'
  OBVIOUS
<1>1. CASE sched_init
  BY <1>1, SchedInitStep
<1>2. CASE sched_init_done
  BY <1>2, SchedInitDoneStep
<1>3. CASE fork_done
  BY <1>3, ForkDoneStep
<1>4. CASE exit_restart_done
  BY <1>4, ExitRestartDoneStep
<1>5. CASE setpriority_done
  BY <1>5, SetpriorityDoneStep
<1>6. CASE SchedMain
  BY <1>6, MainStep
<1>7. CASE BalanceQueues
  BY <1>7, BalanceStep
<1>8. ASSUME NEW s \in Slots,
             \/ do_fork(s) \/ sched_start_user(s)
             \/ do_exit(s) \/ sig_proc(s) \/ exit_restart(s)
             \/ do_waitpid(s)
             \/ OutOfQuantum(s)
      PROVE  IInv'
  BY <1>8, ForkStep, SchedStartUserStep, DoExitStep, SigProcStep,
     ExitRestartStep, WaitpidStep, OutOfQuantumStep
<1>9. ASSUME NEW p \in Slots, NEW s \in Slots, NEW nice \in Nices,
             do_getsetpriority(p, s, nice)
      PROVE  IInv'
  BY <1>9, SetpriorityStep
<1>10. CASE UNCHANGED vars
  BY <1>10, StutterIInv
<1> QED
  BY <1>1, <1>2, <1>3, <1>4, <1>5, <1>6, <1>7, <1>8, <1>9, <1>10 DEF Next

(* The tables of PM, SCHED and the kernel agree slot by slot, whatever     *)
(* processes fork, exit, are killed, run out of quantum and win lotteries. *)
THEOREM TablesAgree == Spec => []IInv
BY InitIInv, NextIInv, PTL DEF Spec

(* Type correctness of the composed system.                                *)
THEOREM TypeCorrect == Spec => []TypeOK
<1>1. IInv => TypeOK
  BY DEF IInv
<1> QED
  BY <1>1, TablesAgree, PTL

(* The kernel never stores the queue number NR_SCHED_QUEUES that the check *)
(* of sched_proc lets through, nor a priority that wrapped below zero.     *)
THEOREM QueueSafe == Spec => []QueueInRange
<1>1. IInv => QueueInRange
  BY DEF IInv, SlotsInv, SlotInv, QueueInRange
<1> QED
  BY <1>1, TablesAgree, PTL

(* SCHED and the kernel agree on the priority of every process SCHED knows,*)
(* up to the underflow of do_lottery.                                      *)
THEOREM PrioritySafe == Spec => []PriorityAgrees
<1>1. IInv => PriorityAgrees
  BY DEF IInv, SlotsInv, SlotInv, PriorityAgrees
<1> QED
  BY <1>1, TablesAgree, PTL

(* No process SCHED knows is without quantum once its out-of-quantum       *)
(* message was received, up to the underflow of do_lottery.                *)
THEOREM QuantumSafe == Spec => []NoLostQuantum
<1>1. IInv => NoLostQuantum
  BY DEF IInv, SlotsInv, SlotInv, NoLostQuantum
<1> QED
  BY <1>1, TablesAgree, PTL

-----------------------------------------------------------------------------
(* As long as the total of the tickets does not wrap, it is positive once  *)
(* SCHED knows a process, and the lottery can divide by it.                *)
SomebodyKnown == \E s \in Slots : InUse(s)

AliveInv == SomebodyKnown => sched_up /\ total_tickets > 0

NoTicketWrap == [][total_tickets <= total_tickets']_vars

(* A handler that gives no entry out.                                      *)
NoNewcomer == \A s \in Slots : "IN_USE" \in schedproc'[s].flags => InUse(s)

LEMMA FlagsKept ==
    ASSUME schedproc \in [Slots -> SchedProc], NEW s \in Slots, NEW e,
           e.flags = schedproc[s].flags, schedproc' = [schedproc EXCEPT ![s] = e]
    PROVE  NoNewcomer
BY DEF NoNewcomer, InUse

LEMMA NobodyNew ==
    ASSUME AliveInv, NoNewcomer, total_tickets' = total_tickets, sched_up' = sched_up
    PROVE  AliveInv'
BY DEF AliveInv, SomebodyKnown, NoNewcomer, InUse

LEMMA NoquantumNobody ==
    ASSUME schedproc \in [Slots -> SchedProc], NEW s \in Slots, do_noquantum(s)
    PROVE  NoNewcomer
<1>1. PICK e : e = [schedproc[s] EXCEPT !.priority = IF @ < MIN_USER_Q THEN @ + 1 ELSE @]
  OBVIOUS
<1>2. e.flags = schedproc[s].flags
  BY <1>1 DEF SchedProc
<1>3. UNCHANGED schedproc \/ schedproc' = [schedproc EXCEPT ![s] = e]
  BY <1>1 DEF do_noquantum
<1> QED
  BY <1>2, <1>3, FlagsKept DEF NoNewcomer, InUse

LEMMA StopNobody ==
    ASSUME schedproc \in [Slots -> SchedProc], call \in Calling, do_stop_scheduling(call)
    PROVE  NoNewcomer
<1>1. PICK s \in Slots : s = call.endpoint.slot
  BY DEF Calling
<1>2. UNCHANGED schedproc \/ schedproc' = [schedproc EXCEPT ![s].flags = {}]
  BY <1>1 DEF do_stop_scheduling
<1>3. CASE schedproc' = [schedproc EXCEPT ![s].flags = {}]
  <2>1. schedproc'[s].flags = {}
    BY <1>3 DEF SchedProc
  <2>2. \A t \in Slots \ {s} : schedproc'[t] = schedproc[t]
    BY <1>3
  <2> QED
    BY <2>1, <2>2 DEF NoNewcomer, InUse
<1> QED
  BY <1>2, <1>3 DEF NoNewcomer, InUse

LEMMA NiceNobody ==
    ASSUME schedproc \in [Slots -> SchedProc], call \in Calling, do_nice(call)
    PROVE  NoNewcomer
<1>1. PICK s \in Slots : s = call.endpoint.slot
  BY DEF Calling
<1>2. CASE UNCHANGED schedproc
  BY <1>2 DEF NoNewcomer, InUse
<1>3. CASE ~ UNCHANGED schedproc
  <2>1. PICK add : schedproc' =
           [schedproc EXCEPT ![s] =
              LET e == [schedproc[s] EXCEPT !.tickets = NewTickets(@, call.maxprio, add)]
                  new == [e EXCEPT !.priority = ToUnsigned(call.maxprio),
                                   !.max_priority = ToUnsigned(call.maxprio)]
              IN  IF schedule_process_rv(kproc, s, new) = "OK" THEN new ELSE e]
    BY <1>1, <1>3 DEF do_nice
  <2>2. PICK e : e = [schedproc[s] EXCEPT !.tickets = NewTickets(@, call.maxprio, add)]
    OBVIOUS
  <2>3. PICK new : new = [e EXCEPT !.priority = ToUnsigned(call.maxprio),
                                   !.max_priority = ToUnsigned(call.maxprio)]
    OBVIOUS
  <2>4. e.flags = schedproc[s].flags
    BY <2>2 DEF SchedProc
  <2>5. new.flags = e.flags
    BY <2>2, <2>3 DEF SchedProc
  <2>6. \E x \in {e, new} : schedproc' = [schedproc EXCEPT ![s] = x]
    BY <2>1, <2>2, <2>3
  <2> QED
    BY <2>4, <2>5, <2>6, FlagsKept
<1> QED
  BY <1>2, <1>3

LEMMA LotteryNobody ==
    ASSUME schedproc \in [Slots -> SchedProc], do_lottery
    PROVE  NoNewcomer
<1>1. CASE UNCHANGED schedproc
  BY <1>1 DEF NoNewcomer, InUse
<1>2. CASE ~ UNCHANGED schedproc
  <2>1. PICK s \in Slots :
           schedproc' = [schedproc EXCEPT ![s] =
                            [schedproc[s] EXCEPT !.priority = ToUnsigned(@ - 1)]]
    BY <1>2 DEF do_lottery
  <2>2. PICK e : e = [schedproc[s] EXCEPT !.priority = ToUnsigned(@ - 1)]
    OBVIOUS
  <2>3. e.flags = schedproc[s].flags
    BY <2>2 DEF SchedProc
  <2> QED
    BY <2>1, <2>2, <2>3, FlagsKept
<1> QED
  BY <1>1, <1>2

(* A start hands out tickets, unless it is refused before.                 *)
LEMMA StartAlive ==
    ASSUME START_TICKETS < UMOD, TypeOK, AliveInv, call \in Calling,
           call.type \in {"START", "INHERIT"}, do_start_scheduling(call),
           total_tickets' \in Nat, total_tickets <= total_tickets', sched_up, sched_up'
    PROVE  AliveInv'
<1>1. total_tickets \in Nat /\ schedproc \in [Slots -> SchedProc]
  BY DEF TypeOK
<1>2. PICK s \in Slots : s = call.endpoint.slot
  BY DEF Calling
<1>3. PICK e0 : e0 = Populate(schedproc[s], call)
  OBVIOUS
<1>4. e0.flags = schedproc[s].flags
  BY <1>1, <1>3 DEF Populate, SchedProc
<1>5. CASE total_tickets' = total_tickets /\ \/ UNCHANGED schedproc
                                             \/ schedproc' = [schedproc EXCEPT ![s] = e0]
  <2>1. NoNewcomer
    BY <1>1, <1>4, <1>5, FlagsKept DEF NoNewcomer, InUse
  <2> QED
    BY <1>5, <2>1 DEF AliveInv, SomebodyKnown, NoNewcomer, InUse
<1>6. ASSUME call.type = "INHERIT" => sched_isokendpt(call.parent),
             total_tickets' = ToUnsigned(total_tickets + StartEntry(e0, call).tickets)
      PROVE  AliveInv'
  <2>1. CASE total_tickets > 0
    BY <1>1, <2>1 DEF AliveInv
  <2>2. CASE total_tickets = 0
    <3>1. call.type = "START"
      <4>1. call.parent.slot \in Slots
        BY DEF Calling
      <4>2. ~ SomebodyKnown
        BY <2>2 DEF AliveInv
      <4> QED
        BY <1>6, <4>1, <4>2 DEF sched_isokendpt, SomebodyKnown
    <3>2. StartEntry(e0, call).tickets = START_TICKETS
      BY <1>1, <1>3, <3>1 DEF StartEntry, Populate, SchedProc
    <3>3. total_tickets' = START_TICKETS % UMOD
      BY <1>6, <2>2, <3>2, ConfigAssumption DEF ToUnsigned
    <3>4. START_TICKETS % UMOD = START_TICKETS
      BY ConfigAssumption
    <3> QED
      BY <3>3, <3>4, ConfigAssumption DEF AliveInv
  <2> QED
    BY <1>1, <2>1, <2>2
<1>7. \/ total_tickets' = total_tickets /\ \/ UNCHANGED schedproc
                                           \/ schedproc' = [schedproc EXCEPT ![s] = e0]
      \/ /\ call.type = "INHERIT" => sched_isokendpt(call.parent)
         /\ total_tickets' = ToUnsigned(total_tickets + StartEntry(e0, call).tickets)
  BY <1>2, <1>3 DEF do_start_scheduling
<1> QED
  BY <1>5, <1>6, <1>7

LEMMA MainAlive ==
    ASSUME START_TICKETS < UMOD, IInv, IInv', AliveInv, SchedMain,
           total_tickets <= total_tickets'
    PROVE  AliveInv'
<1>1. /\ caller_q \in Seq(Slots \cup {PM_PROC_NR}) /\ caller_q # << >>
      /\ sched_up /\ sched_up' = sched_up /\ TypeOK
      /\ schedproc \in [Slots -> SchedProc] /\ total_tickets' \in Nat
  BY DEF IInv, TypeOK, SchedMain, main
<1>2. ASSUME Head(caller_q) # PM_PROC_NR, do_noquantum(Head(caller_q)),
             UNCHANGED <<total_tickets, call>>
      PROVE  AliveInv'
  <2>1. PICK s \in Slots : s = Head(caller_q)
    BY <1>1, <1>2
  <2>2. NoNewcomer
    BY <1>1, <1>2, <2>1, NoquantumNobody
  <2> QED
    BY <1>1, <1>2, <2>2, NobodyNew
<1>3. ASSUME call.type \in {"START", "INHERIT"}, do_start_scheduling(call)
      PROVE  AliveInv'
  <2>1. call \in Calling
    BY <1>1, <1>3, CallIsNotNone DEF CallTypes, TypeOK
  <2> QED
    BY <1>1, <1>3, <2>1, StartAlive
<1>4. ASSUME call.type = "STOP", do_stop_scheduling(call)
      PROVE  AliveInv'
  <2>1. call \in Calling
    BY <1>1, <1>4, CallIsNotNone DEF CallTypes, TypeOK
  <2>2. UNCHANGED total_tickets
    BY <1>4 DEF do_stop_scheduling
  <2> QED
    BY <1>1, <1>4, <2>1, <2>2, StopNobody, NobodyNew
<1>5. ASSUME call.type = "SET_NICE", do_nice(call)
      PROVE  AliveInv'
  <2>1. call \in Calling
    BY <1>1, <1>5, CallIsNotNone DEF CallTypes, TypeOK
  <2>2. UNCHANGED total_tickets
    BY <1>5 DEF do_nice
  <2> QED
    BY <1>1, <1>5, <2>1, <2>2, NiceNobody, NobodyNew
<1> QED
  BY <1>2, <1>3, <1>4, <1>5, Zenon DEF SchedMain, main

LEMMA BalanceAlive ==
    ASSUME IInv, AliveInv, BalanceQueues
    PROVE  AliveInv'
<1>1. UNCHANGED total_tickets /\ schedproc \in [Slots -> SchedProc]
  BY DEF BalanceQueues, balance_queues, IInv, TypeOK
<1>2. CASE total_tickets = 0
  <2>1. ~ SomebodyKnown /\ UNCHANGED schedproc
    BY <1>2 DEF AliveInv, BalanceQueues, balance_queues
  <2> QED
    BY <2>1 DEF AliveInv, SomebodyKnown, InUse
<1>3. CASE total_tickets # 0
  <2>1. do_lottery /\ UNCHANGED sched_up
    BY <1>3 DEF BalanceQueues, balance_queues
  <2> QED
    BY <1>1, <2>1, LotteryNobody, NobodyNew
<1> QED
  BY <1>2, <1>3

LEMMA NextAlive ==
    ASSUME START_TICKETS < UMOD, IInv, IInv', AliveInv, [Next]_vars,
           [total_tickets <= total_tickets']_vars
    PROVE  AliveInv'
<1>1. CASE UNCHANGED schedVars
  BY <1>1 DEF schedVars, AliveInv, SomebodyKnown, InUse
<1>2. CASE SchedMain
  <2>1. CASE UNCHANGED vars
    BY <1>1, <2>1 DEF vars, schedVars
  <2>2. CASE total_tickets <= total_tickets'
    BY <1>2, <2>2, MainAlive
  <2> QED
    BY <2>1, <2>2
<1>3. CASE BalanceQueues
  BY <1>3, BalanceAlive
<1>4. CASE \/ sched_init \/ sched_init_done \/ fork_done \/ exit_restart_done
           \/ setpriority_done
  <2>1. UNCHANGED schedVars
    BY <1>4 DEF sched_init, sched_init_done, fork_done, exit_restart_done, setpriority_done,
       schedVars
  <2> QED
    BY <1>1, <2>1
<1>5. ASSUME NEW s \in Slots,
             \/ do_fork(s) \/ sched_start_user(s)
             \/ do_exit(s) \/ sig_proc(s) \/ exit_restart(s)
             \/ do_waitpid(s)
             \/ OutOfQuantum(s)
      PROVE  AliveInv'
  <2>1. UNCHANGED schedVars
    BY <1>5 DEF do_fork, sched_start_user, do_exit, sig_proc, exit_restart, do_waitpid,
       OutOfQuantum, schedVars
  <2> QED
    BY <1>1, <2>1
<1>6. ASSUME NEW p \in Slots, NEW s \in Slots, NEW nice \in Nices,
             do_getsetpriority(p, s, nice)
      PROVE  AliveInv'
  <2>1. UNCHANGED schedVars
    BY <1>6 DEF do_getsetpriority, schedVars
  <2> QED
    BY <1>1, <2>1
<1>7. CASE UNCHANGED vars
  BY <1>1, <1>7 DEF vars, schedVars
<1> QED
  BY <1>2, <1>3, <1>4, <1>5, <1>6, <1>7 DEF Next

(* Until the total of the tickets, which is never decreased, wraps, SCHED  *)
(* does not die by dividing by it while it schedules a process.            *)
THEOREM AliveSafe ==
    ASSUME START_TICKETS < UMOD
    PROVE  Spec /\ NoTicketWrap => []AliveWhileScheduling
<1>1. Init => AliveInv
  <2> SUFFICES ASSUME Init PROVE ~ SomebodyKnown
    BY DEF AliveInv
  <2>1. \A s \in Slots : schedproc[s].flags = {}
    BY DEF Init, init_scheduling
  <2> QED
    BY <2>1 DEF SomebodyKnown, InUse
<1>2. IInv /\ IInv' /\ AliveInv /\ [Next]_vars /\ [total_tickets <= total_tickets']_vars
      => AliveInv'
  BY NextAlive
<1>3. AliveInv => AliveWhileScheduling
  BY DEF AliveInv, AliveWhileScheduling, SomebodyKnown, Known, sched_isokendpt, EndpointOf, Endpoint
<1> QED
  BY <1>1, <1>2, <1>3, TablesAgree, PTL DEF Spec, NoTicketWrap

-----------------------------------------------------------------------------
(* PM's process life cycle: whoever SCHED is asked about has an entry, and *)
(* an entry outlives its process only when its priority had wrapped.       *)

(* SCHED's queue: who is on it, and who came after PM's request.           *)
Queued(q, s) == \E i \in DOMAIN q : q[i] = s
Behind(q, s) == \E i, j \in DOMAIN q : i < j /\ q[i] = PM_PROC_NR /\ q[j] = s

(* A process SCHED has not given the processor: it never ran, and an entry *)
(* SCHED may have for the slot is one the kernel accepts no queue of.      *)
Unscheduled(s) ==
    /\ "NO_QUANTUM" \in kproc[s].rts
    /\ ~Queued(caller_q, s)
    /\ InUse(s) => Wrapped(schedproc[s].priority)

(* A forked process SCHED has not heard of.                                *)
Newborn(s) == schedproc[s].endpoint # kproc[s].gen /\ Unscheduled(s)

ExitRequests == {"PM_EXIT", "PM_DUMPCORE"}

Ended(F) == "ZOMBIE" \in F \/ "TOLD_PARENT" \in F

FlagsInv(F) ==
    /\ Ended(F) => "EXITING" \in F
    /\ "EXITING" \in F => "IN_USE" \in F
    /\ "VFS_CALL" \in F => "IN_USE" \in F

(* Where a slot stands between fork and wait, by PM's flags and the        *)
(* request PM has at VFS for it.                                           *)
PhaseInv(s) ==
    /\ FlagsInv(mproc[s].flags)
    /\ ~MpIs(mproc, s, "IN_USE") =>
         /\ mproc[s].scheduler = "NONE"
         /\ "SLOT_FREE" \in kproc[s].rts
         /\ vfs[s] = "NONE"
    /\ Alive(mproc, s) =>
         "SLOT_FREE" \notin kproc[s].rts /\ vfs[s] \notin ExitRequests
    /\ vfs[s] = "PM_FORK" =>
         Alive(mproc, s) /\ MpIs(mproc, s, "VFS_CALL") /\ Newborn(s)
    /\ vfs[s] \in ExitRequests =>
         /\ MpIs(mproc, s, "EXITING") /\ MpIs(mproc, s, "VFS_CALL")
         /\ "SLOT_FREE" \notin kproc[s].rts
    /\ MpIs(mproc, s, "EXITING") /\ vfs[s] = "NONE"
       /\ ~(call.type = "STOP" /\ call.caller = s) =>
         mproc[s].scheduler = "NONE" /\ "SLOT_FREE" \in kproc[s].rts
    /\ MpIs(mproc, s, "EXITING") /\ "SLOT_FREE" \notin kproc[s].rts =>
         "PROC_STOP" \in kproc[s].rts
    /\ mproc[s].scheduler = "KERNEL" /\ s # INIT_PROC_NR => vfs[s] = "PM_FORK"

(* A process SCHED does not know cannot run, one SCHED refused was never   *)
(* given the processor, and SCHED knows whoever waits on its queue.        *)
RunInv(s) ==
    /\ "SLOT_FREE" \notin kproc[s].rts /\ ~Known(s) =>
         "NO_QUANTUM" \in kproc[s].rts \/ "PROC_STOP" \in kproc[s].rts
    /\ "SLOT_FREE" \notin kproc[s].rts /\ mproc[s].scheduler = "NONE" =>
         Unscheduled(s)
    /\ Queued(caller_q, s) => Known(s)

(* A process has a parent that is not exiting and that SCHED knows.        *)
FamilyInv(s) ==
    MpIs(mproc, s, "IN_USE") /\ s # INIT_PROC_NR =>
      /\ Alive(mproc, mproc[s].parent) /\ Known(mproc[s].parent)
      /\ Known(INIT_PROC_NR)

InitInv ==
    /\ Alive(mproc, INIT_PROC_NR)
    /\ vfs[INIT_PROC_NR] = "NONE"
    /\ mproc[INIT_PROC_NR].scheduler # "NONE"

(* What PM's request in progress, answered or not, says of its process.    *)
StartInv ==
    call.type = "START" =>
      /\ call.caller = INIT_PROC_NR /\ call.endpoint.slot = INIT_PROC_NR
      /\ mproc[INIT_PROC_NR].scheduler = "KERNEL"
      /\ call.rv = "OK" => Known(INIT_PROC_NR)
InheritInv ==
    call.type = "INHERIT" =>
      LET c == call.caller
      IN  /\ call.endpoint.slot = c /\ c # INIT_PROC_NR
          /\ Alive(mproc, c) /\ vfs[c] = "NONE" /\ mproc[c].scheduler = "SCHED"
          /\ call.rv = "PENDING" =>
               Newborn(c) /\ call.parent = MpEndpoint(mproc, mproc[c].parent)
          /\ call.rv = "OK" => Known(c)
          /\ call.rv \notin {"PENDING", "OK"} => Unscheduled(c)
StopInv ==
    call.type = "STOP" =>
      LET s == call.caller
      IN  /\ call.endpoint.slot = s /\ s # INIT_PROC_NR
          /\ MpIs(mproc, s, "EXITING") /\ ~MpIs(mproc, s, "VFS_CALL")
          /\ vfs[s] = "NONE" /\ mproc[s].scheduler = "SCHED" /\ "SLOT_FREE" \notin kproc[s].rts
          /\ ~Behind(caller_q, s)
          /\ call.rv = "PENDING" => Known(s)
          /\ call.rv # "PENDING" => ~InUse(s)
SetNiceInv ==
    call.type = "SET_NICE" => mproc[call.endpoint.slot].scheduler = "SCHED"

(* PM waits on SCHED's queue once, and only for the answer to its request. *)
QueueInv ==
    /\ Queued(caller_q, PM_PROC_NR) => call # NoCall /\ call.rv = "PENDING"
    /\ ~Behind(caller_q, PM_PROC_NR)

(* The inductive invariant of the life cycle, on top of IInv.              *)
LifeInv ==
    /\ \A s \in Slots : PhaseInv(s) /\ RunInv(s) /\ FamilyInv(s)
    /\ InitInv
    /\ StartInv /\ InheritInv /\ StopInv /\ SetNiceInv
    /\ QueueInv
    /\ LeakOnlyByUnderflow /\ LiveKnown

-----------------------------------------------------------------------------
(* SCHED's queue.                                                          *)
LEMMA QueueTail ==
    ASSUME NEW S, NEW q \in Seq(S), q # << >>, NEW t
    PROVE  /\ Queued(Tail(q), t) => Queued(q, t)
           /\ Behind(Tail(q), t) => Behind(q, t)
           /\ Queued(q, Head(q))
           /\ Head(q) = PM_PROC_NR /\ ~Behind(q, t) => ~Queued(Tail(q), t)
<1>1. /\ Len(q) \in Nat /\ Len(q) > 0 /\ DOMAIN q = 1 .. Len(q)
      /\ DOMAIN Tail(q) = 1 .. Len(q) - 1 /\ Head(q) = q[1]
      /\ \A i \in 1 .. Len(q) - 1 : Tail(q)[i] = q[i + 1]
  OBVIOUS
<1>2. Queued(Tail(q), t) => Queued(q, t)
  <2> SUFFICES ASSUME NEW i \in 1 .. Len(q) - 1, q[i + 1] = t PROVE Queued(q, t)
    BY <1>1 DEF Queued
  <2>1. i + 1 \in DOMAIN q
    BY <1>1
  <2> QED
    BY <2>1 DEF Queued
<1>3. Behind(Tail(q), t) => Behind(q, t)
  <2> SUFFICES ASSUME NEW i \in 1 .. Len(q) - 1, NEW j \in 1 .. Len(q) - 1,
                      i < j, q[i + 1] = PM_PROC_NR, q[j + 1] = t
               PROVE  Behind(q, t)
    BY <1>1 DEF Behind
  <2>1. i + 1 \in DOMAIN q /\ j + 1 \in DOMAIN q /\ i + 1 < j + 1
    BY <1>1
  <2> QED
    BY <2>1 DEF Behind
<1>4. Queued(q, Head(q))
  BY <1>1 DEF Queued
<1>5. Head(q) = PM_PROC_NR /\ Queued(Tail(q), t) => Behind(q, t)
  <2> SUFFICES ASSUME NEW i \in 1 .. Len(q) - 1, q[i + 1] = t,
                      Head(q) = PM_PROC_NR
               PROVE  Behind(q, t)
    BY <1>1 DEF Queued
  <2>1. 1 \in DOMAIN q /\ i + 1 \in DOMAIN q /\ 1 < i + 1
    BY <1>1
  <2> QED
    BY <1>1, <2>1 DEF Behind
<1> QED
  BY <1>2, <1>3, <1>4, <1>5

LEMMA QueueAppend ==
    ASSUME NEW S, NEW q \in Seq(S), NEW x \in S, NEW t
    PROVE  /\ Queued(Append(q, x), t) => Queued(q, t) \/ t = x
           /\ Behind(Append(q, x), t) =>
                Behind(q, t) \/ (t = x /\ Queued(q, PM_PROC_NR))
<1>1. /\ Len(q) \in Nat /\ DOMAIN q = 1 .. Len(q)
      /\ DOMAIN Append(q, x) = 1 .. Len(q) + 1
      /\ Append(q, x)[Len(q) + 1] = x
      /\ \A i \in 1 .. Len(q) : Append(q, x)[i] = q[i]
  OBVIOUS
<1>2. \A i \in 1 .. Len(q) + 1 : i = Len(q) + 1 \/ i \in 1 .. Len(q)
  BY <1>1
<1>3. Queued(Append(q, x), t) => Queued(q, t) \/ t = x
  BY <1>1, <1>2 DEF Queued
<1>4. Behind(Append(q, x), t) =>
        Behind(q, t) \/ (t = x /\ Queued(q, PM_PROC_NR))
  <2> SUFFICES ASSUME NEW i \in 1 .. Len(q) + 1, NEW j \in 1 .. Len(q) + 1,
                      i < j, Append(q, x)[i] = PM_PROC_NR, Append(q, x)[j] = t
               PROVE  Behind(q, t) \/ (t = x /\ Queued(q, PM_PROC_NR))
    BY <1>1 DEF Behind
  <2>1. i \in 1 .. Len(q)
    BY <1>1
  <2>2. CASE j = Len(q) + 1
    BY <1>1, <2>1, <2>2 DEF Queued
  <2>3. CASE j \in 1 .. Len(q)
    BY <1>1, <2>1, <2>3 DEF Behind
  <2> QED
    BY <1>2, <2>2, <2>3
<1> QED
  BY <1>3, <1>4

LEMMA ClearIpcIdle ==
    ASSUME NEW q, NEW s, ~Queued(q, s)
    PROVE  clear_ipc(q, s) = q
BY DEF clear_ipc, Queued

-----------------------------------------------------------------------------
(* What the bookkeeping of zombies and waiting parents does to a slot's    *)
(* flags, and what no handler of PM but exit does to the kernel's slot.    *)
Reaped(F, F2) ==
    \/ /\ "IN_USE" \in F2 <=> "IN_USE" \in F
       /\ "EXITING" \in F2 <=> "EXITING" \in F
       /\ "VFS_CALL" \in F2 <=> "VFS_CALL" \in F
       /\ Ended(F2) => Ended(F) \/ "EXITING" \in F
    \/ /\ F2 \cap {"IN_USE", "EXITING", "VFS_CALL", "ZOMBIE", "TOLD_PARENT"} = {}
       /\ "EXITING" \in F /\ "VFS_CALL" \notin F

Quiet(k, k2, t) ==
    /\ k2[t].gen = k[t].gen
    /\ "SLOT_FREE" \in k2[t].rts <=> "SLOT_FREE" \in k[t].rts
    /\ "NO_QUANTUM" \in k2[t].rts <=> "NO_QUANTUM" \in k[t].rts
    /\ "PROC_STOP" \in k2[t].rts <=> "PROC_STOP" \in k[t].rts

Reaps(st, st2) ==
    \A t \in Slots :
      /\ st2.m[t].scheduler = st.m[t].scheduler
      /\ st2.m[t].parent = st.m[t].parent
      /\ Reaped(st.m[t].flags, st2.m[t].flags)
      /\ Quiet(st.k, st2.k, t)

LEMMA ReapedTransitive ==
    ASSUME NEW F, NEW G, NEW H, Reaped(F, G), Reaped(G, H)
    PROVE  Reaped(F, H)
BY DEF Reaped, Ended

LEMMA ReapsReflexive ==
    ASSUME NEW st
    PROVE  Reaps(st, st)
BY DEF Reaps, Reaped, Quiet

LEMMA ReapsTransitive ==
    ASSUME NEW a, NEW b, NEW c, Reaps(a, b), Reaps(b, c)
    PROVE  Reaps(a, c)
<1> SUFFICES ASSUME NEW t \in Slots
             PROVE  /\ c.m[t].scheduler = a.m[t].scheduler
                    /\ c.m[t].parent = a.m[t].parent
                    /\ Reaped(a.m[t].flags, c.m[t].flags)
                    /\ Quiet(a.k, c.k, t)
  BY DEF Reaps
<1>1. Reaped(a.m[t].flags, c.m[t].flags)
  BY ReapedTransitive DEF Reaps
<1>2. Quiet(a.k, c.k, t)
  BY DEF Reaps, Quiet
<1> QED
  BY <1>1, <1>2 DEF Reaps

LEMMA QuietRts ==
    ASSUME NEW k \in [Slots -> KProc], NEW s \in Slots, NEW t \in Slots
    PROVE  /\ Quiet(k, RtsSet(k, s, "RECEIVING"), t)
           /\ Quiet(k, RtsUnset(k, s, "RECEIVING"), t)
<1>1. /\ RtsSet(k, s, "RECEIVING")[t].gen = k[t].gen
      /\ RtsSet(k, s, "RECEIVING")[t].rts =
           IF t = s THEN k[t].rts \cup {"RECEIVING"} ELSE k[t].rts
  BY DEF RtsSet, KProc
<1>2. /\ RtsUnset(k, s, "RECEIVING")[t].gen = k[t].gen
      /\ RtsUnset(k, s, "RECEIVING")[t].rts =
           IF t = s THEN k[t].rts \ {"RECEIVING"} ELSE k[t].rts
  BY DEF RtsUnset, KProc
<1> QED
  BY <1>1, <1>2 DEF Quiet

(* PM's table after a change of one slot's flags.                          *)
LEMMA SetFlags ==
    ASSUME NEW m \in [Slots -> MProc], NEW s \in Slots, NEW F \in SUBSET MpFlags,
           NEW m2, m2 = [m EXCEPT ![s].flags = F]
    PROVE  /\ m2 \in [Slots -> MProc]
           /\ \A t \in Slots : /\ m2[t].scheduler = m[t].scheduler
                               /\ m2[t].parent = m[t].parent
                               /\ m2[t].endpoint = m[t].endpoint
                               /\ m2[t].flags = IF t = s THEN F ELSE m[t].flags
BY DEF MProc

(* Telling the parent of a process that is exiting.                        *)
LEMMA ReapsTellParent ==
    ASSUME NEW st \in BothTables, NEW s \in Slots, "EXITING" \in st.m[s].flags
    PROVE  /\ Reaps(st, tell_parent(st, s))
           /\ \A f \in {"IN_USE", "EXITING", "VFS_CALL"} :
                f \in tell_parent(st, s).m[s].flags <=> f \in st.m[s].flags
<1>1. PICK p \in Slots : p = st.m[s].parent
  BY DEF BothTables, MProc
<1>2. st.m \in [Slots -> MProc] /\ st.k \in [Slots -> KProc]
      /\ st.m[p].flags \in SUBSET MpFlags
  BY DEF BothTables, MProc
<1>3. PICK F : F = st.m[p].flags \ {"WAITING"}
  OBVIOUS
<1>4. PICK m0 : m0 = [st.m EXCEPT ![p].flags = F]
  OBVIOUS
<1>5. PICK F2 : F2 = (m0[s].flags \ {"ZOMBIE"}) \cup {"TOLD_PARENT"}
  OBVIOUS
<1>6. PICK m : m = [m0 EXCEPT ![s].flags = F2]
  OBVIOUS
<1>7. PICK k : k = IF Alive(st.m, p) THEN sendnb(st.k, p) ELSE st.k
  OBVIOUS
<1>8. tell_parent(st, s) = [m |-> m, k |-> k]
  BY <1>1, <1>3, <1>4, <1>5, <1>6, <1>7 DEF tell_parent
<1>9. /\ m0 \in [Slots -> MProc]
      /\ \A t \in Slots : /\ m0[t].scheduler = st.m[t].scheduler
                          /\ m0[t].parent = st.m[t].parent
                          /\ m0[t].flags = IF t = p THEN F ELSE st.m[t].flags
  <2>1. F \in SUBSET MpFlags
    BY <1>2, <1>3
  <2>2. PICK m1 \in [Slots -> MProc] : m1 = st.m
    BY <1>2
  <2>3. m0 = [m1 EXCEPT ![p].flags = F]
    BY <1>4, <2>2
  <2>4. /\ m0 \in [Slots -> MProc]
        /\ \A t \in Slots : /\ m0[t].scheduler = m1[t].scheduler
                            /\ m0[t].parent = m1[t].parent
                            /\ m0[t].flags = IF t = p THEN F ELSE m1[t].flags
    BY <2>1, <2>3, SetFlags
  <2> QED
    BY <2>2, <2>4
<1>10. \A t \in Slots : /\ m[t].scheduler = m0[t].scheduler
                        /\ m[t].parent = m0[t].parent
                        /\ m[t].flags = IF t = s THEN F2 ELSE m0[t].flags
  <2>1. m0[s].flags \in SUBSET MpFlags /\ "TOLD_PARENT" \in MpFlags
    BY <1>9 DEF MProc, MpFlags
  <2>2. F2 \in SUBSET MpFlags
    BY <1>5, <2>1
  <2> QED
    BY <1>6, <1>9, <2>2, SetFlags
<1>11. \A t \in Slots : Quiet(st.k, k, t)
  BY <1>2, <1>7, QuietRts DEF sendnb, Quiet
<1>12. ASSUME NEW t \in Slots
       PROVE  Reaped(st.m[t].flags, m0[t].flags)
  BY <1>3, <1>9 DEF Reaped, Ended
<1>13. ASSUME NEW t \in Slots
       PROVE  Reaped(m0[t].flags, m[t].flags)
  <2>1. "EXITING" \in m0[s].flags
    BY <1>3, <1>9
  <2> QED
    BY <1>5, <1>10, <2>1 DEF Reaped, Ended
<1>14. \A t \in Slots : Reaped(st.m[t].flags, m[t].flags)
  BY <1>12, <1>13, ReapedTransitive
<1>15. Reaps(st, [m |-> m, k |-> k])
  BY <1>9, <1>10, <1>11, <1>14 DEF Reaps
<1>16. \A f \in {"IN_USE", "EXITING", "VFS_CALL"} :
         f \in m[s].flags <=> f \in st.m[s].flags
  BY <1>3, <1>5, <1>9, <1>10
<1> QED
  BY <1>8, <1>15, <1>16

(* Cleaning up an exiting process that VFS has answered for.               *)
LEMMA ReapsCleanup ==
    ASSUME NEW st \in BothTables, NEW s \in Slots,
           "EXITING" \in st.m[s].flags, "VFS_CALL" \notin st.m[s].flags
    PROVE  Reaps(st, cleanup(st, s))
<1>1. st.m \in [Slots -> MProc] /\ {} \in SUBSET MpFlags
  BY DEF BothTables
<1>2. PICK m : m = [st.m EXCEPT ![s].flags = {}]
  OBVIOUS
<1>3. \A t \in Slots : /\ m[t].scheduler = st.m[t].scheduler
                       /\ m[t].parent = st.m[t].parent
                       /\ m[t].flags = IF t = s THEN {} ELSE st.m[t].flags
  BY <1>1, <1>2, SetFlags
<1>4. cleanup(st, s) = [m |-> m, k |-> st.k]
  BY <1>2 DEF cleanup
<1> QED
  BY <1>3, <1>4 DEF Reaps, Reaped, Quiet, Ended

LEMMA ReapsCheckParent ==
    ASSUME NEW st \in BothTables, NEW s \in Slots, NEW b \in BOOLEAN,
           "EXITING" \in st.m[s].flags
    PROVE  /\ Reaps(st, check_parent(st, s, b))
           /\ ~b \/ "VFS_CALL" \in st.m[s].flags =>
                \A f \in {"IN_USE", "EXITING", "VFS_CALL"} :
                  f \in check_parent(st, s, b).m[s].flags <=> f \in st.m[s].flags
<1>1. PICK told : told = tell_parent(st, s)
  OBVIOUS
<1>2. /\ Reaps(st, told) /\ told \in BothTables
      /\ \A f \in {"IN_USE", "EXITING", "VFS_CALL"} :
                f \in told.m[s].flags <=> f \in st.m[s].flags
  BY <1>1, ReapsTellParent, BenignTellParent DEF Benign
<1>3. CASE check_parent(st, s, b) \in {st, told}
  BY <1>2, <1>3, ReapsReflexive
<1>4. CASE /\ check_parent(st, s, b) = cleanup(told, s)
           /\ b /\ "VFS_CALL" \notin st.m[s].flags
  <2>1. "EXITING" \in told.m[s].flags /\ "VFS_CALL" \notin told.m[s].flags
    BY <1>2, <1>4
  <2>2. Reaps(told, cleanup(told, s))
    BY <1>2, <2>1, ReapsCleanup
  <2> QED
    BY <1>2, <1>4, <2>2, ReapsTransitive
<1> QED
  BY <1>1, <1>3, <1>4 DEF check_parent, MpIs

(* The children of s become init's; nothing else happens to a slot that is *)
(* not reaped.                                                             *)
Orphans(st, st2, s) ==
    \A t \in Slots :
      /\ st2.m[t].scheduler = st.m[t].scheduler
      /\ Reaped(st.m[t].flags, st2.m[t].flags)
      /\ Quiet(st.k, st2.k, t)
      /\ "IN_USE" \in st.m[t].flags =>
           st2.m[t].parent = IF st.m[t].parent = s THEN INIT_PROC_NR
                             ELSE st.m[t].parent

LEMMA OrphansDisinherit ==
    ASSUME NEW st \in BothTables, NEW s \in Slots,
           \A t \in Slots : FlagsInv(st.m[t].flags)
    PROVE  /\ Orphans(st, disinherit(st, s), s)
           /\ "VFS_CALL" \in st.m[s].flags =>
                \A f \in {"IN_USE", "EXITING", "VFS_CALL"} :
                  f \in disinherit(st, s).m[s].flags <=> f \in st.m[s].flags
<1>1. PICK m : m = [c \in Slots |->
                   IF MpIs(st.m, c, "IN_USE") /\ st.m[c].parent = s
                   THEN [st.m[c] EXCEPT !.parent = INIT_PROC_NR] ELSE st.m[c]]
  OBVIOUS
<1>2. PICK zombies : zombies = {c \in Slots : /\ MpIs(st.m, c, "ZOMBIE")
                                              /\ st.m[c].parent = s}
  OBVIOUS
<1>3. PICK adopted : adopted = [m |-> m, k |-> st.k]
  OBVIOUS
<1>4. disinherit(st, s) = IF zombies = {} THEN adopted
                          ELSE check_parent(adopted, Min(zombies), TRUE)
  BY <1>1, <1>2, <1>3 DEF disinherit
<1>5. /\ st.m \in [Slots -> MProc] /\ st.k \in [Slots -> KProc]
      /\ INIT_PROC_NR \in Slots
  BY InitSlot DEF BothTables
<1>6. /\ m \in [Slots -> MProc]
      /\ \A t \in Slots :
           /\ m[t].scheduler = st.m[t].scheduler
           /\ m[t].flags = st.m[t].flags
           /\ "IN_USE" \in st.m[t].flags =>
                m[t].parent = IF st.m[t].parent = s THEN INIT_PROC_NR
                              ELSE st.m[t].parent
  <2>1. m \in [Slots -> MProc]
    BY <1>1, <1>5 DEF MProc
  <2>2. ASSUME NEW t \in Slots
        PROVE  /\ m[t].scheduler = st.m[t].scheduler
               /\ m[t].flags = st.m[t].flags
               /\ "IN_USE" \in st.m[t].flags =>
                    m[t].parent = IF st.m[t].parent = s THEN INIT_PROC_NR
                                  ELSE st.m[t].parent
    <3>1. st.m[t] \in MProc
      BY <1>5
    <3>2. CASE MpIs(st.m, t, "IN_USE") /\ st.m[t].parent = s
      <4>1. m[t] = [st.m[t] EXCEPT !.parent = INIT_PROC_NR]
        BY <1>1, <3>2
      <4> QED
        BY <3>1, <3>2, <4>1 DEF MProc
    <3>3. CASE ~(MpIs(st.m, t, "IN_USE") /\ st.m[t].parent = s)
      <4>1. m[t] = st.m[t]
        BY <1>1, <3>3
      <4> QED
        BY <3>3, <4>1 DEF MpIs
    <3> QED
      BY <3>2, <3>3
  <2> QED
    BY <2>1, <2>2
<1>7. adopted \in BothTables /\ adopted.m = m /\ adopted.k = st.k
  BY <1>3, <1>5, <1>6 DEF BothTables
<1>8. Orphans(st, adopted, s)
  BY <1>6, <1>7 DEF Orphans, Reaped, Quiet
<1>9. CASE zombies = {}
  BY <1>4, <1>6, <1>7, <1>8, <1>9
<1>10. CASE zombies # {}
  <2>1. PICK z \in Slots : z = Min(zombies) /\ "ZOMBIE" \in st.m[z].flags
    <3>1. zombies \in SUBSET Slots
      BY <1>2
    <3>2. Min(zombies) \in zombies
      BY <1>10, <3>1, MinSlot
    <3> QED
      BY <1>2, <3>2 DEF MpIs
  <2>2. "EXITING" \in adopted.m[z].flags
    BY <1>6, <1>7, <2>1 DEF FlagsInv, Ended
  <2>3. PICK x : x = check_parent(adopted, z, TRUE)
    OBVIOUS
  <2>4. Reaps(adopted, x)
    BY <1>7, <2>2, <2>3, ReapsCheckParent
  <2>5. ASSUME NEW t \in Slots
        PROVE  /\ x.m[t].scheduler = st.m[t].scheduler
               /\ Reaped(st.m[t].flags, x.m[t].flags)
               /\ Quiet(st.k, x.k, t)
               /\ "IN_USE" \in st.m[t].flags =>
                    x.m[t].parent = IF st.m[t].parent = s THEN INIT_PROC_NR
                                    ELSE st.m[t].parent
    <3>1. Reaped(st.m[t].flags, adopted.m[t].flags) /\ Quiet(st.k, adopted.k, t)
      BY <1>8 DEF Orphans
    <3>2. Reaped(adopted.m[t].flags, x.m[t].flags) /\ Quiet(adopted.k, x.k, t)
      BY <2>4 DEF Reaps
    <3>3. Reaped(st.m[t].flags, x.m[t].flags)
      BY <3>1, <3>2, ReapedTransitive
    <3>4. Quiet(st.k, x.k, t)
      BY <3>1, <3>2 DEF Quiet
    <3> QED
      BY <1>8, <2>4, <3>3, <3>4 DEF Orphans, Reaps
  <2>6. Orphans(st, x, s)
    BY <2>5 DEF Orphans
  <2>7. "VFS_CALL" \in st.m[s].flags =>
          \A f \in {"IN_USE", "EXITING", "VFS_CALL"} :
            f \in x.m[s].flags <=> f \in st.m[s].flags
    BY <2>6 DEF Orphans, Reaped
  <2> QED
    BY <1>4, <1>10, <2>1, <2>3, <2>6, <2>7
<1> QED
  BY <1>9, <1>10

LEMMA FlagsReaped ==
    ASSUME NEW F, NEW F2, FlagsInv(F), Reaped(F, F2)
    PROVE  FlagsInv(F2)
BY DEF FlagsInv, Reaped, Ended

LEMMA ReapsZombify ==
    ASSUME NEW st \in BothTables, NEW s \in Slots, "EXITING" \in st.m[s].flags
    PROVE  /\ Reaps(st, zombify(st, s))
           /\ \A f \in {"IN_USE", "EXITING", "VFS_CALL"} :
                f \in zombify(st, s).m[s].flags <=> f \in st.m[s].flags
<1>1. PICK m1 \in [Slots -> MProc] : m1 = st.m
  BY DEF BothTables
<1>2. PICK F \in SUBSET MpFlags : F = m1[s].flags \cup {"ZOMBIE"}
  BY DEF MProc, MpFlags
<1>3. PICK m : m = [m1 EXCEPT ![s].flags = F]
  OBVIOUS
<1>4. PICK z : z = [m |-> m, k |-> st.k]
  OBVIOUS
<1>5. /\ m \in [Slots -> MProc]
      /\ \A t \in Slots : /\ m[t].scheduler = m1[t].scheduler
                          /\ m[t].parent = m1[t].parent
                          /\ m[t].flags = IF t = s THEN F ELSE m1[t].flags
  BY <1>3, SetFlags
<1>6. z \in BothTables
  BY <1>4, <1>5 DEF BothTables
<1>7. zombify(st, s) = check_parent(z, s, FALSE)
  BY <1>1, <1>2, <1>3, <1>4 DEF zombify
<1>8. Reaps(st, z)
  BY <1>1, <1>2, <1>4, <1>5 DEF Reaps, Reaped, Quiet, Ended
<1>9. \A f \in {"IN_USE", "EXITING", "VFS_CALL"} :
        f \in z.m[s].flags <=> f \in st.m[s].flags
  BY <1>1, <1>2, <1>4, <1>5
<1>10. "EXITING" \in z.m[s].flags
  BY <1>9
<1>11. PICK x : x = check_parent(z, s, FALSE)
  OBVIOUS
<1>12. /\ Reaps(z, x)
       /\ \A f \in {"IN_USE", "EXITING", "VFS_CALL"} :
            f \in x.m[s].flags <=> f \in z.m[s].flags
  BY <1>6, <1>10, <1>11, ReapsCheckParent
<1> QED
  BY <1>7, <1>8, <1>9, <1>11, <1>12, ReapsTransitive

(* exit_proc: s is stopped and exiting, its children are init's.           *)
Exits(st, st2, s) ==
    /\ {"IN_USE", "EXITING", "VFS_CALL"} \subseteq st2.m[s].flags
    /\ \A t \in Slots :
         /\ st2.m[t].scheduler = st.m[t].scheduler
         /\ t # s => Reaped(st.m[t].flags, st2.m[t].flags)
         /\ "IN_USE" \in st2.m[t].flags =>
              st2.m[t].parent = IF st.m[t].parent = s THEN INIT_PROC_NR
                                ELSE st.m[t].parent
         /\ st2.k[t].gen = st.k[t].gen
         /\ "SLOT_FREE" \in st2.k[t].rts <=> "SLOT_FREE" \in st.k[t].rts
         /\ "NO_QUANTUM" \in st2.k[t].rts <=> "NO_QUANTUM" \in st.k[t].rts
         /\ "PROC_STOP" \in st2.k[t].rts <=> "PROC_STOP" \in st.k[t].rts \/ t = s

LEMMA ExitProcExits ==
    ASSUME NEW st \in BothTables, NEW s \in Slots, NEW b \in BOOLEAN,
           "IN_USE" \in st.m[s].flags, \A t \in Slots : FlagsInv(st.m[t].flags)
    PROVE  Exits(st, exit_proc(st, s, b), s)
<1>1. PICK m1 \in [Slots -> MProc], k1 \in [Slots -> KProc] : m1 = st.m /\ k1 = st.k
  BY DEF BothTables
<1>2. PICK F \in SUBSET MpFlags : F = (m1[s].flags \cap {"IN_USE"}) \cup {"VFS_CALL", "EXITING"}
  BY DEF MProc, MpFlags
<1>3. PICK m, k : m = [m1 EXCEPT ![s].flags = F] /\ k = RtsSet(k1, s, "PROC_STOP")
  OBVIOUS
<1>4. PICK stopped : stopped = [m |-> m, k |-> k]
  OBVIOUS
<1>5. PICK z : z = IF b THEN stopped ELSE zombify(stopped, s)
  OBVIOUS
<1>6. exit_proc(st, s, b) = disinherit(z, s)
  BY <1>1, <1>2, <1>3, <1>4, <1>5 DEF exit_proc
<1>7. /\ m \in [Slots -> MProc]
      /\ \A t \in Slots : /\ m[t].scheduler = m1[t].scheduler
                          /\ m[t].parent = m1[t].parent
                          /\ m[t].flags = IF t = s THEN F ELSE m1[t].flags
  <2>1. m = [m1 EXCEPT ![s].flags = F]
    BY <1>3
  <2> QED
    BY <2>1 DEF MProc
<1>8. /\ k \in [Slots -> KProc]
      /\ \A t \in Slots :
           /\ k[t].gen = k1[t].gen
           /\ k[t].rts = IF t = s THEN k1[t].rts \cup {"PROC_STOP"} ELSE k1[t].rts
  BY <1>3 DEF RtsSet, KProc, RtsFlags
<1>9. stopped \in BothTables /\ stopped.m = m /\ stopped.k = k
  BY <1>4, <1>7, <1>8 DEF BothTables
<1>10. \A t \in Slots : FlagsInv(m[t].flags)
  BY <1>1, <1>2, <1>7 DEF FlagsInv, Ended
<1>11. {"IN_USE", "EXITING", "VFS_CALL"} \subseteq m[s].flags
  BY <1>1, <1>2, <1>7
<1>12. /\ Reaps(stopped, z) /\ z \in BothTables
       /\ \A f \in {"IN_USE", "EXITING", "VFS_CALL"} :
            f \in z.m[s].flags <=> f \in stopped.m[s].flags
  <2>1. CASE b
    BY <1>5, <1>9, <2>1, ReapsReflexive
  <2>2. CASE ~b
    BY <1>5, <1>9, <1>11, <2>2, ReapsZombify, BenignZombify DEF Benign
  <2> QED
    BY <2>1, <2>2
<1>13. \A t \in Slots : FlagsInv(z.m[t].flags)
  BY <1>9, <1>10, <1>12, FlagsReaped DEF Reaps
<1>14. PICK x : x = disinherit(z, s)
  OBVIOUS
<1>15. /\ Orphans(z, x, s)
       /\ "VFS_CALL" \in z.m[s].flags =>
            \A f \in {"IN_USE", "EXITING", "VFS_CALL"} :
              f \in x.m[s].flags <=> f \in z.m[s].flags
  BY <1>12, <1>13, <1>14, OrphansDisinherit
<1>16. {"IN_USE", "EXITING", "VFS_CALL"} \subseteq x.m[s].flags
  BY <1>9, <1>11, <1>12, <1>15
<1>17. ASSUME NEW t \in Slots
       PROVE  /\ x.m[t].scheduler = st.m[t].scheduler
              /\ t # s => Reaped(st.m[t].flags, x.m[t].flags)
              /\ "IN_USE" \in x.m[t].flags =>
                   x.m[t].parent = IF st.m[t].parent = s THEN INIT_PROC_NR
                                   ELSE st.m[t].parent
  <2>1. /\ x.m[t].scheduler = st.m[t].scheduler
        /\ z.m[t].parent = st.m[t].parent
        /\ Reaped(m[t].flags, z.m[t].flags)
        /\ Reaped(z.m[t].flags, x.m[t].flags)
        /\ "IN_USE" \in z.m[t].flags =>
             x.m[t].parent = IF z.m[t].parent = s THEN INIT_PROC_NR
                             ELSE z.m[t].parent
    BY <1>1, <1>7, <1>9, <1>12, <1>15 DEF Reaps, Orphans
  <2>2. "IN_USE" \in x.m[t].flags => "IN_USE" \in z.m[t].flags
    BY <2>1 DEF Reaped
  <2>3. t # s => Reaped(st.m[t].flags, x.m[t].flags)
    BY <1>1, <1>7, <2>1, ReapedTransitive
  <2> QED
    BY <2>1, <2>2, <2>3
<1>18. ASSUME NEW t \in Slots
       PROVE  /\ x.k[t].gen = st.k[t].gen
              /\ "SLOT_FREE" \in x.k[t].rts <=> "SLOT_FREE" \in st.k[t].rts
              /\ "NO_QUANTUM" \in x.k[t].rts <=> "NO_QUANTUM" \in st.k[t].rts
              /\ "PROC_STOP" \in x.k[t].rts <=> "PROC_STOP" \in st.k[t].rts \/ t = s
  <2>1. Quiet(k, z.k, t) /\ Quiet(z.k, x.k, t)
    BY <1>9, <1>12, <1>15 DEF Reaps, Orphans
  <2>2. Quiet(k, x.k, t)
    BY <2>1 DEF Quiet
  <2>3. /\ "SLOT_FREE" \in k[t].rts <=> "SLOT_FREE" \in k1[t].rts
        /\ "NO_QUANTUM" \in k[t].rts <=> "NO_QUANTUM" \in k1[t].rts
        /\ "PROC_STOP" \in k[t].rts <=> "PROC_STOP" \in k1[t].rts \/ t = s
    <3>1. CASE t = s
      <4>1. k[t].rts = k1[t].rts \cup {"PROC_STOP"}
        BY <1>8, <3>1
      <4>2. \A f : f \in k[t].rts <=> f \in k1[t].rts \/ f = "PROC_STOP"
        BY <4>1
      <4> QED
        BY <3>1, <4>2
    <3>2. CASE t # s
      BY <1>8, <3>2
    <3> QED
      BY <3>1, <3>2
  <2>4. k[t].gen = k1[t].gen
    BY <1>8
  <2> QED
    BY <1>1, <2>2, <2>3, <2>4, Zenon DEF Quiet
<1> QED
  BY <1>6, <1>14, <1>16, <1>17, <1>18 DEF Exits

(* The end of exit: the kernel's slot is free, PM's may be.                *)
Clears(st, st2, s) ==
    /\ "SLOT_FREE" \in st2.k[s].rts
    /\ \A t \in Slots :
         /\ st2.m[t].scheduler = st.m[t].scheduler
         /\ st2.m[t].parent = st.m[t].parent
         /\ Reaped(st.m[t].flags, st2.m[t].flags)
         /\ st2.k[t].gen = st.k[t].gen
         /\ t # s => Quiet(st.k, st2.k, t)

LEMMA ClearedClears ==
    ASSUME NEW st \in BothTables, NEW s \in Slots, NEW b \in BOOLEAN,
           "EXITING" \in st.m[s].flags, "VFS_CALL" \notin st.m[s].flags
    PROVE  Clears(st, Cleared(st, s, b), s)
<1>1. PICK z : z = IF b THEN zombify(st, s) ELSE st
  OBVIOUS
<1>2. PICK k : k = sys_clear(z.k, s)
  OBVIOUS
<1>3. PICK f : f = [m |-> z.m, k |-> k]
  OBVIOUS
<1>4. Cleared(st, s, b) = IF MpIs(f.m, s, "TOLD_PARENT") THEN cleanup(f, s) ELSE f
  BY <1>1, <1>2, <1>3 DEF Cleared
<1>5. /\ Reaps(st, z) /\ z \in BothTables
      /\ \A g \in {"IN_USE", "EXITING", "VFS_CALL"} :
           g \in z.m[s].flags <=> g \in st.m[s].flags
  BY <1>1, ReapsZombify, ReapsReflexive, BenignZombify DEF Benign
<1>6. /\ z.k \in [Slots -> KProc] /\ z.m \in [Slots -> MProc]
  BY <1>5 DEF BothTables
<1>7. /\ k \in [Slots -> KProc] /\ "SLOT_FREE" \in k[s].rts
      /\ \A t \in Slots : k[t].gen = z.k[t].gen
      /\ \A t \in Slots \ {s} : k[t] = z.k[t]
  BY <1>2, <1>6 DEF sys_clear, KProc, RtsFlags
<1>8. f \in BothTables /\ f.m = z.m /\ f.k = k
  BY <1>3, <1>6, <1>7 DEF BothTables
<1>9. Clears(st, f, s)
  <2>1. ASSUME NEW t \in Slots, t # s
        PROVE  Quiet(st.k, f.k, t)
    BY <1>5, <1>7, <1>8, <2>1 DEF Reaps, Quiet
  <2>2. \A t \in Slots : f.k[t].gen = st.k[t].gen
    BY <1>5, <1>7, <1>8 DEF Reaps, Quiet
  <2> QED
    BY <1>5, <1>7, <1>8, <2>1, <2>2 DEF Clears, Reaps
<1>10. PICK x : x = cleanup(f, s)
  OBVIOUS
<1>11. Reaps(f, x)
  BY <1>5, <1>8, <1>10, ReapsCleanup
<1>12. x.k = f.k
  BY <1>10 DEF cleanup
<1>13. \A t \in Slots : Reaped(st.m[t].flags, x.m[t].flags)
  BY <1>9, <1>11, ReapedTransitive DEF Reaps, Clears
<1>14. Clears(st, x, s)
  BY <1>9, <1>11, <1>12, <1>13 DEF Reaps, Clears
<1> QED
  BY <1>4, <1>9, <1>10, <1>14

-----------------------------------------------------------------------------
(* PM's steps leave SCHED's table alone, so SCHED knows the same processes *)
(* unless a slot is freed or taken.                                        *)
LEMMA SameKnown ==
    ASSUME NEW t \in Slots, UNCHANGED schedproc, kproc'[t].gen = kproc[t].gen,
           "SLOT_FREE" \in kproc'[t].rts <=> "SLOT_FREE" \in kproc[t].rts
    PROVE  Known(t)' <=> Known(t)
BY DEF Known, sched_isokendpt, EndpointOf, Endpoint, InUse

LEMMA SameUnscheduled ==
    ASSUME NEW t \in Slots, UNCHANGED schedproc, kproc'[t].gen = kproc[t].gen,
           "NO_QUANTUM" \in kproc'[t].rts <=> "NO_QUANTUM" \in kproc[t].rts,
           Queued(caller_q', t) => Queued(caller_q, t)
    PROVE  /\ Unscheduled(t) => Unscheduled(t)'
           /\ Newborn(t) => Newborn(t)'
BY DEF Unscheduled, Newborn, InUse

LEMMA CallCases ==
    ASSUME IInv
    PROVE  /\ call = NoCall \/ call \in Calling
           /\ call = NoCall => call.type = "NONE"
           /\ call \in Calling => call.type \in CallTypes /\ call.caller \in Slots
                                  /\ call.endpoint.slot \in Slots
                                  /\ call # NoCall
<1>1. call = NoCall => call.type = "NONE"
  BY DEF NoCall
<1>2. call \in Calling => call.type \in CallTypes /\ call.caller \in Slots
                          /\ call.endpoint.slot \in Slots
  BY DEF Calling
<1>3. "NONE" \notin CallTypes
  BY DEF CallTypes
<1> QED
  BY <1>1, <1>2, <1>3 DEF IInv, TypeOK

(* A step of PM that only reaps, wakes and renices.                        *)
LEMMA ReapLife ==
    ASSUME IInv, LifeInv, NEW st, Reaps(Tables, st), Benign(Tables, st),
           SetTables(st), UNCHANGED <<schedproc, caller_q, vfs>>,
           call.type # "STOP",
           \/ UNCHANGED call /\ call = NoCall
           \/ call' = NoCall /\ call.type = "SET_NICE" /\ call.rv # "PENDING"
           \/ call' = NoCall /\ call.type = "INHERIT" /\ call.rv = "OK"
    PROVE  LifeInv'
<1>1. ASSUME NEW t \in Slots
      PROVE  /\ mproc'[t].scheduler = mproc[t].scheduler
             /\ mproc'[t].parent = mproc[t].parent
             /\ mproc'[t].endpoint = mproc[t].endpoint
             /\ Reaped(mproc[t].flags, mproc'[t].flags)
             /\ Quiet(kproc, kproc', t)
  BY DEF Reaps, Benign, SetTables, Tables
<1>2. ASSUME NEW t \in Slots
      PROVE  PhaseInv(t) /\ RunInv(t) /\ FamilyInv(t)
  BY DEF LifeInv
<1>3. call' = NoCall /\ call'.type = "NONE"
  BY DEF NoCall
<1>4. ASSUME NEW t \in Slots
      PROVE  /\ Known(t)' <=> Known(t)
             /\ Unscheduled(t) => Unscheduled(t)'
             /\ Newborn(t) => Newborn(t)'
  BY <1>1, SameKnown, SameUnscheduled DEF Quiet
<1>5. ASSUME NEW t \in Slots
      PROVE  PhaseInv(t)'
  <2>1. FlagsInv(mproc'[t].flags)
    BY <1>1, <1>2, FlagsReaped DEF PhaseInv
  <2>2. vfs[t] \in VfsRequests /\ vfs' = vfs
    BY DEF IInv, TypeOK
  <2> QED
    BY <1>1, <1>2, <1>3, <1>4, <2>1, <2>2 DEF PhaseInv, Alive, MpIs, Reaped,
       Quiet, ExitRequests, VfsRequests
<1>6. ASSUME NEW t \in Slots
      PROVE  RunInv(t)'
  BY <1>1, <1>2, <1>4 DEF RunInv, Quiet
<1>7. ASSUME NEW t \in Slots
      PROVE  Alive(mproc, t) <=> Alive(mproc', t)
  BY <1>1, <1>2 DEF Alive, MpIs, Reaped
<1>8. ASSUME NEW t \in Slots
      PROVE  FamilyInv(t)'
  <2>1. mproc[t].parent \in Slots /\ INIT_PROC_NR \in Slots
    BY TablesType, InitSlot DEF MProc
  <2> QED
    BY <1>1, <1>2, <1>4, <1>7, <2>1 DEF FamilyInv, MpIs, Reaped
<1>9. InitInv'
  BY <1>1, <1>7, InitSlot DEF LifeInv, InitInv
<1>10. StartInv' /\ InheritInv' /\ StopInv' /\ SetNiceInv'
  BY <1>3 DEF StartInv, InheritInv, StopInv, SetNiceInv
<1>11. QueueInv'
  BY DEF LifeInv, QueueInv
<1>12. LeakOnlyByUnderflow'
  BY <1>1 DEF LifeInv, LeakOnlyByUnderflow, InUse
<1>13. LiveKnown'
  <2>1. call = NoCall \/ call.type = "SET_NICE" \/ (call.type = "INHERIT" /\ Known(call.caller))
    BY DEF LifeInv, InheritInv
  <2> QED
    BY <1>1, <1>3, <1>4, <2>1 DEF LifeInv, LiveKnown, MpIs, Reaped
<1> QED
  BY <1>5, <1>6, <1>8, <1>9, <1>10, <1>11, <1>12, <1>13 DEF LifeInv

(* A step of PM in which process s begins to exit: by its own call, by a   *)
(* signal, or because its fork failed.                                     *)
LEMMA ExitLife ==
    ASSUME IInv, LifeInv, NEW s \in Slots, s # INIT_PROC_NR, Alive(mproc, s),
           vfs[s] = "NONE", NEW req \in ExitRequests, vfs' = [vfs EXCEPT ![s] = req],
           NEW a, NEW st, Exits(a, st, s), Benign(Tables, st), SetTables(st),
           \A t \in Slots : /\ a.m[t].flags = mproc[t].flags
                            /\ a.m[t].parent = mproc[t].parent
                            /\ Quiet(kproc, a.k, t),
           \A t \in Slots \ {s} : a.m[t].scheduler = mproc[t].scheduler,
           a.m[s].scheduler # mproc[s].scheduler =>
              a.m[s].scheduler = "NONE" /\ Unscheduled(s),
           UNCHANGED <<schedproc, caller_q>>, call' = NoCall,
           \/ call = NoCall
           \/ /\ call.type = "INHERIT" /\ call.caller = s /\ call.rv # "PENDING"
              /\ call.rv # "OK" => a.m[s].scheduler = "NONE"
    PROVE  LifeInv'
<1>1. ASSUME NEW t \in Slots
      PROVE  /\ t # s => mproc'[t].scheduler = mproc[t].scheduler
             /\ t # s => Reaped(mproc[t].flags, mproc'[t].flags)
             /\ mproc'[t].endpoint = mproc[t].endpoint
             /\ "IN_USE" \in mproc'[t].flags =>
                  mproc'[t].parent = IF mproc[t].parent = s THEN INIT_PROC_NR
                                     ELSE mproc[t].parent
             /\ kproc'[t].gen = kproc[t].gen
             /\ "SLOT_FREE" \in kproc'[t].rts <=> "SLOT_FREE" \in kproc[t].rts
             /\ "NO_QUANTUM" \in kproc'[t].rts <=> "NO_QUANTUM" \in kproc[t].rts
             /\ "PROC_STOP" \in kproc'[t].rts <=> "PROC_STOP" \in kproc[t].rts \/ t = s
  BY DEF Exits, Benign, SetTables, Tables, Quiet
<1>2. /\ {"IN_USE", "EXITING", "VFS_CALL"} \subseteq mproc'[s].flags
      /\ mproc'[s].scheduler = a.m[s].scheduler
  BY DEF Exits, SetTables
<1>3. ASSUME NEW t \in Slots
      PROVE  PhaseInv(t) /\ RunInv(t) /\ FamilyInv(t)
  BY DEF LifeInv
<1>4. call' = NoCall /\ call'.type = "NONE"
  BY DEF NoCall
<1>5. ASSUME NEW t \in Slots
      PROVE  /\ Known(t)' <=> Known(t)
             /\ Unscheduled(t) => Unscheduled(t)'
             /\ Newborn(t) => Newborn(t)'
  BY <1>1, SameKnown, SameUnscheduled
<1>6. \A t \in Slots : vfs[t] \in VfsRequests /\ vfs'[t] = IF t = s THEN req ELSE vfs[t]
  BY DEF IInv, TypeOK
<1>7. call.type # "STOP"
  BY DEF NoCall
<1>8. ASSUME NEW t \in Slots
      PROVE  PhaseInv(t)'
  <2>1. CASE t = s
    <3>1. FlagsInv(mproc'[s].flags)
      BY <1>2 DEF FlagsInv
    <3>2. "SLOT_FREE" \notin kproc'[s].rts /\ "PROC_STOP" \in kproc'[s].rts
      BY <1>1, <1>3 DEF PhaseInv
    <3>3. mproc'[s].scheduler # "KERNEL"
      BY <1>2, <1>3 DEF PhaseInv
    <3> QED
      BY <1>2, <1>6, <2>1, <3>1, <3>2, <3>3 DEF PhaseInv, Alive, MpIs,
         ExitRequests
  <2>2. CASE t # s
    <3>1. FlagsInv(mproc'[t].flags)
      BY <1>1, <1>3, <2>2, FlagsReaped DEF PhaseInv
    <3> QED
      BY <1>1, <1>3, <1>4, <1>5, <1>6, <1>7, <2>2, <3>1 DEF PhaseInv, Alive,
         MpIs, Reaped, ExitRequests, VfsRequests
  <2> QED
    BY <2>1, <2>2
<1>9. ASSUME NEW t \in Slots
      PROVE  RunInv(t)'
  BY <1>1, <1>2, <1>3, <1>5 DEF RunInv
<1>10. ASSUME NEW t \in Slots, t # s
       PROVE  Alive(mproc, t) <=> Alive(mproc', t)
  BY <1>1, <1>3, <1>10 DEF Alive, MpIs, Reaped
<1>11. Alive(mproc, INIT_PROC_NR) /\ Alive(mproc', INIT_PROC_NR)
  BY <1>10, InitSlot DEF LifeInv, InitInv
<1>12. ASSUME NEW t \in Slots
       PROVE  FamilyInv(t)'
  <2>1. mproc[t].parent \in Slots /\ INIT_PROC_NR \in Slots
    BY TablesType, InitSlot DEF MProc
  <2>2. "IN_USE" \in mproc'[t].flags => "IN_USE" \in mproc[t].flags
    BY <1>1 DEF Reaped, Alive, MpIs
  <2> QED
    BY <1>1, <1>3, <1>5, <1>10, <1>11, <2>1, <2>2 DEF FamilyInv, MpIs
<1>13. InitInv'
  BY <1>1, <1>6, <1>11, InitSlot DEF LifeInv, InitInv
<1>14. StartInv' /\ InheritInv' /\ StopInv' /\ SetNiceInv'
  BY <1>4 DEF StartInv, InheritInv, StopInv, SetNiceInv
<1>15. QueueInv'
  BY DEF LifeInv, QueueInv
<1>16. LeakOnlyByUnderflow'
  <2> SUFFICES ASSUME NEW t \in Slots, InUse(t),
                      ~Wrapped(schedproc[t].priority)
               PROVE  /\ mproc'[t].scheduler # "NONE"
                      /\ mproc'[t].endpoint = schedproc[t].endpoint
    BY DEF LeakOnlyByUnderflow, InUse
  <2>1. /\ mproc[t].scheduler # "NONE"
        /\ mproc[t].endpoint = schedproc[t].endpoint
    BY DEF LifeInv, LeakOnlyByUnderflow
  <2> QED
    BY <1>1, <1>2, <2>1 DEF Unscheduled
<1>17. LiveKnown'
  <2> SUFFICES ASSUME NEW t \in Slots, MpIs(mproc', t, "IN_USE"),
                      mproc'[t].scheduler = "SCHED", vfs'[t] # "PM_FORK"
               PROVE  Known(t)'
    BY DEF LiveKnown
  <2>1. CASE t # s
    <3>1. call = NoCall \/ (call.type = "INHERIT" /\ call.caller # t)
      BY <2>1
    <3>2. MpIs(mproc, t, "IN_USE") /\ mproc[t].scheduler = "SCHED" /\ vfs[t] # "PM_FORK"
      BY <1>1, <1>6, <2>1 DEF MpIs, Reaped
    <3> QED
      BY <1>5, <3>1, <3>2 DEF LifeInv, LiveKnown
  <2>2. CASE t = s
    <3>1. mproc[s].scheduler = "SCHED" /\ (call = NoCall \/ (call.type = "INHERIT" /\ call.rv = "OK"))
      BY <1>2, <2>2
    <3>2. CASE call = NoCall
      BY <1>5, <2>2, <3>1, <3>2 DEF LifeInv, LiveKnown, Alive
    <3>3. CASE call.type = "INHERIT" /\ call.rv = "OK"
      BY <1>5, <2>2, <3>3 DEF LifeInv, InheritInv, NoCall
    <3> QED
      BY <3>1, <3>2, <3>3
  <2> QED
    BY <2>1, <2>2
<1> QED
  BY <1>8, <1>9, <1>12, <1>13, <1>14, <1>15, <1>16, <1>17 DEF LifeInv

(* A step of PM that ends the exit of process s.                           *)
LEMMA ClearLife ==
    ASSUME IInv, LifeInv, NEW s \in Slots, s # INIT_PROC_NR,
           "EXITING" \in mproc[s].flags, "SLOT_FREE" \notin kproc[s].rts,
           vfs' = [vfs EXCEPT ![s] = "NONE"],
           NEW a, NEW st, Clears(a, st, s), Benign(Tables, st), SetTables(st),
           \A t \in Slots : /\ a.m[t].parent = mproc[t].parent
                            /\ Quiet(kproc, a.k, t),
           \A t \in Slots \ {s} : /\ a.m[t].scheduler = mproc[t].scheduler
                                  /\ a.m[t].flags = mproc[t].flags,
           a.m[s].scheduler = "NONE", a.m[s].flags = mproc[s].flags \ {"VFS_CALL"},
           ~Queued(caller_q, s), InUse(s) => Wrapped(schedproc[s].priority),
           UNCHANGED <<schedproc, caller_q>>, call' = NoCall,
           \/ call = NoCall
           \/ call.type = "STOP" /\ call.caller = s /\ call.rv # "PENDING"
    PROVE  LifeInv'
<1>1. ASSUME NEW t \in Slots
      PROVE  /\ t # s => mproc'[t].scheduler = mproc[t].scheduler
             /\ t # s => Reaped(mproc[t].flags, mproc'[t].flags)
             /\ mproc'[t].endpoint = mproc[t].endpoint
             /\ mproc'[t].parent = mproc[t].parent
             /\ kproc'[t].gen = kproc[t].gen
             /\ t # s => Quiet(kproc, kproc', t)
  BY DEF Clears, Benign, SetTables, Tables, Quiet
<1>2. /\ mproc'[s].scheduler = "NONE"
      /\ Reaped(a.m[s].flags, mproc'[s].flags)
      /\ "SLOT_FREE" \in kproc'[s].rts
  BY DEF Clears, SetTables
<1>3. ASSUME NEW t \in Slots
      PROVE  PhaseInv(t) /\ RunInv(t) /\ FamilyInv(t)
  BY DEF LifeInv
<1>4. call' = NoCall /\ call'.type = "NONE"
  BY DEF NoCall
<1>5. ASSUME NEW t \in Slots, t # s
      PROVE  /\ Known(t)' <=> Known(t)
             /\ Unscheduled(t) => Unscheduled(t)'
             /\ Newborn(t) => Newborn(t)'
  BY <1>1, <1>5, SameKnown, SameUnscheduled DEF Quiet
<1>6. \A t \in Slots : vfs[t] \in VfsRequests /\ vfs'[t] = IF t = s THEN "NONE" ELSE vfs[t]
  BY DEF IInv, TypeOK
<1>7. FlagsInv(mproc'[s].flags)
  <2>1. FlagsInv(a.m[s].flags)
    BY <1>3 DEF PhaseInv, FlagsInv, Ended
  <2> QED
    BY <1>2, <2>1, FlagsReaped
<1>8. ASSUME NEW t \in Slots
      PROVE  PhaseInv(t)'
  <2>1. CASE t = s
    <3>1. ~Alive(mproc', s)
      BY <1>2 DEF Alive, MpIs, Reaped
    <3> QED
      BY <1>2, <1>6, <1>7, <2>1, <3>1 DEF PhaseInv, MpIs, ExitRequests
  <2>2. CASE t # s
    <3>1. FlagsInv(mproc'[t].flags)
      BY <1>1, <1>3, <2>2, FlagsReaped DEF PhaseInv
    <3>2. ~(call.type = "STOP" /\ call.caller = t)
      BY <2>2 DEF NoCall
    <3> QED
      BY <1>1, <1>3, <1>4, <1>5, <1>6, <2>2, <3>1, <3>2 DEF PhaseInv, Alive,
         MpIs, Reaped, Quiet, ExitRequests, VfsRequests
  <2> QED
    BY <2>1, <2>2
<1>9. ASSUME NEW t \in Slots
      PROVE  RunInv(t)'
  BY <1>1, <1>2, <1>3, <1>5 DEF RunInv, Quiet
<1>10. ASSUME NEW t \in Slots, t # s
       PROVE  Alive(mproc, t) <=> Alive(mproc', t)
  BY <1>1, <1>3, <1>10 DEF Alive, MpIs, Reaped
<1>11. ASSUME NEW t \in Slots
       PROVE  FamilyInv(t)'
  <2>1. mproc[t].parent \in Slots /\ INIT_PROC_NR \in Slots
    BY TablesType, InitSlot DEF MProc
  <2>2. "IN_USE" \in mproc'[t].flags => "IN_USE" \in mproc[t].flags
    <3>1. "IN_USE" \in mproc[s].flags
      BY <1>3 DEF PhaseInv, FlagsInv
    <3> QED
      BY <1>1, <3>1 DEF Reaped
  <2>3. Alive(mproc, mproc[t].parent) => mproc[t].parent # s
    BY DEF Alive, MpIs
  <2> QED
    BY <1>1, <1>3, <1>5, <1>10, <2>1, <2>2, <2>3 DEF FamilyInv, MpIs
<1>12. InitInv'
  BY <1>1, <1>6, <1>10, InitSlot DEF LifeInv, InitInv
<1>13. StartInv' /\ InheritInv' /\ StopInv' /\ SetNiceInv'
  BY <1>4 DEF StartInv, InheritInv, StopInv, SetNiceInv
<1>14. QueueInv'
  BY DEF LifeInv, QueueInv
<1>15. LeakOnlyByUnderflow'
  BY <1>1 DEF LifeInv, LeakOnlyByUnderflow, InUse
<1>16. LiveKnown'
  <2> SUFFICES ASSUME NEW t \in Slots, MpIs(mproc', t, "IN_USE"),
                      mproc'[t].scheduler = "SCHED", vfs'[t] # "PM_FORK"
               PROVE  Known(t)'
    BY DEF LiveKnown
  <2>1. t # s
    BY <1>2
  <2>2. MpIs(mproc, t, "IN_USE") /\ mproc[t].scheduler = "SCHED" /\ vfs[t] # "PM_FORK"
    BY <1>1, <1>6, <2>1 DEF MpIs, Reaped
  <2> QED
    BY <1>5, <2>1, <2>2 DEF LifeInv, LiveKnown
<1> QED
  BY <1>8, <1>9, <1>11, <1>12, <1>13, <1>14, <1>15, <1>16 DEF LifeInv

(* PM's request in its four forms: init is started; VFS has answered a     *)
(* fork, or an exit; a process is reniced.                                 *)
Requests(c) ==
    \/ /\ call'.type = "START"
       /\ call'.caller = INIT_PROC_NR /\ call'.endpoint.slot = INIT_PROC_NR
       /\ mproc[INIT_PROC_NR].scheduler = "KERNEL"
       /\ UNCHANGED <<mproc, vfs>>
    \/ /\ call'.type = "SET_NICE"
       /\ mproc[call'.endpoint.slot].scheduler = "SCHED"
       /\ UNCHANGED <<mproc, vfs>>
    \/ /\ \/ call'.type = "INHERIT" /\ vfs[c] = "PM_FORK"
             /\ call'.parent = MpEndpoint(mproc, mproc[c].parent)
          \/ call'.type = "STOP" /\ vfs[c] \in ExitRequests
       /\ call'.caller = c /\ call'.endpoint.slot = c
       /\ mproc[c].scheduler = "SCHED"
       /\ mproc' = [mproc EXCEPT ![c].flags = @ \ {"VFS_CALL"}]
       /\ vfs' = [vfs EXCEPT ![c] = "NONE"]

LEMMA RequestLife ==
    ASSUME IInv, LifeInv, NEW c \in Slots, Requests(c), call = NoCall,
           call' # NoCall, call'.rv = "PENDING", call' \in Calling,
           caller_q' = Append(caller_q, PM_PROC_NR), UNCHANGED schedproc,
           \A t \in Slots : Quiet(kproc, kproc', t)
    PROVE  LifeInv'
<1>1. ASSUME NEW t \in Slots
      PROVE  PhaseInv(t) /\ RunInv(t) /\ FamilyInv(t)
  BY DEF LifeInv
<1>2. ASSUME NEW t \in Slots
      PROVE  /\ mproc'[t].scheduler = mproc[t].scheduler
             /\ mproc'[t].parent = mproc[t].parent
             /\ mproc'[t].endpoint = mproc[t].endpoint
             /\ \/ mproc'[t].flags = mproc[t].flags
                \/ /\ t = c /\ vfs[c] # "NONE"
                   /\ mproc'[t].flags = mproc[t].flags \ {"VFS_CALL"}
  <2>1. CASE UNCHANGED mproc
    BY <2>1
  <2>2. CASE /\ vfs[c] # "NONE"
             /\ mproc' = [mproc EXCEPT ![c].flags = @ \ {"VFS_CALL"}]
    BY <2>2, TablesType DEF MProc
  <2> QED
    BY <2>1, <2>2 DEF Requests, ExitRequests
<1>3. ASSUME NEW t \in Slots
      PROVE  /\ Alive(mproc', t) <=> Alive(mproc, t)
             /\ MpIs(mproc', t, "IN_USE") <=> MpIs(mproc, t, "IN_USE")
             /\ MpIs(mproc', t, "EXITING") <=> MpIs(mproc, t, "EXITING")
             /\ FlagsInv(mproc'[t].flags)
  BY <1>1, <1>2 DEF Alive, MpIs, PhaseInv, FlagsInv, Ended
<1>4. /\ ~Queued(caller_q, PM_PROC_NR)
      /\ \A t \in Slots : Queued(caller_q', t) => Queued(caller_q, t)
      /\ \A t \in Slots \cup {PM_PROC_NR} : ~Behind(caller_q', t)
  <2>1. ~Queued(caller_q, PM_PROC_NR)
    BY DEF LifeInv, QueueInv
  <2>2. ASSUME NEW t PROVE ~Behind(caller_q, t)
    BY <2>1 DEF Queued, Behind
  <2>3. /\ caller_q \in Seq(Slots \cup {PM_PROC_NR})
        /\ PM_PROC_NR \in Slots \cup {PM_PROC_NR} /\ PM_PROC_NR \notin Slots
    BY ConfigAssumption DEF IInv, TypeOK, PM_PROC_NR, Slots
  <2>4. ASSUME NEW t
        PROVE  /\ Queued(caller_q', t) => Queued(caller_q, t) \/ t = PM_PROC_NR
               /\ Behind(caller_q', t) =>
                    Behind(caller_q, t) \/ Queued(caller_q, PM_PROC_NR)
    BY <2>3, QueueAppend
  <2> QED
    BY <2>1, <2>2, <2>3, <2>4
<1>5. ASSUME NEW t \in Slots
      PROVE  /\ Known(t)' <=> Known(t)
             /\ Unscheduled(t) => Unscheduled(t)'
             /\ Newborn(t) => Newborn(t)'
  BY <1>4, SameKnown, SameUnscheduled DEF Quiet
<1>6. ASSUME NEW t \in Slots
      PROVE  /\ vfs'[t] = vfs[t] \/ (t = c /\ vfs'[t] = "NONE"
                                     /\ call'.type \in {"INHERIT", "STOP"} /\ call'.caller = c)
             /\ mproc'[t].flags # mproc[t].flags => vfs'[t] = "NONE" /\ t = c
  <2>1. CASE UNCHANGED <<mproc, vfs>>
    BY <2>1
  <2>2. CASE /\ vfs' = [vfs EXCEPT ![c] = "NONE"]
             /\ call'.type \in {"INHERIT", "STOP"} /\ call'.caller = c
    BY <1>2, <2>2 DEF IInv, TypeOK
  <2> QED
    BY <2>1, <2>2 DEF Requests
<1>7. ASSUME NEW t \in Slots
      PROVE  PhaseInv(t)'
  <2>1. CASE vfs'[t] = vfs[t] /\ mproc'[t].flags = mproc[t].flags
    <3>1. call.type = "NONE"
      BY DEF NoCall
    <3> QED
      BY <1>1, <1>2, <1>3, <1>5, <2>1, <3>1 DEF PhaseInv, MpIs, Quiet
  <2>2. CASE t = c /\ vfs'[t] = "NONE" /\ vfs[t] # "NONE"
    <3>1. \/ call'.type = "INHERIT" /\ Alive(mproc, t)
          \/ call'.type = "STOP" /\ call'.caller = t /\ MpIs(mproc, t, "EXITING")
      BY <1>1, <2>2 DEF Requests, PhaseInv
    <3>2. MpIs(mproc, t, "IN_USE")
      BY <1>1, <3>1 DEF PhaseInv, FlagsInv, MpIs, Alive
    <3>3. mproc[c].scheduler = "SCHED"
      BY <2>2 DEF Requests
    <3> QED
      BY <1>1, <1>2, <1>3, <2>2, <3>1, <3>2, <3>3 DEF PhaseInv, Alive, MpIs,
         Quiet, ExitRequests
  <2>3. \/ vfs'[t] = vfs[t] /\ mproc'[t].flags = mproc[t].flags
        \/ t = c /\ vfs'[t] = "NONE" /\ vfs[t] # "NONE"
    BY <1>2, <1>6
  <2> QED
    BY <2>1, <2>2, <2>3
<1>8. ASSUME NEW t \in Slots
      PROVE  RunInv(t)'
  BY <1>1, <1>2, <1>4, <1>5 DEF RunInv, Quiet
<1>9. ASSUME NEW t \in Slots
      PROVE  FamilyInv(t)'
  <2>1. mproc[t].parent \in Slots /\ INIT_PROC_NR \in Slots
    BY TablesType, InitSlot DEF MProc
  <2> QED
    BY <1>1, <1>2, <1>3, <1>5, <2>1 DEF FamilyInv
<1>10. InitInv'
  BY <1>2, <1>3, <1>6, InitSlot DEF LifeInv, InitInv
<1>11. /\ c # INIT_PROC_NR \/ vfs[c] = "NONE"
       /\ call'.caller \in Slots /\ call'.endpoint.slot \in Slots
  BY DEF LifeInv, InitInv, Calling
<1>12. StartInv'
  BY <1>2, InitSlot DEF StartInv, Requests
<1>13. InheritInv'
  <2> SUFFICES ASSUME call'.type = "INHERIT" PROVE InheritInv'
    BY DEF InheritInv
  <2>0. vfs \in [Slots -> VfsRequests]
    BY DEF IInv, TypeOK
  <2>1. /\ vfs[c] = "PM_FORK" /\ call'.caller = c /\ call'.endpoint.slot = c
        /\ mproc[c].scheduler = "SCHED" /\ vfs'[c] = "NONE"
        /\ call'.parent = MpEndpoint(mproc, mproc[c].parent)
    BY <2>0 DEF Requests
  <2>2. Alive(mproc', c) /\ Newborn(c)' /\ c # INIT_PROC_NR
    BY <1>1, <1>3, <1>5, <1>11, <2>1 DEF PhaseInv
  <2>3. call'.parent = MpEndpoint(mproc', mproc'[c].parent)
    <3>1. mproc[c].parent \in Slots
      BY TablesType DEF MProc
    <3> QED
      BY <1>2, <2>1, <3>1 DEF MpEndpoint, Endpoint
  <2> QED
    BY <1>2, <2>1, <2>2, <2>3 DEF InheritInv
<1>14. StopInv'
  <2> SUFFICES ASSUME call'.type = "STOP" PROVE StopInv'
    BY DEF StopInv
  <2>0. vfs \in [Slots -> VfsRequests]
    BY DEF IInv, TypeOK
  <2>1. /\ vfs[c] \in ExitRequests /\ call'.caller = c /\ call'.endpoint.slot = c
        /\ mproc[c].scheduler = "SCHED" /\ vfs'[c] = "NONE"
    BY <2>0 DEF Requests, ExitRequests
  <2>2. /\ MpIs(mproc, c, "EXITING") /\ MpIs(mproc, c, "IN_USE")
        /\ "SLOT_FREE" \notin kproc[c].rts /\ c # INIT_PROC_NR
    BY <1>1, <1>11, <2>1 DEF PhaseInv, FlagsInv, MpIs, ExitRequests
  <2>3. Known(c)
    BY <2>1, <2>2 DEF LifeInv, LiveKnown, ExitRequests
  <2>4. ~MpIs(mproc', c, "VFS_CALL")
    <3>1. mproc' = [mproc EXCEPT ![c].flags = @ \ {"VFS_CALL"}]
      BY DEF Requests
    <3> QED
      BY <3>1, TablesType DEF MpIs, MProc
  <2> QED
    BY <1>2, <1>3, <1>4, <1>5, <2>1, <2>2, <2>3, <2>4 DEF StopInv, Quiet
<1>15. SetNiceInv'
  BY <1>2, <1>11 DEF SetNiceInv, Requests
<1>16. QueueInv'
  BY <1>4 DEF QueueInv
<1>17. LeakOnlyByUnderflow'
  BY <1>2 DEF LifeInv, LeakOnlyByUnderflow, InUse
<1>18. LiveKnown'
  <2> SUFFICES ASSUME NEW t \in Slots, MpIs(mproc', t, "IN_USE"),
                      mproc'[t].scheduler = "SCHED", vfs'[t] # "PM_FORK",
                      ~(call'.type \in {"INHERIT", "STOP"} /\ call'.caller = t)
               PROVE  Known(t)'
    BY DEF LiveKnown
  <2>1. MpIs(mproc, t, "IN_USE") /\ mproc[t].scheduler = "SCHED" /\ vfs[t] # "PM_FORK"
    BY <1>2, <1>3, <1>6
  <2> QED
    BY <1>5, <2>1 DEF LifeInv, LiveKnown
<1> QED
  BY <1>7, <1>8, <1>9, <1>10, <1>12, <1>13, <1>14, <1>15, <1>16, <1>17, <1>18
  DEF LifeInv

-----------------------------------------------------------------------------
(* PM's actions, one by one.                                               *)
LEMMA TaskcallMade ==
    ASSUME NEW type, NEW ep, NEW parent, NEW prio, NEW caller, NEW core,
           taskcall(type, ep, parent, prio, caller, core)
    PROVE  /\ call'.type = type /\ call'.endpoint = ep /\ call'.parent = parent
           /\ call'.caller = caller /\ call'.rv = "PENDING"
           /\ caller_q' = Append(caller_q, PM_PROC_NR)
BY DEF taskcall

LEMMA QuietReflexive == \A t \in Slots : Quiet(kproc, kproc, t)
BY DEF Quiet

LEMMA SchedInitLife ==
    ASSUME IInv, IInv', LifeInv, sched_init
    PROVE  LifeInv'
<1>1. PICK e : /\ e = MpEndpoint(mproc, INIT_PROC_NR)
               /\ taskcall("START", e, e, USER_Q, INIT_PROC_NR, FALSE)
  BY DEF sched_init
<1>2. /\ call'.type = "START" /\ call'.endpoint = e
      /\ call'.caller = INIT_PROC_NR /\ call'.rv = "PENDING"
      /\ caller_q' = Append(caller_q, PM_PROC_NR)
  BY <1>1, TaskcallMade
<1>3. e.slot = INIT_PROC_NR
  BY <1>1 DEF MpEndpoint, Endpoint
<1>4. Requests(INIT_PROC_NR)
  BY <1>2, <1>3 DEF Requests, sched_init
<1>5. call' # NoCall /\ call' \in Calling
  BY <1>2 DEF NoCall, IInv, TypeOK
<1>6. call = NoCall /\ UNCHANGED schedproc /\ UNCHANGED kproc
  BY DEF sched_init, schedVars
<1>7. \A t \in Slots : Quiet(kproc, kproc', t)
  BY <1>6, QuietReflexive
<1> QED
  BY <1>2, <1>4, <1>5, <1>6, <1>7, InitSlot, RequestLife

LEMMA StartUserLife ==
    ASSUME IInv, IInv', LifeInv, NEW c \in Slots, sched_start_user(c)
    PROVE  LifeInv'
<1>1. PICK e, par, prio : /\ e = MpEndpoint(mproc, c)
                          /\ par = MpEndpoint(mproc, mproc[c].parent)
                          /\ taskcall("INHERIT", e, par, prio, c, FALSE)
  BY DEF sched_start_user
<1>2. /\ call'.type = "INHERIT" /\ call'.endpoint = e /\ call'.parent = par
      /\ call'.caller = c /\ call'.rv = "PENDING"
      /\ caller_q' = Append(caller_q, PM_PROC_NR)
  BY <1>1, TaskcallMade
<1>3. e.slot = c
  BY <1>1 DEF MpEndpoint, Endpoint
<1>4. Requests(c)
  BY <1>1, <1>2, <1>3 DEF Requests, sched_start_user
<1>5. call' # NoCall /\ call' \in Calling
  BY <1>2 DEF NoCall, IInv, TypeOK
<1>6. call = NoCall /\ UNCHANGED schedproc /\ UNCHANGED kproc
  BY DEF sched_start_user, schedVars
<1>7. \A t \in Slots : Quiet(kproc, kproc', t)
  BY <1>6, QuietReflexive
<1> QED
  BY <1>2, <1>4, <1>5, <1>6, <1>7, RequestLife

LEMMA SetpriorityLife ==
    ASSUME IInv, IInv', LifeInv, NEW p \in Slots, NEW s \in Slots,
           NEW nice \in Nices, do_getsetpriority(p, s, nice)
    PROVE  LifeInv'
<1>1. PICK e : /\ e = MpEndpoint(mproc, s)
               /\ taskcall("SET_NICE", e, e, nice, p, FALSE)
  BY DEF do_getsetpriority
<1>2. /\ call'.type = "SET_NICE" /\ call'.endpoint = e /\ call'.rv = "PENDING"
      /\ caller_q' = Append(caller_q, PM_PROC_NR)
  BY <1>1, TaskcallMade
<1>3. e.slot = s
  BY <1>1 DEF MpEndpoint, Endpoint
<1>4. Requests(s)
  BY <1>2, <1>3 DEF Requests, do_getsetpriority
<1>5. call' # NoCall /\ call' \in Calling
  BY <1>2 DEF NoCall, IInv, TypeOK
<1>6. call = NoCall /\ UNCHANGED schedproc /\ kproc' = RtsSet(kproc, p, "RECEIVING")
  BY DEF do_getsetpriority, Calls, schedVars
<1>7. \A t \in Slots : Quiet(kproc, kproc', t)
  BY <1>6, TablesType, QuietRts
<1> QED
  BY <1>2, <1>4, <1>5, <1>6, <1>7, RequestLife

LEMMA SchedInitDoneLife ==
    ASSUME IInv, LifeInv, sched_init_done
    PROVE  LifeInv'
<1>1. /\ call.type = "START" /\ call.rv # "PENDING"
      /\ UNCHANGED <<kproc, caller_q, schedproc, vfs>>
      /\ call' = NoCall /\ call'.type = "NONE"
  BY DEF sched_init_done, schedVars, NoCall
<1>2. PICK d : /\ mproc' = [mproc EXCEPT ![INIT_PROC_NR].scheduler = d]
               /\ d = IF call.rv = "OK" THEN "SCHED" ELSE mproc[INIT_PROC_NR].scheduler
  BY DEF sched_init_done
<1>3. mproc[INIT_PROC_NR].scheduler = "KERNEL" /\ (call.rv = "OK" => Known(INIT_PROC_NR))
  BY <1>1 DEF LifeInv, StartInv
<1>4. ASSUME NEW t \in Slots
      PROVE  /\ mproc'[t].flags = mproc[t].flags
             /\ mproc'[t].parent = mproc[t].parent
             /\ mproc'[t].endpoint = mproc[t].endpoint
             /\ mproc'[t].scheduler = IF t = INIT_PROC_NR THEN d ELSE mproc[t].scheduler
  BY <1>2, TablesType, InitSlot DEF MProc
<1>5. ASSUME NEW t \in Slots
      PROVE  PhaseInv(t) /\ RunInv(t) /\ FamilyInv(t)
  BY DEF LifeInv
<1>6. ASSUME NEW t \in Slots
      PROVE  /\ Known(t)' <=> Known(t)
             /\ Unscheduled(t)' <=> Unscheduled(t)
             /\ Newborn(t)' <=> Newborn(t)
  BY <1>1 DEF Known, sched_isokendpt, EndpointOf, Endpoint, InUse, Newborn,
     Unscheduled
<1>7. d # "NONE" /\ Alive(mproc, INIT_PROC_NR) /\ vfs[INIT_PROC_NR] = "NONE"
  BY <1>2, <1>3 DEF LifeInv, InitInv
<1>8. ASSUME NEW t \in Slots
      PROVE  PhaseInv(t)'
  BY <1>1, <1>4, <1>5, <1>6, <1>7 DEF PhaseInv, Alive, MpIs
<1>9. ASSUME NEW t \in Slots
      PROVE  RunInv(t)' /\ FamilyInv(t)'
  <2>1. mproc[t].parent \in Slots /\ INIT_PROC_NR \in Slots
    BY TablesType, InitSlot DEF MProc
  <2> QED
    BY <1>1, <1>4, <1>5, <1>6, <1>7, <2>1 DEF RunInv, FamilyInv, Alive, MpIs
<1>10. InitInv'
  BY <1>1, <1>4, <1>7, InitSlot DEF InitInv, Alive, MpIs
<1>11. StartInv' /\ InheritInv' /\ StopInv' /\ SetNiceInv'
  BY <1>1 DEF StartInv, InheritInv, StopInv, SetNiceInv
<1>12. QueueInv'
  BY <1>1 DEF LifeInv, QueueInv
<1>13. LeakOnlyByUnderflow'
  BY <1>1, <1>4, <1>7 DEF LifeInv, LeakOnlyByUnderflow, InUse
<1>14. LiveKnown'
  <2>1. d = "SCHED" => Known(INIT_PROC_NR)
    BY <1>2, <1>3
  <2>2. ~(call.type \in {"INHERIT", "STOP"})
    BY <1>1
  <2> QED
    BY <1>1, <1>4, <1>6, <2>1, <2>2 DEF LifeInv, LiveKnown, MpIs
<1> QED
  BY <1>8, <1>9, <1>10, <1>11, <1>12, <1>13, <1>14 DEF LifeInv

LEMMA SetpriorityDoneLife ==
    ASSUME IInv, LifeInv, setpriority_done
    PROVE  LifeInv'
<1>1. PICK c \in Slots, s \in Slots, nice \in Int :
        c = call.caller /\ s = call.endpoint.slot /\ nice = call.maxprio
  BY CallerSlot DEF setpriority_done, CallTypes
<1>2. /\ call.type = "SET_NICE" /\ call.rv # "PENDING" /\ call' = NoCall
      /\ UNCHANGED <<schedproc, caller_q, vfs>>
      /\ kproc' = RtsUnset(kproc, c, "RECEIVING")
  BY <1>1 DEF setpriority_done, schedVars, sendnb
<1>3. PICK n \in Int : mproc' = [mproc EXCEPT ![s].nice = n]
  BY <1>1, TablesType DEF setpriority_done, MProc
<1>4. /\ mproc' \in [Slots -> MProc]
      /\ \A t \in Slots : /\ mproc'[t].endpoint = mproc[t].endpoint
                          /\ mproc'[t].scheduler = mproc[t].scheduler
                          /\ mproc'[t].parent = mproc[t].parent
                          /\ mproc'[t].flags = mproc[t].flags
  BY <1>3, TablesType DEF MProc
<1>5. PICK st : st = [m |-> mproc', k |-> kproc']
  OBVIOUS
<1>6. \A t \in Slots : Quiet(kproc, kproc', t)
  BY <1>2, TablesType, QuietRts
<1>7. kproc' \in [Slots -> KProc] /\ \A t \in Slots : SameSlot(kproc, kproc', t)
  BY <1>2, TablesType, SameSlotRts
<1>8. Benign(Tables, st) /\ SetTables(st)
  BY <1>4, <1>5, <1>7, TablesType DEF Benign, BothTables, SetTables
<1>9. Reaps(Tables, st)
  BY <1>4, <1>5, <1>6, TablesType DEF Reaps, Reaped
<1> QED
  BY <1>2, <1>8, <1>9, ReapLife

LEMMA WaitpidLife ==
    ASSUME IInv, LifeInv, NEW p \in Slots, do_waitpid(p)
    PROVE  LifeInv'
<1>1. /\ UNCHANGED <<schedproc, call, caller_q, vfs>>
      /\ call = NoCall /\ call.type # "STOP"
  BY DEF do_waitpid, Calls, schedVars, NoCall
<1> DEFINE children == {c \in Slots : /\ MpIs(mproc, c, "IN_USE")
                                      /\ ~MpIs(mproc, c, "TOLD_PARENT")
                                      /\ mproc[c].parent = p}
<1>2. PICK zombies \in SUBSET Slots :
        zombies = {c \in children : MpIs(mproc, c, "ZOMBIE")}
  OBVIOUS
<1>3. CASE /\ zombies # {}
           /\ LET c == Min(zombies)
                  told == tell_parent(Tables, c)
              IN  SetTables(IF MpIs(mproc, c, "VFS_CALL") THEN told
                            ELSE cleanup(told, c))
  <2>1. PICK c \in Slots : c = Min(zombies) /\ MpIs(mproc, c, "ZOMBIE")
    BY <1>2, <1>3, MinSlot
  <2>2. "EXITING" \in Tables.m[c].flags
    BY <2>1, TablesType DEF LifeInv, PhaseInv, FlagsInv, Ended, MpIs
  <2>3. PICK told : told = tell_parent(Tables, c)
    OBVIOUS
  <2>4. /\ Reaps(Tables, told) /\ Benign(Tables, told) /\ told \in BothTables
        /\ \A f \in {"IN_USE", "EXITING", "VFS_CALL"} :
             f \in told.m[c].flags <=> f \in Tables.m[c].flags
    BY <2>2, <2>3, TablesType, ReapsTellParent, BenignTellParent DEF Benign
  <2>5. CASE MpIs(mproc, c, "VFS_CALL")
    <3>1. SetTables(told)
      BY <1>3, <2>1, <2>3, <2>5
    <3> QED
      BY <1>1, <2>4, <3>1, ReapLife
  <2>6. CASE ~MpIs(mproc, c, "VFS_CALL")
    <3>1. PICK x : x = cleanup(told, c)
      OBVIOUS
    <3>2. SetTables(x)
      BY <1>3, <2>1, <2>3, <2>6, <3>1
    <3>3. "EXITING" \in told.m[c].flags /\ "VFS_CALL" \notin told.m[c].flags
      BY <2>2, <2>4, <2>6, TablesType DEF MpIs
    <3>4. Reaps(told, x) /\ Benign(told, x)
      BY <2>4, <3>1, <3>3, ReapsCleanup, BenignCleanup
    <3>5. Reaps(Tables, x) /\ Benign(Tables, x)
      BY <2>4, <3>4, ReapsTransitive, BenignTransitive
    <3> QED
      BY <1>1, <3>2, <3>5, ReapLife
  <2> QED
    BY <2>5, <2>6
<1>4. CASE /\ mproc' = [mproc EXCEPT ![p].flags = @ \cup {"WAITING"}]
           /\ kproc' = RtsSet(kproc, p, "RECEIVING")
  <2>1. PICK F \in SUBSET MpFlags : F = mproc[p].flags \cup {"WAITING"}
    BY TablesType DEF MProc, MpFlags
  <2>2. /\ mproc' \in [Slots -> MProc]
        /\ \A t \in Slots : /\ mproc'[t].scheduler = mproc[t].scheduler
                            /\ mproc'[t].parent = mproc[t].parent
                            /\ mproc'[t].endpoint = mproc[t].endpoint
                            /\ mproc'[t].flags = IF t = p THEN F ELSE mproc[t].flags
    BY <1>4, <2>1, TablesType DEF MProc
  <2>3. PICK st : st = [m |-> mproc', k |-> kproc']
    OBVIOUS
  <2>4. \A t \in Slots : Quiet(kproc, kproc', t)
    BY <1>4, TablesType, QuietRts
  <2>5. kproc' \in [Slots -> KProc] /\ \A t \in Slots : SameSlot(kproc, kproc', t)
    BY <1>4, TablesType, SameSlotRts
  <2>6. Benign(Tables, st) /\ SetTables(st)
    BY <2>2, <2>3, <2>5, TablesType DEF Benign, BothTables, SetTables
  <2>7. \A t \in Slots : Reaped(mproc[t].flags, mproc'[t].flags)
    BY <2>1, <2>2 DEF Reaped, Ended
  <2>8. Reaps(Tables, st)
    BY <2>2, <2>3, <2>4, <2>7, TablesType DEF Reaps
  <2> QED
    BY <1>1, <2>6, <2>8, ReapLife
<1> QED
  BY <1>2, <1>3, <1>4 DEF do_waitpid

LEMMA ExitRequestType ==
    ASSUME NEW b \in BOOLEAN
    PROVE  ExitRequest(b) \in ExitRequests
BY DEF ExitRequest, ExitRequests

(* A process that runs is not being forked.                                *)
LEMMA CallerSettled ==
    ASSUME IInv, LifeInv, NEW s \in Slots, Calls(s)
    PROVE  vfs[s] = "NONE" /\ Known(s) /\ "SLOT_FREE" \notin kproc[s].rts
<1>1. PhaseInv(s) /\ RunInv(s) /\ vfs[s] \in VfsRequests
  BY DEF LifeInv, IInv, TypeOK
<1> QED
  BY <1>1 DEF Calls, proc_is_runnable, PhaseInv, RunInv, Newborn, Unscheduled,
     VfsRequests, ExitRequests

LEMMA ExitLifeOf ==
    ASSUME IInv, LifeInv, NEW s \in Slots, s # INIT_PROC_NR, Alive(mproc, s),
           vfs[s] = "NONE", NEW b \in BOOLEAN, NEW req \in ExitRequests,
           vfs' = [vfs EXCEPT ![s] = req],
           NEW a \in BothTables, Benign(Tables, a),
           \A t \in Slots : /\ a.m[t].flags = mproc[t].flags
                            /\ a.m[t].parent = mproc[t].parent
                            /\ Quiet(kproc, a.k, t),
           \A t \in Slots \ {s} : a.m[t].scheduler = mproc[t].scheduler,
           a.m[s].scheduler # mproc[s].scheduler =>
              a.m[s].scheduler = "NONE" /\ Unscheduled(s),
           NEW st, st.m = exit_proc(a, s, b).m,
           \A t \in Slots : Quiet(exit_proc(a, s, b).k, st.k, t),
           Benign(exit_proc(a, s, b), st), SetTables(st),
           UNCHANGED <<schedproc, caller_q>>, call' = NoCall,
           \/ call = NoCall
           \/ /\ call.type = "INHERIT" /\ call.caller = s /\ call.rv # "PENDING"
              /\ call.rv # "OK" => a.m[s].scheduler = "NONE"
    PROVE  LifeInv'
<1>1. PICK x : x = exit_proc(a, s, b)
  OBVIOUS
<1>2. "IN_USE" \in a.m[s].flags /\ \A t \in Slots : FlagsInv(a.m[t].flags)
  BY DEF LifeInv, PhaseInv, Alive, MpIs
<1>3. Exits(a, x, s)
  BY <1>1, <1>2, ExitProcExits
<1>4. Exits(a, st, s)
  BY <1>1, <1>3 DEF Exits, Quiet
<1>5. Benign(Tables, st)
  <2>1. Benign(a, x) /\ Benign(x, st)
    BY <1>1, BenignExitProc
  <2> QED
    BY <2>1, BenignTransitive
<1> QED
  BY <1>4, <1>5, ExitLife

LEMMA DoExitLife ==
    ASSUME IInv, LifeInv, NEW s \in Slots, do_exit(s)
    PROVE  LifeInv'
<1>1. PICK k \in [Slots -> KProc] : k = RtsSet(kproc, s, "RECEIVING")
  BY TablesType, SameSlotRts
<1>2. PICK a : a = [m |-> mproc, k |-> k]
  OBVIOUS
<1>3. \A t \in Slots : Quiet(kproc, k, t) /\ SameSlot(kproc, k, t)
  BY <1>1, TablesType, QuietRts, SameSlotRts
<1>4. Benign(Tables, a) /\ a \in BothTables
  BY <1>2, <1>3, TablesType DEF Benign, BothTables
<1>5. PICK st : st = exit_proc(a, s, FALSE)
  OBVIOUS
<1>6. Benign(st, st)
  BY <1>4, <1>5, BenignExitProc, BenignReflexive DEF Benign
<1>7. /\ SetTables(st) /\ UNCHANGED <<schedproc, caller_q>> /\ call' = NoCall
      /\ call = NoCall /\ s # INIT_PROC_NR /\ Alive(mproc, s)
      /\ vfs' = [vfs EXCEPT ![s] = "PM_EXIT"]
  BY <1>1, <1>2, <1>5 DEF do_exit, Calls, schedVars
<1>8. vfs[s] = "NONE"
  BY CallerSettled DEF do_exit
<1>9. "PM_EXIT" \in ExitRequests /\ \A t \in Slots : Quiet(st.k, st.k, t)
  BY DEF ExitRequests, Quiet
<1> QED
  BY <1>2, <1>3, <1>4, <1>5, <1>6, <1>7, <1>8, <1>9, ExitLifeOf

(* A lethal signal that must wait for VFS: the process is only stopped.    *)
LEMMA SigPendingLife ==
    ASSUME IInv, LifeInv, NEW s \in Slots, call = NoCall, Alive(mproc, s),
           mproc' = [mproc EXCEPT ![s].flags = @ \cup {"PM_SIG_PENDING"}],
           kproc' = RtsSet(kproc, s, "PROC_STOP"),
           UNCHANGED <<vfs, call, schedproc, caller_q>>
    PROVE  LifeInv'
<1>1. PICK F \in SUBSET MpFlags : F = mproc[s].flags \cup {"PM_SIG_PENDING"}
  BY TablesType DEF MProc, MpFlags
<1>2. \A t \in Slots : /\ mproc'[t].scheduler = mproc[t].scheduler
                       /\ mproc'[t].parent = mproc[t].parent
                       /\ mproc'[t].endpoint = mproc[t].endpoint
                       /\ mproc'[t].flags = IF t = s THEN F ELSE mproc[t].flags
  BY <1>1, TablesType DEF MProc
<1>3. ASSUME NEW t \in Slots
      PROVE  /\ kproc'[t].gen = kproc[t].gen
             /\ "SLOT_FREE" \in kproc'[t].rts <=> "SLOT_FREE" \in kproc[t].rts
             /\ "NO_QUANTUM" \in kproc'[t].rts <=> "NO_QUANTUM" \in kproc[t].rts
             /\ "PROC_STOP" \in kproc[t].rts => "PROC_STOP" \in kproc'[t].rts
  <2>1. /\ kproc'[t].gen = kproc[t].gen
        /\ \/ kproc'[t].rts = kproc[t].rts
           \/ kproc'[t].rts = kproc[t].rts \cup {"PROC_STOP"}
    BY TablesType DEF RtsSet, KProc
  <2> QED
    BY <2>1
<1>4. ASSUME NEW t \in Slots
      PROVE  PhaseInv(t) /\ RunInv(t) /\ FamilyInv(t)
  BY DEF LifeInv
<1>5. ASSUME NEW t \in Slots
      PROVE  /\ Known(t)' <=> Known(t)
             /\ Unscheduled(t) => Unscheduled(t)'
             /\ Newborn(t) => Newborn(t)'
  BY <1>3, SameKnown, SameUnscheduled
<1>6. ASSUME NEW t \in Slots, NEW f \in MpFlags \ {"PM_SIG_PENDING"}
      PROVE  f \in mproc'[t].flags <=> f \in mproc[t].flags
  BY <1>1, <1>2
<1>7. ASSUME NEW t \in Slots
      PROVE  /\ MpIs(mproc', t, "IN_USE") <=> MpIs(mproc, t, "IN_USE")
             /\ MpIs(mproc', t, "EXITING") <=> MpIs(mproc, t, "EXITING")
             /\ MpIs(mproc', t, "VFS_CALL") <=> MpIs(mproc, t, "VFS_CALL")
             /\ Alive(mproc', t) <=> Alive(mproc, t)
             /\ FlagsInv(mproc'[t].flags)
  BY <1>4, <1>6 DEF MpIs, Alive, PhaseInv, FlagsInv, Ended, MpFlags
<1>8. ASSUME NEW t \in Slots
      PROVE  PhaseInv(t)'
  BY <1>2, <1>3, <1>4, <1>5, <1>7 DEF PhaseInv
<1>9. ASSUME NEW t \in Slots
      PROVE  RunInv(t)'
  BY <1>2, <1>3, <1>4, <1>5 DEF RunInv
<1>10. ASSUME NEW t \in Slots
       PROVE  FamilyInv(t)'
  <2>1. mproc[t].parent \in Slots /\ INIT_PROC_NR \in Slots
    BY TablesType, InitSlot DEF MProc
  <2> QED
    BY <1>2, <1>4, <1>5, <1>7, <2>1 DEF FamilyInv
<1>11. InitInv'
  BY <1>2, <1>7, InitSlot DEF LifeInv, InitInv
<1>12. StartInv' /\ InheritInv' /\ StopInv' /\ SetNiceInv'
  BY DEF StartInv, InheritInv, StopInv, SetNiceInv, NoCall
<1>13. QueueInv'
  BY DEF LifeInv, QueueInv
<1>14. LeakOnlyByUnderflow'
  BY <1>2 DEF LifeInv, LeakOnlyByUnderflow, InUse
<1>15. LiveKnown'
  BY <1>2, <1>5, <1>7 DEF LifeInv, LiveKnown
<1> QED
  BY <1>8, <1>9, <1>10, <1>11, <1>12, <1>13, <1>14, <1>15 DEF LifeInv

LEMMA SigProcLife ==
    ASSUME IInv, LifeInv, NEW s \in Slots, sig_proc(s)
    PROVE  LifeInv'
<1>1. /\ call = NoCall /\ Alive(mproc, s) /\ s # INIT_PROC_NR
      /\ UNCHANGED <<schedproc, caller_q, call>>
  BY DEF sig_proc, schedVars
<1>2. CASE /\ mproc' = [mproc EXCEPT ![s].flags = @ \cup {"PM_SIG_PENDING"}]
           /\ kproc' = RtsSet(kproc, s, "PROC_STOP")
           /\ UNCHANGED vfs
  BY <1>1, <1>2, SigPendingLife
<1>3. ASSUME ~MpIs(mproc, s, "VFS_CALL"), NEW b \in BOOLEAN,
             SetTables(exit_proc(Tables, s, b)),
             vfs' = [vfs EXCEPT ![s] = ExitRequest(b)]
      PROVE  LifeInv'
  <2>1. vfs[s] = "NONE"
    <3>1. PhaseInv(s) /\ vfs[s] \in VfsRequests
      BY DEF LifeInv, IInv, TypeOK
    <3> QED
      BY <1>1, <1>3, <3>1 DEF PhaseInv, VfsRequests, ExitRequests
  <2>2. PICK req \in ExitRequests : req = ExitRequest(b)
    BY ExitRequestType
  <2>3. PICK st : st = exit_proc(Tables, s, b)
    OBVIOUS
  <2>4. Benign(Tables, Tables) /\ Benign(st, st)
    BY <2>3, TablesType, BenignExitProc, BenignReflexive DEF Benign
  <2>5. \A t \in Slots : Quiet(kproc, Tables.k, t) /\ Quiet(st.k, st.k, t)
    BY TablesType DEF Quiet
  <2>6. SetTables(st) /\ vfs' = [vfs EXCEPT ![s] = req] /\ call' = NoCall
    BY <1>1, <1>3, <2>2, <2>3
  <2> QED
    BY <1>1, <2>1, <2>3, <2>4, <2>5, <2>6, TablesType, ExitLifeOf
<1> QED
  BY <1>2, <1>3 DEF sig_proc

LEMMA ForkDoneLife ==
    ASSUME IInv, LifeInv, fork_done
    PROVE  LifeInv'
<1>1. PICK c \in Slots : c = call.caller
  BY CallerSlot DEF fork_done, CallTypes
<1>2. PICK p \in Slots : p = mproc[c].parent
  BY TablesType DEF MProc
<1>3. /\ call.type = "INHERIT" /\ call.rv # "PENDING" /\ call' = NoCall
      /\ UNCHANGED <<schedproc, caller_q>>
  BY DEF fork_done, schedVars
<1>4. /\ c # INIT_PROC_NR /\ Alive(mproc, c) /\ vfs[c] = "NONE"
      /\ mproc[c].scheduler = "SCHED"
      /\ call.rv # "OK" => Unscheduled(c)
  BY <1>1, <1>3 DEF LifeInv, InheritInv
<1> DEFINE Wake(k, s) == IF Alive(mproc, s) THEN sendnb(k, s) ELSE k
<1>5. ASSUME NEW k \in [Slots -> KProc], NEW s \in Slots
      PROVE  /\ Wake(k, s) \in [Slots -> KProc]
             /\ \A t \in Slots : Quiet(k, Wake(k, s), t) /\ SameSlot(k, Wake(k, s), t)
  BY SameSlotRts, QuietRts DEF sendnb, SameSlot, Quiet
<1> HIDE DEF Wake
<1>6. CASE /\ call.rv # "OK"
           /\ LET failed == exit_proc([m |-> [mproc EXCEPT ![c].scheduler = "NONE"],
                                       k |-> kproc], c, FALSE)
              IN  mproc' = failed.m /\ kproc' = Wake(failed.k, p)
           /\ vfs' = [vfs EXCEPT ![c] = "PM_EXIT"]
  <2>1. PICK m : m = [mproc EXCEPT ![c].scheduler = "NONE"]
    OBVIOUS
  <2>2. PICK a : a = [m |-> m, k |-> kproc]
    OBVIOUS
  <2>3. /\ m \in [Slots -> MProc]
        /\ \A t \in Slots :
             /\ m[t].flags = mproc[t].flags /\ m[t].parent = mproc[t].parent
             /\ m[t].endpoint = mproc[t].endpoint
             /\ m[t].scheduler = IF t = c THEN "NONE" ELSE mproc[t].scheduler
    BY <2>1, TablesType DEF MProc
  <2>4. a \in BothTables /\ Benign(Tables, a) /\ a.m = m /\ a.k = kproc
    BY <2>2, <2>3, TablesType DEF Benign, SameSlot, BothTables
  <2>5. PICK f : f = exit_proc(a, c, FALSE)
    OBVIOUS
  <2>6. f \in BothTables /\ f.k \in [Slots -> KProc] /\ f.m \in [Slots -> MProc]
    BY <2>4, <2>5, BenignExitProc DEF Benign, BothTables
  <2>7. PICK st : st = [m |-> f.m, k |-> Wake(f.k, p)]
    OBVIOUS
  <2>8. /\ st.m = f.m /\ \A t \in Slots : Quiet(f.k, st.k, t)
        /\ Benign(f, st)
    BY <1>5, <2>6, <2>7 DEF Benign, BothTables
  <2>9. SetTables(st)
    BY <1>6, <2>1, <2>2, <2>5, <2>7 DEF SetTables
  <2>10. \A t \in Slots : Quiet(kproc, a.k, t)
    BY <2>4 DEF Quiet
  <2>11. "PM_EXIT" \in ExitRequests
    BY DEF ExitRequests
  <2> QED
    BY <1>1, <1>3, <1>4, <1>6, <2>3, <2>4, <2>5, <2>8, <2>9, <2>10, <2>11,
       ExitLifeOf, ZenonT(40)
<1>7. CASE /\ call.rv = "OK"
           /\ kproc' = Wake(Wake(kproc, c), p)
           /\ UNCHANGED <<mproc, vfs>>
  <2>1. PICK k1 \in [Slots -> KProc] : k1 = Wake(kproc, c)
    BY <1>5, TablesType
  <2>2. \A t \in Slots : Quiet(kproc, k1, t) /\ SameSlot(kproc, k1, t)
    BY <1>5, <2>1, TablesType
  <2>3. /\ kproc' \in [Slots -> KProc]
        /\ \A t \in Slots : Quiet(k1, kproc', t) /\ SameSlot(k1, kproc', t)
    BY <1>5, <1>7, <2>1
  <2>4. \A t \in Slots : Quiet(kproc, kproc', t) /\ SameSlot(kproc, kproc', t)
    BY <2>2, <2>3 DEF Quiet, SameSlot
  <2>5. PICK st : st = [m |-> mproc', k |-> kproc']
    OBVIOUS
  <2>6. Benign(Tables, st) /\ SetTables(st) /\ Reaps(Tables, st)
    BY <1>7, <2>3, <2>4, <2>5, TablesType DEF Benign, BothTables, SetTables,
       Reaps, Reaped
  <2> QED
    BY <1>3, <1>7, <2>6, ReapLife
<1>8. ASSUME call.rv = "OK", NEW b \in BOOLEAN,
             SetTables(exit_proc([m |-> mproc, k |-> Wake(kproc, p)], c, b)),
             vfs' = [vfs EXCEPT ![c] = ExitRequest(b)]
      PROVE  LifeInv'
  <2>1. PICK k1 \in [Slots -> KProc] : k1 = Wake(kproc, p)
    BY <1>5, TablesType
  <2>2. \A t \in Slots : Quiet(kproc, k1, t) /\ SameSlot(kproc, k1, t)
    BY <1>5, <2>1, TablesType
  <2>3. PICK a : a = [m |-> mproc, k |-> k1]
    OBVIOUS
  <2>4. a \in BothTables /\ Benign(Tables, a) /\ a.m = mproc /\ a.k = k1
    BY <2>2, <2>3, TablesType DEF Benign, BothTables
  <2>5. PICK st : st = exit_proc(a, c, b)
    OBVIOUS
  <2>6. Benign(st, st) /\ \A t \in Slots : Quiet(st.k, st.k, t)
    BY <2>4, <2>5, BenignExitProc, BenignReflexive DEF Benign, Quiet
  <2>7. SetTables(st)
    BY <1>8, <2>1, <2>3, <2>5
  <2>8. PICK req \in ExitRequests : req = ExitRequest(b)
    BY ExitRequestType
  <2>9. vfs' = [vfs EXCEPT ![c] = req]
    BY <1>8, <2>8
  <2> QED
    BY <1>1, <1>3, <1>4, <1>8, <2>2, <2>4, <2>5, <2>6, <2>7, <2>9, ExitLifeOf
<1> QED
  BY <1>1, <1>2, <1>6, <1>7, <1>8 DEF fork_done, Wake

LEMMA ExitRestartLife ==
    ASSUME IInv, IInv', LifeInv, NEW s \in Slots, exit_restart(s)
    PROVE  LifeInv'
<1>1. PICK m : m = [mproc EXCEPT ![s].flags = @ \ {"VFS_CALL"}]
  OBVIOUS
<1>2. PICK core \in BOOLEAN : core = (vfs[s] = "PM_DUMPCORE")
  OBVIOUS
<1>3. /\ UNCHANGED schedproc /\ call = NoCall /\ vfs[s] \in ExitRequests
      /\ vfs' = [vfs EXCEPT ![s] = "NONE"]
  BY DEF exit_restart, schedVars, ExitRequests
<1>4. /\ PhaseInv(s) /\ RunInv(s) /\ MpIs(mproc, s, "EXITING")
      /\ "SLOT_FREE" \notin kproc[s].rts /\ s # INIT_PROC_NR
  BY <1>3 DEF LifeInv, PhaseInv, InitInv, ExitRequests
<1>5. CASE /\ mproc[s].scheduler = "SCHED"
           /\ mproc' = m
           /\ taskcall("STOP", MpEndpoint(mproc, s), MpEndpoint(mproc, s), 0, s, core)
           /\ UNCHANGED kproc
  <2>1. /\ call'.type = "STOP" /\ call'.endpoint = MpEndpoint(mproc, s)
        /\ call'.caller = s /\ call'.rv = "PENDING"
        /\ caller_q' = Append(caller_q, PM_PROC_NR)
    BY <1>5, TaskcallMade
  <2>2. call'.endpoint.slot = s
    BY <2>1 DEF MpEndpoint, Endpoint
  <2>3. Requests(s)
    BY <1>1, <1>3, <1>5, <2>1, <2>2 DEF Requests
  <2>4. call' # NoCall /\ call' \in Calling
    BY <2>1 DEF NoCall, IInv, TypeOK
  <2>5. \A t \in Slots : Quiet(kproc, kproc', t)
    BY <1>5, QuietReflexive
  <2> QED
    BY <1>3, <2>1, <2>3, <2>4, <2>5, RequestLife
<1>6. CASE /\ mproc[s].scheduler # "SCHED"
           /\ SetTables(Cleared([m |-> [m EXCEPT ![s].scheduler = "NONE"], k |-> kproc], s, core))
           /\ caller_q' = clear_ipc(caller_q, s)
           /\ UNCHANGED call
  <2>1. PICK a : a = [m |-> m, k |-> kproc]
    OBVIOUS
  <2>2. /\ m \in [Slots -> MProc]
        /\ \A t \in Slots :
             /\ m[t].scheduler = mproc[t].scheduler /\ m[t].parent = mproc[t].parent
             /\ m[t].endpoint = mproc[t].endpoint
             /\ m[t].flags = IF t = s THEN mproc[t].flags \ {"VFS_CALL"}
                             ELSE mproc[t].flags
    <3>1. PICK F \in SUBSET MpFlags : F = mproc[s].flags \ {"VFS_CALL"}
      BY TablesType DEF MProc
    <3>2. m = [mproc EXCEPT ![s].flags = F]
      BY <1>1, <3>1
    <3>3. mproc \in [Slots -> MProc]
      BY TablesType
    <3>4. PICK x : x = [mproc[s] EXCEPT !.flags = F]
      OBVIOUS
    <3>5. /\ x \in MProc /\ x.flags = F
          /\ x.scheduler = mproc[s].scheduler /\ x.parent = mproc[s].parent
          /\ x.endpoint = mproc[s].endpoint
      BY <3>1, <3>3, <3>4 DEF MProc
    <3>6. m = [mproc EXCEPT ![s] = x]
      BY <3>2, <3>4
    <3>7. m \in [Slots -> MProc] /\ m[s] = x /\ \A t \in Slots \ {s} : m[t] = mproc[t]
      BY <3>3, <3>5, <3>6
    <3> QED
      BY <3>1, <3>5, <3>7
  <2>3. a \in BothTables /\ Benign(Tables, a) /\ a.m = m /\ a.k = kproc
    BY <2>1, <2>2, TablesType DEF Benign, SameSlot, BothTables
  <2>4. PICK st : st = Cleared(a, s, core)
    OBVIOUS
  <2>5. Benign(Tables, st)
    BY <2>3, <2>4, BenignCleared, BenignTransitive
  <2>6. "EXITING" \in a.m[s].flags /\ "VFS_CALL" \notin a.m[s].flags
    BY <1>4, <2>2, <2>3 DEF MpIs
  <2>7. Clears(a, st, s)
    BY <2>3, <2>4, <2>6, ClearedClears
  <2>8. mproc[s].scheduler = "NONE"
    <3>1. mproc[s].scheduler \in {"NONE", "KERNEL", "SCHED"}
      BY TablesType DEF MProc
    <3>2. mproc[s].scheduler # "KERNEL"
      BY <1>3, <1>4 DEF PhaseInv, ExitRequests
    <3> QED
      BY <1>6, <3>1, <3>2
  <2>9. ~Queued(caller_q, s) /\ (InUse(s) => Wrapped(schedproc[s].priority))
    BY <1>4, <2>8 DEF RunInv, Unscheduled
  <2>10. [m EXCEPT ![s].scheduler = "NONE"] = m
    BY <2>2, <2>8 DEF MProc
  <2>11. caller_q' = caller_q /\ SetTables(st) /\ call' = NoCall
    BY <1>3, <1>6, <2>1, <2>4, <2>9, <2>10, ClearIpcIdle
  <2>12. \A t \in Slots : Quiet(kproc, a.k, t)
    BY <2>3 DEF Quiet
  <2> QED
    BY <1>3, <1>4, <2>2, <2>3, <2>5, <2>7, <2>8, <2>9, <2>11, <2>12, ClearLife
       DEF MpIs
<1> QED
  BY <1>1, <1>2, <1>5, <1>6 DEF exit_restart

LEMMA ExitRestartDoneLife ==
    ASSUME IInv, LifeInv, exit_restart_done
    PROVE  LifeInv'
<1>1. PICK s \in Slots, core \in BOOLEAN : s = call.caller /\ core = call.core
  BY CallerSlot DEF exit_restart_done, CallTypes
<1>2. /\ call.type = "STOP" /\ call.rv # "PENDING" /\ call' = NoCall
      /\ UNCHANGED schedproc /\ vfs' = vfs
      /\ caller_q' = clear_ipc(caller_q, s)
  BY <1>1 DEF exit_restart_done, schedVars
<1>3. /\ s # INIT_PROC_NR /\ MpIs(mproc, s, "EXITING") /\ vfs[s] = "NONE"
      /\ "SLOT_FREE" \notin kproc[s].rts /\ ~InUse(s)
  BY <1>1, <1>2 DEF LifeInv, StopInv
<1>4. vfs' = [vfs EXCEPT ![s] = "NONE"]
  BY <1>2, <1>3 DEF IInv, TypeOK
<1>5. ~Queued(caller_q, s)
  BY <1>3 DEF LifeInv, RunInv, Known, sched_isokendpt, EndpointOf, Endpoint
<1>6. PICK m : m = [mproc EXCEPT ![s].scheduler = "NONE"]
  OBVIOUS
<1>7. PICK a : a = [m |-> m, k |-> kproc]
  OBVIOUS
<1>8. /\ m \in [Slots -> MProc]
      /\ \A t \in Slots :
           /\ m[t].flags = mproc[t].flags /\ m[t].parent = mproc[t].parent
           /\ m[t].endpoint = mproc[t].endpoint
           /\ m[t].scheduler = IF t = s THEN "NONE" ELSE mproc[t].scheduler
  BY <1>6, TablesType DEF MProc
<1>9. a \in BothTables /\ Benign(Tables, a) /\ a.m = m /\ a.k = kproc
  BY <1>7, <1>8, TablesType DEF Benign, SameSlot, BothTables
<1>10. PICK st : st = Cleared(a, s, core)
  OBVIOUS
<1>11. Benign(Tables, st)
  BY <1>9, <1>10, BenignCleared, BenignTransitive
<1>12. "EXITING" \in a.m[s].flags /\ "VFS_CALL" \notin a.m[s].flags
  BY <1>1, <1>2, <1>3, <1>8, <1>9 DEF LifeInv, StopInv, MpIs
<1>13. Clears(a, st, s)
  BY <1>9, <1>10, <1>12, ClearedClears
<1>14. caller_q' = caller_q /\ SetTables(st)
  BY <1>1, <1>2, <1>5, <1>6, <1>7, <1>10, ClearIpcIdle DEF exit_restart_done
<1>15. \A t \in Slots : Quiet(kproc, a.k, t)
  BY <1>9 DEF Quiet
<1>16. mproc[s].flags = mproc[s].flags \ {"VFS_CALL"}
  BY <1>8, <1>9, <1>12
<1> QED
  BY <1>1, <1>2, <1>3, <1>4, <1>5, <1>8, <1>9, <1>11, <1>13, <1>14, <1>15, <1>16,
     ClearLife, ZenonT(40) DEF MpIs

(* A process that runs out of quantum is one SCHED knows, and not the one  *)
(* whose scheduling PM has asked SCHED to stop.                            *)
LEMMA OutOfQuantumLife ==
    ASSUME IInv, LifeInv, NEW s \in Slots, OutOfQuantum(s)
    PROVE  LifeInv'
<1>1. /\ UNCHANGED <<schedproc, call, mproc, vfs>>
      /\ kproc' = RtsSet(RtsSet(kproc, s, "NO_QUANTUM"), s, "SENDING")
      /\ caller_q' = Append(caller_q, s)
      /\ kproc[s].rts = {}
  BY DEF OutOfQuantum, notify_scheduler, schedVars, proc_is_runnable
<1>2. ASSUME NEW t \in Slots
      PROVE  /\ kproc'[t].gen = kproc[t].gen
             /\ kproc'[t].rts = IF t = s THEN {"NO_QUANTUM", "SENDING"} ELSE kproc[t].rts
  BY <1>1, TablesType DEF RtsSet, KProc
<1>3. ASSUME NEW t \in Slots
      PROVE  PhaseInv(t) /\ RunInv(t) /\ FamilyInv(t)
  BY DEF LifeInv
<1>4. /\ Known(s) /\ ~Unscheduled(s) /\ vfs[s] # "PM_FORK"
      /\ mproc[s].scheduler # "NONE"
      /\ ~(call.type = "STOP" /\ call.caller = s)
      /\ ~MpIs(mproc, s, "EXITING")
  BY <1>1, <1>3 DEF LifeInv, RunInv, PhaseInv, StopInv, Unscheduled, Newborn
<1>5. ASSUME NEW t \in Slots \cup {PM_PROC_NR}
      PROVE  /\ Queued(caller_q', t) => Queued(caller_q, t) \/ t = s
             /\ Behind(caller_q', t) => Behind(caller_q, t) \/ t = s
  <2>1. caller_q \in Seq(Slots \cup {PM_PROC_NR}) /\ s \in Slots \cup {PM_PROC_NR}
    BY DEF IInv, TypeOK
  <2> QED
    BY <1>1, <2>1, QueueAppend
<1>6. s # PM_PROC_NR
  BY ConfigAssumption DEF PM_PROC_NR, Slots
<1>7. ASSUME NEW t \in Slots
      PROVE  Known(t)' <=> Known(t)
  BY <1>1, <1>2, SameKnown
<1>8. ASSUME NEW t \in Slots, t # s
      PROVE  /\ Unscheduled(t) => Unscheduled(t)'
             /\ Newborn(t) => Newborn(t)'
  BY <1>1, <1>2, <1>5, <1>8, SameUnscheduled
<1>9. ASSUME NEW t \in Slots
      PROVE  PhaseInv(t)' /\ RunInv(t)' /\ FamilyInv(t)'
  <2>1. PhaseInv(t)'
    BY <1>1, <1>2, <1>3, <1>4, <1>8 DEF PhaseInv
  <2>2. RunInv(t)'
    BY <1>1, <1>2, <1>3, <1>4, <1>5, <1>7, <1>8 DEF RunInv
  <2>3. mproc[t].parent \in Slots /\ INIT_PROC_NR \in Slots
    BY TablesType, InitSlot DEF MProc
  <2>4. FamilyInv(t)'
    BY <1>1, <1>3, <1>7, <2>3 DEF FamilyInv
  <2> QED
    BY <2>1, <2>2, <2>4
<1>10. InitInv' /\ StartInv' /\ SetNiceInv'
  BY <1>1, <1>7, InitSlot DEF LifeInv, InitInv, StartInv, SetNiceInv
<1>11. InheritInv'
  <2> SUFFICES ASSUME call.type = "INHERIT" PROVE InheritInv'
    BY <1>1 DEF InheritInv
  <2>1. call.caller \in Slots
    BY CallerSlot DEF CallTypes
  <2>2. call.rv # "OK" => call.caller # s
    BY <1>4 DEF LifeInv, InheritInv, Newborn
  <2> QED
    BY <1>1, <1>7, <1>8, <2>1, <2>2 DEF LifeInv, InheritInv
<1>12. StopInv'
  <2> SUFFICES ASSUME call.type = "STOP" PROVE StopInv'
    BY <1>1 DEF StopInv
  <2>1. call.caller \in Slots /\ call.caller # s
    BY <1>4, CallerSlot DEF CallTypes
  <2> QED
    BY <1>1, <1>2, <1>5, <1>7, <2>1 DEF LifeInv, StopInv, InUse
<1>13. QueueInv'
  BY <1>1, <1>5, <1>6 DEF LifeInv, QueueInv
<1>14. LeakOnlyByUnderflow' /\ LiveKnown'
  BY <1>1, <1>7 DEF LifeInv, LeakOnlyByUnderflow, InUse, LiveKnown
<1> QED
  BY <1>9, <1>10, <1>11, <1>12, <1>13, <1>14 DEF LifeInv

(* Fork: the child is unknown to SCHED, because its generation is new and  *)
(* the slot was free, and its parent is known, because it was running.     *)
LEMMA ForkLife ==
    ASSUME IInv, IInv', LifeInv, NEW p \in Slots, do_fork(p)
    PROVE  LifeInv'
<1>1. PICK c \in Slots :
        /\ ~MpIs(mproc, c, "IN_USE")
        /\ "SLOT_FREE" \in kproc[c].rts
        /\ kproc' = sys_fork(RtsSet(kproc, p, "RECEIVING"), p, c)
        /\ mproc' = [mproc EXCEPT ![c] =
                      [mproc[p] EXCEPT !.flags = {"IN_USE", "VFS_CALL"},
                                       !.endpoint = kproc'[c].gen,
                                       !.parent = p]]
        /\ vfs' = [vfs EXCEPT ![c] = "PM_FORK"]
  BY DEF do_fork
<1>2. /\ UNCHANGED <<caller_q, schedproc, call>>
      /\ call = NoCall /\ call.type = "NONE"
  BY DEF do_fork, Calls, schedVars, NoCall
<1>3. ASSUME NEW t \in Slots
      PROVE  PhaseInv(t) /\ RunInv(t) /\ FamilyInv(t)
  BY DEF LifeInv
<1>4. /\ Alive(mproc, p) /\ kproc[p].rts = {}
      /\ vfs[p] = "NONE" /\ Known(p) /\ "SLOT_FREE" \notin kproc[p].rts
  BY CallerSettled DEF do_fork, Calls, proc_is_runnable
<1>5. p # c /\ c # INIT_PROC_NR
  BY <1>1, <1>4 DEF LifeInv, InitInv, Alive
<1>6. /\ kproc'[c].gen = kproc[c].gen + 1
      /\ "NO_QUANTUM" \in kproc'[c].rts /\ "SLOT_FREE" \notin kproc'[c].rts
      /\ kproc'[p].gen = kproc[p].gen /\ kproc'[p].rts = {"RECEIVING"}
      /\ \A t \in Slots \ {p, c} : kproc'[t] = kproc[t]
  BY <1>1, <1>4, <1>5, TablesType DEF sys_fork, RtsSet, KProc
<1>7. /\ mproc'[c].flags = {"IN_USE", "VFS_CALL"} /\ mproc'[c].parent = p
      /\ mproc'[c].scheduler = mproc[p].scheduler
      /\ \A t \in Slots \ {c} : mproc'[t] = mproc[t]
  BY <1>1, TablesType DEF MProc
<1>8. \A t \in Slots : vfs'[t] = IF t = c THEN "PM_FORK" ELSE vfs[t]
  BY <1>1 DEF IInv, TypeOK
<1>9. ASSUME NEW t \in Slots, t # c
      PROVE  /\ Known(t)' <=> Known(t)
             /\ Unscheduled(t) => Unscheduled(t)'
             /\ Newborn(t) => Newborn(t)'
             /\ Quiet(kproc, kproc', t)
  <2>1. Quiet(kproc, kproc', t)
    BY <1>4, <1>6, <1>9 DEF Quiet
  <2> QED
    BY <1>2, <2>1, SameKnown, SameUnscheduled DEF Quiet
<1>10. Newborn(c)' /\ ~Known(c)'
  <2>1. schedproc[c].endpoint <= kproc[c].gen
        /\ schedproc[c].endpoint \in Nat /\ kproc[c].gen \in Nat
    BY DEF IInv, TypeOK, SlotsInv, SlotInv, SchedProc, KProc
  <2>2. schedproc[c].endpoint # kproc'[c].gen
    BY <1>6, <2>1
  <2>3. mproc[c].scheduler = "NONE"
    BY <1>1, <1>3 DEF PhaseInv
  <2>4. InUse(c) => Wrapped(schedproc[c].priority)
    BY <2>3 DEF LifeInv, LeakOnlyByUnderflow
  <2>5. ~Queued(caller_q, c)
    BY <1>1, <1>3 DEF RunInv, Known
  <2> QED
    BY <1>2, <1>6, <2>2, <2>4, <2>5 DEF Newborn, Unscheduled, InUse, Known,
       sched_isokendpt, EndpointOf, Endpoint
<1>11. ASSUME NEW t \in Slots
       PROVE  PhaseInv(t)'
  <2>1. CASE t = c
    BY <1>6, <1>7, <1>8, <1>10, <2>1 DEF PhaseInv, FlagsInv, Ended, MpIs, Alive,
       ExitRequests
  <2>2. CASE t # c
    BY <1>2, <1>3, <1>7, <1>8, <1>9, <2>2 DEF PhaseInv, MpIs, Alive, Quiet
  <2> QED
    BY <2>1, <2>2
<1>12. ASSUME NEW t \in Slots
       PROVE  RunInv(t)'
  <2>1. CASE t = c
    BY <1>2, <1>6, <1>10, <2>1 DEF RunInv, Newborn, Unscheduled
  <2>2. CASE t # c
    BY <1>2, <1>3, <1>7, <1>9, <2>2 DEF RunInv, Quiet
  <2> QED
    BY <2>1, <2>2
<1>13. Known(INIT_PROC_NR)
  BY <1>3, <1>4 DEF FamilyInv, Alive
<1>14. ASSUME NEW t \in Slots
       PROVE  FamilyInv(t)'
  <2>1. mproc[t].parent \in Slots /\ INIT_PROC_NR \in Slots
    BY TablesType, InitSlot DEF MProc
  <2>2. CASE t = c
    BY <1>4, <1>5, <1>7, <1>9, <1>13, <2>1, <2>2 DEF FamilyInv, MpIs, Alive
  <2>3. CASE t # c
    <3>1. Alive(mproc, mproc[t].parent) => mproc[t].parent # c
      BY <1>1 DEF Alive
    <3> QED
      BY <1>3, <1>5, <1>7, <1>9, <2>1, <2>3, <3>1 DEF FamilyInv, MpIs, Alive
  <2> QED
    BY <2>2, <2>3
<1>15. InitInv'
  BY <1>5, <1>7, <1>8, InitSlot DEF LifeInv, InitInv, Alive, MpIs
<1>16. StartInv' /\ InheritInv' /\ StopInv' /\ SetNiceInv'
  BY <1>2 DEF StartInv, InheritInv, StopInv, SetNiceInv
<1>17. QueueInv'
  BY <1>2 DEF LifeInv, QueueInv
<1>18. LeakOnlyByUnderflow'
  <2> SUFFICES ASSUME NEW t \in Slots, InUse(t)',
                      ~Wrapped(schedproc'[t].priority)
               PROVE  /\ mproc'[t].scheduler # "NONE"
                      /\ mproc'[t].endpoint = schedproc'[t].endpoint
    BY DEF LeakOnlyByUnderflow
  <2>1. t # c
    BY <1>10 DEF Newborn, Unscheduled
  <2> QED
    BY <1>2, <1>7, <2>1 DEF LifeInv, LeakOnlyByUnderflow, InUse
<1>19. LiveKnown'
  BY <1>2, <1>7, <1>8, <1>9 DEF LifeInv, LiveKnown, MpIs
<1> QED
  BY <1>11, <1>12, <1>14, <1>15, <1>16, <1>17, <1>18, <1>19 DEF LifeInv

-----------------------------------------------------------------------------
(* SCHED's steps leave PM's table alone.  The kernel gives the processor   *)
(* only to the process an entry names, and only in one of its queues.      *)
Granted(k, k2, s, e, rv) ==
    /\ rv = "OK" => /\ k[s].gen = e.endpoint
                    /\ "SLOT_FREE" \notin k[s].rts
                    /\ ~Wrapped(e.priority)
    /\ \A t \in Slots :
         /\ k2[t].gen = k[t].gen
         /\ k2[t].rts = IF t = s /\ rv = "OK"
                        THEN k[t].rts \ {"NO_QUANTUM"} ELSE k[t].rts

LEMMA ScheduleGrants ==
    ASSUME NEW k \in [Slots -> KProc], NEW s \in Slots, NEW e \in SchedProc
    PROVE  Granted(k, schedule_process(k, s, e), s, e, schedule_process_rv(k, s, e))
<1> DEFINE rv == schedule_process_rv(k, s, e)
           k2 == schedule_process(k, s, e)
<1>1. e.priority \in Nat /\ NR_SCHED_QUEUES \in Nat
  BY ConfigAssumption DEF SchedProc
<1>2. rv = "OK" => /\ k[s].gen = e.endpoint /\ "SLOT_FREE" \notin k[s].rts
                   /\ e.priority <= NR_SCHED_QUEUES
  BY DEF schedule_process_rv, do_schedule_rv, SchedProcAccepts, isokendpt, Endpoint
<1>3. k2 = IF rv = "OK" THEN sched_proc(k, s, e.priority) ELSE k
  BY DEF schedule_process_rv, schedule_process, do_schedule, Endpoint
<1> HIDE DEF rv, k2
<1>4. rv = "OK" => ~Wrapped(e.priority)
  BY <1>1, <1>2 DEF Wrapped
<1>5. ASSUME NEW t \in Slots
      PROVE  /\ k2[t].gen = k[t].gen
             /\ k2[t].rts = IF t = s /\ rv = "OK"
                            THEN k[t].rts \ {"NO_QUANTUM"} ELSE k[t].rts
  <2>1. CASE rv = "OK"
    BY <1>3, <2>1 DEF sched_proc, KProc
  <2>2. CASE rv # "OK"
    BY <1>3, <2>2
  <2> QED
    BY <2>1, <2>2
<1> QED
  BY <1>2, <1>4, <1>5 DEF rv, k2, Granted

(* A step of SCHED that changes the priority of a process, or answers a    *)
(* setpriority: no entry is taken or given back, only a process SCHED      *)
(* knows gets the processor, and only a setpriority undoes a wrap.         *)
LEMMA TouchLife ==
    ASSUME IInv, LifeInv, UNCHANGED <<mproc, vfs>>,
           \A t \in Slots :
             /\ schedproc'[t].flags = schedproc[t].flags
             /\ schedproc'[t].endpoint = schedproc[t].endpoint
             /\ kproc'[t].gen = kproc[t].gen
             /\ "SLOT_FREE" \in kproc'[t].rts <=> "SLOT_FREE" \in kproc[t].rts
             /\ "PROC_STOP" \in kproc'[t].rts <=> "PROC_STOP" \in kproc[t].rts
             /\ "NO_QUANTUM" \in kproc[t].rts =>
                  "NO_QUANTUM" \in kproc'[t].rts \/ Known(t)
             /\ \/ InUse(t) /\ Wrapped(schedproc[t].priority) =>
                     /\ Wrapped(schedproc'[t].priority)
                     /\ "NO_QUANTUM" \in kproc[t].rts =>
                          "NO_QUANTUM" \in kproc'[t].rts
                \/ /\ call.type = "SET_NICE"
                   /\ Known(t) /\ mproc[t].scheduler = "SCHED",
           \A t \in Slots \cup {PM_PROC_NR} :
             /\ Queued(caller_q', t) => Queued(caller_q, t)
             /\ Behind(caller_q', t) => Behind(caller_q, t),
           \/ UNCHANGED call
           \/ /\ call.type = "SET_NICE" /\ call'.type = "SET_NICE"
              /\ call'.endpoint = call.endpoint
              /\ ~Queued(caller_q', PM_PROC_NR)
    PROVE  LifeInv'
<1>1. ASSUME NEW t \in Slots
      PROVE  PhaseInv(t) /\ RunInv(t) /\ FamilyInv(t)
  BY DEF LifeInv
<1>2. ASSUME NEW t \in Slots
      PROVE  /\ InUse(t)' <=> InUse(t)
             /\ Known(t)' <=> Known(t)
  BY DEF Known, sched_isokendpt, EndpointOf, Endpoint, InUse
<1>3. ASSUME NEW t \in Slots, Unscheduled(t),
             ~(call.type = "SET_NICE" /\ Known(t) /\ mproc[t].scheduler = "SCHED")
      PROVE  Unscheduled(t)'
  <2>1. InUse(t) => /\ Wrapped(schedproc'[t].priority)
                    /\ "NO_QUANTUM" \in kproc'[t].rts
    BY <1>3 DEF Unscheduled
  <2>2. ~InUse(t) => "NO_QUANTUM" \in kproc'[t].rts
    BY <1>3 DEF Unscheduled, Known, sched_isokendpt, EndpointOf, Endpoint
  <2> QED
    BY <1>2, <1>3, <2>1, <2>2 DEF Unscheduled
<1>4. ASSUME NEW t \in Slots, Newborn(t)
      PROVE  Newborn(t)'
  <2>1. ~Known(t)
    BY <1>4 DEF Newborn, Known, sched_isokendpt, EndpointOf, Endpoint
  <2> QED
    BY <1>3, <1>4, <2>1 DEF Newborn
<1>5. /\ call'.type = call.type /\ call'.type # "SET_NICE" => call' = call
      /\ call = NoCall => call' = NoCall
  BY DEF NoCall
<1>6. ASSUME NEW t \in Slots
      PROVE  PhaseInv(t)'
  BY <1>1, <1>4, <1>5 DEF PhaseInv
<1>7. ASSUME NEW t \in Slots
      PROVE  RunInv(t)'
  BY <1>1, <1>2, <1>3 DEF RunInv
<1>8. ASSUME NEW t \in Slots
      PROVE  FamilyInv(t)'
  <2>1. mproc[t].parent \in Slots /\ INIT_PROC_NR \in Slots
    BY TablesType, InitSlot DEF MProc
  <2> QED
    BY <1>1, <1>2, <2>1 DEF FamilyInv
<1>9. InitInv' /\ SetNiceInv'
  BY <1>5 DEF LifeInv, InitInv, SetNiceInv
<1>10. StartInv'
  BY <1>2, <1>5, InitSlot DEF LifeInv, StartInv
<1>11. InheritInv'
  <2> SUFFICES ASSUME call.type = "INHERIT" PROVE InheritInv'
    BY <1>5 DEF InheritInv
  <2>1. call.caller \in Slots /\ call' = call
    BY <1>5, CallerSlot DEF CallTypes
  <2> QED
    BY <1>2, <1>3, <1>4, <2>1 DEF LifeInv, InheritInv
<1>12. StopInv'
  <2> SUFFICES ASSUME call.type = "STOP" PROVE StopInv'
    BY <1>5 DEF StopInv
  <2>1. call.caller \in Slots /\ call' = call
    BY <1>5, CallerSlot DEF CallTypes
  <2> QED
    BY <1>2, <2>1 DEF LifeInv, StopInv
<1>13. QueueInv'
  BY DEF LifeInv, QueueInv
<1>14. LeakOnlyByUnderflow'
  <2> SUFFICES ASSUME NEW t \in Slots, InUse(t)
               PROVE  \/ /\ mproc[t].scheduler # "NONE"
                         /\ mproc[t].endpoint = schedproc[t].endpoint
                      \/ Wrapped(schedproc'[t].priority)
    BY <1>2 DEF LeakOnlyByUnderflow
  <2>1. CASE Known(t) /\ mproc[t].scheduler = "SCHED"
    BY <2>1 DEF IInv, SlotsInv, SlotInv, Known, sched_isokendpt, EndpointOf, Endpoint
  <2>2. CASE ~(Known(t) /\ mproc[t].scheduler = "SCHED")
    BY <2>2 DEF LifeInv, LeakOnlyByUnderflow
  <2> QED
    BY <2>1, <2>2
<1>15. LiveKnown'
  BY <1>2, <1>5 DEF LifeInv, LiveKnown
<1> QED
  BY <1>6, <1>7, <1>8, <1>9, <1>10, <1>11, <1>12, <1>13, <1>14, <1>15 DEF LifeInv

(* SCHED takes an out-of-quantum message: its sender is one SCHED knows.   *)
LEMMA NoquantumLife ==
    ASSUME IInv, LifeInv, NEW s \in Slots, s = Head(caller_q),
           caller_q # << >>, caller_q' = Tail(caller_q), do_noquantum(s),
           UNCHANGED <<mproc, vfs, call>>
    PROVE  LifeInv'
<1>1. /\ kproc \in [Slots -> KProc] /\ schedproc \in [Slots -> SchedProc]
      /\ caller_q \in Seq(Slots \cup {PM_PROC_NR})
  BY DEF IInv, TypeOK
<1>2. /\ Queued(caller_q, s)
      /\ \A t \in Slots \cup {PM_PROC_NR} :
           /\ Queued(caller_q', t) => Queued(caller_q, t)
           /\ Behind(caller_q', t) => Behind(caller_q, t)
  BY <1>1, QueueTail
<1>3. Known(s) /\ sched_isokendpt(EndpointOf(s))
  BY <1>2 DEF LifeInv, RunInv, Known
<1>4. PICK k : k = RtsUnset(kproc, s, "SENDING")
  OBVIOUS
<1>5. PICK e : e = [schedproc[s] EXCEPT
                      !.priority = IF @ < MIN_USER_Q THEN @ + 1 ELSE @]
  OBVIOUS
<1>6. schedproc' = [schedproc EXCEPT ![s] = e] /\ kproc' = schedule_process(k, s, e)
  BY <1>3, <1>4, <1>5 DEF do_noquantum
<1>7. /\ k \in [Slots -> KProc]
      /\ \A t \in Slots : /\ k[t].gen = kproc[t].gen
                          /\ \A f : f # "SENDING" =>
                               (f \in k[t].rts <=> f \in kproc[t].rts)
  BY <1>1, <1>4 DEF RtsUnset, KProc
<1>8. /\ e \in SchedProc
      /\ e.flags = schedproc[s].flags /\ e.endpoint = schedproc[s].endpoint
      /\ Wrapped(schedproc[s].priority) => Wrapped(e.priority)
  <2>1. /\ schedproc[s] \in SchedProc /\ schedproc[s].priority \in Nat
        /\ MIN_USER_Q = NR_SCHED_QUEUES - 1 /\ NR_SCHED_QUEUES \in Nat
    BY <1>1, ConfigAssumption DEF SchedProc, MIN_USER_Q
  <2>2. PICK p \in Nat : p = IF schedproc[s].priority < MIN_USER_Q
                            THEN schedproc[s].priority + 1
                            ELSE schedproc[s].priority
    BY <2>1
  <2>3. e = [schedproc[s] EXCEPT !.priority = p]
    BY <1>5, <2>2
  <2>4. /\ e \in SchedProc /\ e.priority = p
        /\ e.flags = schedproc[s].flags /\ e.endpoint = schedproc[s].endpoint
    BY <2>1, <2>3 DEF SchedProc
  <2> QED
    BY <2>1, <2>2, <2>4 DEF Wrapped
<1>9. /\ schedproc'[s] = e
      /\ \A t \in Slots \ {s} : schedproc'[t] = schedproc[t]
  BY <1>1, <1>6
<1>10. PICK rv : rv = schedule_process_rv(k, s, e)
  OBVIOUS
<1>11. Granted(k, kproc', s, e, rv)
  BY <1>6, <1>7, <1>8, <1>10, ScheduleGrants
<1>12. ASSUME NEW t \in Slots
       PROVE  /\ schedproc'[t].flags = schedproc[t].flags
              /\ schedproc'[t].endpoint = schedproc[t].endpoint
              /\ kproc'[t].gen = kproc[t].gen
              /\ "SLOT_FREE" \in kproc'[t].rts <=> "SLOT_FREE" \in kproc[t].rts
              /\ "PROC_STOP" \in kproc'[t].rts <=> "PROC_STOP" \in kproc[t].rts
              /\ "NO_QUANTUM" \in kproc[t].rts =>
                   "NO_QUANTUM" \in kproc'[t].rts \/ Known(t)
              /\ InUse(t) /\ Wrapped(schedproc[t].priority) =>
                   /\ Wrapped(schedproc'[t].priority)
                   /\ "NO_QUANTUM" \in kproc[t].rts => "NO_QUANTUM" \in kproc'[t].rts
  BY <1>3, <1>7, <1>8, <1>9, <1>11, ZenonT(40) DEF Granted
<1> QED
  BY <1>2, <1>12, TouchLife

(* The lottery: an entry in use whose priority has wrapped stays wrapped.  *)
LEMMA LotteryLife ==
    ASSUME IInv, LifeInv, do_lottery, UNCHANGED <<mproc, vfs, call, caller_q>>
    PROVE  LifeInv'
<1>1. /\ kproc \in [Slots -> KProc] /\ schedproc \in [Slots -> SchedProc]
      /\ \A t \in Slots : SlotInv(t)
  BY DEF IInv, TypeOK, SlotsInv
<1>2. CASE UNCHANGED <<schedproc, kproc>>
  BY <1>2, TouchLife
<1>3. ASSUME NEW s \in Slots, NEW e, InUse(s),
             e = [schedproc[s] EXCEPT !.priority = ToUnsigned(@ - 1)],
             schedproc' = [schedproc EXCEPT ![s] = e],
             kproc' = schedule_process(kproc, s, e)
      PROVE  LifeInv'
  <2>1. PICK p : p = schedproc[s].priority
    OBVIOUS
  <2>2. p \in Nat /\ PriorityInv(p)
    BY <1>1, <2>1 DEF SchedProc, SlotInv, PriorityInv
  <2>3. ToUnsigned(p - 1) = IF p = 0 THEN UMOD - 1 ELSE p - 1
    BY <2>2, PriorityBound, Decrement
  <2>4. /\ UMOD \in Nat /\ NR_SCHED_QUEUES \in Nat /\ MaxUnderflow \in Nat
        /\ UMOD > NR_SCHED_QUEUES + 1
        /\ UMOD - MaxUnderflow > NR_SCHED_QUEUES + 1
    BY ConfigAssumption, UnderflowAssumption
  <2>5. /\ e \in SchedProc
        /\ e.flags = schedproc[s].flags /\ e.endpoint = schedproc[s].endpoint
        /\ e.priority = IF p = 0 THEN UMOD - 1 ELSE p - 1
    BY <1>1, <1>3, <2>1, <2>2, <2>3, <2>4 DEF SchedProc
  <2>6. Wrapped(p) => Wrapped(e.priority)
    BY <2>2, <2>4, <2>5 DEF Wrapped, PriorityInv
  <2>7. /\ schedproc'[s] = e
        /\ \A t \in Slots \ {s} : schedproc'[t] = schedproc[t]
    BY <1>1, <1>3
  <2>8. PICK rv : rv = schedule_process_rv(kproc, s, e)
    OBVIOUS
  <2>9. Granted(kproc, kproc', s, e, rv)
    BY <1>1, <1>3, <2>5, <2>8, ScheduleGrants
  <2>10. rv = "OK" => Known(s)
    BY <1>3, <2>5, <2>9 DEF Granted, Known, sched_isokendpt, EndpointOf, Endpoint
  <2>11. ASSUME NEW t \in Slots
         PROVE  /\ schedproc'[t].flags = schedproc[t].flags
                /\ schedproc'[t].endpoint = schedproc[t].endpoint
                /\ kproc'[t].gen = kproc[t].gen
                /\ "SLOT_FREE" \in kproc'[t].rts <=> "SLOT_FREE" \in kproc[t].rts
                /\ "PROC_STOP" \in kproc'[t].rts <=> "PROC_STOP" \in kproc[t].rts
                /\ "NO_QUANTUM" \in kproc[t].rts =>
                     "NO_QUANTUM" \in kproc'[t].rts \/ Known(t)
                /\ InUse(t) /\ Wrapped(schedproc[t].priority) =>
                     /\ Wrapped(schedproc'[t].priority)
                     /\ "NO_QUANTUM" \in kproc[t].rts => "NO_QUANTUM" \in kproc'[t].rts
    BY <2>1, <2>5, <2>6, <2>7, <2>9, <2>10 DEF Granted
  <2> QED
    BY <2>11, TouchLife
<1>4. \/ UNCHANGED <<schedproc, kproc>>
      \/ \E s \in Slots :
           LET e == [schedproc[s] EXCEPT !.priority = ToUnsigned(@ - 1)]
           IN  /\ InUse(s)
               /\ schedproc' = [schedproc EXCEPT ![s] = e]
               /\ kproc' = schedule_process(kproc, s, e)
  BY Zenon DEF do_lottery, Wins
<1> QED
  BY <1>2, <1>3, <1>4

(* SCHED answers a setpriority.                                            *)
LEMMA NiceLife ==
    ASSUME IInv, LifeInv, call \in Calling, call.type = "SET_NICE",
           Head(caller_q) = PM_PROC_NR, caller_q # << >>,
           caller_q' = Tail(caller_q), do_nice(call), UNCHANGED <<mproc, vfs>>
    PROVE  LifeInv'
<1>0. PICK s \in Slots, nice \in Int : s = call.endpoint.slot /\ nice = call.maxprio
  BY DEF Calling
<1>1. /\ kproc \in [Slots -> KProc] /\ schedproc \in [Slots -> SchedProc]
      /\ caller_q \in Seq(Slots \cup {PM_PROC_NR})
      /\ call # NoCall
  BY CallCases DEF IInv, TypeOK
<1>2. call.endpoint.gen = kproc[s].gen /\ nice \in Nices
  BY <1>0, <1>1 DEF IInv, CallInv
<1>3. /\ ~Queued(caller_q', PM_PROC_NR)
      /\ \A t \in Slots \cup {PM_PROC_NR} :
           /\ Queued(caller_q', t) => Queued(caller_q, t)
           /\ Behind(caller_q', t) => Behind(caller_q, t)
  BY <1>1, QueueTail DEF LifeInv, QueueInv
<1>4. mproc[s].scheduler = "SCHED"
  BY <1>0 DEF LifeInv, SetNiceInv
<1>5. ASSUME NEW rv, call' = [call EXCEPT !.rv = rv]
      PROVE  call'.type = "SET_NICE" /\ call'.endpoint = call.endpoint
  BY <1>5 DEF Calling
<1>6. ASSUME NEW rv, UNCHANGED <<schedproc, kproc>>, call' = [call EXCEPT !.rv = rv]
      PROVE  LifeInv'
  BY <1>3, <1>5, <1>6, TouchLife
<1>7. ASSUME sched_isokendpt(call.endpoint), nice < NR_SCHED_QUEUES,
             NEW add \in tickets_to_add(nice),
             NEW e, e = [schedproc[s] EXCEPT !.tickets = NewTickets(@, nice, add)],
             NEW new, new = [e EXCEPT !.priority = ToUnsigned(nice),
                                      !.max_priority = ToUnsigned(nice)],
             NEW rv, rv = schedule_process_rv(kproc, s, new),
             schedproc' = [schedproc EXCEPT ![s] = IF rv = "OK" THEN new ELSE e],
             kproc' = schedule_process(kproc, s, new),
             call' = [call EXCEPT !.rv = rv]
      PROVE  LifeInv'
  <2>1. ToUnsigned(nice) \in Nat
    BY <1>2, <1>7, NiceAsUnsigned
  <2>2. schedproc[s] \in SchedProc /\ schedproc[s].tickets \in Int
    BY <1>1 DEF SchedProc
  <2>3. NewTickets(schedproc[s].tickets, nice, add) \in Int
    BY <2>2, NewTicketsType
  <2>4. /\ e \in SchedProc
        /\ e.flags = schedproc[s].flags /\ e.endpoint = schedproc[s].endpoint
        /\ e.priority = schedproc[s].priority
    BY <1>7, <2>2, <2>3 DEF SchedProc
  <2>5. /\ new \in SchedProc
        /\ new.flags = schedproc[s].flags /\ new.endpoint = schedproc[s].endpoint
    BY <1>7, <2>1, <2>4 DEF SchedProc
  <2>6. Granted(kproc, kproc', s, new, rv)
    BY <1>1, <1>7, <2>5, ScheduleGrants
  <2>7. /\ schedproc'[s].flags = schedproc[s].flags
        /\ schedproc'[s].endpoint = schedproc[s].endpoint
        /\ \A t \in Slots \ {s} : schedproc'[t] = schedproc[t]
    BY <1>1, <1>7, <2>4, <2>5
  <2>8. rv = "OK" => Known(s)
    BY <1>0, <1>2, <1>7, <2>6 DEF Granted, Known, sched_isokendpt, EndpointOf, Endpoint
  <2>9. rv # "OK" => schedproc'[s].priority = schedproc[s].priority
    BY <1>1, <1>7, <2>4
  <2>10. ASSUME NEW t \in Slots
         PROVE  /\ schedproc'[t].flags = schedproc[t].flags
                /\ schedproc'[t].endpoint = schedproc[t].endpoint
                /\ kproc'[t].gen = kproc[t].gen
                /\ "SLOT_FREE" \in kproc'[t].rts <=> "SLOT_FREE" \in kproc[t].rts
                /\ "PROC_STOP" \in kproc'[t].rts <=> "PROC_STOP" \in kproc[t].rts
                /\ "NO_QUANTUM" \in kproc[t].rts =>
                     "NO_QUANTUM" \in kproc'[t].rts \/ Known(t)
                /\ \/ InUse(t) /\ Wrapped(schedproc[t].priority) =>
                        /\ Wrapped(schedproc'[t].priority)
                        /\ "NO_QUANTUM" \in kproc[t].rts =>
                             "NO_QUANTUM" \in kproc'[t].rts
                   \/ /\ call.type = "SET_NICE"
                      /\ Known(t) /\ mproc[t].scheduler = "SCHED"
    BY <1>4, <2>6, <2>7, <2>8, <2>9 DEF Granted
  <2> QED
    BY <1>3, <1>5, <1>7, <2>10, TouchLife
<1>8. \/ \E rv \in Results : /\ UNCHANGED <<schedproc, kproc>>
                             /\ call' = [call EXCEPT !.rv = rv]
      \/ /\ sched_isokendpt(call.endpoint)
         /\ nice < NR_SCHED_QUEUES
         /\ \E add \in tickets_to_add(nice) :
              LET e == [schedproc[s] EXCEPT !.tickets = NewTickets(@, nice, add)]
                  new == [e EXCEPT !.priority = ToUnsigned(nice),
                                   !.max_priority = ToUnsigned(nice)]
                  rv == schedule_process_rv(kproc, s, new)
              IN  /\ schedproc' = [schedproc EXCEPT
                                     ![s] = IF rv = "OK" THEN new ELSE e]
                  /\ kproc' = schedule_process(kproc, s, new)
                  /\ call' = [call EXCEPT !.rv = rv]
  <2>1. "EBADEPT" \in Results /\ "EINVAL" \in Results
    BY DEF Results
  <2> QED
    BY <1>0, <2>1, Zenon DEF do_nice
<1> QED
  BY <1>6, <1>7, <1>8, Zenon

(* SCHED lets a process go.                                                *)
LEMMA StopLife ==
    ASSUME IInv, LifeInv, call \in Calling, call.type = "STOP",
           Head(caller_q) = PM_PROC_NR, caller_q # << >>,
           caller_q' = Tail(caller_q), do_stop_scheduling(call),
           UNCHANGED <<mproc, vfs>>
    PROVE  LifeInv'
<1>1. /\ schedproc \in [Slots -> SchedProc]
      /\ caller_q \in Seq(Slots \cup {PM_PROC_NR})
      /\ call # NoCall /\ call.caller \in Slots
  BY CallCases DEF IInv, TypeOK
<1>2. PICK s \in Slots : s = call.caller
  BY <1>1
<1>3. Queued(caller_q, PM_PROC_NR) /\ call.rv = "PENDING"
  BY <1>1, QueueTail DEF LifeInv, QueueInv
<1>4. /\ call.endpoint.slot = s /\ s # INIT_PROC_NR
      /\ MpIs(mproc, s, "EXITING") /\ ~MpIs(mproc, s, "VFS_CALL")
      /\ vfs[s] = "NONE" /\ mproc[s].scheduler = "SCHED"
      /\ "SLOT_FREE" \notin kproc[s].rts
      /\ ~Behind(caller_q, s) /\ Known(s)
  BY <1>2, <1>3 DEF LifeInv, StopInv
<1>5. /\ \A t \in Slots \cup {PM_PROC_NR} :
           /\ Queued(caller_q', t) => Queued(caller_q, t)
           /\ Behind(caller_q', t) => Behind(caller_q, t)
      /\ ~Queued(caller_q', PM_PROC_NR) /\ ~Queued(caller_q', s)
  BY <1>1, <1>4, QueueTail DEF LifeInv, QueueInv
<1>6. call.endpoint.gen = kproc[s].gen
  BY <1>1, <1>4 DEF IInv, CallInv
<1>7. sched_isokendpt(call.endpoint)
  BY <1>4, <1>6 DEF Known, sched_isokendpt, EndpointOf, Endpoint
<1>8. /\ schedproc' = [schedproc EXCEPT ![s].flags = {}]
      /\ call' = [call EXCEPT !.rv = "OK"]
      /\ kproc' = kproc
  BY <1>4, <1>7 DEF do_stop_scheduling
<1>9. /\ schedproc'[s].flags = {}
      /\ \A t \in Slots \ {s} : schedproc'[t] = schedproc[t]
  BY <1>1, <1>8 DEF SchedProc
<1>10. /\ call'.type = "STOP" /\ call'.endpoint = call.endpoint
       /\ call'.caller = s /\ call'.rv = "OK" /\ call' # NoCall
  <2>1. call'.type = "STOP" /\ call'.endpoint = call.endpoint
        /\ call'.caller = s /\ call'.rv = "OK"
    BY <1>2, <1>8 DEF Calling
  <2> QED
    BY <2>1 DEF NoCall
<1>11. ~InUse(s)' /\ ~Known(s)'
  BY <1>9 DEF InUse, Known, sched_isokendpt, EndpointOf, Endpoint
<1>12. ASSUME NEW t \in Slots, t # s
       PROVE  /\ InUse(t)' <=> InUse(t)
              /\ Known(t)' <=> Known(t)
              /\ Unscheduled(t) => Unscheduled(t)'
              /\ Newborn(t) => Newborn(t)'
  BY <1>5, <1>8, <1>9, <1>12 DEF InUse, Known, sched_isokendpt, EndpointOf,
     Endpoint, Unscheduled, Newborn
<1>13. ASSUME NEW t \in Slots
       PROVE  PhaseInv(t) /\ RunInv(t) /\ FamilyInv(t)
  BY DEF LifeInv
<1>14. ASSUME NEW t \in Slots
       PROVE  PhaseInv(t)'
  <2>1. CASE t = s
    BY <1>2, <1>4, <1>8, <1>10, <1>13, <2>1 DEF PhaseInv
  <2>2. CASE t # s
    BY <1>2, <1>8, <1>10, <1>12, <1>13, <2>2 DEF PhaseInv
  <2> QED
    BY <2>1, <2>2
<1>15. ASSUME NEW t \in Slots
       PROVE  RunInv(t)'
  <2>1. CASE t = s
    BY <1>4, <1>5, <1>8, <1>13, <2>1 DEF RunInv, PhaseInv
  <2>2. CASE t # s
    BY <1>5, <1>8, <1>12, <1>13, <2>2 DEF RunInv
  <2> QED
    BY <2>1, <2>2
<1>16. ASSUME NEW t \in Slots
       PROVE  FamilyInv(t)'
  <2>1. mproc[t].parent \in Slots /\ INIT_PROC_NR \in Slots
    BY TablesType, InitSlot DEF MProc
  <2>2. Alive(mproc, mproc[t].parent) => mproc[t].parent # s
    BY <1>4 DEF Alive
  <2> QED
    BY <1>4, <1>12, <1>13, <2>1, <2>2 DEF FamilyInv
<1>17. InitInv' /\ StartInv' /\ InheritInv' /\ SetNiceInv'
  BY <1>10 DEF LifeInv, InitInv, StartInv, InheritInv, SetNiceInv
<1>18. StopInv'
  BY <1>4, <1>5, <1>8, <1>10, <1>11 DEF StopInv
<1>19. QueueInv'
  BY <1>5 DEF LifeInv, QueueInv
<1>20. LeakOnlyByUnderflow'
  BY <1>9, <1>11, <1>12 DEF LifeInv, LeakOnlyByUnderflow
<1>21. LiveKnown'
  BY <1>2, <1>10, <1>12 DEF LifeInv, LiveKnown
<1> QED
  BY <1>14, <1>15, <1>16, <1>17, <1>18, <1>19, <1>20, <1>21 DEF LifeInv

(* SCHED answers a request to take a process over.  Slot s is the only one *)
(* touched; SCHED knows the process if the answer is OK, and otherwise has *)
(* not given it the processor.                                             *)
LEMMA AnswerLife ==
    ASSUME IInv, LifeInv, call \in Calling, call.type \in {"START", "INHERIT"},
           Head(caller_q) = PM_PROC_NR, caller_q # << >>,
           caller_q' = Tail(caller_q), UNCHANGED <<mproc, vfs>>,
           NEW rv, rv # "PENDING", call' = [call EXCEPT !.rv = rv],
           NEW s \in Slots, s = call.caller,
           \A t \in Slots \ {s} : schedproc'[t] = schedproc[t],
           \A t \in Slots :
             /\ kproc'[t].gen = kproc[t].gen
             /\ "SLOT_FREE" \in kproc'[t].rts <=> "SLOT_FREE" \in kproc[t].rts
             /\ "PROC_STOP" \in kproc'[t].rts <=> "PROC_STOP" \in kproc[t].rts
             /\ \/ "NO_QUANTUM" \in kproc'[t].rts <=> "NO_QUANTUM" \in kproc[t].rts
                \/ t = s /\ rv = "OK",
           Known(s) => Known(s)',
           rv = "OK" => Known(s)',
           InUse(s)' => \/ schedproc'[s].endpoint = kproc[s].gen
                        \/ Wrapped(schedproc'[s].priority),
           InUse(s)' /\ rv # "OK" /\ call.type = "INHERIT" =>
              Wrapped(schedproc'[s].priority)
    PROVE  LifeInv'
<1>1. /\ schedproc \in [Slots -> SchedProc]
      /\ caller_q \in Seq(Slots \cup {PM_PROC_NR})
      /\ call # NoCall
  BY CallCases DEF IInv, TypeOK
<1>2. Queued(caller_q, PM_PROC_NR) /\ call.rv = "PENDING"
  BY <1>1, QueueTail DEF LifeInv, QueueInv
<1>3. /\ \A t \in Slots \cup {PM_PROC_NR} :
           /\ Queued(caller_q', t) => Queued(caller_q, t)
           /\ Behind(caller_q', t) => Behind(caller_q, t)
      /\ ~Queued(caller_q', PM_PROC_NR)
  BY <1>1, QueueTail DEF LifeInv, QueueInv
<1>4. /\ call'.type = call.type /\ call'.endpoint = call.endpoint
      /\ call'.caller = s /\ call'.rv = rv /\ call' # NoCall
  <2>1. /\ call'.type = call.type /\ call'.endpoint = call.endpoint
        /\ call'.caller = s /\ call'.rv = rv
    BY DEF Calling
  <2> QED
    BY <2>1 DEF NoCall
<1>5. ASSUME NEW t \in Slots
      PROVE  PhaseInv(t) /\ RunInv(t) /\ FamilyInv(t)
  BY DEF LifeInv
<1>6. ASSUME call.type = "INHERIT"
      PROVE  /\ call.endpoint.slot = s /\ s # INIT_PROC_NR
             /\ Alive(mproc, s) /\ vfs[s] = "NONE" /\ mproc[s].scheduler = "SCHED"
             /\ Newborn(s)
  BY <1>2, <1>6 DEF LifeInv, InheritInv
<1>7. ASSUME call.type = "START"
      PROVE  /\ s = INIT_PROC_NR /\ call.endpoint.slot = s
             /\ vfs[s] = "NONE" /\ mproc[s].scheduler = "KERNEL"
  BY <1>7 DEF LifeInv, StartInv, InitInv
<1>8. ASSUME NEW t \in Slots, t # s
      PROVE  /\ InUse(t)' <=> InUse(t)
             /\ Known(t)' <=> Known(t)
             /\ Unscheduled(t) => Unscheduled(t)'
             /\ Newborn(t) => Newborn(t)'
  BY <1>3, <1>8 DEF InUse, Known, sched_isokendpt, EndpointOf,
     Endpoint, Unscheduled, Newborn
<1>9. ASSUME NEW t \in Slots
      PROVE  PhaseInv(t)'
  <2>1. vfs[t] = "PM_FORK" => t # s
    BY <1>6, <1>7
  <2> QED
    BY <1>4, <1>5, <1>8, <2>1 DEF PhaseInv
<1>10. ASSUME NEW t \in Slots
       PROVE  RunInv(t)'
  <2>1. CASE t = s
    BY <1>3, <1>5, <1>6, <1>7, <2>1 DEF RunInv
  <2>2. CASE t # s
    BY <1>3, <1>5, <1>8, <2>2 DEF RunInv
  <2> QED
    BY <2>1, <2>2
<1>11. ASSUME NEW t \in Slots
       PROVE  FamilyInv(t)'
  <2>1. mproc[t].parent \in Slots /\ INIT_PROC_NR \in Slots
    BY TablesType, InitSlot DEF MProc
  <2>2. \A u \in Slots : Known(u) => Known(u)'
    BY <1>8
  <2> QED
    BY <1>5, <2>1, <2>2 DEF FamilyInv
<1>12. InitInv' /\ StopInv' /\ SetNiceInv'
  BY <1>4 DEF LifeInv, InitInv, StopInv, SetNiceInv
<1>13. StartInv'
  BY <1>4, <1>7 DEF StartInv
<1>14. InheritInv'
  <2> SUFFICES ASSUME call.type = "INHERIT" PROVE InheritInv'
    BY <1>4 DEF InheritInv
  <2>1. rv # "OK" => Unscheduled(s)'
    BY <1>3, <1>6 DEF Newborn, Unscheduled
  <2> QED
    BY <1>4, <1>6, <2>1 DEF InheritInv
<1>15. QueueInv'
  BY <1>3 DEF LifeInv, QueueInv
<1>16. LeakOnlyByUnderflow'
  <2> SUFFICES ASSUME NEW t \in Slots, InUse(t)'
               PROVE  \/ /\ mproc[t].scheduler # "NONE"
                         /\ mproc[t].endpoint = schedproc'[t].endpoint
                      \/ Wrapped(schedproc'[t].priority)
    BY DEF LeakOnlyByUnderflow
  <2>1. CASE t = s
    <3>1. mproc[s].scheduler # "NONE" /\ mproc[s].endpoint = kproc[s].gen
      BY <1>6, <1>7 DEF IInv, SlotsInv, SlotInv
    <3> QED
      BY <2>1, <3>1
  <2>2. CASE t # s
    BY <1>8, <2>2 DEF LifeInv, LeakOnlyByUnderflow
  <2> QED
    BY <2>1, <2>2
<1>17. LiveKnown'
  <2> SUFFICES ASSUME NEW t \in Slots, MpIs(mproc, t, "IN_USE"),
                      mproc[t].scheduler = "SCHED", vfs[t] # "PM_FORK",
                      ~(call.type \in {"INHERIT", "STOP"} /\ s = t)
               PROVE  Known(t)'
    BY <1>4 DEF LiveKnown
  <2>1. t # s
    BY <1>7
  <2> QED
    BY <1>8, <2>1 DEF LifeInv, LiveKnown
<1> QED
  BY <1>9, <1>10, <1>11, <1>12, <1>13, <1>14, <1>15, <1>16, <1>17 DEF LifeInv

LEMMA StartLife ==
    ASSUME IInv, LifeInv, call \in Calling, call.type \in {"START", "INHERIT"},
           Head(caller_q) = PM_PROC_NR, caller_q # << >>,
           caller_q' = Tail(caller_q), do_start_scheduling(call),
           UNCHANGED <<mproc, vfs>>
    PROVE  LifeInv'
<1>1. /\ kproc \in [Slots -> KProc] /\ schedproc \in [Slots -> SchedProc]
      /\ caller_q \in Seq(Slots \cup {PM_PROC_NR})
      /\ call # NoCall /\ call.caller \in Slots
  BY CallCases DEF IInv, TypeOK
<1>2. PICK s \in Slots : s = call.caller
  BY <1>1
<1>3. call.rv = "PENDING"
  BY <1>1, QueueTail DEF LifeInv, QueueInv
<1>4. call.endpoint.slot = s /\ (call.type = "INHERIT" => Newborn(s))
  BY <1>2, <1>3 DEF LifeInv, StartInv, InheritInv
<1>5. call.endpoint.gen = kproc[s].gen
  BY <1>1, <1>4 DEF IInv, CallInv
<1>6. PICK e0 : e0 = Populate(schedproc[s], call)
  OBVIOUS
<1>7. e0.flags = schedproc[s].flags
  BY <1>1, <1>6 DEF Populate, SchedProc
<1>8. PICK e : e = StartEntry(e0, call)
  OBVIOUS
<1>9. CASE /\ call' = [call EXCEPT !.rv = "EDEADEPT"]
           /\ UNCHANGED <<schedproc, kproc>>
  <2>1. Known(s) => Known(s)'
    BY <1>9 DEF Known, sched_isokendpt, EndpointOf, Endpoint, InUse
  <2>2. InUse(s)' => \/ schedproc'[s].endpoint = kproc[s].gen
                     \/ Wrapped(schedproc'[s].priority)
    BY <1>9 DEF LifeInv, LeakOnlyByUnderflow, InUse, IInv, SlotsInv, SlotInv
  <2>3. InUse(s)' /\ call.type = "INHERIT" => Wrapped(schedproc'[s].priority)
    BY <1>4, <1>9 DEF Newborn, Unscheduled, InUse
  <2> QED
    BY <1>2, <1>9, <2>1, <2>2, <2>3, AnswerLife
<1>10. ASSUME NEW d, d.flags = schedproc[s].flags, ~InUse(s), UNCHANGED kproc,
              schedproc' = [schedproc EXCEPT ![s] = d],
              NEW rv \in {"EINVAL", "EDEADEPT"}, call' = [call EXCEPT !.rv = rv]
       PROVE  LifeInv'
  <2>1. schedproc'[s] = d /\ \A t \in Slots \ {s} : schedproc'[t] = schedproc[t]
    BY <1>1, <1>10
  <2>2. ~InUse(s)' /\ ~Known(s)
    BY <1>10, <2>1 DEF Known, sched_isokendpt, EndpointOf, Endpoint, InUse
  <2> QED
    BY <1>2, <1>10, <2>1, <2>2, AnswerLife
<1> DEFINE rv0 == do_schedctl_rv(kproc, call.endpoint)
           k == do_schedctl(kproc, call.endpoint)
           Accepted ==
             /\ ~InUse(s)
             /\ call.maxprio < NR_SCHED_QUEUES
             /\ call.type = "INHERIT" => sched_isokendpt(call.parent)
<1>11. ASSUME Accepted
       PROVE  /\ e \in SchedProc /\ e.flags = schedproc[s].flags
              /\ e.endpoint = kproc[s].gen /\ e.time_slice > 0
  BY <1>4, <1>6, <1>8, <1>11, StartEntrySound
<1>12. CASE /\ Accepted
            /\ rv0 # "OK"
            /\ schedproc' = [schedproc EXCEPT ![s] = e]
            /\ call' = [call EXCEPT !.rv = rv0]
            /\ UNCHANGED kproc
  <2>1. rv0 \in {"EINVAL", "EDEADEPT"}
    BY <1>12 DEF do_schedctl_rv
  <2> QED
    BY <1>10, <1>11, <1>12, <2>1
<1>13. CASE /\ Accepted
            /\ rv0 = "OK"
            /\ schedproc' = [schedproc EXCEPT ![s] = [e EXCEPT !.flags = {"IN_USE"}]]
            /\ kproc' = schedule_process(k, s, e)
            /\ call' = [call EXCEPT !.rv = schedule_process_rv(k, s, e)]
  <2>1. e \in SchedProc /\ e.endpoint = kproc[s].gen /\ e.time_slice > 0
    BY <1>11, <1>13
  <2>2. isokendpt(kproc, call.endpoint)
    BY <1>13 DEF do_schedctl_rv
  <2>3. k = [kproc EXCEPT ![s].scheduler = "SCHED"] /\ "SLOT_FREE" \notin kproc[s].rts
    BY <1>4, <2>2 DEF do_schedctl, isokendpt
  <2> HIDE DEF k
  <2>4. /\ k \in [Slots -> KProc] /\ k[s].scheduler = "SCHED"
        /\ \A t \in Slots : k[t].gen = kproc[t].gen /\ k[t].rts = kproc[t].rts
    BY <1>1, <2>3 DEF KProc
  <2>5. PICK rv : rv = schedule_process_rv(k, s, e)
    OBVIOUS
  <2>6. /\ Granted(k, kproc', s, e, rv)
        /\ Rescheduled(k, kproc', s, e, rv = "OK")
        /\ rv \in {"OK", "EINVAL", "EPERM"}
    BY <1>13, <2>1, <2>4, <2>5, ScheduleGrants, Reschedule
  <2>7. rv # "OK" => Wrapped(e.priority)
    BY <2>1, <2>3, <2>4, <2>6 DEF Rescheduled
  <2>8. /\ \A t \in Slots \ {s} : schedproc'[t] = schedproc[t]
        /\ schedproc'[s].flags = {"IN_USE"} /\ schedproc'[s].endpoint = e.endpoint
        /\ schedproc'[s].priority = e.priority
    BY <1>1, <1>13, <2>1 DEF SchedProc
  <2>9. ASSUME NEW t \in Slots
        PROVE  /\ kproc'[t].gen = kproc[t].gen
               /\ "SLOT_FREE" \in kproc'[t].rts <=> "SLOT_FREE" \in kproc[t].rts
               /\ "PROC_STOP" \in kproc'[t].rts <=> "PROC_STOP" \in kproc[t].rts
               /\ \/ "NO_QUANTUM" \in kproc'[t].rts <=> "NO_QUANTUM" \in kproc[t].rts
                  \/ t = s /\ rv = "OK"
    BY <2>4, <2>6 DEF Granted
  <2>10. Known(s)'
    BY <2>1, <2>3, <2>8, <2>9 DEF Known, sched_isokendpt, EndpointOf, Endpoint, InUse
  <2>11. rv # "PENDING" /\ call' = [call EXCEPT !.rv = rv]
    BY <1>13, <2>5, <2>6
  <2>12. /\ schedproc'[s].endpoint = kproc[s].gen
         /\ rv # "OK" => Wrapped(schedproc'[s].priority)
    BY <2>1, <2>7, <2>8
  <2>13. \A t \in Slots \ {s} : schedproc'[t] = schedproc[t]
    BY <2>8
  <2> QED
    BY <1>2, <2>9, <2>10, <2>11, <2>12, <2>13, AnswerLife, ZenonT(40)
<1>14. sched_isemtyendpt(call.endpoint) <=> ~InUse(s)
  BY <1>4 DEF sched_isemtyendpt
<1>15. \/ /\ call' = [call EXCEPT !.rv = "EDEADEPT"]
          /\ UNCHANGED <<schedproc, kproc>>
       \/ /\ ~InUse(s)
          /\ schedproc' = [schedproc EXCEPT ![s] = e0]
          /\ \/ call' = [call EXCEPT !.rv = "EINVAL"]
             \/ call' = [call EXCEPT !.rv = "EDEADEPT"]
          /\ UNCHANGED kproc
       \/ /\ Accepted
          /\ rv0 # "OK"
          /\ schedproc' = [schedproc EXCEPT ![s] = e]
          /\ call' = [call EXCEPT !.rv = rv0]
          /\ UNCHANGED kproc
       \/ /\ Accepted
          /\ rv0 = "OK"
          /\ schedproc' = [schedproc EXCEPT ![s] = [e EXCEPT !.flags = {"IN_USE"}]]
          /\ kproc' = schedule_process(k, s, e)
          /\ call' = [call EXCEPT !.rv = schedule_process_rv(k, s, e)]
  BY <1>4, <1>6, <1>8, <1>14, Zenon DEF do_start_scheduling
<1> HIDE DEF Accepted, rv0, k
<1> QED
  BY <1>7, <1>9, <1>10, <1>12, <1>13, <1>15

LEMMA MainLife ==
    ASSUME IInv, LifeInv, SchedMain
    PROVE  LifeInv'
<1>1. /\ caller_q \in Seq(Slots \cup {PM_PROC_NR}) /\ caller_q # << >>
      /\ caller_q' = Tail(caller_q)
      /\ UNCHANGED <<mproc, vfs>>
      /\ call \in Calling \cup {NoCall}
  BY DEF IInv, TypeOK, SchedMain, main
<1>2. ASSUME Head(caller_q) # PM_PROC_NR, do_noquantum(Head(caller_q)),
             UNCHANGED call
      PROVE  LifeInv'
  <2>1. PICK s \in Slots : s = Head(caller_q)
    BY <1>1, <1>2
  <2> QED
    BY <1>1, <1>2, <2>1, NoquantumLife
<1>3. ASSUME Head(caller_q) = PM_PROC_NR, call.type \in {"START", "INHERIT"},
             do_start_scheduling(call)
      PROVE  LifeInv'
  <2>1. call \in Calling
    BY <1>1, <1>3, CallIsNotNone DEF CallTypes
  <2> QED
    BY <1>1, <1>3, <2>1, StartLife
<1>4. ASSUME Head(caller_q) = PM_PROC_NR, call.type = "STOP",
             do_stop_scheduling(call)
      PROVE  LifeInv'
  <2>1. call \in Calling
    BY <1>1, <1>4, CallIsNotNone DEF CallTypes
  <2> QED
    BY <1>1, <1>4, <2>1, StopLife
<1>5. ASSUME Head(caller_q) = PM_PROC_NR, call.type = "SET_NICE", do_nice(call)
      PROVE  LifeInv'
  <2>1. call \in Calling
    BY <1>1, <1>5, CallIsNotNone DEF CallTypes
  <2> QED
    BY <1>1, <1>5, <2>1, NiceLife
<1> QED
  BY <1>2, <1>3, <1>4, <1>5, Zenon DEF SchedMain, main

LEMMA BalanceLife ==
    ASSUME IInv, LifeInv, BalanceQueues
    PROVE  LifeInv'
<1>1. /\ UNCHANGED <<mproc, vfs, caller_q, call>>
      /\ \/ UNCHANGED <<schedproc, kproc>>
         \/ do_lottery
  BY DEF BalanceQueues, balance_queues
<1>2. CASE UNCHANGED <<schedproc, kproc>>
  BY <1>1, <1>2, TouchLife
<1>3. CASE do_lottery
  BY <1>1, <1>3, LotteryLife
<1> QED
  BY <1>1, <1>2, <1>3

-----------------------------------------------------------------------------
LEMMA InitLife == Init => LifeInv
<1> SUFFICES ASSUME Init PROVE LifeInv
  OBVIOUS
<1>1. ASSUME NEW s \in Slots
      PROVE  /\ kproc[s].rts = IF s = INIT_PROC_NR THEN {"NO_QUANTUM"} ELSE {"SLOT_FREE"}
             /\ mproc[s].flags = IF s = INIT_PROC_NR THEN {"IN_USE"} ELSE {}
             /\ mproc[s].scheduler = IF s = INIT_PROC_NR THEN "KERNEL" ELSE "NONE"
             /\ vfs[s] = "NONE" /\ ~InUse(s)
  BY DEF Init, init_scheduling, InUse
<1>2. caller_q = << >> /\ call = NoCall /\ call.type = "NONE"
  BY DEF Init, NoCall
<1>3. \A t : ~Queued(caller_q, t) /\ ~Behind(caller_q, t)
  BY <1>2 DEF Queued, Behind
<1>4. ASSUME NEW s \in Slots
      PROVE  PhaseInv(s) /\ RunInv(s) /\ FamilyInv(s)
  <2>1. FlagsInv(mproc[s].flags)
    BY <1>1 DEF FlagsInv, Ended
  <2>2. PhaseInv(s)
    BY <1>1, <2>1 DEF PhaseInv, Alive, MpIs, ExitRequests
  <2>3. RunInv(s)
    BY <1>1, <1>3 DEF RunInv
  <2>4. FamilyInv(s)
    BY <1>1 DEF FamilyInv, MpIs
  <2> QED
    BY <2>2, <2>3, <2>4
<1>5. InitInv
  BY <1>1, InitSlot DEF InitInv, Alive, MpIs
<1>6. StartInv /\ InheritInv /\ StopInv /\ SetNiceInv /\ QueueInv
  BY <1>2, <1>3 DEF StartInv, InheritInv, StopInv, SetNiceInv, QueueInv
<1>7. LeakOnlyByUnderflow /\ LiveKnown
  BY <1>1 DEF LeakOnlyByUnderflow, LiveKnown
<1> QED
  BY <1>4, <1>5, <1>6, <1>7 DEF LifeInv

LEMMA NextLife == IInv /\ LifeInv /\ [Next]_vars => LifeInv'
<1> SUFFICES ASSUME IInv, LifeInv, [Next]_vars PROVE LifeInv'
  OBVIOUS
<1>0. IInv'
  BY NextIInv
<1>1. CASE sched_init
  BY <1>0, <1>1, SchedInitLife
<1>2. CASE sched_init_done
  BY <1>0, <1>2, SchedInitDoneLife
<1>3. CASE fork_done
  BY <1>0, <1>3, ForkDoneLife
<1>4. CASE exit_restart_done
  BY <1>0, <1>4, ExitRestartDoneLife
<1>5. CASE setpriority_done
  BY <1>0, <1>5, SetpriorityDoneLife
<1>6. CASE SchedMain
  BY <1>6, MainLife
<1>7. CASE BalanceQueues
  BY <1>7, BalanceLife
<1>8. ASSUME NEW s \in Slots,
             \/ do_fork(s) \/ sched_start_user(s)
             \/ do_exit(s) \/ sig_proc(s) \/ exit_restart(s)
             \/ do_waitpid(s)
             \/ OutOfQuantum(s)
      PROVE  LifeInv'
  BY <1>0, <1>8, ForkLife, StartUserLife, DoExitLife, SigProcLife,
     ExitRestartLife, WaitpidLife, OutOfQuantumLife
<1>9. ASSUME NEW p \in Slots, NEW s \in Slots, NEW nice \in Nices,
             do_getsetpriority(p, s, nice)
      PROVE  LifeInv'
  BY <1>0, <1>9, SetpriorityLife
<1>10. CASE UNCHANGED vars
  BY <1>10, TouchLife DEF vars
<1> QED
  BY <1>1, <1>2, <1>3, <1>4, <1>5, <1>6, <1>7, <1>8, <1>9, <1>10 DEF Next

(* However forks, exits, kills, waits and setpriorities interleave with    *)
(* out-of-quantum messages and lotteries, every slot is in one of the      *)
(* phases of the life cycle, and the request PM has at SCHED is for a      *)
(* process in the phase that the request belongs to.                       *)
THEOREM LifecycleSound == Spec => []LifeInv
<1>1. Init => IInv /\ LifeInv
  BY InitIInv, InitLife
<1>2. (IInv /\ LifeInv) /\ [Next]_vars => (IInv /\ LifeInv)'
  BY NextIInv, NextLife
<1> QED
  BY <1>1, <1>2, PTL DEF Spec

(* SCHED has an entry for whoever it is asked about: do_start_scheduling's *)
(* assumption on the parent of a fork holds although the parent may be     *)
(* killed in between, the error branch of do_noquantum is never taken, and *)
(* every process that PM runs is one SCHED knows.                          *)
THEOREM EntriesSafe == Spec => []EntriesCurrent
<1>1. IInv /\ LifeInv => EntriesCurrent
  <2> SUFFICES ASSUME IInv, LifeInv PROVE EntriesCurrent
    OBVIOUS
  <2>1. ParentKnown
    <3> SUFFICES ASSUME call.type = "INHERIT", call.rv = "PENDING"
                 PROVE  sched_isokendpt(call.parent)
      BY DEF ParentKnown
    <3>1. PICK c \in Slots : c = call.caller
      BY CallerSlot DEF CallTypes
    <3>2. PICK p \in Slots : p = mproc[c].parent
      BY TablesType DEF MProc
    <3>3. /\ Alive(mproc, c) /\ c # INIT_PROC_NR
          /\ call.parent = MpEndpoint(mproc, p)
      BY <3>1, <3>2 DEF LifeInv, InheritInv
    <3>4. Known(p) /\ mproc[p].endpoint = kproc[p].gen
      BY <3>2, <3>3 DEF LifeInv, FamilyInv, Alive, IInv, SlotsInv, SlotInv
    <3> QED
      BY <3>3, <3>4 DEF Known, MpEndpoint, EndpointOf
  <2>2. OutOfQuantumKnown
    <3> SUFFICES ASSUME NEW i \in DOMAIN caller_q, caller_q[i] # PM_PROC_NR
                 PROVE  Known(caller_q[i])
      BY DEF OutOfQuantumKnown
    <3>1. caller_q[i] \in Slots
      BY DEF IInv, TypeOK
    <3>2. Queued(caller_q, caller_q[i])
      BY DEF Queued
    <3> QED
      BY <3>1, <3>2 DEF LifeInv, RunInv
  <2> QED
    BY <2>1, <2>2 DEF EntriesCurrent, LifeInv
<1> QED
  BY <1>1, TablesAgree, LifecycleSound, PTL

(* An entry of SCHED outlives its process only if its priority had wrapped *)
(* below zero, so that the kernel refused to schedule the child: every     *)
(* other way a process ends gives the entry back.                          *)
THEOREM LeaksBounded == Spec => []LeakOnlyByUnderflow
<1>1. LifeInv => LeakOnlyByUnderflow
  BY DEF LifeInv
<1> QED
  BY <1>1, LifecycleSound, PTL
=============================================================================
