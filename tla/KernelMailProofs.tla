-------------------------- MODULE KernelMailProofs --------------------------
(***************************************************************************)
(* Message passing for any processes and calls that keep to the rules of   *)
(* Orderly: blocked senders wait where their receiver looks for them, in   *)
(* lists that fit the flags of the processes and without a circle, no      *)
(* assertion of the kernel fails, and nobody waits for what has happened.  *)
(***************************************************************************)
EXTENDS KernelQueueProofs

-----------------------------------------------------------------------------
(* What message passing sees of a process: the flags it blocks on, and the *)
(* fields that neither the run queues nor the quantum touch.               *)
Blocks == {"SENDING", "RECEIVING", "SLOT_FREE"}

Mails ==
    [block : SUBSET Blocks, misc : SUBSET MiscFlags, from : Pointers \cup {ANY},
     to : Pointers, what : Types, first : Pointers, link : Pointers, got : Messages,
     notes : SUBSET Pointers, table : Seq(Entries)]

MailOf(block, misc, from, to, what, first, link, got, notes, table) ==
    [block |-> block, misc |-> misc, from |-> from, to |-> to, what |-> what,
     first |-> first, link |-> link, got |-> got, notes |-> notes, table |-> table]

Mail(s, r) ==
    MailOf(s.rts \cap Blocks, s.misc, s.getfrom, s.sendto, s.sendmsg, s.caller_q, s.q_link,
           s.delivermsg, r.notify_pending, r.asyntab)

View(k) == [x \in Procs |-> Mail(k.proc[x], k.priv[x])]

Views == [Procs -> Mails]

Sees(k, v) == k \in Kernels /\ k.panic = FALSE /\ v = View(k)

Set(v, p, m) == [v EXCEPT ![p] = m]

WithBlock(m, x) ==
    MailOf(x, m.misc, m.from, m.to, m.what, m.first, m.link, m.got,
           m.notes, m.table)
WithMisc(m, x) ==
    MailOf(m.block, x, m.from, m.to, m.what, m.first, m.link, m.got,
           m.notes, m.table)
WithFrom(m, x) ==
    MailOf(m.block, m.misc, x, m.to, m.what, m.first, m.link, m.got,
           m.notes, m.table)
WithTo(m, x) ==
    MailOf(m.block, m.misc, m.from, x, m.what, m.first, m.link, m.got,
           m.notes, m.table)
WithWhat(m, x) ==
    MailOf(m.block, m.misc, m.from, m.to, x, m.first, m.link, m.got,
           m.notes, m.table)
WithFirst(m, x) ==
    MailOf(m.block, m.misc, m.from, m.to, m.what, x, m.link, m.got,
           m.notes, m.table)
WithLink(m, x) ==
    MailOf(m.block, m.misc, m.from, m.to, m.what, m.first, x, m.got,
           m.notes, m.table)
WithGot(m, x) ==
    MailOf(m.block, m.misc, m.from, m.to, m.what, m.first, m.link, x,
           m.notes, m.table)
WithNotes(m, x) ==
    MailOf(m.block, m.misc, m.from, m.to, m.what, m.first, m.link, m.got,
           x, m.table)
WithTable(m, x) ==
    MailOf(m.block, m.misc, m.from, m.to, m.what, m.first, m.link, m.got,
           m.notes, x)

LEMMA MailIn ==
    ASSUME NEW s \in Slots, NEW r \in Privs
    PROVE  Mail(s, r) \in Mails
BY DEF Mail, MailOf, Mails, Slots, Privs

LEMMA SeesFields ==
    ASSUME NEW k, NEW v, Sees(k, v)
    PROVE  /\ k \in Kernels /\ v \in Views
           /\ \A x \in Procs : /\ k.proc[x] \in Slots /\ k.priv[x] \in Privs /\ v[x] \in Mails
                               /\ v[x] = Mail(k.proc[x], k.priv[x])
<1>1. k \in Kernels /\ v = View(k)
  BY DEF Sees
<1>2. k.proc \in [Procs -> Slots] /\ k.priv \in [Procs -> Privs]
  BY <1>1, KFields
<1>3. \A x \in Procs : /\ k.proc[x] \in Slots /\ k.priv[x] \in Privs
                       /\ v[x] = Mail(k.proc[x], k.priv[x])
  BY <1>1, <1>2 DEF View
<1>4. \A x \in Procs : v[x] \in Mails
  BY <1>3, MailIn
<1>5. v = [x \in Procs |-> Mail(k.proc[x], k.priv[x])]
  BY <1>1 DEF View
<1>6. v \in Views
  BY <1>3, <1>4, <1>5 DEF Views
<1> QED
  BY <1>1, <1>3, <1>4, <1>6

LEMMA SetIs ==
    ASSUME NEW v \in Views, NEW p \in Procs, NEW m \in Mails
    PROVE  /\ Set(v, p, m) \in Views
           /\ \A x \in Procs : Set(v, p, m)[x] = IF x = p THEN m ELSE v[x]
BY DEF Set, Views

IsSet(v, p, m, w) == w \in Views /\ \A x \in Procs : w[x] = IF x = p THEN m ELSE v[x]

LEMMA SetAs ==
    ASSUME NEW v \in Views, NEW p \in Procs, NEW m \in Mails, NEW w, w = Set(v, p, m)
    PROVE  IsSet(v, p, m, w)
  BY SetIs DEF IsSet

LEMMA SetAt ==
    ASSUME NEW v \in Views, NEW p \in Procs, NEW m \in Mails
    PROVE  Set(v, p, m)[p] = m
  BY SetIs

LEMMA SetSame ==
    ASSUME NEW v \in Views, NEW p \in Procs
    PROVE  Set(v, p, v[p]) = v
BY DEF Set, Views

LEMMA SetTwice ==
    ASSUME NEW v \in Views, NEW p \in Procs, NEW a \in Mails, NEW b \in Mails
    PROVE  Set(Set(v, p, a), p, b) = Set(v, p, b)
BY DEF Set, Views

(* The kernel's functions change one slot or one privilege structure at a  *)
(* time.                                                                   *)
LEMMA SlotSees ==
    ASSUME NEW k, NEW v, Sees(k, v), NEW p \in Procs, NEW s \in Slots,
           NEW k2, k2 = [k EXCEPT !.proc = [k.proc EXCEPT ![p] = s]]
    PROVE  Sees(k2, Set(v, p, Mail(s, k.priv[p])))
<1>1. /\ k \in Kernels /\ k.panic = FALSE /\ v = View(k) /\ k.proc \in [Procs -> Slots]
  BY KFields DEF Sees
<1>2. /\ k2 \in Kernels /\ k2.proc = [k.proc EXCEPT ![p] = s] /\ k2.priv = k.priv
      /\ k2.panic = FALSE
  <2>1. [k.proc EXCEPT ![p] = s] \in [Procs -> Slots]
    BY <1>1
  <2> QED
    BY <1>1, <2>1 DEF Kernels
<1>3. \A x \in Procs : k2.proc[x] = IF x = p THEN s ELSE k.proc[x]
  BY <1>1, <1>2
<1>4. View(k2) = Set(v, p, Mail(s, k.priv[p]))
  BY <1>1, <1>2, <1>3 DEF View, Set
<1> QED
  BY <1>2, <1>4 DEF Sees

LEMMA PrivSees ==
    ASSUME NEW k, NEW v, Sees(k, v), NEW p \in Procs, NEW r \in Privs,
           NEW k2, k2 = [k EXCEPT !.priv = [k.priv EXCEPT ![p] = r]]
    PROVE  Sees(k2, Set(v, p, Mail(k.proc[p], r)))
<1>1. /\ k \in Kernels /\ k.panic = FALSE /\ v = View(k) /\ k.priv \in [Procs -> Privs]
  BY KFields DEF Sees
<1>2. /\ k2 \in Kernels /\ k2.priv = [k.priv EXCEPT ![p] = r] /\ k2.proc = k.proc
      /\ k2.panic = FALSE
  <2>1. [k.priv EXCEPT ![p] = r] \in [Procs -> Privs]
    BY <1>1
  <2> QED
    BY <1>1, <2>1 DEF Kernels
<1>3. \A x \in Procs : k2.priv[x] = IF x = p THEN r ELSE k.priv[x]
  BY <1>1, <1>2
<1>4. View(k2) = Set(v, p, Mail(k.proc[p], r))
  BY <1>1, <1>2, <1>3 DEF View, Set
<1> QED
  BY <1>2, <1>4 DEF Sees

(* A slot or a structure of which one field changed.                       *)
LEMMA MailBlock ==
    ASSUME NEW a, NEW b, NEW x, NEW s,
           s.rts \cap Blocks = x /\ s.misc = a.misc /\ s.getfrom = a.getfrom /\ s.sendto = a.sendto,
           s.sendmsg = a.sendmsg /\ s.caller_q = a.caller_q /\ s.q_link = a.q_link /\ s.delivermsg = a.delivermsg
    PROVE  Mail(s, b) = WithBlock(Mail(a, b), x)
BY DEF Mail, MailOf, WithBlock

LEMMA MailMisc ==
    ASSUME NEW a, NEW b, NEW x, NEW s,
           s.rts = a.rts /\ s.misc = x /\ s.getfrom = a.getfrom /\ s.sendto = a.sendto,
           s.sendmsg = a.sendmsg /\ s.caller_q = a.caller_q /\ s.q_link = a.q_link /\ s.delivermsg = a.delivermsg
    PROVE  Mail(s, b) = WithMisc(Mail(a, b), x)
BY DEF Mail, MailOf, WithMisc

LEMMA MailFrom ==
    ASSUME NEW a, NEW b, NEW x, NEW s,
           s.rts = a.rts /\ s.misc = a.misc /\ s.getfrom = x /\ s.sendto = a.sendto,
           s.sendmsg = a.sendmsg /\ s.caller_q = a.caller_q /\ s.q_link = a.q_link /\ s.delivermsg = a.delivermsg
    PROVE  Mail(s, b) = WithFrom(Mail(a, b), x)
BY DEF Mail, MailOf, WithFrom

LEMMA MailTo ==
    ASSUME NEW a, NEW b, NEW x, NEW s,
           s.rts = a.rts /\ s.misc = a.misc /\ s.getfrom = a.getfrom /\ s.sendto = x,
           s.sendmsg = a.sendmsg /\ s.caller_q = a.caller_q /\ s.q_link = a.q_link /\ s.delivermsg = a.delivermsg
    PROVE  Mail(s, b) = WithTo(Mail(a, b), x)
BY DEF Mail, MailOf, WithTo

LEMMA MailWhat ==
    ASSUME NEW a, NEW b, NEW x, NEW s,
           s.rts = a.rts /\ s.misc = a.misc /\ s.getfrom = a.getfrom /\ s.sendto = a.sendto,
           s.sendmsg = x /\ s.caller_q = a.caller_q /\ s.q_link = a.q_link /\ s.delivermsg = a.delivermsg
    PROVE  Mail(s, b) = WithWhat(Mail(a, b), x)
BY DEF Mail, MailOf, WithWhat

LEMMA MailFirst ==
    ASSUME NEW a, NEW b, NEW x, NEW s,
           s.rts = a.rts /\ s.misc = a.misc /\ s.getfrom = a.getfrom /\ s.sendto = a.sendto,
           s.sendmsg = a.sendmsg /\ s.caller_q = x /\ s.q_link = a.q_link /\ s.delivermsg = a.delivermsg
    PROVE  Mail(s, b) = WithFirst(Mail(a, b), x)
BY DEF Mail, MailOf, WithFirst

LEMMA MailLink ==
    ASSUME NEW a, NEW b, NEW x, NEW s,
           s.rts = a.rts /\ s.misc = a.misc /\ s.getfrom = a.getfrom /\ s.sendto = a.sendto,
           s.sendmsg = a.sendmsg /\ s.caller_q = a.caller_q /\ s.q_link = x /\ s.delivermsg = a.delivermsg
    PROVE  Mail(s, b) = WithLink(Mail(a, b), x)
BY DEF Mail, MailOf, WithLink

LEMMA MailGot ==
    ASSUME NEW a, NEW b, NEW x, NEW s,
           s.rts = a.rts /\ s.misc = a.misc /\ s.getfrom = a.getfrom /\ s.sendto = a.sendto,
           s.sendmsg = a.sendmsg /\ s.caller_q = a.caller_q /\ s.q_link = a.q_link /\ s.delivermsg = x
    PROVE  Mail(s, b) = WithGot(Mail(a, b), x)
BY DEF Mail, MailOf, WithGot

LEMMA MailNotes ==
    ASSUME NEW a, NEW b, NEW x, NEW r, r.notify_pending = x, r.asyntab = b.asyntab
    PROVE  Mail(a, r) = WithNotes(Mail(a, b), x)
BY DEF Mail, MailOf, WithNotes

LEMMA MailTable ==
    ASSUME NEW a, NEW b, NEW x, NEW r, r.asyntab = x, r.notify_pending = b.notify_pending
    PROVE  Mail(a, r) = WithTable(Mail(a, b), x)
BY DEF Mail, MailOf, WithTable

(* The fields of a slot, one by one.                                       *)
LEMMA RtsSees ==
    ASSUME NEW k, NEW v, Sees(k, v), NEW p \in Procs, NEW x \in SUBSET Flags,
           NEW k2, k2 = [k EXCEPT !.proc[p].rts = x]
    PROVE  Sees(k2, Set(v, p, WithBlock(v[p], x \cap Blocks)))
<1>1. PICK a, b, s : a \in Slots /\ a = k.proc[p] /\ b = k.priv[p] /\ s = [a EXCEPT !.rts = x]
  BY SeesFields
<1>2. k \in Kernels /\ v[p] = Mail(a, b)
  BY <1>1, SeesFields
<1>3. s \in Slots
  BY <1>1 DEF Slots
<1>4. /\ s.rts = x /\ s.misc = a.misc /\ s.getfrom = a.getfrom /\ s.sendto = a.sendto
      /\ s.sendmsg = a.sendmsg /\ s.caller_q = a.caller_q /\ s.q_link = a.q_link /\ s.delivermsg = a.delivermsg
  BY <1>1 DEF Slots
<1>5. Mail(s, b) = WithBlock(Mail(a, b), x \cap Blocks)
  <2>1. PICK y : y = x \cap Blocks
    OBVIOUS
  <2>2. Mail(s, b) = WithBlock(Mail(a, b), y)
    BY <1>4, <2>1, MailBlock
  <2> QED
    BY <2>1, <2>2
<1>6. k2 = [k EXCEPT !.proc = [k.proc EXCEPT ![p] = s]]
  BY <1>1, <1>2 DEF Kernels
<1>7. Sees(k2, Set(v, p, Mail(s, b)))
  BY <1>1, <1>3, <1>6, SlotSees
<1> QED
  BY <1>2, <1>5, <1>7

LEMMA MiscSees ==
    ASSUME NEW k, NEW v, Sees(k, v), NEW p \in Procs, NEW x \in SUBSET MiscFlags,
           NEW k2, k2 = [k EXCEPT !.proc[p].misc = x]
    PROVE  Sees(k2, Set(v, p, WithMisc(v[p], x)))
<1>1. PICK a, b, s : a \in Slots /\ a = k.proc[p] /\ b = k.priv[p] /\ s = [a EXCEPT !.misc = x]
  BY SeesFields
<1>2. k \in Kernels /\ v[p] = Mail(a, b)
  BY <1>1, SeesFields
<1>3. s \in Slots
  BY <1>1 DEF Slots
<1>4. /\ s.rts = a.rts /\ s.misc = x /\ s.getfrom = a.getfrom /\ s.sendto = a.sendto
      /\ s.sendmsg = a.sendmsg /\ s.caller_q = a.caller_q /\ s.q_link = a.q_link /\ s.delivermsg = a.delivermsg
  BY <1>1 DEF Slots
<1>5. Mail(s, b) = WithMisc(Mail(a, b), x)
  BY <1>4, MailMisc
<1>6. k2 = [k EXCEPT !.proc = [k.proc EXCEPT ![p] = s]]
  BY <1>1, <1>2 DEF Kernels
<1>7. Sees(k2, Set(v, p, Mail(s, b)))
  BY <1>1, <1>3, <1>6, SlotSees
<1> QED
  BY <1>2, <1>5, <1>7

LEMMA FromSees ==
    ASSUME NEW k, NEW v, Sees(k, v), NEW p \in Procs, NEW x \in Pointers \cup {ANY},
           NEW k2, k2 = [k EXCEPT !.proc[p].getfrom = x]
    PROVE  Sees(k2, Set(v, p, WithFrom(v[p], x)))
<1>1. PICK a, b, s : a \in Slots /\ a = k.proc[p] /\ b = k.priv[p] /\ s = [a EXCEPT !.getfrom = x]
  BY SeesFields
<1>2. k \in Kernels /\ v[p] = Mail(a, b)
  BY <1>1, SeesFields
<1>3. s \in Slots
  BY <1>1 DEF Slots
<1>4. /\ s.rts = a.rts /\ s.misc = a.misc /\ s.getfrom = x /\ s.sendto = a.sendto
      /\ s.sendmsg = a.sendmsg /\ s.caller_q = a.caller_q /\ s.q_link = a.q_link /\ s.delivermsg = a.delivermsg
  BY <1>1 DEF Slots
<1>5. Mail(s, b) = WithFrom(Mail(a, b), x)
  BY <1>4, MailFrom
<1>6. k2 = [k EXCEPT !.proc = [k.proc EXCEPT ![p] = s]]
  BY <1>1, <1>2 DEF Kernels
<1>7. Sees(k2, Set(v, p, Mail(s, b)))
  BY <1>1, <1>3, <1>6, SlotSees
<1> QED
  BY <1>2, <1>5, <1>7

LEMMA ToSees ==
    ASSUME NEW k, NEW v, Sees(k, v), NEW p \in Procs, NEW x \in Pointers,
           NEW k2, k2 = [k EXCEPT !.proc[p].sendto = x]
    PROVE  Sees(k2, Set(v, p, WithTo(v[p], x)))
<1>1. PICK a, b, s : a \in Slots /\ a = k.proc[p] /\ b = k.priv[p] /\ s = [a EXCEPT !.sendto = x]
  BY SeesFields
<1>2. k \in Kernels /\ v[p] = Mail(a, b)
  BY <1>1, SeesFields
<1>3. s \in Slots
  BY <1>1 DEF Slots
<1>4. /\ s.rts = a.rts /\ s.misc = a.misc /\ s.getfrom = a.getfrom /\ s.sendto = x
      /\ s.sendmsg = a.sendmsg /\ s.caller_q = a.caller_q /\ s.q_link = a.q_link /\ s.delivermsg = a.delivermsg
  BY <1>1 DEF Slots
<1>5. Mail(s, b) = WithTo(Mail(a, b), x)
  BY <1>4, MailTo
<1>6. k2 = [k EXCEPT !.proc = [k.proc EXCEPT ![p] = s]]
  BY <1>1, <1>2 DEF Kernels
<1>7. Sees(k2, Set(v, p, Mail(s, b)))
  BY <1>1, <1>3, <1>6, SlotSees
<1> QED
  BY <1>2, <1>5, <1>7

LEMMA WhatSees ==
    ASSUME NEW k, NEW v, Sees(k, v), NEW p \in Procs, NEW x \in Types,
           NEW k2, k2 = [k EXCEPT !.proc[p].sendmsg = x]
    PROVE  Sees(k2, Set(v, p, WithWhat(v[p], x)))
<1>1. PICK a, b, s : a \in Slots /\ a = k.proc[p] /\ b = k.priv[p] /\ s = [a EXCEPT !.sendmsg = x]
  BY SeesFields
<1>2. k \in Kernels /\ v[p] = Mail(a, b)
  BY <1>1, SeesFields
<1>3. s \in Slots
  BY <1>1 DEF Slots
<1>4. /\ s.rts = a.rts /\ s.misc = a.misc /\ s.getfrom = a.getfrom /\ s.sendto = a.sendto
      /\ s.sendmsg = x /\ s.caller_q = a.caller_q /\ s.q_link = a.q_link /\ s.delivermsg = a.delivermsg
  BY <1>1 DEF Slots
<1>5. Mail(s, b) = WithWhat(Mail(a, b), x)
  BY <1>4, MailWhat
<1>6. k2 = [k EXCEPT !.proc = [k.proc EXCEPT ![p] = s]]
  BY <1>1, <1>2 DEF Kernels
<1>7. Sees(k2, Set(v, p, Mail(s, b)))
  BY <1>1, <1>3, <1>6, SlotSees
<1> QED
  BY <1>2, <1>5, <1>7

LEMMA FirstSees ==
    ASSUME NEW k, NEW v, Sees(k, v), NEW p \in Procs, NEW x \in Pointers,
           NEW k2, k2 = [k EXCEPT !.proc[p].caller_q = x]
    PROVE  Sees(k2, Set(v, p, WithFirst(v[p], x)))
<1>1. PICK a, b, s : a \in Slots /\ a = k.proc[p] /\ b = k.priv[p] /\ s = [a EXCEPT !.caller_q = x]
  BY SeesFields
<1>2. k \in Kernels /\ v[p] = Mail(a, b)
  BY <1>1, SeesFields
<1>3. s \in Slots
  BY <1>1 DEF Slots
<1>4. /\ s.rts = a.rts /\ s.misc = a.misc /\ s.getfrom = a.getfrom /\ s.sendto = a.sendto
      /\ s.sendmsg = a.sendmsg /\ s.caller_q = x /\ s.q_link = a.q_link /\ s.delivermsg = a.delivermsg
  BY <1>1 DEF Slots
<1>5. Mail(s, b) = WithFirst(Mail(a, b), x)
  BY <1>4, MailFirst
<1>6. k2 = [k EXCEPT !.proc = [k.proc EXCEPT ![p] = s]]
  BY <1>1, <1>2 DEF Kernels
<1>7. Sees(k2, Set(v, p, Mail(s, b)))
  BY <1>1, <1>3, <1>6, SlotSees
<1> QED
  BY <1>2, <1>5, <1>7

LEMMA LinkSees ==
    ASSUME NEW k, NEW v, Sees(k, v), NEW p \in Procs, NEW x \in Pointers,
           NEW k2, k2 = [k EXCEPT !.proc[p].q_link = x]
    PROVE  Sees(k2, Set(v, p, WithLink(v[p], x)))
<1>1. PICK a, b, s : a \in Slots /\ a = k.proc[p] /\ b = k.priv[p] /\ s = [a EXCEPT !.q_link = x]
  BY SeesFields
<1>2. k \in Kernels /\ v[p] = Mail(a, b)
  BY <1>1, SeesFields
<1>3. s \in Slots
  BY <1>1 DEF Slots
<1>4. /\ s.rts = a.rts /\ s.misc = a.misc /\ s.getfrom = a.getfrom /\ s.sendto = a.sendto
      /\ s.sendmsg = a.sendmsg /\ s.caller_q = a.caller_q /\ s.q_link = x /\ s.delivermsg = a.delivermsg
  BY <1>1 DEF Slots
<1>5. Mail(s, b) = WithLink(Mail(a, b), x)
  BY <1>4, MailLink
<1>6. k2 = [k EXCEPT !.proc = [k.proc EXCEPT ![p] = s]]
  BY <1>1, <1>2 DEF Kernels
<1>7. Sees(k2, Set(v, p, Mail(s, b)))
  BY <1>1, <1>3, <1>6, SlotSees
<1> QED
  BY <1>2, <1>5, <1>7

LEMMA GotSees ==
    ASSUME NEW k, NEW v, Sees(k, v), NEW p \in Procs, NEW x \in Messages,
           NEW k2, k2 = [k EXCEPT !.proc[p].delivermsg = x]
    PROVE  Sees(k2, Set(v, p, WithGot(v[p], x)))
<1>1. PICK a, b, s : a \in Slots /\ a = k.proc[p] /\ b = k.priv[p] /\ s = [a EXCEPT !.delivermsg = x]
  BY SeesFields
<1>2. k \in Kernels /\ v[p] = Mail(a, b)
  BY <1>1, SeesFields
<1>3. s \in Slots
  BY <1>1 DEF Slots
<1>4. /\ s.rts = a.rts /\ s.misc = a.misc /\ s.getfrom = a.getfrom /\ s.sendto = a.sendto
      /\ s.sendmsg = a.sendmsg /\ s.caller_q = a.caller_q /\ s.q_link = a.q_link /\ s.delivermsg = x
  BY <1>1 DEF Slots
<1>5. Mail(s, b) = WithGot(Mail(a, b), x)
  BY <1>4, MailGot
<1>6. k2 = [k EXCEPT !.proc = [k.proc EXCEPT ![p] = s]]
  BY <1>1, <1>2 DEF Kernels
<1>7. Sees(k2, Set(v, p, Mail(s, b)))
  BY <1>1, <1>3, <1>6, SlotSees
<1> QED
  BY <1>2, <1>5, <1>7

(* The privilege structure.                                                *)
LEMMA NotesSees ==
    ASSUME NEW k, NEW v, Sees(k, v), NEW p \in Procs, NEW x \in SUBSET Pointers,
           NEW k2, k2 = [k EXCEPT !.priv[p].notify_pending = x]
    PROVE  Sees(k2, Set(v, p, WithNotes(v[p], x)))
<1>1. PICK a, b, r : b \in Privs /\ a = k.proc[p] /\ b = k.priv[p] /\ r = [b EXCEPT !.notify_pending = x]
  BY SeesFields
<1>2. k \in Kernels /\ v[p] = Mail(a, b)
  BY <1>1, SeesFields
<1>3. r \in Privs
  BY <1>1 DEF Privs
<1>4. r.notify_pending = x /\ r.asyntab = b.asyntab
  BY <1>1 DEF Privs
<1>5. Mail(a, r) = WithNotes(Mail(a, b), x)
  BY <1>4, MailNotes
<1>6. k2 = [k EXCEPT !.priv = [k.priv EXCEPT ![p] = r]]
  BY <1>1, <1>2 DEF Kernels
<1>7. Sees(k2, Set(v, p, Mail(a, r)))
  BY <1>1, <1>3, <1>6, PrivSees
<1> QED
  BY <1>2, <1>5, <1>7

LEMMA TableSees ==
    ASSUME NEW k, NEW v, Sees(k, v), NEW p \in Procs, NEW x \in Seq(Entries),
           NEW k2, k2 = [k EXCEPT !.priv[p].asyntab = x]
    PROVE  Sees(k2, Set(v, p, WithTable(v[p], x)))
<1>1. PICK a, b, r : b \in Privs /\ a = k.proc[p] /\ b = k.priv[p] /\ r = [b EXCEPT !.asyntab = x]
  BY SeesFields
<1>2. k \in Kernels /\ v[p] = Mail(a, b)
  BY <1>1, SeesFields
<1>3. r \in Privs
  BY <1>1 DEF Privs
<1>4. r.asyntab = x /\ r.notify_pending = b.notify_pending
  BY <1>1 DEF Privs
<1>5. Mail(a, r) = WithTable(Mail(a, b), x)
  BY <1>4, MailTable
<1>6. k2 = [k EXCEPT !.priv = [k.priv EXCEPT ![p] = r]]
  BY <1>1, <1>2 DEF Kernels
<1>7. Sees(k2, Set(v, p, Mail(a, r)))
  BY <1>1, <1>3, <1>6, PrivSees
<1> QED
  BY <1>2, <1>5, <1>7

(* What message passing does not see.                                      *)
LEMMA NextSees ==
    ASSUME NEW k, NEW v, Sees(k, v), NEW p, NEW x \in Pointers,
           NEW k2, k2 = [k EXCEPT !.proc[p].nextready = x]
    PROVE  Sees(k2, v)
<1>1. CASE p \in Procs
  <2>1. PICK s : s = [k.proc[p] EXCEPT !.nextready = x]
    OBVIOUS
  <2>2. k \in Kernels /\ k.proc[p] \in Slots /\ v[p] = Mail(k.proc[p], k.priv[p]) /\ v \in Views
    BY <1>1, SeesFields
  <2>3. s \in Slots /\ Mail(s, k.priv[p]) = v[p]
    BY <2>1, <2>2 DEF Slots, Mail
  <2>4. k2 = [k EXCEPT !.proc = [k.proc EXCEPT ![p] = s]]
    BY <2>1, <2>2 DEF Kernels
  <2>5. Sees(k2, Set(v, p, Mail(s, k.priv[p])))
    BY <1>1, <2>3, <2>4, SlotSees
  <2> QED
    BY <1>1, <2>2, <2>3, <2>5, SetSame
<1>2. CASE p \notin Procs
  <2>1. k \in Kernels
    BY SeesFields
  <2>2. k2 = k
    BY <1>2, <2>1 DEF Kernels
  <2> QED
    BY <2>2
<1> QED
  BY <1>1, <1>2

LEMMA TimeSees ==
    ASSUME NEW k, NEW v, Sees(k, v), NEW p, NEW x \in {0, 1},
           NEW k2, k2 = [k EXCEPT !.proc[p].time_left = x]
    PROVE  Sees(k2, v)
<1>1. CASE p \in Procs
  <2>1. PICK s : s = [k.proc[p] EXCEPT !.time_left = x]
    OBVIOUS
  <2>2. k \in Kernels /\ k.proc[p] \in Slots /\ v[p] = Mail(k.proc[p], k.priv[p]) /\ v \in Views
    BY <1>1, SeesFields
  <2>3. s \in Slots /\ Mail(s, k.priv[p]) = v[p]
    BY <2>1, <2>2 DEF Slots, Mail
  <2>4. k2 = [k EXCEPT !.proc = [k.proc EXCEPT ![p] = s]]
    BY <2>1, <2>2 DEF Kernels
  <2>5. Sees(k2, Set(v, p, Mail(s, k.priv[p])))
    BY <1>1, <2>3, <2>4, SlotSees
  <2> QED
    BY <1>1, <2>2, <2>3, <2>5, SetSame
<1>2. CASE p \notin Procs
  <2>1. k \in Kernels
    BY SeesFields
  <2>2. k2 = k
    BY <1>2, <2>1 DEF Kernels
  <2> QED
    BY <2>2
<1> QED
  BY <1>1, <1>2

LEMMA PrioritySees ==
    ASSUME NEW k, NEW v, Sees(k, v), NEW p, NEW x \in Queues,
           NEW k2, k2 = [k EXCEPT !.proc[p].priority = x]
    PROVE  Sees(k2, v)
<1>1. CASE p \in Procs
  <2>1. PICK s : s = [k.proc[p] EXCEPT !.priority = x]
    OBVIOUS
  <2>2. k \in Kernels /\ k.proc[p] \in Slots /\ v[p] = Mail(k.proc[p], k.priv[p]) /\ v \in Views
    BY <1>1, SeesFields
  <2>3. s \in Slots /\ Mail(s, k.priv[p]) = v[p]
    BY <2>1, <2>2 DEF Slots, Mail
  <2>4. k2 = [k EXCEPT !.proc = [k.proc EXCEPT ![p] = s]]
    BY <2>1, <2>2 DEF Kernels
  <2>5. Sees(k2, Set(v, p, Mail(s, k.priv[p])))
    BY <1>1, <2>3, <2>4, SlotSees
  <2> QED
    BY <1>1, <2>2, <2>3, <2>5, SetSame
<1>2. CASE p \notin Procs
  <2>1. k \in Kernels
    BY SeesFields
  <2>2. k2 = k
    BY <1>2, <2>1 DEF Kernels
  <2> QED
    BY <2>2
<1> QED
  BY <1>1, <1>2

LEMMA HeadSees ==
    ASSUME NEW k, NEW v, Sees(k, v), NEW q \in Queues, NEW x \in Pointers, NEW k2,
           k2 = [k EXCEPT !.head[q] = x] \/ k2 = [k EXCEPT !.tail[q] = x]
    PROVE  Sees(k2, v)
<1>1. /\ k2 \in Kernels /\ k2.proc = k.proc /\ k2.priv = k.priv /\ k2.panic = k.panic
  BY DEF Kernels, Sees
<1> QED
  BY <1>1 DEF Sees, View

LEMMA CurSees ==
    ASSUME NEW k, NEW v, Sees(k, v), NEW x \in Pointers, NEW k2, k2 = [k EXCEPT !.cur = x]
    PROVE  Sees(k2, v)
<1>1. /\ k2 \in Kernels /\ k2.proc = k.proc /\ k2.priv = k.priv /\ k2.panic = k.panic
  BY DEF Kernels, Sees
<1> QED
  BY <1>1 DEF Sees, View

LEMMA AssertSees ==
    ASSUME NEW k, NEW v, Sees(k, v), NEW c, c = TRUE
    PROVE  Sees(assert(k, c), v)
<1>1. PICK k2 : k2 = assert(k, c)
  OBVIOUS
<1>2. k \in Kernels /\ k.panic = FALSE
  BY DEF Sees
<1>3. k2 = [k EXCEPT !.panic = FALSE]
  BY <1>1, <1>2 DEF assert
<1>4. k2 \in Kernels /\ k2.proc = k.proc /\ k2.priv = k.priv /\ k2.panic = FALSE
  BY <1>2, <1>3 DEF Kernels
<1> QED
  BY <1>1, <1>4 DEF Sees, View

(* The run queues are out of its sight.                                    *)
LEMMA DequeueSees ==
    ASSUME NEW k, NEW v, Sees(k, v), NEW p \in Procs
    PROVE  Sees(dequeue(k, p), v)
<1>0. k \in Kernels
  BY DEF Sees
<1>1. PICK q \in Queues : q = k.proc[p].priority
  BY <1>0, KFields
<1>2. PICK ready \in Seq(Procs) : ready = Ready(k, q)
  <2>1. k.head[q] \in Pointers /\ NextOf(k) \in [Procs -> Pointers]
    BY <1>0, KFields
  <2>2. Chain(k.head[q], NextOf(k)) \in Seq(Procs)
    BY <2>1, ChainType
  <2> QED
    BY <2>2 DEF Ready, NextOf
<1>3. PICK i : i = SelectInSeq(ready, LAMBDA x : x = p)
  OBVIOUS
<1>4. i # 0 => i \in 1 .. Len(ready)
  <2>1. PICK I : I = {j \in 1 .. Len(ready) : ready[j] = p}
    OBVIOUS
  <2>2. i = IF I # {} THEN Min(I) ELSE 0
    BY <1>3, <2>1 DEF SelectInSeq
  <2>3. I \in SUBSET Nat
    BY <2>1
  <2>4. I # {} => Min(I) \in I
    BY <2>3, MinIn
  <2> QED
    BY <2>1, <2>2, <2>4
<1>5. PICK prev, next : prev = (IF i = 1 THEN NULL ELSE ready[i - 1]) /\ next = k.proc[p].nextready
  OBVIOUS
<1>6. next \in Pointers /\ (i # 0 => prev \in Pointers)
  <2>1. i # 0 /\ i # 1 => i - 1 \in 1 .. Len(ready)
    BY <1>4
  <2>2. i # 0 /\ i # 1 => ready[i - 1] \in Procs
    BY <2>1
  <2> QED
    BY <1>0, <1>5, <2>2, KFields, Constants
<1>7. PICK u : u = IF prev = NULL THEN [k EXCEPT !.head[q] = next]
                   ELSE [k EXCEPT !.proc[prev].nextready = next]
  OBVIOUS
<1>8. Sees(u, v)
  BY <1>6, <1>7, HeadSees, NextSees
<1>9. PICK last : last = IF u.tail[q] = p THEN prev ELSE u.tail[q]
  OBVIOUS
<1>10. u.tail[q] \in Pointers
  BY <1>8, KFields DEF Sees
<1>11. PICK k2 : k2 = [u EXCEPT !.tail[q] = last]
  OBVIOUS
<1>12. dequeue(k, p) = IF i = 0 THEN k ELSE k2
  BY <1>1, <1>2, <1>3, <1>5, <1>7, <1>9, <1>11 DEF dequeue
<1>13. i # 0 => Sees(k2, v)
  BY <1>6, <1>8, <1>9, <1>10, <1>11, HeadSees
<1> QED
  BY <1>12, <1>13

(* Flags of a process are set or cleared.                                  *)
Blocked(v, p, flags)   == Set(v, p, WithBlock(v[p], v[p].block \cup (flags \cap Blocks)))
Unblocked(v, p, flags) == Set(v, p, WithBlock(v[p], v[p].block \ flags))

LEMMA BlockIs ==
    ASSUME NEW k, NEW v, Sees(k, v), NEW p \in Procs
    PROVE  v[p].block = k.proc[p].rts \cap Blocks /\ k.proc[p].rts \in SUBSET Flags
<1>1. v[p] = Mail(k.proc[p], k.priv[p]) /\ k.proc[p] \in Slots
  BY SeesFields
<1> QED
  BY <1>1 DEF Mail, MailOf, Slots

LEMMA RtsSetSees ==
    ASSUME NEW k, NEW v, Sees(k, v), NEW p \in Procs, NEW flags \in SUBSET Flags
    PROVE  Sees(RTS_SET(k, p, flags), Blocked(v, p, flags))
<1>1. v[p].block = k.proc[p].rts \cap Blocks /\ k.proc[p].rts \in SUBSET Flags
  BY BlockIs
<1>2. PICK x : x = k.proc[p].rts \cup flags
  OBVIOUS
<1>3. x \in SUBSET Flags /\ x \cap Blocks = v[p].block \cup (flags \cap Blocks)
  BY <1>1, <1>2
<1>4. PICK set : set = [k EXCEPT !.proc[p].rts = x]
  OBVIOUS
<1>5. Sees(set, Set(v, p, WithBlock(v[p], x \cap Blocks)))
  BY <1>3, <1>4, RtsSees
<1>6. Sees(set, Blocked(v, p, flags))
  BY <1>3, <1>5 DEF Blocked
<1>7. Sees(dequeue(set, p), Blocked(v, p, flags))
  BY <1>6, DequeueSees
<1>8. RTS_SET(k, p, flags) = IF proc_is_runnable(k, p) THEN dequeue(set, p) ELSE set
  BY <1>2, <1>4 DEF RTS_SET
<1> QED
  BY <1>6, <1>7, <1>8

LEMMA BlockSame ==
    ASSUME NEW v \in Views, NEW p \in Procs
    PROVE  Set(v, p, WithBlock(v[p], v[p].block)) = v
<1>1. v[p] \in Mails
  BY DEF Views
<1>2. WithBlock(v[p], v[p].block) = v[p]
  BY <1>1 DEF WithBlock, MailOf, Mails
<1> QED
  BY <1>2, SetSame

LEMMA RtsSetUnseen ==
    ASSUME NEW k, NEW v, Sees(k, v), NEW p \in Procs, NEW flags \in SUBSET Flags,
           flags \cap Blocks = {}
    PROVE  Sees(RTS_SET(k, p, flags), v)
<1>1. Sees(RTS_SET(k, p, flags), Blocked(v, p, flags))
  BY RtsSetSees
<1>2. v[p].block \cup (flags \cap Blocks) = v[p].block /\ v \in Views
  BY SeesFields
<1>3. Blocked(v, p, flags) = v
  BY <1>2, BlockSame DEF Blocked
<1> QED
  BY <1>1, <1>3

LEMMA PreemptSees ==
    ASSUME NEW k, NEW v, Sees(k, v), NEW p \in Procs
    PROVE  Sees(Preempt(k, p), v)
<1>1. {"PREEMPTED"} \in SUBSET Flags /\ {"PREEMPTED"} \cap Blocks = {}
  BY DEF Flags, Blocks
<1>2. k.cur # NULL => k.cur \in Procs
  <2>1. k.cur \in Pointers
    BY KFields DEF Sees
  <2> QED
    BY <2>1 DEF Pointers
<1>3. k.cur # NULL => Sees(RTS_SET(k, k.cur, {"PREEMPTED"}), v)
  BY <1>1, <1>2, RtsSetUnseen
<1> QED
  BY <1>3 DEF Preempt

LEMMA EnqueueSees ==
    ASSUME NEW k, NEW v, Sees(k, v), NEW p \in Procs
    PROVE  Sees(enqueue(k, p), v)
<1>1. PICK q \in Queues : q = k.proc[p].priority
  BY KFields DEF Sees
<1>2. PICK a : a = IF k.head[q] = NULL THEN [k EXCEPT !.head[q] = p]
                   ELSE [k EXCEPT !.proc[k.tail[q]].nextready = p]
  OBVIOUS
<1>3. Sees(a, v)
  BY <1>2, HeadSees, NextSees, Constants
<1>4. PICK b : b = [a EXCEPT !.tail[q] = p]
  OBVIOUS
<1>5. Sees(b, v)
  BY <1>3, <1>4, HeadSees, Constants
<1>6. PICK c : c = [b EXCEPT !.proc[p].nextready = NULL]
  OBVIOUS
<1>7. Sees(c, v)
  BY <1>5, <1>6, NextSees, Constants
<1>8. enqueue(k, p) = Preempt(c, p)
  BY <1>1, <1>2, <1>4, <1>6 DEF enqueue
<1> QED
  BY <1>7, <1>8, PreemptSees

LEMMA EnqueueHeadSees ==
    ASSUME NEW k, NEW v, Sees(k, v), NEW p \in Procs
    PROVE  Sees(enqueue_head(k, p), v)
<1>1. PICK q \in Queues : q = k.proc[p].priority
  BY KFields DEF Sees
<1>2. PICK a : a = [k EXCEPT !.head[q] = p]
  OBVIOUS
<1>3. Sees(a, v)
  BY <1>2, HeadSees, Constants
<1>4. PICK b : b = [a EXCEPT !.tail[q] = p]
  OBVIOUS
<1>5. Sees(b, v)
  BY <1>3, <1>4, HeadSees, Constants
<1>6. PICK c : c = [b EXCEPT !.proc[p].nextready = NULL]
  OBVIOUS
<1>7. Sees(c, v)
  BY <1>5, <1>6, NextSees, Constants
<1>8. PICK h \in Pointers : h = k.head[q]
  BY KFields DEF Sees
<1>9. PICK d : d = [a EXCEPT !.proc[p].nextready = h]
  OBVIOUS
<1>10. Sees(d, v)
  BY <1>3, <1>8, <1>9, NextSees
<1>11. enqueue_head(k, p) = IF k.head[q] = NULL THEN c ELSE d
  BY <1>1, <1>2, <1>4, <1>6, <1>8, <1>9 DEF enqueue_head
<1> QED
  BY <1>7, <1>10, <1>11

LEMMA RtsUnsetSees ==
    ASSUME NEW k, NEW v, Sees(k, v), NEW p \in Procs, NEW flags
    PROVE  Sees(RTS_UNSET(k, p, flags), Unblocked(v, p, flags))
<1>1. v[p].block = k.proc[p].rts \cap Blocks /\ k.proc[p].rts \in SUBSET Flags
  BY BlockIs
<1>2. PICK x : x = k.proc[p].rts \ flags
  OBVIOUS
<1>3. x \in SUBSET Flags /\ x \cap Blocks = v[p].block \ flags
  BY <1>1, <1>2
<1>4. PICK unset : unset = [k EXCEPT !.proc[p].rts = x]
  OBVIOUS
<1>5. Sees(unset, Set(v, p, WithBlock(v[p], x \cap Blocks)))
  BY <1>3, <1>4, RtsSees
<1>6. Sees(unset, Unblocked(v, p, flags))
  BY <1>3, <1>5 DEF Unblocked
<1>7. Sees(enqueue(unset, p), Unblocked(v, p, flags))
  BY <1>6, EnqueueSees
<1>8. RTS_UNSET(k, p, flags) =
        IF ~ proc_is_runnable(k, p) /\ proc_is_runnable(unset, p) THEN enqueue(unset, p) ELSE unset
  BY <1>2, <1>4 DEF RTS_UNSET
<1> QED
  BY <1>6, <1>7, <1>8

LEMMA RtsUnsetUnseen ==
    ASSUME NEW k, NEW v, Sees(k, v), NEW p \in Procs, NEW flags, flags \cap Blocks = {}
    PROVE  Sees(RTS_UNSET(k, p, flags), v)
<1>1. Sees(RTS_UNSET(k, p, flags), Unblocked(v, p, flags))
  BY RtsUnsetSees
<1>2. v[p].block \ flags = v[p].block /\ v \in Views
  <2>1. v[p].block \subseteq Blocks
    BY BlockIs
  <2> QED
    BY <2>1, SeesFields
<1>3. Unblocked(v, p, flags) = v
  BY <1>2, BlockSame DEF Unblocked
<1> QED
  BY <1>1, <1>3

(* The misc flags, and a message delivered.                                *)
Marks(v, p, f)  == Set(v, p, WithMisc(v[p], v[p].misc \cup {f}))
Clears(v, p, f) == Set(v, p, WithMisc(v[p], v[p].misc \ {f}))
Gives(v, d, m)  == Set(v, d, WithMisc(WithGot(v[d], m), v[d].misc \cup {"DELIVERMSG"}))

LEMMA MiscIs ==
    ASSUME NEW k, NEW v, Sees(k, v), NEW p \in Procs
    PROVE  v[p].misc = k.proc[p].misc /\ k.proc[p].misc \in SUBSET MiscFlags
<1>1. v[p] = Mail(k.proc[p], k.priv[p]) /\ k.proc[p] \in Slots
  BY SeesFields
<1> QED
  BY <1>1 DEF Mail, MailOf, Slots

LEMMA SetMiscSees ==
    ASSUME NEW k, NEW v, Sees(k, v), NEW p \in Procs, NEW f \in MiscFlags
    PROVE  Sees(SetMisc(k, p, f), Marks(v, p, f))
<1>1. PICK x : x = k.proc[p].misc \cup {f}
  OBVIOUS
<1>2. x \in SUBSET MiscFlags /\ x = v[p].misc \cup {f}
  BY <1>1, MiscIs
<1>3. PICK k2 : k2 = [k EXCEPT !.proc[p].misc = x]
  OBVIOUS
<1>4. Sees(k2, Set(v, p, WithMisc(v[p], x)))
  BY <1>2, <1>3, MiscSees
<1>5. SetMisc(k, p, f) = k2
  BY <1>1, <1>3 DEF SetMisc
<1> QED
  BY <1>2, <1>4, <1>5 DEF Marks

LEMMA UnsetMiscSees ==
    ASSUME NEW k, NEW v, Sees(k, v), NEW p \in Procs, NEW f
    PROVE  Sees(UnsetMisc(k, p, f), Clears(v, p, f))
<1>1. PICK x : x = k.proc[p].misc \ {f}
  OBVIOUS
<1>2. x \in SUBSET MiscFlags /\ x = v[p].misc \ {f}
  BY <1>1, MiscIs
<1>3. PICK k2 : k2 = [k EXCEPT !.proc[p].misc = x]
  OBVIOUS
<1>4. Sees(k2, Set(v, p, WithMisc(v[p], x)))
  BY <1>2, <1>3, MiscSees
<1>5. UnsetMisc(k, p, f) = k2
  BY <1>1, <1>3 DEF UnsetMisc
<1> QED
  BY <1>2, <1>4, <1>5 DEF Clears

LEMMA DeliverSees ==
    ASSUME NEW k, NEW v, Sees(k, v), NEW d \in Procs, NEW m \in Messages,
           "DELIVERMSG" \notin v[d].misc
    PROVE  Sees(Deliver(k, d, m), Gives(v, d, m))
<1>1. PICK a : a = assert(k, ~ Misc(k, d, "DELIVERMSG"))
  OBVIOUS
<1>2. Misc(k, d, "DELIVERMSG") = FALSE
  BY MiscIs DEF Misc
<1>3. Sees(a, v)
  <2>1. PICK c : c = ~ Misc(k, d, "DELIVERMSG")
    OBVIOUS
  <2>2. c = TRUE
    BY <1>2, <2>1
  <2> QED
    BY <1>1, <2>1, <2>2, AssertSees
<1>4. PICK b : b = [a EXCEPT !.proc[d].delivermsg = m]
  OBVIOUS
<1>5. PICK w : w = Set(v, d, WithGot(v[d], m))
  OBVIOUS
<1>6. Sees(b, w)
  BY <1>3, <1>4, <1>5, GotSees
<1>7. PICK c : c = SetMisc(b, d, "DELIVERMSG")
  OBVIOUS
<1>8. Sees(c, Marks(w, d, "DELIVERMSG"))
  <2>1. "DELIVERMSG" \in MiscFlags
    BY DEF MiscFlags
  <2> QED
    BY <1>6, <1>7, <2>1, SetMiscSees
<1>9. Deliver(k, d, m) = c
  <2>0. a \in Kernels
    BY <1>3 DEF Sees
  <2>1. Deliver(k, d, m) = [a EXCEPT !.proc[d].delivermsg = m,
                                     !.proc[d].misc = @ \cup {"DELIVERMSG"}]
    BY <1>1 DEF Deliver
  <2>2. b.proc[d].misc = a.proc[d].misc
    BY <2>0, <1>4, KFields DEF Slots, Kernels
  <2>3. PICK x : x = a.proc[d].misc \cup {"DELIVERMSG"}
    OBVIOUS
  <2>4. c = [b EXCEPT !.proc[d].misc = x]
    BY <1>7, <2>2, <2>3 DEF SetMisc
  <2>5. Deliver(k, d, m) = [a EXCEPT !.proc[d].delivermsg = m, !.proc[d].misc = x]
    BY <2>1, <2>3, <2>0, KFields DEF Slots, Kernels
  <2> QED
    BY <1>4, <2>4, <2>5
<1>10. Marks(w, d, "DELIVERMSG") = Gives(v, d, m)
  <2>1. v \in Views /\ w \in Views
    BY <1>6, SeesFields
  <2>2. v[d] \in Mails
    BY <2>1 DEF Views
  <2>3. w[d] = WithGot(v[d], m)
    BY <1>5, <2>1 DEF Set, Views
  <2>4. w[d].misc = v[d].misc
    BY <2>3 DEF WithGot, MailOf
  <2>5. PICK r : r = WithMisc(WithGot(v[d], m), v[d].misc \cup {"DELIVERMSG"})
    OBVIOUS
  <2>6. Marks(w, d, "DELIVERMSG") = Set(Set(v, d, WithGot(v[d], m)), d, r)
    BY <1>5, <2>3, <2>4, <2>5 DEF Marks
  <2>7. Set(Set(v, d, WithGot(v[d], m)), d, r) = Set(v, d, r)
    BY <2>1 DEF Set, Views
  <2> QED
    BY <2>5, <2>6, <2>7 DEF Gives
<1> QED
  BY <1>8, <1>9, <1>10

-----------------------------------------------------------------------------
(* The tests of the kernel's functions.                                    *)
Sends(m) == "SENDING" \in m.block
Gets(m)  == "RECEIVING" \in m.block
Gone(m)  == "SLOT_FREE" \in m.block
Will(m, src) == Gets(m) /\ ~ Sends(m) /\ m.from \in {ANY, src}
On(m) == IF Sends(m) THEN m.to ELSE IF Gets(m) THEN m.from ELSE NULL

LinkOf(v) == [x \in Procs |-> v[x].link]

(* The entries of table t for d not done yet, and those of them that can   *)
(* be delivered.                                                           *)
Todo(t, d) == {i \in DOMAIN t : ~ t[i].done /\ t[i].dst = d}
Due(v, s, d) == {i \in Todo(v[s].table, d) : ~ (v[s].table[i].noreply /\ "REPLY_PEND" \in v[d].misc)}

LEMMA FieldsSeen ==
    ASSUME NEW k, NEW v, Sees(k, v), NEW x \in Procs
    PROVE  /\ v[x].misc = k.proc[x].misc /\ v[x].from = k.proc[x].getfrom
           /\ v[x].to = k.proc[x].sendto /\ v[x].what = k.proc[x].sendmsg
           /\ v[x].first = k.proc[x].caller_q /\ v[x].link = k.proc[x].q_link
           /\ v[x].got = k.proc[x].delivermsg
           /\ v[x].notes = k.priv[x].notify_pending /\ v[x].table = k.priv[x].asyntab
<1>1. v[x] = Mail(k.proc[x], k.priv[x])
  BY SeesFields
<1> QED
  BY <1>1 DEF Mail, MailOf

LEMMA FlagsSeen ==
    ASSUME NEW k, NEW v, Sees(k, v), NEW x \in Procs
    PROVE  /\ Flag(k, x, "SENDING") <=> Sends(v[x])
           /\ Flag(k, x, "RECEIVING") <=> Gets(v[x])
           /\ Flag(k, x, "SLOT_FREE") <=> Gone(v[x])
           /\ isempty(k, x) <=> Gone(v[x])
BY BlockIs DEF Flag, Sends, Gets, Gone, isempty, Blocks

LEMMA MiscSeen ==
    ASSUME NEW k, NEW v, Sees(k, v), NEW x \in Procs, NEW f
    PROVE  Misc(k, x, f) <=> f \in v[x].misc
BY MiscIs DEF Misc

LEMMA WillSeen ==
    ASSUME NEW k, NEW v, Sees(k, v), NEW d \in Procs, NEW src
    PROVE  WILLRECEIVE(k, d, src) <=> Will(v[d], src)
BY FlagsSeen, FieldsSeen DEF WILLRECEIVE, Will

LEMMA OnSeen ==
    ASSUME NEW k, NEW v, Sees(k, v), NEW x \in Procs
    PROVE  P_BLOCKEDON(k, x) = On(v[x])
BY FlagsSeen, FieldsSeen DEF P_BLOCKEDON, On

LEMMA CallersSeen ==
    ASSUME NEW k, NEW v, Sees(k, v), NEW d \in Procs
    PROVE  Callers(k, d) = Chain(v[d].first, LinkOf(v))
<1>1. \A x \in Procs : v[x].link = k.proc[x].q_link /\ v[x].first = k.proc[x].caller_q
  BY FieldsSeen
<1>2. LinkOf(v) = [x \in Procs |-> k.proc[x].q_link]
  BY <1>1 DEF LinkOf
<1> QED
  BY <1>1, <1>2 DEF Callers

LEMMA UndoneSeen ==
    ASSUME NEW k, NEW v, Sees(k, v), NEW s \in Procs, NEW d \in Procs
    PROVE  /\ Undone(k, s, d) = Todo(v[s].table, d)
           /\ Deliverable(k, s, d) = Due(v, s, d)
           /\ Postponed(k, s, d) = Todo(v[s].table, d) \ Due(v, s, d)
<1>1. PICK t : t = v[s].table
  OBVIOUS
<1>2. t = k.priv[s].asyntab
  BY <1>1, FieldsSeen
<1>3. Undone(k, s, d) = Todo(t, d)
  BY <1>2 DEF Undone, Todo
<1>4. Misc(k, d, "REPLY_PEND") <=> "REPLY_PEND" \in v[d].misc
  BY MiscSeen
<1>5. Postponed(k, s, d) = {i \in Todo(t, d) : t[i].noreply /\ "REPLY_PEND" \in v[d].misc}
  BY <1>2, <1>3, <1>4 DEF Postponed
<1>6. Due(v, s, d) = {i \in Todo(t, d) : ~ (t[i].noreply /\ "REPLY_PEND" \in v[d].misc)}
  BY <1>1 DEF Due
<1>7. Deliverable(k, s, d) = Undone(k, s, d) \ Postponed(k, s, d)
  BY DEF Deliverable
<1>8. Deliverable(k, s, d) = Due(v, s, d)
  BY <1>3, <1>5, <1>6, <1>7
<1>9. Postponed(k, s, d) = Todo(t, d) \ Due(v, s, d)
  BY <1>5, <1>6
<1> QED
  BY <1>1, <1>3, <1>8, <1>9

(* An entry of a table is done.                                            *)
Done(t, i) == [t EXCEPT ![i].done = TRUE]

Ticked(k, p, i, k2) == k2 = [k EXCEPT !.priv[p].asyntab[i].done = TRUE]

LEMMA EntrySees ==
    ASSUME NEW k, NEW v, Sees(k, v), NEW p \in Procs, NEW i, NEW k2, Ticked(k, p, i, k2)
    PROVE  Sees(k2, Set(v, p, WithTable(v[p], Done(v[p].table, i))))
<1>1. k.priv[p].asyntab = v[p].table
  BY FieldsSeen
<1>2. k.priv[p].asyntab \in Seq(Entries)
  BY KFields DEF Privs, Sees
<1>3. PICK t : t = [k.priv[p].asyntab EXCEPT ![i].done = TRUE]
  OBVIOUS
<1>4. t \in Seq(Entries)
  BY <1>2, <1>3, TableDone
<1>5. k2 = [k EXCEPT !.priv[p].asyntab = t]
  BY <1>3 DEF Ticked
<1>6. Sees(k2, Set(v, p, WithTable(v[p], t)))
  BY <1>4, <1>5, TableSees
<1>7. t = Done(v[p].table, i)
  BY <1>1, <1>3 DEF Done
<1> QED
  BY <1>6, <1>7

-----------------------------------------------------------------------------
(* The inductive invariant of message passing.  First what holds of each   *)
(* process on its own.                                                     *)
Open(m) == Gets(m) /\ ~ Sends(m) /\ m.from = ANY

MaySend(x, d) ==
    d \in Procs /\ d # x /\ (d = SCHED \/ \E call \in Waiting : <<call, x, d>> \in Calls)

MayGet(x, d) == d = ANY \/ \E call \in {"RECEIVE", "SENDREC"} : <<call, x, d>> \in Calls

Local(m, x) ==
    /\ Gone(m) => m.block = {"SLOT_FREE"} /\ x \in Mortal
    /\ x \notin System => m.table = <<>>
    /\ Sends(m) => MaySend(x, m.to)
    /\ Gets(m) => MayGet(x, m.from)
    /\ Sends(m) /\ Gets(m) => m.from = m.to
    /\ "DELIVERMSG" \in m.misc => ~ Sends(m) /\ ~ Gets(m)
    /\ Open(m) => m.notes = {} /\ "REPLY_PEND" \notin m.misc
    /\ "SIG_DELAY" \in m.misc => x \in Signalled /\ (Gone(m) \/ Sends(m))

(* Then what relates two of them: a sender waits for somebody who lives    *)
(* and does not wait for it, and the asynchronous messages for a process   *)
(* are marked there.  While senda runs for c, only the first n entries of  *)
(* its table have been looked at.                                          *)
Present(v) == \A x \in Procs : Sends(v[x]) => ~ Gone(v[v[x].to])

Meets(v) ==
    \A x \in Procs : \A d \in Procs :
        Sends(v[x]) /\ v[x].to = d /\ Gets(v[d]) /\ ~ Sends(v[d]) => v[d].from \notin {ANY, x}

Expects(m) == "ASYNMSG" \in m.misc /\ ~ Open(m)

Marked2(v, c, n) ==
    \A s \in System : ~ Gone(v[s]) =>
        \A i \in DOMAIN v[s].table :
            ~ v[s].table[i].done /\ (s = c => i <= n) => Expects(v[v[s].table[i].dst])

(* Who waits for whom has no circle: some rank decreases along it.         *)
Awaits(m) == IF On(m) = ANY THEN NULL ELSE On(m)

Ranks(v, r) ==
    /\ r \in [Procs -> Nat]
    /\ \A x \in Procs : Awaits(v[x]) # NULL => Awaits(v[x]) \in Procs /\ r[Awaits(v[x])] < r[x]

Ranked(v) == \E r : Ranks(v, r)

Apart(v, c, n) ==
    /\ v \in Views /\ \A x \in Procs : Local(v[x], x)
    /\ Present(v) /\ Meets(v) /\ Marked2(v, c, n) /\ Ranked(v)

(* And the queues of callers: that of d holds the processes of m that send *)
(* to d, and only those of m have links.  While g exits, its queue and its *)
(* link do not matter.                                                     *)
Waits(v, m, d, n, s) ==
    /\ List(n, s, v[d].first, LinkOf(v))
    /\ \A x \in Procs : Has(n, s, x) <=> x \in m /\ v[x].to = d

Queued(v, m, g) ==
    /\ \A d \in Procs : ~ Gone(v[d]) /\ d # g => \E n, s : Waits(v, m, d, n, s)
    /\ \A x \in Procs : ~ Gone(v[x]) /\ x # g /\ v[x].link # NULL => x \in m

Senders(v) == {x \in Procs : Sends(v[x])}

Fit(v, c, n, m, g) == Apart(v, c, n) /\ Queued(v, m, g)

Fine(v) == Fit(v, NULL, 0, Senders(v), NULL)

-----------------------------------------------------------------------------
(* A change of one process that makes nobody wait.                         *)
NoEntries(v, p) == \A s \in System : ~ Gone(v[s]) => Todo(v[s].table, p) = {}

Within(t, u) == \A i \in DOMAIN t : ~ t[i].done => i \in DOMAIN u /\ ~ u[i].done /\ t[i].dst = u[i].dst

SamePlace(m, r) == r.to = m.to /\ r.what = m.what /\ r.first = m.first /\ r.link = m.link

Mild(v, p, r) ==
    /\ r \in Mails /\ Local(r, p) /\ (Gone(r) <=> Gone(v[p])) /\ SamePlace(v[p], r)
    /\ Sends(r) => Sends(v[p])
    /\ Gets(r) /\ ~ Sends(r) => \/ Gets(v[p]) /\ ~ Sends(v[p]) /\ r.from = v[p].from
                                \/ r.from \in Procs /\ ~ Sends(v[r.from])
    /\ Awaits(r) \in {NULL, Awaits(v[p])}
    /\ "ASYNMSG" \in v[p].misc => "ASYNMSG" \in r.misc \/ NoEntries(v, p)
    /\ Within(r.table, v[p].table)

LEMMA AnyIs == ANY \notin Procs /\ ANY # NULL /\ ANY \notin Pointers
BY Constants DEF ANY, NULL, Pointers

LEMMA MildMeets ==
    ASSUME NEW v \in Views, NEW p \in Procs, NEW r, Mild(v, p, r), Present(v), Meets(v),
           \A x \in Procs : Local(v[x], x)
    PROVE  Present(Set(v, p, r)) /\ Meets(Set(v, p, r))
<1>1. PICK w : w = Set(v, p, r)
  OBVIOUS
<1>2. r \in Mails /\ \A x \in Procs : w[x] = IF x = p THEN r ELSE v[x]
  BY <1>1, SetIs DEF Mild
<1>3. \A x \in Procs : Sends(w[x]) => Sends(v[x]) /\ w[x].to = v[x].to /\ v[x].to \in Procs
  BY <1>2 DEF Mild, SamePlace, Local, MaySend
<1>4. \A x \in Procs : Gone(w[x]) <=> Gone(v[x])
  BY <1>2 DEF Mild
<1>5. Present(w)
  BY <1>3, <1>4 DEF Present
<1>6. Meets(w)
  <2> SUFFICES ASSUME NEW x \in Procs, NEW d \in Procs, Sends(w[x]), w[x].to = d,
                      Gets(w[d]), ~ Sends(w[d])
               PROVE  w[d].from \notin {ANY, x}
    BY DEF Meets
  <2>1. Sends(v[x]) /\ v[x].to = d
    BY <1>3
  <2>2. CASE d # p
    BY <1>2, <2>1, <2>2 DEF Meets
  <2>3. CASE d = p /\ Gets(v[p]) /\ ~ Sends(v[p]) /\ r.from = v[p].from
    BY <1>2, <2>1, <2>3 DEF Meets
  <2>4. CASE d = p /\ r.from \in Procs /\ ~ Sends(v[r.from])
    BY <1>2, <2>1, <2>4, AnyIs
  <2> QED
    BY <1>2, <2>2, <2>3, <2>4 DEF Mild
<1> QED
  BY <1>1, <1>5, <1>6

LEMMA MildMarked ==
    ASSUME NEW v \in Views, NEW p \in Procs, NEW r, Mild(v, p, r), NEW c, NEW n, Marked2(v, c, n)
    PROVE  Marked2(Set(v, p, r), c, n)
<1>1. PICK w : w = Set(v, p, r)
  OBVIOUS
<1>2. r \in Mails /\ \A x \in Procs : w[x] = IF x = p THEN r ELSE v[x]
  BY <1>1, SetIs DEF Mild
<1> SUFFICES ASSUME NEW s \in System, ~ Gone(w[s]), NEW i \in DOMAIN w[s].table,
                    ~ w[s].table[i].done, s = c => i <= n
             PROVE  Expects(w[w[s].table[i].dst])
  BY <1>1 DEF Marked2
<1>3. s \in Procs
  BY Constants
<1>4. /\ ~ Gone(v[s]) /\ i \in DOMAIN v[s].table /\ ~ v[s].table[i].done
      /\ w[s].table[i].dst = v[s].table[i].dst
  BY <1>2, <1>3 DEF Mild, Within
<1>5. PICK d : d = v[s].table[i].dst
  OBVIOUS
<1>6. Expects(v[d])
  BY <1>4, <1>5 DEF Marked2
<1>7. CASE d = p
  <2>1. ~ NoEntries(v, p)
    BY <1>4, <1>5, <1>7 DEF NoEntries, Todo
  <2>2. "ASYNMSG" \in r.misc
    BY <1>6, <1>7, <2>1 DEF Mild, Expects
  <2>3. Open(r) => Open(v[p])
    BY AnyIs DEF Mild, Open
  <2>4. w[d] = r
    BY <1>2, <1>7
  <2> QED
    BY <1>4, <1>5, <1>6, <1>7, <2>2, <2>3, <2>4 DEF Expects
<1>8. CASE d # p
  <2>1. d \in Procs
    <3>1. v[s] \in Mails
      BY <1>3 DEF Views
    <3>2. v[s].table \in Seq(Entries)
      BY <3>1 DEF Mails
    <3>3. v[s].table[i] \in Entries
      BY <1>4, <3>2
    <3> QED
      BY <1>5, <3>3 DEF Entries
  <2> QED
    BY <1>2, <1>4, <1>5, <1>6, <1>8, <2>1
<1> QED
  BY <1>7, <1>8

LEMMA MildRanked ==
    ASSUME NEW v \in Views, NEW p \in Procs, NEW r, Mild(v, p, r), Ranked(v)
    PROVE  Ranked(Set(v, p, r))
<1>1. PICK w : w = Set(v, p, r)
  OBVIOUS
<1>2. r \in Mails /\ \A x \in Procs : w[x] = IF x = p THEN r ELSE v[x]
  BY <1>1, SetIs DEF Mild
<1>3. \A x \in Procs : Awaits(w[x]) \in {NULL, Awaits(v[x])}
  BY <1>2 DEF Mild
<1>4. PICK f : Ranks(v, f)
  BY DEF Ranked
<1>5. Ranks(w, f)
  BY <1>3, <1>4 DEF Ranks
<1> QED
  BY <1>1, <1>5 DEF Ranked

LEMMA MildFit ==
    ASSUME NEW v, NEW p \in Procs, NEW r, NEW c, NEW n, NEW m, NEW g,
           Fit(v, c, n, m, g), Mild(v, p, r)
    PROVE  Fit(Set(v, p, r), c, n, m, g)
<1>1. PICK w : w = Set(v, p, r)
  OBVIOUS
<1>2. v \in Views /\ (\A x \in Procs : Local(v[x], x)) /\ Queued(v, m, g)
  BY DEF Fit, Apart
<1>3. r \in Mails /\ w \in Views /\ \A x \in Procs : w[x] = IF x = p THEN r ELSE v[x]
  BY <1>1, <1>2, SetIs DEF Mild
<1>4. \A x \in Procs : Local(w[x], x)
  BY <1>2, <1>3 DEF Mild
<1>5. Present(w) /\ Meets(w)
  BY <1>1, <1>2, MildMeets DEF Fit, Apart
<1>6. Marked2(w, c, n)
  BY <1>1, <1>2, MildMarked DEF Fit, Apart
<1>7. Ranked(w)
  BY <1>1, <1>2, MildRanked DEF Fit, Apart
<1>8. /\ \A x \in Procs : /\ w[x].first = v[x].first /\ w[x].link = v[x].link /\ w[x].to = v[x].to
                          /\ Gone(w[x]) <=> Gone(v[x])
      /\ LinkOf(w) = LinkOf(v)
  BY <1>3 DEF Mild, SamePlace, LinkOf
<1>9. \A d \in Procs : \A k, s : Waits(v, m, d, k, s) => Waits(w, m, d, k, s)
  BY <1>8 DEF Waits
<1>10. Queued(w, m, g)
  BY <1>2, <1>8, <1>9 DEF Queued
<1> QED
  BY <1>1, <1>3, <1>4, <1>5, <1>6, <1>7, <1>10 DEF Fit, Apart

(* The changes of this kind that the kernel makes.                         *)
LEMMA FitFields ==
    ASSUME NEW v, NEW c, NEW n, NEW m, NEW g, Fit(v, c, n, m, g)
    PROVE  /\ v \in Views /\ Present(v) /\ Meets(v) /\ Marked2(v, c, n) /\ Ranked(v)
           /\ Queued(v, m, g)
           /\ \A x \in Procs : v[x] \in Mails /\ Local(v[x], x)
BY DEF Fit, Apart, Views

LEMMA MarkFit ==
    ASSUME NEW v, NEW c, NEW n, NEW m, NEW g, Fit(v, c, n, m, g), NEW p \in Procs,
           NEW f \in MiscFlags \ {"DELIVERMSG"}, f = "REPLY_PEND" => ~ Open(v[p]),
           f = "SIG_DELAY" => p \in Signalled /\ (Gone(v[p]) \/ Sends(v[p]))
    PROVE  Fit(Marks(v, p, f), c, n, m, g)
<1>1. v[p] \in Mails /\ Local(v[p], p)
  BY FitFields
<1>2. PICK r : r = WithMisc(v[p], v[p].misc \cup {f})
  OBVIOUS
<1>3. /\ r.block = v[p].block /\ r.from = v[p].from /\ r.to = v[p].to /\ r.what = v[p].what
      /\ r.first = v[p].first /\ r.link = v[p].link /\ r.notes = v[p].notes
      /\ r.table = v[p].table /\ r.misc = v[p].misc \cup {f} /\ r \in Mails
  BY <1>1, <1>2 DEF WithMisc, MailOf, Mails
<1>4. Local(r, p)
  BY <1>1, <1>3 DEF Local, Sends, Gets, Gone, Open
<1>5. Mild(v, p, r)
  BY <1>3, <1>4 DEF Mild, SamePlace, Sends, Gets, Gone, Awaits, On, Within
<1> QED
  BY <1>2, <1>5, MildFit DEF Marks

LEMMA ClearFit ==
    ASSUME NEW v, NEW c, NEW n, NEW m, NEW g, Fit(v, c, n, m, g), NEW p \in Procs,
           NEW f, f = "ASYNMSG" => NoEntries(v, p)
    PROVE  Fit(Clears(v, p, f), c, n, m, g)
<1>1. v[p] \in Mails /\ Local(v[p], p)
  BY FitFields
<1>2. PICK r : r = WithMisc(v[p], v[p].misc \ {f})
  OBVIOUS
<1>3. /\ r.block = v[p].block /\ r.from = v[p].from /\ r.to = v[p].to /\ r.what = v[p].what
      /\ r.first = v[p].first /\ r.link = v[p].link /\ r.notes = v[p].notes
      /\ r.table = v[p].table /\ r.misc = v[p].misc \ {f} /\ r \in Mails
  BY <1>1, <1>2 DEF WithMisc, MailOf, Mails
<1>4. Local(r, p)
  BY <1>1, <1>3 DEF Local, Sends, Gets, Gone, Open
<1>5. Mild(v, p, r)
  BY <1>3, <1>4 DEF Mild, SamePlace, Sends, Gets, Gone, Awaits, On, Within
<1> QED
  BY <1>2, <1>5, MildFit DEF Clears

LEMMA NotesFit ==
    ASSUME NEW v, NEW c, NEW n, NEW m, NEW g, Fit(v, c, n, m, g), NEW p \in Procs,
           NEW x \in SUBSET Pointers, Open(v[p]) => x = {}
    PROVE  Fit(Set(v, p, WithNotes(v[p], x)), c, n, m, g)
<1>1. v[p] \in Mails /\ Local(v[p], p)
  BY FitFields
<1>2. PICK r : r = WithNotes(v[p], x)
  OBVIOUS
<1>3. /\ r.block = v[p].block /\ r.from = v[p].from /\ r.to = v[p].to /\ r.what = v[p].what
      /\ r.first = v[p].first /\ r.link = v[p].link /\ r.notes = x
      /\ r.table = v[p].table /\ r.misc = v[p].misc /\ r \in Mails
  BY <1>1, <1>2 DEF WithNotes, MailOf, Mails
<1>4. Local(r, p)
  BY <1>1, <1>3 DEF Local, Sends, Gets, Gone, Open
<1>5. Mild(v, p, r)
  BY <1>3, <1>4 DEF Mild, SamePlace, Sends, Gets, Gone, Awaits, On, Within
<1> QED
  BY <1>2, <1>5, MildFit

LEMMA TableFit ==
    ASSUME NEW v, NEW c, NEW n, NEW m, NEW g, Fit(v, c, n, m, g), NEW p \in Procs,
           NEW t \in Seq(Entries), Within(t, v[p].table), p \notin System => t = <<>>
    PROVE  Fit(Set(v, p, WithTable(v[p], t)), c, n, m, g)
<1>1. v[p] \in Mails /\ Local(v[p], p)
  BY FitFields
<1>2. PICK r : r = WithTable(v[p], t)
  OBVIOUS
<1>3. /\ r.block = v[p].block /\ r.from = v[p].from /\ r.to = v[p].to /\ r.what = v[p].what
      /\ r.first = v[p].first /\ r.link = v[p].link /\ r.notes = v[p].notes
      /\ r.table = t /\ r.misc = v[p].misc /\ r \in Mails
  BY <1>1, <1>2 DEF WithTable, MailOf, Mails
<1>4. Local(r, p)
  BY <1>1, <1>3 DEF Local, Sends, Gets, Gone, Open
<1>5. Mild(v, p, r)
  BY <1>3, <1>4 DEF Mild, SamePlace, Sends, Gets, Gone, Awaits, On
<1> QED
  BY <1>2, <1>5, MildFit

LEMMA GivesFit ==
    ASSUME NEW v, NEW c, NEW n, NEW m, NEW g, Fit(v, c, n, m, g), NEW p \in Procs,
           NEW x \in Messages, ~ Sends(v[p]), ~ Gets(v[p])
    PROVE  Fit(Gives(v, p, x), c, n, m, g)
<1>1. v[p] \in Mails /\ Local(v[p], p)
  BY FitFields
<1>2. PICK r : r = WithMisc(WithGot(v[p], x), v[p].misc \cup {"DELIVERMSG"})
  OBVIOUS
<1>3. /\ r.block = v[p].block /\ r.from = v[p].from /\ r.to = v[p].to /\ r.what = v[p].what
      /\ r.first = v[p].first /\ r.link = v[p].link /\ r.notes = v[p].notes
      /\ r.table = v[p].table /\ r.misc = v[p].misc \cup {"DELIVERMSG"} /\ r \in Mails
  BY <1>1, <1>2 DEF WithMisc, WithGot, MailOf, Mails, MiscFlags
<1>4. Local(r, p)
  BY <1>1, <1>3 DEF Local, Sends, Gets, Gone, Open
<1>5. Mild(v, p, r)
  BY <1>3, <1>4 DEF Mild, SamePlace, Sends, Gets, Gone, Awaits, On, Within
<1> QED
  BY <1>2, <1>5, MildFit DEF Gives

(* A process that receives is given a message.                             *)
Takes(v, d, x) == Unblocked(Gives(v, d, x), d, {"RECEIVING"})

LEMMA TakesIs ==
    ASSUME NEW v \in Views, NEW d \in Procs, NEW x \in Messages
    PROVE  Takes(v, d, x) =
              Set(v, d, MailOf(v[d].block \ {"RECEIVING"}, v[d].misc \cup {"DELIVERMSG"},
                               v[d].from, v[d].to, v[d].what, v[d].first, v[d].link, x,
                               v[d].notes, v[d].table))
<1>1. PICK a, b, r : /\ a = WithMisc(WithGot(v[d], x), v[d].misc \cup {"DELIVERMSG"})
                     /\ b = WithBlock(a, a.block \ {"RECEIVING"})
                     /\ r = MailOf(v[d].block \ {"RECEIVING"}, v[d].misc \cup {"DELIVERMSG"},
                               v[d].from, v[d].to, v[d].what, v[d].first, v[d].link, x,
                               v[d].notes, v[d].table)
  OBVIOUS
<1>2. v[d] \in Mails
  BY DEF Views
<1>3. a \in Mails
  BY <1>1, <1>2 DEF WithMisc, WithGot, MailOf, Mails, MiscFlags
<1>4. b = r /\ r \in Mails
  BY <1>1, <1>2 DEF WithBlock, WithMisc, WithGot, MailOf, Mails, MiscFlags
<1>5. Gives(v, d, x) = Set(v, d, a) /\ Set(v, d, a)[d] = a
  BY <1>1, <1>3, SetIs DEF Gives
<1>6. Takes(v, d, x) = Set(Set(v, d, a), d, b)
  BY <1>1, <1>5 DEF Takes, Unblocked
<1>7. Set(Set(v, d, a), d, b) = Set(v, d, b)
  BY <1>3, <1>4, SetTwice
<1> QED
  BY <1>1, <1>4, <1>6, <1>7

LEMMA TakesFit ==
    ASSUME NEW v, NEW c, NEW n, NEW m, NEW g, Fit(v, c, n, m, g), NEW d \in Procs,
           NEW x \in Messages, ~ Sends(v[d])
    PROVE  Fit(Takes(v, d, x), c, n, m, g)
<1>1. v[d] \in Mails /\ Local(v[d], d) /\ v \in Views
  BY FitFields
<1>2. PICK r : r = MailOf(v[d].block \ {"RECEIVING"}, v[d].misc \cup {"DELIVERMSG"},
                          v[d].from, v[d].to, v[d].what, v[d].first, v[d].link, x,
                          v[d].notes, v[d].table)
  OBVIOUS
<1>3. /\ r.block = v[d].block \ {"RECEIVING"} /\ r.from = v[d].from /\ r.to = v[d].to
      /\ r.first = v[d].first /\ r.link = v[d].link /\ r.notes = v[d].notes
      /\ r.what = v[d].what
      /\ r.table = v[d].table /\ r.misc = v[d].misc \cup {"DELIVERMSG"} /\ r \in Mails
  BY <1>1, <1>2 DEF MailOf, Mails, MiscFlags
<1>4. Local(r, d)
  BY <1>1, <1>3 DEF Local, Sends, Gets, Gone, Open
<1>5. Mild(v, d, r)
  BY <1>3, <1>4 DEF Mild, SamePlace, Sends, Gets, Gone, Awaits, On, Within
<1> QED
  BY <1>1, <1>2, <1>5, MildFit, TakesIs

(* A sender is released: its receiver does not send itself, or the two     *)
(* wait for nothing any more.                                              *)
Released(m, block) ==
    MailOf(block, m.misc \ {"SIG_DELAY"}, m.from, m.to, m.what, m.first, m.link, m.got,
           m.notes, m.table)

LEMMA ReleasedFit ==
    ASSUME NEW v, NEW c, NEW n, NEW m, NEW g, Fit(v, c, n, m, g), NEW p \in Procs,
           NEW b, b = v[p].block \ {"SENDING"} \/ b = v[p].block \ {"SENDING", "RECEIVING"},
           Sends(v[p]), ~ Sends(v[v[p].to])
    PROVE  Fit(Set(v, p, Released(v[p], b)), c, n, m, g)
<1>1. v[p] \in Mails /\ Local(v[p], p) /\ v[p].to \in Procs
  BY FitFields DEF Local, MaySend
<1>2. PICK r : r = Released(v[p], b)
  OBVIOUS
<1>3. /\ r.block = b /\ r.from = v[p].from /\ r.to = v[p].to /\ r.what = v[p].what
      /\ r.first = v[p].first /\ r.link = v[p].link /\ r.notes = v[p].notes
      /\ r.table = v[p].table /\ r.misc = v[p].misc \ {"SIG_DELAY"} /\ r \in Mails
  BY <1>1, <1>2 DEF Released, MailOf, Mails
<1>4. Gets(r) => r.from = v[p].to
  BY <1>1, <1>3 DEF Local, Sends, Gets
<1>5. ~ Sends(r)
  BY <1>3 DEF Sends
<1>6. Local(r, p)
  BY <1>1, <1>3, <1>4, <1>5, AnyIs DEF Local, Sends, Gets, Gone, Open
<1>7. Awaits(r) \in {NULL, Awaits(v[p])}
  BY <1>1, <1>4, <1>5, AnyIs DEF Awaits, On
<1>8. Mild(v, p, r)
  BY <1>1, <1>3, <1>4, <1>5, <1>6, <1>7 DEF Mild, SamePlace, Gets, Gone, Within
<1> QED
  BY <1>2, <1>8, MildFit

(* The message is copied to a process that runs again.                     *)
Copied(m) ==
    MailOf(m.block, m.misc \ {"DELIVERMSG"}, m.from, m.to, m.what, m.first, m.link, NoMessage,
           m.notes, m.table)

LEMMA CopiedFit ==
    ASSUME NEW v, NEW c, NEW n, NEW m, NEW g, Fit(v, c, n, m, g), NEW p \in Procs
    PROVE  Fit(Set(v, p, Copied(v[p])), c, n, m, g)
<1>1. v[p] \in Mails /\ Local(v[p], p)
  BY FitFields
<1>2. PICK r : r = Copied(v[p])
  OBVIOUS
<1>3. NoMessage \in Messages
  BY DEF NoMessage, Message, Messages, Types, Pointers
<1>4. /\ r.block = v[p].block /\ r.from = v[p].from /\ r.to = v[p].to /\ r.what = v[p].what
      /\ r.first = v[p].first /\ r.link = v[p].link /\ r.notes = v[p].notes
      /\ r.table = v[p].table /\ r.misc = v[p].misc \ {"DELIVERMSG"} /\ r \in Mails
  BY <1>1, <1>2, <1>3 DEF Copied, MailOf, Mails
<1>5. Local(r, p)
  BY <1>1, <1>4 DEF Local, Sends, Gets, Gone, Open
<1>6. Mild(v, p, r)
  BY <1>4, <1>5 DEF Mild, SamePlace, Sends, Gets, Gone, Awaits, On, Within
<1> QED
  BY <1>2, <1>6, MildFit

-----------------------------------------------------------------------------
(* Steps that release nobody who sends, and leave alone who does not       *)
(* receive.                                                                *)
Stays(v, v2) ==
    \A x \in Procs :
        /\ Sends(v2[x]) <=> Sends(v[x])
        /\ Gone(v2[x]) <=> Gone(v[x])
        /\ SamePlace(v[x], v2[x])

Alike(m, m2) == m2.block = m.block /\ m2.misc = m.misc /\ m2.got = m.got

Spares(v, v2) == \A x \in Procs : ~ Gets(v[x]) => Alike(v[x], v2[x])

LEMMA StaysTwice ==
    ASSUME NEW u, NEW v, NEW w, Stays(u, v), Stays(v, w)
    PROVE  Stays(u, w)
BY DEF Stays, SamePlace

LEMMA StaysSelf == ASSUME NEW v PROVE Stays(v, v) /\ Spares(v, v)
BY DEF Stays, SamePlace, Spares, Alike

LEMMA StaysSame ==
    ASSUME NEW v, NEW v2, Stays(v, v2)
    PROVE  Senders(v2) = Senders(v) /\ LinkOf(v2) = LinkOf(v)
BY DEF Stays, Senders, SamePlace, LinkOf

LEMMA SetStays ==
    ASSUME NEW v \in Views, NEW p \in Procs, NEW r \in Mails,
           Sends(r) <=> Sends(v[p]), Gone(r) <=> Gone(v[p]), SamePlace(v[p], r)
    PROVE  Stays(v, Set(v, p, r))
<1>1. \A x \in Procs : Set(v, p, r)[x] = IF x = p THEN r ELSE v[x]
  BY SetIs
<1> QED
  BY <1>1 DEF Stays, SamePlace

LEMMA SetSpares ==
    ASSUME NEW v \in Views, NEW p \in Procs, NEW r \in Mails, ~ Gets(v[p]) => Alike(v[p], r)
    PROVE  Spares(v, Set(v, p, r))
<1>1. \A x \in Procs : Set(v, p, r)[x] = IF x = p THEN r ELSE v[x]
  BY SetIs
<1> QED
  BY <1>1 DEF Spares, Alike

LEMMA TakesStays ==
    ASSUME NEW v \in Views, NEW d \in Procs, NEW x \in Messages
    PROVE  /\ Stays(v, Takes(v, d, x)) /\ (Gets(v[d]) => Spares(v, Takes(v, d, x)))
           /\ \A y \in Procs \ {d} : Takes(v, d, x)[y] = v[y]
<1>1. v[d] \in Mails
  BY DEF Views
<1>2. PICK r : r = MailOf(v[d].block \ {"RECEIVING"}, v[d].misc \cup {"DELIVERMSG"},
                          v[d].from, v[d].to, v[d].what, v[d].first, v[d].link, x,
                          v[d].notes, v[d].table)
  OBVIOUS
<1>3. /\ r.block = v[d].block \ {"RECEIVING"} /\ r.to = v[d].to /\ r.what = v[d].what
      /\ r.first = v[d].first /\ r.link = v[d].link /\ r \in Mails
  BY <1>1, <1>2 DEF MailOf, Mails, MiscFlags
<1>4. Takes(v, d, x) = Set(v, d, r)
  BY <1>2, TakesIs
<1>5. Stays(v, Set(v, d, r))
  BY <1>3, SetStays DEF SamePlace, Sends, Gone
<1>6. Gets(v[d]) => Spares(v, Set(v, d, r))
  BY <1>3, SetSpares
<1>7. \A y \in Procs \ {d} : Set(v, d, r)[y] = v[y]
  BY <1>3, SetIs
<1> QED
  BY <1>4, <1>5, <1>6, <1>7

LEMMA NotesStay ==
    ASSUME NEW v \in Views, NEW p \in Procs, NEW x \in SUBSET Pointers
    PROVE  /\ Stays(v, Set(v, p, WithNotes(v[p], x))) /\ Spares(v, Set(v, p, WithNotes(v[p], x)))
<1>1. PICK r : r = WithNotes(v[p], x)
  OBVIOUS
<1>2. v[p] \in Mails
  BY DEF Views
<1>3. /\ r.block = v[p].block /\ r.misc = v[p].misc /\ r.got = v[p].got /\ r.to = v[p].to
      /\ r.what = v[p].what /\ r.first = v[p].first /\ r.link = v[p].link /\ r \in Mails
  BY <1>1, <1>2 DEF WithNotes, MailOf, Mails
<1>4. Stays(v, Set(v, p, r))
  BY <1>3, SetStays DEF SamePlace, Sends, Gone
<1>5. Spares(v, Set(v, p, r))
  BY <1>3, SetSpares DEF Alike
<1> QED
  BY <1>1, <1>4, <1>5

Eases(v, k2, v2, c, n, m, g) == Sees(k2, v2) /\ Fit(v2, c, n, m, g) /\ Stays(v, v2)

Notified(v, k2, c, n, m, g) ==
    \E v2 : Eases(v, k2, v2, c, n, m, g) /\ Spares(v, v2)

(* A message for a process that waits for it.                              *)
LEMMA TakesSees ==
    ASSUME NEW k, NEW v, Sees(k, v), NEW c, NEW n, NEW m, NEW g, Fit(v, c, n, m, g),
           NEW d \in Procs, NEW x \in Messages, Gets(v[d]), ~ Sends(v[d]),
           NEW k2, k2 = RTS_UNSET(Deliver(k, d, x), d, {"RECEIVING"})
    PROVE  Eases(v, k2, Takes(v, d, x), c, n, m, g)
<1>1. v \in Views /\ "DELIVERMSG" \notin v[d].misc
  BY FitFields DEF Local
<1>2. PICK a : a = Deliver(k, d, x)
  OBVIOUS
<1>3. Sees(a, Gives(v, d, x))
  BY <1>1, <1>2, DeliverSees
<1>4. Sees(RTS_UNSET(a, d, {"RECEIVING"}), Takes(v, d, x))
  BY <1>3, RtsUnsetSees DEF Takes
<1>5. Fit(Takes(v, d, x), c, n, m, g)
  BY TakesFit
<1>6. Stays(v, Takes(v, d, x))
  BY <1>1, TakesStays
<1> QED
  BY <1>2, <1>4, <1>5, <1>6 DEF Eases

LEMMA NotifyMails ==
    ASSUME NEW k, NEW v, Sees(k, v), NEW c, NEW n, NEW m, NEW g, Fit(v, c, n, m, g),
           NEW d \in Procs, NEW src \in Pointers
    PROVE  Notified(v, mini_notify(k, src, d), c, n, m, g)
<1>1. v \in Views /\ v[d] \in Mails /\ Local(v[d], d)
  BY FitFields
<1>2. PICK will : will = (WILLRECEIVE(k, d, src) /\ ~ Misc(k, d, "REPLY_PEND"))
  OBVIOUS
<1>3. will <=> Will(v[d], src) /\ "REPLY_PEND" \notin v[d].misc
  BY <1>2, WillSeen, MiscSeen
<1>4. PICK x : x = Message(src, "NOTIFY")
  OBVIOUS
<1>5. x \in Messages
  BY <1>4, MessageIn DEF Types
<1>6. CASE will
  <2>1. mini_notify(k, src, d) = RTS_UNSET(Deliver(k, d, x), d, {"RECEIVING"})
    BY <1>2, <1>4, <1>6 DEF mini_notify
  <2>2. Gets(v[d]) /\ ~ Sends(v[d])
    BY <1>3, <1>6 DEF Will
  <2>3. Eases(v, mini_notify(k, src, d), Takes(v, d, x), c, n, m, g)
    BY <1>5, <2>1, <2>2, TakesSees
  <2>4. Spares(v, Takes(v, d, x))
    BY <1>1, <1>5, <2>2, TakesStays
  <2> QED
    BY <2>3, <2>4 DEF Notified
<1>7. CASE ~ will
  <2>1. PICK y : y = v[d].notes \cup {src}
    OBVIOUS
  <2>2. y \in SUBSET Pointers
    BY <1>1, <2>1 DEF Mails
  <2>3. PICK k2 : k2 = [k EXCEPT !.priv[d].notify_pending = y]
    OBVIOUS
  <2>4. mini_notify(k, src, d) = k2
    <3>1. k.priv[d].notify_pending \cup {src} = y
      BY <2>1, FieldsSeen
    <3> QED
      BY <1>2, <1>7, <2>3, <3>1 DEF mini_notify
  <2>5. Sees(k2, Set(v, d, WithNotes(v[d], y)))
    BY <2>2, <2>3, NotesSees
  <2>6. ~ Open(v[d])
    BY <1>1, <1>3, <1>7 DEF Open, Will, Local
  <2>7. Fit(Set(v, d, WithNotes(v[d], y)), c, n, m, g)
    BY <2>2, <2>6, NotesFit
  <2>8. /\ Stays(v, Set(v, d, WithNotes(v[d], y)))
        /\ Spares(v, Set(v, d, WithNotes(v[d], y)))
    BY <1>1, <2>2, NotesStay
  <2> QED
    BY <2>4, <2>5, <2>7, <2>8 DEF Notified, Eases
<1> QED
  BY <1>6, <1>7

LEMMA SignalMails ==
    ASSUME NEW k, NEW v, Sees(k, v), NEW c, NEW n, NEW m, NEW g, Fit(v, c, n, m, g),
           NEW p \in Procs
    PROVE  Notified(v, cause_sig(k, p), c, n, m, g)
<1>1. PICK flags : flags = {"SIGNALED", "SIG_PENDING"}
  OBVIOUS
<1>2. flags \in SUBSET Flags /\ flags \cap Blocks = {}
  BY <1>1 DEF Flags, Blocks
<1>3. PICK a : a = RTS_SET(k, p, flags)
  OBVIOUS
<1>4. Sees(a, v)
  BY <1>2, <1>3, RtsSetUnseen
<1>5. PM \in Procs /\ HARDWARE \in Pointers
  BY Constants DEF HARDWARE, NULL
<1>6. Notified(v, mini_notify(a, HARDWARE, PM), c, n, m, g)
  BY <1>4, <1>5, NotifyMails
<1>7. cause_sig(k, p) = IF Flag(k, p, "SIGNALED") THEN k ELSE mini_notify(a, HARDWARE, PM)
  BY <1>1, <1>3 DEF cause_sig
<1>8. Notified(v, k, c, n, m, g)
  BY StaysSelf DEF Notified, Eases
<1> QED
  BY <1>6, <1>7, <1>8

-----------------------------------------------------------------------------
(* The queues of callers.                                                  *)
SameMail(m, m2) ==
    /\ m2.block = m.block /\ m2.misc = m.misc /\ m2.from = m.from /\ m2.to = m.to
    /\ m2.what = m.what /\ m2.got = m.got /\ m2.notes = m.notes /\ m2.table = m.table

LEMMA LinksIn ==
    ASSUME NEW v \in Views
    PROVE  /\ LinkOf(v) \in [Procs -> Pointers]
           /\ \A x \in Procs : /\ v[x] \in Mails /\ LinkOf(v)[x] = v[x].link
                               /\ v[x].link \in Pointers /\ v[x].first \in Pointers
<1>1. \A x \in Procs : v[x] \in Mails
  BY DEF Views
<1>2. \A x \in Procs : v[x].link \in Pointers /\ v[x].first \in Pointers
  BY <1>1 DEF Mails
<1> QED
  BY <1>1, <1>2 DEF LinkOf

LEMMA PlacesApart ==
    ASSUME NEW v, NEW c, NEW n, Apart(v, c, n), NEW w \in Views,
           \A x \in Procs : SameMail(v[x], w[x])
    PROVE  Apart(w, c, n)
<1>1. \A x \in Procs : /\ Sends(w[x]) <=> Sends(v[x])
                       /\ Gets(w[x]) <=> Gets(v[x])
                       /\ Gone(w[x]) <=> Gone(v[x])
                       /\ Open(w[x]) <=> Open(v[x])
                       /\ Awaits(w[x]) = Awaits(v[x])
                       /\ w[x].to = v[x].to /\ w[x].from = v[x].from /\ w[x].table = v[x].table
                       /\ w[x].misc = v[x].misc /\ w[x].block = v[x].block
                       /\ w[x].notes = v[x].notes
  BY DEF SameMail, Sends, Gets, Gone, Open, Awaits, On
<1>2. \A x \in Procs : Local(v[x], x)
  BY DEF Apart
<1>3. \A x \in Procs : Local(w[x], x)
  BY <1>1, <1>2 DEF Local
<1>4. Present(w)
  <2>1. Present(v)
    BY DEF Apart
  <2>2. \A x \in Procs : Sends(v[x]) => v[x].to \in Procs
    BY <1>2 DEF Local, MaySend
  <2> QED
    BY <1>1, <2>1, <2>2 DEF Present
<1>5. Meets(w)
  BY <1>1 DEF Apart, Meets
<1>6. Marked2(w, c, n)
  <2> SUFFICES ASSUME NEW s \in System, ~ Gone(w[s]), NEW i \in DOMAIN w[s].table,
                      ~ w[s].table[i].done, s = c => i <= n
               PROVE  Expects(w[w[s].table[i].dst])
    BY DEF Marked2
  <2>1. s \in Procs
    BY Constants
  <2>2. /\ ~ Gone(v[s]) /\ i \in DOMAIN v[s].table /\ ~ v[s].table[i].done
        /\ w[s].table[i].dst = v[s].table[i].dst
    BY <1>1, <2>1
  <2>3. PICK d : d = v[s].table[i].dst
    OBVIOUS
  <2>4. Expects(v[d])
    BY <2>2, <2>3 DEF Marked2, Apart
  <2>5. d \in Procs
    <3>1. v[s] \in Mails
      BY <2>1 DEF Views, Apart
    <3>2. v[s].table \in Seq(Entries)
      BY <3>1 DEF Mails
    <3>3. v[s].table[i] \in Entries
      BY <2>2, <3>2
    <3> QED
      BY <2>3, <3>3 DEF Entries
  <2> QED
    BY <1>1, <2>2, <2>3, <2>4, <2>5 DEF Expects
<1>7. Ranked(w)
  BY <1>1 DEF Apart, Ranked, Ranks
<1> QED
  BY <1>3, <1>4, <1>5, <1>6, <1>7 DEF Apart

(* The queue of d as the kernel follows it.                                *)
Walks(k, v, m, d, n, s) ==
    /\ Callers(k, d) = s /\ n \in Nat /\ s \in [1 .. n -> Procs] /\ s \in Seq(Procs)
    /\ Len(s) = n /\ \A i \in 1 .. n : s[i] \in m /\ v[s[i]].to = d
    /\ \A i, j \in 1 .. n : s[i] = s[j] => i = j

LEMMA WaitsAre ==
    ASSUME NEW k, NEW v, Sees(k, v), NEW m, NEW d \in Procs, NEW n, NEW s, Waits(v, m, d, n, s)
    PROVE  Walks(k, v, m, d, n, s)
<1>1. v \in Views /\ List(n, s, v[d].first, LinkOf(v))
  BY SeesFields DEF Waits
<1>2. LinkOf(v) \in [Procs -> Pointers]
  BY <1>1, LinksIn
<1>3. Chain(v[d].first, LinkOf(v)) = s
  BY <1>1, <1>2, ChainList
<1>4. Callers(k, d) = s
  BY <1>3, CallersSeen
<1>5. /\ n \in Nat /\ s \in [1 .. n -> Procs]
      /\ \A i, j \in 1 .. n : s[i] = s[j] => i = j
  BY <1>1 DEF List
<1>6. s \in Seq(Procs) /\ Len(s) = n
  BY <1>5, AsSequence
<1>7. \A i \in 1 .. n : s[i] \in Procs /\ Has(n, s, s[i])
  BY <1>5 DEF Has
<1>8. \A i \in 1 .. n : s[i] \in m /\ v[s[i]].to = d
  BY <1>7 DEF Waits
<1> QED
  BY <1>4, <1>5, <1>6, <1>8 DEF Walks

(* The i-th process of the queue s of d leaves it.                         *)
Cut(v, d, s, i) ==
    IF i = 1 THEN Set(v, d, WithFirst(v[d], v[s[i]].link))
             ELSE Set(v, s[i - 1], WithLink(v[s[i - 1]], v[s[i]].link))

IsCut(v, d, s, i, w) ==
    /\ w \in Views /\ \A x \in Procs : SameMail(v[x], w[x])
    /\ \A x \in Procs :
          /\ w[x].first = IF i = 1 /\ x = d THEN v[s[i]].link ELSE v[x].first
          /\ w[x].link = IF i # 1 /\ x = s[i - 1] THEN v[s[i]].link ELSE v[x].link

LEMMA CutSees ==
    ASSUME NEW k, NEW v, Sees(k, v), NEW m, NEW d \in Procs, NEW n, NEW s, Waits(v, m, d, n, s),
           NEW i \in 1 .. n
    PROVE  Sees(RemoveCaller(k, d, i), Cut(v, d, s, i)) /\ IsCut(v, d, s, i, Cut(v, d, s, i))
<1>0. Walks(k, v, m, d, n, s)
  BY WaitsAre
<1>1. Callers(k, d) = s /\ n \in Nat /\ s \in [1 .. n -> Procs]
  BY <1>0 DEF Walks
<1>2. v \in Views
  BY SeesFields
<1>3. s[i] \in Procs /\ (i # 1 => s[i - 1] \in Procs)
  <2>1. i # 1 => i - 1 \in 1 .. n
    BY <1>1
  <2> QED
    BY <1>1, <2>1
<1>4. PICK next \in Pointers : next = v[s[i]].link
  BY <1>2, <1>3, LinksIn
<1>5. k.proc[s[i]].q_link = next
  BY <1>3, <1>4, FieldsSeen
<1>6. CASE i = 1
  <2>1. PICK k2 : k2 = [k EXCEPT !.proc[d].caller_q = next]
    OBVIOUS
  <2>2. RemoveCaller(k, d, i) = k2
    BY <1>1, <1>5, <1>6, <2>1 DEF RemoveCaller
  <2>3. PICK r : r = WithFirst(v[d], next)
    OBVIOUS
  <2>4. Sees(k2, Set(v, d, r))
    BY <2>1, <2>3, FirstSees
  <2>5. Cut(v, d, s, i) = Set(v, d, r)
    BY <1>4, <1>6, <2>3 DEF Cut
  <2>6. v[d] \in Mails
    BY <1>2, LinksIn
  <2>7. r \in Mails /\ SameMail(v[d], r) /\ r.first = next /\ r.link = v[d].link
    BY <2>3, <2>6 DEF WithFirst, MailOf, Mails, SameMail
  <2>8. PICK w : w = Set(v, d, r)
    OBVIOUS
  <2>9. w \in Views /\ \A x \in Procs : w[x] = IF x = d THEN r ELSE v[x]
    BY <1>2, <2>7, <2>8, SetIs
  <2>10. IsCut(v, d, s, i, w)
    BY <1>4, <1>6, <2>7, <2>9 DEF IsCut, SameMail
  <2> QED
    BY <2>2, <2>4, <2>5, <2>8, <2>10
<1>7. CASE i # 1
  <2>0. PICK q \in Procs : q = s[i - 1]
    BY <1>3, <1>7
  <2>1. PICK k2 : k2 = [k EXCEPT !.proc[q].q_link = next]
    OBVIOUS
  <2>2. RemoveCaller(k, d, i) = k2
    BY <1>1, <1>5, <1>7, <2>0, <2>1 DEF RemoveCaller
  <2>3. PICK r : r = WithLink(v[q], next)
    OBVIOUS
  <2>4. Sees(k2, Set(v, q, r))
    BY <2>1, <2>3, LinkSees
  <2>5. Cut(v, d, s, i) = Set(v, q, r)
    BY <1>4, <1>7, <2>0, <2>3 DEF Cut
  <2>6. v[q] \in Mails
    BY <1>2, LinksIn
  <2>7. r \in Mails /\ SameMail(v[q], r) /\ r.link = next /\ r.first = v[q].first
    BY <2>3, <2>6 DEF WithLink, MailOf, Mails, SameMail
  <2>8. PICK w : w = Set(v, q, r)
    OBVIOUS
  <2>9. w \in Views /\ \A x \in Procs : w[x] = IF x = q THEN r ELSE v[x]
    BY <1>2, <2>7, <2>8, SetIs
  <2>10. IsCut(v, d, s, i, w)
    BY <1>4, <1>7, <2>0, <2>7, <2>9 DEF IsCut, SameMail
  <2> QED
    BY <2>2, <2>4, <2>5, <2>8, <2>10
<1> QED
  BY <1>6, <1>7

(* What is left are the queues without it.                                 *)
Unqueued(v, d, s, i, w) ==
    /\ \A x \in Procs : /\ w[x].to = v[x].to
                        /\ Gone(w[x]) <=> Gone(v[x])
                        /\ w[x].first = IF i = 1 /\ x = d THEN v[s[i]].link ELSE v[x].first
    /\ \A x \in Procs \ {s[i]} :
          w[x].link = IF i # 1 /\ x = s[i - 1] THEN v[s[i]].link ELSE v[x].link

LEMMA CutQueued ==
    ASSUME NEW v \in Views, NEW m, NEW g, Queued(v, m, g), NEW d \in Procs,
           NEW n, NEW s, Waits(v, m, d, n, s), NEW i \in 1 .. n,
           NEW w \in Views, Unqueued(v, d, s, i, w),
           NEW g2, (g2 = g /\ w[s[i]].link = NULL) \/ (g = NULL /\ g2 = s[i])
    PROVE  Queued(w, m \ {s[i]}, g2)
<1>1. /\ n \in Nat /\ s \in [1 .. n -> Procs]
      /\ \A a, b \in 1 .. n : s[a] = s[b] => a = b
  BY DEF Waits, List
<1>2. PICK p \in Procs : p = s[i]
  BY <1>1
<1>3. \A x \in Procs : v[x].link = LinkOf(v)[x] /\ w[x].link = LinkOf(w)[x]
  BY LinksIn
<1>4. i # 1 => s[i - 1] \in m /\ v[s[i - 1]].to = d /\ s[i - 1] # p /\ s[i - 1] \in Procs
  <2>1. i # 1 => i - 1 \in 1 .. n /\ i - 1 # i
    BY <1>1
  <2>2. i # 1 => s[i - 1] \in Procs /\ s[i - 1] # p /\ Has(n, s, s[i - 1])
    BY <1>1, <1>2, <2>1 DEF Has
  <2> QED
    BY <2>2 DEF Waits
<1>5. p \in m /\ v[p].to = d
  <2>1. Has(n, s, p)
    BY <1>2 DEF Has
  <2> QED
    BY <2>1 DEF Waits
<1>6. \E n2, s2 : Waits(w, m \ {p}, d, n2, s2)
  <2>1. PICK next2 : next2 = [x \in Procs |-> IF i # 1 /\ x = s[i - 1] THEN LinkOf(v)[p]
                                              ELSE LinkOf(v)[x]]
    OBVIOUS
  <2>2. PICK h2 : h2 = (IF i = 1 THEN LinkOf(v)[s[i]] ELSE v[d].first)
    OBVIOUS
  <2>3. \A x \in Procs : next2[x] = IF i # 1 /\ x = s[i - 1] THEN LinkOf(v)[s[i]]
                                    ELSE LinkOf(v)[x]
    BY <1>2, <2>1
  <2>4. List(n, s, v[d].first, LinkOf(v))
    BY DEF Waits
  <2>5. PICK s2 : /\ List(n - 1, s2, h2, next2)
                  /\ \A x : Has(n - 1, s2, x) <=> x # s[i] /\ Has(n, s, x)
    BY <2>2, <2>3, <2>4, ListRemoved
  <2>6. w[d].first = h2
    BY <1>2, <1>3, <2>2 DEF Unqueued
  <2>7. \A x \in Procs : Has(n - 1, s2, x) => LinkOf(w)[x] = next2[x]
    BY <1>2, <1>3, <2>3, <2>5 DEF Unqueued
  <2>8. List(n - 1, s2, w[d].first, LinkOf(w))
    BY <2>5, <2>6, <2>7, ListSame
  <2>9. \A x \in Procs : Has(n - 1, s2, x) <=> x \in m \ {p} /\ w[x].to = d
    BY <1>2, <2>5 DEF Waits, Unqueued
  <2> QED
    BY <2>8, <2>9 DEF Waits
<1>7. ASSUME NEW e \in Procs, e # d, e # g, ~ Gone(v[e])
      PROVE  \E n2, s2 : Waits(w, m \ {p}, e, n2, s2)
  <2>1. PICK n2, s2 : Waits(v, m, e, n2, s2)
    BY <1>7 DEF Queued
  <2>2. \A x \in Procs : Has(n2, s2, x) => x \in m /\ v[x].to = e
    BY <2>1 DEF Waits
  <2>3. \A x \in Procs : Has(n2, s2, x) => x # p /\ ~ (i # 1 /\ x = s[i - 1])
    BY <1>4, <1>5, <1>7, <2>2
  <2>4. \A x \in Procs : Has(n2, s2, x) => LinkOf(w)[x] = LinkOf(v)[x]
    BY <1>2, <1>3, <2>3 DEF Unqueued
  <2>5. w[e].first = v[e].first
    BY <1>7 DEF Unqueued
  <2>6. List(n2, s2, w[e].first, LinkOf(w))
    BY <2>1, <2>4, <2>5, ListSame DEF Waits
  <2>7. \A x \in Procs : Has(n2, s2, x) <=> x \in m \ {p} /\ w[x].to = e
    BY <1>5, <1>7, <2>1 DEF Waits, Unqueued
  <2> QED
    BY <2>6, <2>7 DEF Waits
<1>8. ASSUME NEW e \in Procs, ~ Gone(w[e]), e # g2
      PROVE  \E n2, s2 : Waits(w, m \ {p}, e, n2, s2)
  <2>1. ~ Gone(v[e]) /\ (e # d => e # g)
    BY <1>8, Constants DEF Unqueued
  <2> QED
    BY <1>6, <1>7, <2>1
<1>9. ASSUME NEW x \in Procs, ~ Gone(w[x]), x # g2, w[x].link # NULL
      PROVE  x \in m \ {p}
  <2>1. x # p /\ x # g
    BY <1>2, <1>9, Constants
  <2>2. CASE i # 1 /\ x = s[i - 1]
    BY <1>4, <2>1, <2>2
  <2>3. CASE ~ (i # 1 /\ x = s[i - 1])
    <3>1. w[x].link = v[x].link /\ ~ Gone(v[x])
      BY <1>2, <1>9, <2>1, <2>3 DEF Unqueued
    <3> QED
      BY <1>9, <2>1, <3>1 DEF Queued
  <2> QED
    BY <2>2, <2>3
<1>10. Queued(w, m \ {p}, g2)
  BY <1>8, <1>9 DEF Queued
<1> QED
  BY <1>2, <1>10

(* The i-th process on the queue of d leaves it, and has no link any more. *)
Unlinked(v, k2, p, c, n, m, g) ==
    \E w : /\ Sees(k2, w) /\ Fit(w, c, n, m \ {p}, g)
           /\ \A x \in Procs : SameMail(v[x], w[x])

LEMMA UnlinkMails ==
    ASSUME NEW k, NEW v, Sees(k, v), NEW c, NEW e, NEW m, NEW g, Fit(v, c, e, m, g),
           NEW d \in Procs, d # g, ~ Gone(v[d]), NEW i \in 1 .. Len(Callers(k, d)),
           NEW p, p = Callers(k, d)[i]
    PROVE  Unlinked(v, Unlink(k, d, i), p, c, e, m, g)
<1>1. v \in Views /\ Queued(v, m, g) /\ Apart(v, c, e)
  BY FitFields DEF Fit
<1>2. PICK n, s : Waits(v, m, d, n, s)
  BY <1>1 DEF Queued
<1>3. Walks(k, v, m, d, n, s)
  BY <1>2, WaitsAre
<1>4. i \in 1 .. n /\ p = s[i] /\ p \in Procs
  BY <1>3 DEF Walks
<1>5. PICK w1 : w1 = Cut(v, d, s, i)
  OBVIOUS
<1>6. Sees(RemoveCaller(k, d, i), w1) /\ IsCut(v, d, s, i, w1)
  BY <1>2, <1>4, <1>5, CutSees
<1>7. w1 \in Views /\ w1[p] \in Mails
  BY <1>4, <1>6, LinksIn DEF IsCut
<1>8. PICK r : r = WithLink(w1[p], NULL)
  OBVIOUS
<1>9. r \in Mails /\ SameMail(w1[p], r) /\ r.link = NULL /\ r.first = w1[p].first
  <2>1. NULL \in Pointers
    BY Constants
  <2> QED
    BY <1>7, <1>8, <2>1 DEF WithLink, MailOf, Mails, SameMail
<1>10. PICK w : w = Set(w1, p, r)
  OBVIOUS
<1>11. w \in Views /\ \A x \in Procs : w[x] = IF x = p THEN r ELSE w1[x]
  <2>1. p \in Procs /\ w1 \in Views /\ r \in Mails
    BY <1>4, <1>7, <1>9
  <2>2. /\ Set(w1, p, r) \in Views
        /\ \A x \in Procs : Set(w1, p, r)[x] = IF x = p THEN r ELSE w1[x]
    BY <2>1, SetIs
  <2> QED
    BY <1>10, <2>2
<1>12. PICK k2 : k2 = [RemoveCaller(k, d, i) EXCEPT !.proc[p].q_link = NULL]
  OBVIOUS
<1>13. Sees(k2, w)
  <2>1. NULL \in Pointers
    BY Constants
  <2> QED
    BY <1>4, <1>6, <1>8, <1>10, <1>12, <2>1, LinkSees
<1>14. Unlink(k, d, i) = k2
  BY <1>12 DEF Unlink
<1>15. \A x \in Procs : SameMail(v[x], w1[x])
  BY <1>6 DEF IsCut
<1>16. \A x \in Procs : SameMail(v[x], w[x])
  <2>1. SameMail(v[p], r)
    BY <1>4, <1>9, <1>15 DEF SameMail
  <2> QED
    BY <1>11, <1>15, <2>1
<1>17. Apart(w, c, e)
  BY <1>1, <1>11, <1>16, PlacesApart
<1>18. Unqueued(v, d, s, i, w)
  <2>1. \A x \in Procs : w[x].first = w1[x].first
    BY <1>9, <1>11
  <2>2. \A x \in Procs \ {s[i]} : w[x].link = w1[x].link
    BY <1>4, <1>11
  <2>3. \A x \in Procs : w[x].to = v[x].to /\ (Gone(w[x]) <=> Gone(v[x]))
    BY <1>16 DEF SameMail, Gone
  <2> QED
    BY <1>6, <2>1, <2>2, <2>3 DEF Unqueued, IsCut
<1>19. w[s[i]].link = NULL
  BY <1>4, <1>9, <1>11
<1>20. Queued(w, m \ {p}, g)
  BY <1>1, <1>2, <1>4, <1>11, <1>18, <1>19, CutQueued
<1> QED
  BY <1>13, <1>14, <1>16, <1>17, <1>20 DEF Unlinked, Fit

(* A sender is released, and with it the signal that waited for that.      *)
LEMMA ReleaseMails ==
    ASSUME NEW k, NEW v, Sees(k, v), NEW c, NEW n, NEW m, NEW g, Fit(v, c, n, m, g),
           NEW p \in Procs, Sends(v[p]), ~ Sends(v[v[p].to]),
           NEW b, b = RTS_UNSET(k, p, {"SENDING"}),
           NEW k2, k2 = IF "SIG_DELAY" \in v[p].misc THEN sig_delay_done(b, p) ELSE b
    PROVE  Notified(Set(v, p, Released(v[p], v[p].block \ {"SENDING"})), k2, c, n, m, g)
<1>1. v \in Views /\ v[p] \in Mails
  BY FitFields
<1>2. PICK r : r = Released(v[p], v[p].block \ {"SENDING"})
  OBVIOUS
<1>3. PICK w : w = Set(v, p, r)
  OBVIOUS
<1>4. Fit(w, c, n, m, g)
  BY <1>2, <1>3, ReleasedFit
<1>5. PICK u : u = Unblocked(v, p, {"SENDING"})
  OBVIOUS
<1>6. Sees(b, u)
  BY <1>5, RtsUnsetSees
<1>7. PICK y : y = WithBlock(v[p], v[p].block \ {"SENDING"})
  OBVIOUS
<1>8. y \in Mails /\ y.misc = v[p].misc /\ r = WithMisc(y, y.misc \ {"SIG_DELAY"})
  BY <1>1, <1>2, <1>7 DEF WithBlock, WithMisc, MailOf, Mails, Released
<1>9. u = Set(v, p, y)
  BY <1>5, <1>7 DEF Unblocked
<1>10. u[p] = y
  BY <1>1, <1>8, <1>9, SetIs
<1>11. CASE "SIG_DELAY" \in v[p].misc
  <2>1. PICK a : a = UnsetMisc(b, p, "SIG_DELAY")
    OBVIOUS
  <2>2. Sees(a, Clears(u, p, "SIG_DELAY"))
    BY <1>6, <2>1, UnsetMiscSees
  <2>3. r \in Mails
    BY <1>1, <1>2 DEF Released, MailOf, Mails
  <2>4. Clears(u, p, "SIG_DELAY") = w
    <3>1. Clears(u, p, "SIG_DELAY") = Set(u, p, r)
      BY <1>8, <1>10 DEF Clears
    <3>2. Set(Set(v, p, y), p, r) = Set(v, p, r)
      BY <1>1, <1>8, <2>3, SetTwice
    <3> QED
      BY <1>3, <1>9, <3>1, <3>2
  <2>5. Notified(w, cause_sig(a, p), c, n, m, g)
    BY <1>4, <2>2, <2>4, SignalMails
  <2>6. k2 = cause_sig(a, p)
    BY <1>11, <2>1 DEF sig_delay_done
  <2> QED
    BY <1>2, <1>3, <2>5, <2>6
<1>12. CASE "SIG_DELAY" \notin v[p].misc
  <2>1. y.misc \ {"SIG_DELAY"} = y.misc
    BY <1>8, <1>12
  <2>2. r = y
    BY <1>1, <1>7, <1>8, <2>1 DEF WithBlock, WithMisc, MailOf
  <2>3. Sees(k2, w)
    BY <1>3, <1>6, <1>9, <1>12, <2>2
  <2>4. Notified(w, k2, c, n, m, g)
    BY <1>4, <2>3, StaysSelf DEF Notified, Eases
  <2> QED
    BY <1>2, <1>3, <2>4
<1> QED
  BY <1>11, <1>12

(* What becomes of the senders: they still send, or one of the two is      *)
(* gone, or c has got the message.                                         *)
Took(v, w, c, s) ==
    /\ v[s].to = c /\ w[c].got = Message(s, v[s].what)
    /\ "DELIVERMSG" \notin v[c].misc /\ "DELIVERMSG" \in w[c].misc

Told(v, w, c) ==
    \A s \in Procs : Sends(v[s]) /\ ~ Sends(w[s])
        => Gone(w[s]) \/ Gone(w[v[s].to]) \/ Took(v, w, c, s)

Ends(v, k2, c) == \E w : Sees(k2, w) /\ Fine(w) /\ Told(v, w, c)

Keeps(v, v2) ==
    \A x \in Procs : Sends(v[x]) => Sends(v2[x]) /\ v2[x].to = v[x].to /\ v2[x].what = v[x].what

LEMMA StaysKeeps ==
    ASSUME NEW v, NEW w, Stays(v, w)
    PROVE  Keeps(v, w)
  BY DEF Stays, Keeps, SamePlace

LEMMA KeepsTwice ==
    ASSUME NEW u, NEW v, NEW w, Keeps(u, v), Keeps(v, w)
    PROVE  Keeps(u, w)
  BY DEF Keeps

(* Nothing that matters to the senders happens before or after.            *)
LEMMA ToldAfter ==
    ASSUME NEW u, NEW v, Keeps(u, v), NEW w, NEW c \in Procs, Told(v, w, c),
           "DELIVERMSG" \notin u[c].misc
    PROVE  Told(u, w, c)
<1> SUFFICES ASSUME NEW s \in Procs, Sends(u[s]), ~ Sends(w[s]),
                    ~ Gone(w[s]), ~ Gone(w[u[s].to])
             PROVE  Took(u, w, c, s)
  BY DEF Told
<1>1. Sends(v[s]) /\ v[s].to = u[s].to /\ v[s].what = u[s].what
  BY DEF Keeps
<1>2. Took(v, w, c, s)
  BY <1>1 DEF Told
<1> QED
  BY <1>1, <1>2 DEF Took

LEMMA ToldBefore ==
    ASSUME NEW u, NEW v \in Views, NEW c \in Procs, Told(u, v, c), NEW w, Stays(v, w),
           w[c].got = v[c].got, "DELIVERMSG" \in v[c].misc => "DELIVERMSG" \in w[c].misc,
           \A s \in Procs : Sends(u[s]) => u[s].to \in Procs
    PROVE  Told(u, w, c)
  BY DEF Told, Took, Stays

LEMMA ToldKeeps ==
    ASSUME NEW v, NEW w, NEW c, Keeps(v, w)
    PROVE  Told(v, w, c)
  BY DEF Told, Keeps

LEMMA FineFields ==
    ASSUME NEW v, Fine(v)
    PROVE  /\ Fit(v, NULL, 0, Senders(v), NULL) /\ v \in Views /\ Present(v) /\ Meets(v)
           /\ \A x \in Procs : v[x] \in Mails /\ Local(v[x], x)
  BY FitFields DEF Fine

(* A process that neither waits nor has a message to be copied.            *)
Free(m) == ~ Sends(m) /\ ~ Gets(m) /\ ~ Gone(m) /\ "DELIVERMSG" \notin m.misc

LEMMA QueuedMails ==
    ASSUME NEW k, NEW v, Sees(k, v), Fine(v), NEW caller \in Procs, Free(v[caller]),
           NEW i \in 1 .. Len(Callers(k, caller))
    PROVE  Ends(v, ReceiveQueued(k, caller, i), caller)
<1>1. /\ Fit(v, NULL, 0, Senders(v), NULL) /\ v \in Views
      /\ Queued(v, Senders(v), NULL) /\ \A x \in Procs : v[x] \in Mails
  BY FineFields DEF Fit
<1>2. caller # NULL
  BY Constants
<1>3. PICK sender : sender = Callers(k, caller)[i]
  OBVIOUS
<1>4. sender \in Procs /\ Sends(v[sender]) /\ v[sender].to = caller /\ sender # caller
  <2>1. PICK n, s : Waits(v, Senders(v), caller, n, s)
    BY <1>1, <1>2 DEF Queued, Free
  <2>2. Walks(k, v, Senders(v), caller, n, s)
    BY <2>1, WaitsAre
  <2>3. i \in 1 .. n /\ sender = s[i]
    BY <1>3, <2>2 DEF Walks
  <2>4. sender \in Senders(v) /\ v[sender].to = caller
    BY <2>2, <2>3 DEF Walks
  <2> QED
    BY <2>4 DEF Senders, Free
<1>5. PICK x : x = Message(sender, v[sender].what)
  OBVIOUS
<1>6. x \in Messages
  <2>1. v[sender].what \in Types /\ sender \in Pointers
    BY <1>1, <1>4, Constants DEF Mails
  <2> QED
    BY <1>5, <2>1, MessageIn
<1>7. PICK a : a = Deliver(k, caller, x)
  OBVIOUS
<1>8. PICK v1 : v1 = Gives(v, caller, x)
  OBVIOUS
<1>9. Sees(a, v1)
  BY <1>6, <1>7, <1>8, DeliverSees DEF Free
<1>10. Fit(v1, NULL, 0, Senders(v), NULL)
  BY <1>1, <1>6, <1>8, GivesFit DEF Free
<1>11. PICK r1 : r1 = WithMisc(WithGot(v[caller], x), v[caller].misc \cup {"DELIVERMSG"})
  OBVIOUS
<1>12. /\ r1 \in Mails /\ SamePlace(v[caller], r1) /\ r1.block = v[caller].block
       /\ r1.got = x /\ "DELIVERMSG" \in r1.misc
  BY <1>1, <1>6, <1>11 DEF WithMisc, WithGot, MailOf, Mails, MiscFlags, SamePlace
<1>13. v1 \in Views /\ \A y \in Procs : v1[y] = IF y = caller THEN r1 ELSE v[y]
  <2>1. v \in Views /\ r1 \in Mails
    BY <1>1, <1>12
  <2>2. /\ Set(v, caller, r1) \in Views
        /\ \A y \in Procs : Set(v, caller, r1)[y] = IF y = caller THEN r1 ELSE v[y]
    BY <2>1, SetIs
  <2>3. v1 = Set(v, caller, r1)
    BY <1>8, <1>11 DEF Gives
  <2> QED
    BY <2>2, <2>3
<1>14. v1[sender] = v[sender] /\ ~ Sends(v1[v1[sender].to])
  BY <1>4, <1>12, <1>13 DEF Free, Sends
<1>15. PICK b : b = RTS_UNSET(a, sender, {"SENDING"})
  OBVIOUS
<1>16. PICK told : told = IF "SIG_DELAY" \in v1[sender].misc THEN sig_delay_done(b, sender) ELSE b
  OBVIOUS
<1>17. PICK r2 : r2 = Released(v1[sender], v1[sender].block \ {"SENDING"})
  OBVIOUS
<1>18. PICK v2 : v2 = Set(v1, sender, r2)
  OBVIOUS
<1>19. Notified(v2, told, NULL, 0, Senders(v), NULL)
  BY <1>4, <1>9, <1>10, <1>14, <1>15, <1>16, <1>17, <1>18, ReleaseMails
<1>20. r2 \in Mails /\ SamePlace(v[sender], r2) /\ ~ Sends(r2) /\ (Gone(r2) <=> Gone(v[sender]))
  BY <1>1, <1>4, <1>14, <1>17 DEF Released, MailOf, Mails, SamePlace, Sends, Gone
<1>21. \A y \in Procs : v2[y] = IF y = sender THEN r2 ELSE v1[y]
  BY <1>4, <1>13, <1>18, <1>20, SetIs
<1>22. PICK v3 : /\ Sees(told, v3) /\ Fit(v3, NULL, 0, Senders(v), NULL)
                 /\ Stays(v2, v3) /\ Spares(v2, v3)
  BY <1>19 DEF Notified, Eases
<1>23. v2[caller] = r1
  BY <1>4, <1>13, <1>21
<1>24. ~ Gone(v3[caller]) /\ v3[caller].got = x /\ "DELIVERMSG" \in v3[caller].misc
  BY <1>12, <1>22, <1>23 DEF Stays, Spares, Alike, Free, Gone, Gets
<1>25. \A y \in Procs : v2[y].first = v[y].first /\ v2[y].link = v[y].link
  BY <1>4, <1>12, <1>13, <1>20, <1>21 DEF SamePlace
<1>26. Callers(told, caller) = Callers(k, caller)
  <2>1. LinkOf(v3) = LinkOf(v) /\ v3[caller].first = v[caller].first
    BY <1>22, <1>25 DEF Stays, SamePlace, LinkOf
  <2> QED
    BY <1>22, <2>1, CallersSeen
<1>27. Unlinked(v3, Unlink(told, caller, i), sender, NULL, 0, Senders(v), NULL)
  BY <1>2, <1>3, <1>22, <1>24, <1>26, UnlinkMails
<1>28. PICK w : /\ Sees(Unlink(told, caller, i), w)
                /\ Fit(w, NULL, 0, Senders(v) \ {sender}, NULL)
                /\ \A y \in Procs : SameMail(v3[y], w[y])
  BY <1>27 DEF Unlinked
<1>29. \A y \in Procs : Sends(w[y]) <=> Sends(v[y]) /\ y # sender
  <2>1. \A y \in Procs : Sends(v2[y]) <=> Sends(v[y]) /\ y # sender
    BY <1>12, <1>13, <1>20, <1>21 DEF Sends
  <2>2. \A y \in Procs : Sends(w[y]) <=> Sends(v2[y])
    BY <1>22, <1>28 DEF SameMail, Stays, Sends
  <2> QED
    BY <2>1, <2>2
<1>30. Senders(w) = Senders(v) \ {sender}
  BY <1>29 DEF Senders
<1>31. Fine(w)
  BY <1>28, <1>30 DEF Fine
<1>32. Told(v, w, caller)
  <2>1. Took(v, w, caller, sender)
    BY <1>4, <1>5, <1>24, <1>28 DEF Took, SameMail, Free
  <2> QED
    BY <1>29, <2>1 DEF Told
<1>33. ReceiveQueued(k, caller, i) = Unlink(told, caller, i)
  <2>1. k.proc[sender].sendmsg = v[sender].what
    BY <1>4, FieldsSeen
  <2>2. Misc(k, sender, "SIG_DELAY") <=> "SIG_DELAY" \in v1[sender].misc
    BY <1>4, <1>14, MiscSeen
  <2> QED
    BY <1>3, <1>5, <1>7, <1>15, <1>16, <2>1, <2>2 DEF ReceiveQueued
<1> QED
  BY <1>28, <1>31, <1>32, <1>33 DEF Ends

-----------------------------------------------------------------------------
(* Chains of processes along which a rank decreases end.                   *)
Falls(next, r) ==
    /\ next \in [Procs -> Pointers] /\ r \in [Procs -> Nat]
    /\ \A x \in Procs : next[x] # NULL => r[next[x]] < r[x]

Below(n, s, h, r) == \A x \in Procs : Has(n, s, x) => h # NULL /\ r[x] <= r[h]

Ending(h, next, r) == \E n, s : List(n, s, h, next) /\ Below(n, s, h, r)

LEMMA EndingPushed ==
    ASSUME NEW next, NEW r, Falls(next, r), NEW h \in Procs, Ending(next[h], next, r)
    PROVE  Ending(h, next, r)
<1>1. PICK n, s : List(n, s, next[h], next) /\ Below(n, s, next[h], r)
  BY DEF Ending
<1>2. next[h] \in Pointers /\ r[h] \in Nat /\ \A x \in Procs : r[x] \in Nat
  BY DEF Falls
<1>3. next[h] # NULL => next[h] \in Procs /\ r[next[h]] < r[h]
  BY <1>2 DEF Falls, Pointers
<1>4. \A x \in Procs : Has(n, s, x) => r[x] < r[h]
  <2> TAKE x \in Procs
  <2> HAVE Has(n, s, x)
  <2>1. next[h] # NULL /\ r[x] <= r[next[h]]
    BY <1>1 DEF Below
  <2>2. r[x] \in Nat /\ r[next[h]] \in Nat /\ r[next[h]] < r[h]
    BY <1>2, <1>3, <2>1
  <2> QED
    BY <1>2, <2>1, <2>2
<1>5. ~ Has(n, s, h)
  BY <1>2, <1>4
<1>6. \A x \in Procs : next[x] = IF x = h THEN next[h] ELSE next[x]
  OBVIOUS
<1>7. PICK s2 : /\ List(n + 1, s2, h, next)
                /\ \A x : Has(n + 1, s2, x) <=> x = h \/ Has(n, s, x)
  BY <1>1, <1>5, <1>6, ListPushed
<1>8. h # NULL
  BY Constants
<1>9. Below(n + 1, s2, h, r)
  <2> SUFFICES ASSUME NEW x \in Procs, Has(n + 1, s2, x)
               PROVE  r[x] <= r[h]
    BY <1>8 DEF Below
  <2>1. x = h \/ r[x] < r[h]
    BY <1>4, <1>7
  <2> QED
    BY <1>2, <2>1
<1> QED
  BY <1>7, <1>9 DEF Ending

LEMMA RankList ==
    ASSUME NEW next, NEW r, Falls(next, r), NEW h \in Pointers
    PROVE  Ending(h, next, r)
<1>1. Ending(NULL, next, r)
  <2>1. List(0, <<>>, NULL, next)
    BY DEF List
  <2>2. Below(0, <<>>, NULL, r)
    BY DEF Below, Has
  <2> QED
    BY <2>1, <2>2 DEF Ending
<1>2. ASSUME NEW x \in Procs, ~ Ending(x, next, r)
      PROVE  FALSE
  <2>1. PICK S : S = {i \in Nat : \E y \in Procs : r[y] = i /\ ~ Ending(y, next, r)}
    OBVIOUS
  <2>2. S \in SUBSET Nat
    BY <2>1
  <2>3. r[x] \in S
    BY <1>2, <2>1 DEF Falls
  <2>4. PICK i \in S : \A j \in S : i <= j
    BY <2>2, <2>3, LeastNat
  <2>5. PICK y \in Procs : r[y] = i /\ ~ Ending(y, next, r)
    BY <2>1, <2>4
  <2>6. next[y] # NULL
    BY <1>1, <2>5, EndingPushed
  <2>7. next[y] \in Procs /\ r[next[y]] < r[y] /\ r[next[y]] \in Nat /\ r[y] \in Nat
    BY <2>6 DEF Falls, Pointers
  <2>8. r[next[y]] \notin S
    BY <2>4, <2>5, <2>7
  <2>9. Ending(next[y], next, r)
    BY <2>1, <2>7, <2>8
  <2> QED
    BY <2>5, <2>9, EndingPushed
<1> QED
  BY <1>1, <1>2 DEF Pointers

-----------------------------------------------------------------------------
(* deadlock() follows the chain from e to a process that waits for nobody, *)
(* or for cp.                                                              *)
NextOn(v, cp) == [x \in Procs |-> IF On(v[x]) \in {ANY, cp} THEN NULL ELSE On(v[x])]

LEMMA NextFalls ==
    ASSUME NEW v, NEW r, Ranks(v, r), NEW cp
    PROVE  Falls(NextOn(v, cp), r)
<1>1. \A x \in Procs : NextOn(v, cp)[x] # NULL =>
         /\ NextOn(v, cp)[x] = Awaits(v[x]) /\ Awaits(v[x]) # NULL
  BY DEF NextOn, Awaits
<1>2. \A x \in Procs : NextOn(v, cp)[x] # NULL =>
         NextOn(v, cp)[x] \in Procs /\ r[NextOn(v, cp)[x]] < r[x]
  BY <1>1 DEF Ranks
<1>3. NextOn(v, cp) \in [Procs -> Pointers]
  BY <1>2 DEF NextOn, Pointers
<1> QED
  BY <1>2, <1>3 DEF Falls, Ranks

(* The processes that e waits for, e among them, wait for each other only. *)
Closed(v, e, cp, R) ==
    /\ R \in SUBSET Procs /\ e \in R /\ cp \notin R
    /\ \A x \in R : Awaits(v[x]) \in R \cup {NULL}

(* The chain s of the processes that e waits for, up to cp.                *)
Follows(k, v, cp, e, n, s) ==
    /\ n \in Nat \ {0} /\ s \in [1 .. n -> Procs] /\ s[1] = e
    /\ Chain(e, [p \in Procs |-> IF P_BLOCKEDON(k, p) \in {ANY, cp} THEN NULL
                                 ELSE P_BLOCKEDON(k, p)]) = s
    /\ Len(s) = n
    /\ \A i \in 1 .. n : IF i = n THEN On(v[s[i]]) \in {ANY, cp, NULL}
                         ELSE /\ On(v[s[i]]) = s[i + 1] /\ s[i + 1] # cp /\ s[i + 1] # ANY

LEMMA FollowsExists ==
    ASSUME NEW k, NEW v, Sees(k, v), Ranked(v), NEW cp \in Procs, NEW e \in Procs
    PROVE  \E n, s : Follows(k, v, cp, e, n, s)
<1>1. PICK r : Ranks(v, r)
  BY DEF Ranked
<1>2. PICK next : next = NextOn(v, cp)
  OBVIOUS
<1>3. Falls(next, r)
  BY <1>1, <1>2, NextFalls
<1>4. next \in [Procs -> Pointers] /\ e \in Pointers /\ e # NULL
  BY <1>3, Constants DEF Falls
<1>5. PICK n, s : List(n, s, e, next)
  BY <1>3, <1>4, RankList DEF Ending
<1>6. Chain(e, next) = s
  BY <1>4, <1>5, ChainList
<1>7. next = [p \in Procs |-> IF P_BLOCKEDON(k, p) \in {ANY, cp} THEN NULL
                              ELSE P_BLOCKEDON(k, p)]
  <2>1. \A x \in Procs : P_BLOCKEDON(k, x) = On(v[x])
    BY OnSeen
  <2> QED
    BY <1>2, <2>1 DEF NextOn
<1>8. /\ n \in Nat /\ s \in [1 .. n -> Procs] /\ n # 0 /\ s[1] = e
      /\ \A i \in 1 .. n : next[s[i]] = IF i = n THEN NULL ELSE s[i + 1]
  BY <1>4, <1>5 DEF List
<1>9. Len(s) = n
  BY <1>8, AsSequence
<1>10. ASSUME NEW i \in 1 .. n
       PROVE  IF i = n THEN On(v[s[i]]) \in {ANY, cp, NULL}
              ELSE /\ On(v[s[i]]) = s[i + 1] /\ s[i + 1] # cp /\ s[i + 1] # ANY
  <2>1. next[s[i]] = IF On(v[s[i]]) \in {ANY, cp} THEN NULL ELSE On(v[s[i]])
    BY <1>2, <1>8 DEF NextOn
  <2>2. CASE i = n
    BY <1>8, <2>1, <2>2
  <2>3. CASE i # n
    <3>1. i + 1 \in 1 .. n
      BY <1>8, <2>3
    <3>2. s[i + 1] # NULL
      BY <1>8, <3>1, Constants
    <3> QED
      BY <1>8, <2>1, <2>3, <3>2
  <2> QED
    BY <2>2, <2>3
<1>11. Chain(e, [p \in Procs |-> IF P_BLOCKEDON(k, p) \in {ANY, cp} THEN NULL
                                 ELSE P_BLOCKEDON(k, p)]) = s
  BY <1>6, <1>7
<1>12. n \in Nat \ {0}
  BY <1>8
<1>13. Follows(k, v, cp, e, n, s)
  BY <1>8, <1>9, <1>10, <1>11, <1>12 DEF Follows
<1> QED
  BY <1>13

LEMMA NoDeadlock ==
    ASSUME NEW k, NEW v, Sees(k, v), Ranked(v), NEW cp \in Procs, NEW e \in Procs, e # cp,
           NEW call, ~ deadlock(k, call, cp, e),
           On(v[e]) = cp => (Sends(v[e]) <=> call = "SEND")
    PROVE  \E R : Closed(v, e, cp, R)
<1>1. PICK n, s : Follows(k, v, cp, e, n, s)
  BY FollowsExists
<1>2. /\ n \in Nat \ {0} /\ s \in [1 .. n -> Procs] /\ s[1] = e /\ Len(s) = n
      /\ \A i \in 1 .. n : IF i = n THEN On(v[s[i]]) \in {ANY, cp, NULL}
                           ELSE /\ On(v[s[i]]) = s[i + 1] /\ s[i + 1] # cp /\ s[i + 1] # ANY
  BY <1>1 DEF Follows
<1>3. PICK xp \in Procs : xp = s[n]
  BY <1>2
<1>4. On(v[xp]) # cp
  <2> SUFFICES ASSUME On(v[xp]) = cp
               PROVE  FALSE
    OBVIOUS
  <2>1. PICK group : group = Chain(e, [p \in Procs |-> IF P_BLOCKEDON(k, p) \in {ANY, cp} THEN NULL
                                                      ELSE P_BLOCKEDON(k, p)])
    OBVIOUS
  <2>2. group = s
    BY <1>1, <2>1 DEF Follows
  <2>3. Last(group) = xp /\ Len(group) = n
    BY <1>2, <1>3, <2>2 DEF Last
  <2>4. P_BLOCKEDON(k, xp) = cp
    BY OnSeen
  <2>5. Flag(k, xp, "SENDING") <=> Sends(v[xp])
    BY FlagsSeen
  <2>6. n = 1 => xp = e
    BY <1>2, <1>3
  <2>7. ~ (n = 1 /\ Flag(k, xp, "SENDING") # (call = "SEND"))
    BY <2>5, <2>6 DEF Flag
  <2>8. e # ANY
    BY AnyIs
  <2>9. [p \in Procs |-> P_BLOCKEDON(k, p)][xp] = cp
    BY <2>4
  <2>10. PICK on : on = [p \in Procs |-> P_BLOCKEDON(k, p)]
    OBVIOUS
  <2>11. [p \in Procs |-> IF on[p] \in {ANY, cp} THEN NULL ELSE on[p]]
            = [p \in Procs |-> IF P_BLOCKEDON(k, p) \in {ANY, cp} THEN NULL
                               ELSE P_BLOCKEDON(k, p)]
    BY <2>10
  <2>12. Chain(e, [p \in Procs |-> IF on[p] \in {ANY, cp} THEN NULL ELSE on[p]]) = group
    BY <2>1, <2>11
  <2>13. deadlock(k, call, cp, e)
    BY <2>3, <2>7, <2>8, <2>9, <2>10, <2>12 DEF deadlock
  <2> QED
    BY <2>13
<1>5. PICK R : R = {s[i] : i \in 1 .. n}
  OBVIOUS
<1>6. R \in SUBSET Procs /\ e \in R
  BY <1>2, <1>5
<1>7. cp \notin R
  <2> SUFFICES ASSUME NEW i \in 1 .. n, s[i] = cp
               PROVE  FALSE
    BY <1>5
  <2>1. i # 1
    BY <1>2
  <2>2. i - 1 \in 1 .. n /\ i - 1 # n /\ (i - 1) + 1 = i
    BY <1>2, <2>1
  <2> QED
    BY <1>2, <2>2
<1>8. ASSUME NEW i \in 1 .. n
      PROVE  Awaits(v[s[i]]) \in R \cup {NULL}
  <2>1. CASE i = n
    <3>1. On(v[s[i]]) \in {ANY, NULL}
      BY <1>2, <1>3, <1>4, <2>1
    <3> QED
      BY <3>1 DEF Awaits
  <2>2. CASE i # n
    <3>1. i + 1 \in 1 .. n
      BY <1>2, <2>2
    <3>2. Awaits(v[s[i]]) = s[i + 1]
      BY <1>2, <2>2 DEF Awaits
    <3> QED
      BY <1>5, <3>1, <3>2
  <2> QED
    BY <2>1, <2>2
<1> QED
  BY <1>5, <1>6, <1>7, <1>8 DEF Closed

(* So cp may wait for e.                                                   *)
LEMMA NewRank ==
    ASSUME NEW v, Ranked(v), NEW cp \in Procs, NEW e \in Procs, NEW R, Closed(v, e, cp, R),
           NEW w, \A x \in Procs \ {cp} : Awaits(w[x]) = Awaits(v[x]), Awaits(w[cp]) = e
    PROVE  Ranked(w)
<1>1. PICK r : Ranks(v, r)
  BY DEF Ranked
<1>2. r \in [Procs -> Nat] /\ R \in SUBSET Procs /\ e \in R /\ cp \notin R
  BY <1>1 DEF Ranks, Closed
<1>3. PICK t : t = [x \in Procs |-> IF x \in R THEN r[x] ELSE r[x] + r[e] + 1]
  OBVIOUS
<1>4. t \in [Procs -> Nat]
  BY <1>2, <1>3
<1>5. ASSUME NEW x \in Procs, Awaits(w[x]) # NULL
      PROVE  Awaits(w[x]) \in Procs /\ t[Awaits(w[x])] < t[x]
  <2>1. CASE x = cp
    <3>1. t[e] = r[e] /\ t[x] = r[x] + r[e] + 1 /\ r[e] \in Nat /\ r[x] \in Nat
      BY <1>2, <1>3, <2>1
    <3> QED
      BY <2>1, <3>1
  <2>2. CASE x # cp
    <3>1. PICK y : y = Awaits(v[x])
      OBVIOUS
    <3>2. Awaits(w[x]) = y /\ y \in Procs /\ r[y] < r[x]
      BY <1>1, <1>5, <2>2, <3>1 DEF Ranks
    <3>3. x \in R => y \in R
      BY <1>5, <3>1, <3>2 DEF Closed
    <3>4. r[x] \in Nat /\ r[y] \in Nat /\ r[e] \in Nat
      BY <1>2, <3>2
    <3>5. t[x] = IF x \in R THEN r[x] ELSE r[x] + r[e] + 1
      BY <1>3
    <3>6. t[y] = IF y \in R THEN r[y] ELSE r[y] + r[e] + 1
      BY <1>3, <3>2
    <3>7. t[y] < t[x]
      BY <3>2, <3>3, <3>4, <3>5, <3>6
    <3> QED
      BY <3>2, <3>7
  <2> QED
    BY <2>1, <2>2
<1>6. Ranks(w, t)
  BY <1>4, <1>5 DEF Ranks
<1> QED
  BY <1>6 DEF Ranked

-----------------------------------------------------------------------------
(* mini_send: a process blocks on sending.                                 *)
Asks(m, d, type) ==
    MailOf(m.block \cup {"SENDING"}, m.misc, m.from, d, type, m.first, m.link, m.got,
           m.notes, m.table)

CanAsk(v, c, d) ==
    /\ Free(v[c]) /\ ~ Gone(v[d]) /\ ~ Will(v[d], c) /\ MaySend(c, d)
    /\ \E R : Closed(v, d, c, R)

AskedIs(m, r, d, type) ==
    /\ r \in Mails /\ r.block = m.block \cup {"SENDING"} /\ r.misc = m.misc /\ r.from = m.from
    /\ r.to = d /\ r.what = type /\ r.first = m.first /\ r.link = m.link /\ r.got = m.got
    /\ r.notes = m.notes /\ r.table = m.table

LEMMA AsksIs ==
    ASSUME NEW m \in Mails, NEW d \in Procs, NEW type \in Types
    PROVE  AskedIs(m, Asks(m, d, type), d, type)
<1>1. d \in Pointers /\ "SENDING" \in Blocks
  BY Constants DEF Blocks
<1> QED
  BY <1>1 DEF AskedIs, Asks, MailOf, Mails

LEMMA AsksApart ==
    ASSUME NEW v, Fine(v), NEW c \in Procs, NEW d \in Procs, CanAsk(v, c, d), NEW type \in Types
    PROVE  Apart(Set(v, c, Asks(v[c], d, type)), NULL, 0)
<1>1. /\ v \in Views /\ Present(v) /\ Meets(v) /\ Marked2(v, NULL, 0) /\ Ranked(v)
      /\ \A x \in Procs : v[x] \in Mails /\ Local(v[x], x)
  BY FineFields, FitFields
<1>2. PICK r : r = Asks(v[c], d, type)
  OBVIOUS
<1>3. AskedIs(v[c], r, d, type)
  BY <1>1, <1>2, AsksIs
<1>4. PICK w : w = Set(v, c, r)
  OBVIOUS
<1>5. w \in Views /\ \A x \in Procs : w[x] = IF x = c THEN r ELSE v[x]
  <2>1. v \in Views /\ r \in Mails
    BY <1>1, <1>3 DEF AskedIs
  <2>2. /\ Set(v, c, r) \in Views
        /\ \A x \in Procs : Set(v, c, r)[x] = IF x = c THEN r ELSE v[x]
    BY <2>1, SetIs
  <2> QED
    BY <1>4, <2>2
<1>6. /\ Free(v[c]) /\ ~ Gone(v[d]) /\ ~ Will(v[d], c) /\ MaySend(c, d) /\ d # c
  BY DEF CanAsk, MaySend
<1>7. Sends(r) /\ ~ Gets(r) /\ ~ Gone(r)
  BY <1>3, <1>6 DEF AskedIs, Free, Sends, Gets, Gone
<1>8. Local(r, c)
  <2>1. Local(v[c], c)
    BY <1>1
  <2> QED
    BY <1>3, <1>6, <1>7, <2>1 DEF AskedIs, Free, Local, Open
<1>9. Present(w)
  BY <1>1, <1>3, <1>5, <1>6, <1>7 DEF Present, AskedIs, Local, MaySend
<1>10. Meets(w)
  <2> SUFFICES ASSUME NEW x \in Procs, NEW y \in Procs, Sends(w[x]), w[x].to = y,
                      Gets(w[y]), ~ Sends(w[y])
               PROVE  w[y].from \notin {ANY, x}
    BY DEF Meets
  <2>1. y # c /\ w[y] = v[y]
    BY <1>5, <1>7
  <2>2. CASE x = c
    <3>1. y = d
      BY <1>3, <1>5, <2>2 DEF AskedIs
    <3> QED
      BY <1>6, <2>1, <2>2, <3>1 DEF Will
  <2>3. CASE x # c
    BY <1>1, <1>5, <2>1, <2>3 DEF Meets
  <2> QED
    BY <2>2, <2>3
<1>11. Marked2(w, NULL, 0)
  <2> SUFFICES ASSUME NEW s \in System, ~ Gone(w[s]), NEW i \in DOMAIN w[s].table,
                      ~ w[s].table[i].done, s = NULL => i <= 0
               PROVE  Expects(w[w[s].table[i].dst])
    BY DEF Marked2
  <2>1. s \in Procs
    BY Constants
  <2>2. w[s].table = v[s].table /\ ~ Gone(v[s])
    BY <1>3, <1>5, <1>6, <2>1 DEF AskedIs, Free
  <2>3. PICK y : y = v[s].table[i].dst
    OBVIOUS
  <2>4. Expects(v[y])
    BY <1>1, <2>2, <2>3 DEF Marked2
  <2>5. y \in Procs
    <3>1. v[s].table \in Seq(Entries)
      BY <1>1, <2>1 DEF Mails
    <3>2. v[s].table[i] \in Entries
      BY <2>2, <3>1
    <3> QED
      BY <2>3, <3>2 DEF Entries
  <2>6. Expects(w[y])
    BY <1>3, <1>5, <1>7, <2>4, <2>5 DEF Expects, Open, AskedIs
  <2> QED
    BY <2>2, <2>3, <2>6
<1>12. Ranked(w)
  <2>1. PICK R : Closed(v, d, c, R)
    BY DEF CanAsk
  <2>2. \A x \in Procs \ {c} : Awaits(w[x]) = Awaits(v[x])
    BY <1>5
  <2>3. Awaits(w[c]) = d
    BY <1>3, <1>5, <1>7, AnyIs DEF Awaits, On, AskedIs
  <2> QED
    BY <1>1, <2>1, <2>2, <2>3, NewRank
<1>13. \A x \in Procs : Local(w[x], x)
  BY <1>1, <1>5, <1>8
<1>14. Apart(w, NULL, 0)
  BY <1>5, <1>9, <1>10, <1>11, <1>12, <1>13 DEF Apart
<1> QED
  BY <1>2, <1>4, <1>14

(* It joins the end of the queue s of its receiver.                        *)
Joined(v, w, c, d, n, s) ==
    /\ \A x \in Procs : /\ w[x].first = IF n = 0 /\ x = d THEN c ELSE v[x].first
                        /\ w[x].link = IF n # 0 /\ x = s[n] THEN c ELSE v[x].link
                        /\ Gone(w[x]) <=> Gone(v[x])
                        /\ w[x].to = IF x = c THEN d ELSE v[x].to

LEMMA JoinedQueued ==
    ASSUME NEW v \in Views, NEW m, Queued(v, m, NULL), NEW c \in Procs, NEW d \in Procs,
           c \notin m, ~ Gone(v[c]), NEW n, NEW s, Waits(v, m, d, n, s),
           NEW w \in Views, Joined(v, w, c, d, n, s)
    PROVE  Queued(w, m \cup {c}, NULL)
<1>1. \A x \in Procs : v[x].link = LinkOf(v)[x] /\ w[x].link = LinkOf(w)[x]
  BY LinksIn
<1>2. v[c].link = NULL
  BY Constants DEF Queued
<1>3. /\ n \in Nat /\ s \in [1 .. n -> Procs] /\ List(n, s, v[d].first, LinkOf(v))
  BY DEF Waits, List
<1>4. ~ Has(n, s, c)
  BY DEF Waits
<1>5. n # 0 => s[n] \in Procs /\ Has(n, s, s[n]) /\ s[n] # c
  <2>1. n # 0 => n \in 1 .. n
    BY <1>3
  <2>2. n # 0 => s[n] \in Procs /\ Has(n, s, s[n])
    BY <1>3, <2>1 DEF Has
  <2> QED
    BY <1>4, <2>2
<1>6. \E n2, s2 : Waits(w, m \cup {c}, d, n2, s2)
  <2>1. \A x \in Procs : LinkOf(w)[x] = IF x = c THEN NULL
                                        ELSE IF n # 0 /\ x = s[n] THEN c ELSE LinkOf(v)[x]
    BY <1>1, <1>2, <1>5 DEF Joined
  <2>2. PICK h2 : h2 = IF n = 0 THEN c ELSE v[d].first
    OBVIOUS
  <2>3. PICK s2 : /\ List(n + 1, s2, h2, LinkOf(w))
                  /\ \A x : Has(n + 1, s2, x) <=> x = c \/ Has(n, s, x)
    BY <1>3, <1>4, <2>1, <2>2, ListAppended
  <2>4. w[d].first = h2
    BY <2>2 DEF Joined
  <2>5. \A x \in Procs : Has(n + 1, s2, x) <=> x \in m \cup {c} /\ w[x].to = d
    BY <2>3 DEF Waits, Joined
  <2> QED
    BY <2>3, <2>4, <2>5 DEF Waits
<1>7. ASSUME NEW e \in Procs, e # d, ~ Gone(v[e])
      PROVE  \E n2, s2 : Waits(w, m \cup {c}, e, n2, s2)
  <2>1. PICK n2, s2 : Waits(v, m, e, n2, s2)
    BY <1>7, Constants DEF Queued
  <2>2. \A x \in Procs : Has(n2, s2, x) => x \in m /\ v[x].to = e
    BY <2>1 DEF Waits
  <2>3. n # 0 => v[s[n]].to = d
    BY <1>5 DEF Waits
  <2>4. \A x \in Procs : Has(n2, s2, x) => LinkOf(w)[x] = LinkOf(v)[x]
    BY <1>1, <1>7, <2>2, <2>3 DEF Joined
  <2>5. w[e].first = v[e].first
    BY <1>7 DEF Joined
  <2>6. List(n2, s2, w[e].first, LinkOf(w))
    BY <2>1, <2>4, <2>5, ListSame DEF Waits
  <2>7. \A x \in Procs : Has(n2, s2, x) <=> x \in m \cup {c} /\ w[x].to = e
    BY <1>7, <2>1 DEF Waits, Joined
  <2> QED
    BY <2>6, <2>7 DEF Waits
<1>8. ASSUME NEW x \in Procs, ~ Gone(w[x]), w[x].link # NULL
      PROVE  x \in m \cup {c}
  <2>1. CASE n # 0 /\ x = s[n]
    BY <1>5, <2>1 DEF Waits
  <2>2. CASE ~ (n # 0 /\ x = s[n])
    <3>1. v[x].link # NULL /\ ~ Gone(v[x])
      BY <1>8, <2>2 DEF Joined
    <3> QED
      BY <3>1, Constants DEF Queued
  <2> QED
    BY <2>1, <2>2
<1>9. \A e \in Procs : ~ Gone(w[e]) /\ e # NULL => \E n2, s2 : Waits(w, m \cup {c}, e, n2, s2)
  BY <1>6, <1>7 DEF Joined
<1> QED
  BY <1>8, <1>9 DEF Queued

BlockedAs(k, p, d, type, k2) ==
    k2 = [RTS_SET(assert(k, k.proc[p].q_link = NULL), p, {"SENDING"}) EXCEPT
             !.proc[p].sendmsg = type, !.proc[p].sendto = d]

LEMMA BlockedSees ==
    ASSUME NEW k, NEW v, Sees(k, v), NEW p \in Procs, NEW d \in Procs, NEW type \in Types,
           v[p].link = NULL, NEW k2, BlockedAs(k, p, d, type, k2)
    PROVE  Sees(k2, Set(v, p, Asks(v[p], d, type)))
<1>1. v \in Views /\ v[p] \in Mails
  BY SeesFields
<1>0. PICK c : c = (k.proc[p].q_link = NULL)
  OBVIOUS
<1>2. PICK a : a = RTS_SET(assert(k, c), p, {"SENDING"})
  OBVIOUS
<1>3. Sees(a, Blocked(v, p, {"SENDING"}))
  <2>0. c = TRUE
    BY <1>0, FieldsSeen, ZenonT(40)
  <2>1. Sees(assert(k, c), v)
    BY <2>0, AssertSees
  <2>2. {"SENDING"} \in SUBSET Flags
    BY DEF Flags
  <2> QED
    BY <1>2, <2>1, <2>2, RtsSetSees
<1>4. PICK r1 : r1 = WithBlock(v[p], v[p].block \cup {"SENDING"})
  OBVIOUS
<1>5. PICK r2 : r2 = WithWhat(r1, type)
  OBVIOUS
<1>6. PICK r3 : r3 = WithTo(r2, d)
  OBVIOUS
<1>7. r1 \in Mails /\ r2 \in Mails /\ r3 \in Mails /\ r3 = Asks(v[p], d, type)
  <2>1. "SENDING" \in Blocks /\ d \in Pointers
    BY Constants DEF Blocks
  <2>2. r1 \in Mails
    BY <1>1, <1>4, <2>1 DEF WithBlock, MailOf, Mails
  <2>3. r2 \in Mails
    BY <1>5, <2>2 DEF WithWhat, MailOf, Mails
  <2>4. r3 \in Mails
    BY <1>6, <2>1, <2>3 DEF WithTo, MailOf, Mails
  <2>5. r3 = Asks(v[p], d, type)
    BY <1>4, <1>5, <1>6 DEF WithBlock, WithWhat, WithTo, MailOf, Asks
  <2> QED
    BY <2>2, <2>3, <2>4, <2>5
<1>8. {"SENDING"} \cap Blocks = {"SENDING"}
  BY DEF Blocks
<1>9. Sees(a, Set(v, p, r1))
  BY <1>3, <1>4, <1>8 DEF Blocked
<1>10. PICK b : b = [a EXCEPT !.proc[p].sendmsg = type]
  OBVIOUS
<1>11. Sees(b, Set(v, p, r2))
  <2>1. Sees(b, Set(Set(v, p, r1), p, WithWhat(Set(v, p, r1)[p], type)))
    BY <1>9, <1>10, WhatSees
  <2>2. Set(v, p, r1)[p] = r1
    BY <1>1, <1>7, SetAt
  <2>3. Set(Set(v, p, r1), p, r2) = Set(v, p, r2)
    BY <1>1, <1>7, SetTwice
  <2> QED
    BY <1>5, <2>1, <2>2, <2>3
<1>12. Sees([b EXCEPT !.proc[p].sendto = d], Set(v, p, r3))
  <2>0. d \in Pointers
    BY Constants
  <2>1. Sees([b EXCEPT !.proc[p].sendto = d], Set(Set(v, p, r2), p, WithTo(Set(v, p, r2)[p], d)))
    BY <1>11, <2>0, ToSees
  <2>2. Set(v, p, r2)[p] = r2
    BY <1>1, <1>7, SetAt
  <2>3. Set(Set(v, p, r2), p, r3) = Set(v, p, r3)
    BY <1>1, <1>7, SetTwice
  <2> QED
    BY <1>6, <2>1, <2>2, <2>3
<1>13. k2 = [b EXCEPT !.proc[p].sendto = d]
  BY <1>0, <1>2, <1>10 DEF BlockedAs
<1> QED
  BY <1>7, <1>12, <1>13

(* What the caller of send and receive is like between the two.            *)
Asking(m, src) ==
    ~ Gets(m) /\ ~ Gone(m) /\ "DELIVERMSG" \notin m.misc /\ (Sends(m) => m.to = src)

Lives(v, w) == \A x \in Procs : Gone(w[x]) <=> Gone(v[x])

Sent(v, k2, c, d) ==
    \E w : Sees(k2, w) /\ Fine(w) /\ Keeps(v, w) /\ Lives(v, w) /\ Asking(w[c], d)

(* The process blocks, at the end of the queue.                            *)
JoinedAs(blocked, queue, c, d, k2) ==
    k2 = IF queue = <<>> THEN [blocked EXCEPT !.proc[d].caller_q = c]
         ELSE [blocked EXCEPT !.proc[Last(queue)].q_link = c]

LEMMA JoinMails ==
    ASSUME NEW k, NEW v, Sees(k, v), Fine(v), NEW c \in Procs, NEW d \in Procs,
           CanAsk(v, c, d), NEW type \in Types, NEW queue, queue = Callers(k, d),
           NEW blocked, BlockedAs(k, c, d, type, blocked),
           NEW k2, JoinedAs(blocked, queue, c, d, k2)
    PROVE  Sent(v, k2, c, d)
<1>1. /\ v \in Views /\ Queued(v, Senders(v), NULL)
      /\ \A x \in Procs : v[x] \in Mails /\ Local(v[x], x)
  BY FineFields DEF Fit
<1>2. Free(v[c]) /\ ~ Gone(v[d]) /\ d # c /\ c \notin Senders(v)
  BY DEF CanAsk, MaySend, Senders, Free
<1>3. v[c].link = NULL
  BY <1>1, <1>2, Constants DEF Queued, Free
<1>4. PICK v1 : v1 = Set(v, c, Asks(v[c], d, type))
  OBVIOUS
<1>5. Sees(blocked, v1)
  BY <1>3, <1>4, BlockedSees
<1>6. Apart(v1, NULL, 0)
  BY <1>4, AsksApart
<1>7. PICK r : r = Asks(v[c], d, type)
  OBVIOUS
<1>8. AskedIs(v[c], r, d, type)
  BY <1>1, <1>7, AsksIs
<1>9. v1 \in Views /\ \A x \in Procs : v1[x] = IF x = c THEN r ELSE v[x]
  <2>1. v \in Views /\ r \in Mails
    BY <1>1, <1>8 DEF AskedIs
  <2>2. /\ Set(v, c, r) \in Views
        /\ \A x \in Procs : Set(v, c, r)[x] = IF x = c THEN r ELSE v[x]
    BY <2>1, SetIs
  <2> QED
    BY <1>4, <1>7, <2>2
<1>10. \A x \in Procs : v1[x] \in Mails /\ v1[x].first = v[x].first /\ v1[x].link = v[x].link
  BY <1>1, <1>8, <1>9 DEF AskedIs
<1>11. PICK n, s : Waits(v, Senders(v), d, n, s)
  BY <1>1, <1>2, Constants DEF Queued
<1>12. /\ queue = s /\ n \in Nat /\ s \in [1 .. n -> Procs] /\ Len(s) = n
       /\ \A i \in 1 .. n : s[i] \in Senders(v)
  <2>1. Walks(k, v, Senders(v), d, n, s)
    BY <1>11, WaitsAre
  <2> QED
    BY <2>1 DEF Walks
<1>13. c \in Pointers
  BY Constants
<1>14. \E w : /\ Sees(k2, w) /\ w \in Views /\ \A x \in Procs : SameMail(v1[x], w[x])
              /\ \A x \in Procs :
                    /\ w[x].first = IF n = 0 /\ x = d THEN c ELSE v[x].first
                    /\ w[x].link = IF n # 0 /\ x = s[n] THEN c ELSE v[x].link
  <2>1. CASE n = 0
    <3>1. queue = <<>>
      BY <1>12, <2>1
    <3>2. PICK e : e = [blocked EXCEPT !.proc[d].caller_q = c]
      OBVIOUS
    <3>3. k2 = e
      BY <3>1, <3>2 DEF JoinedAs
    <3>4. PICK q : q = WithFirst(v1[d], c)
      OBVIOUS
    <3>5. Sees(e, Set(v1, d, q))
      BY <1>5, <1>13, <3>2, <3>4, FirstSees
    <3>6. q \in Mails /\ SameMail(v1[d], q) /\ q.first = c /\ q.link = v1[d].link
      BY <1>10, <1>13, <3>4 DEF WithFirst, MailOf, Mails, SameMail
    <3>7. PICK w : w = Set(v1, d, q)
      OBVIOUS
    <3>8. w \in Views /\ \A x \in Procs : w[x] = IF x = d THEN q ELSE v1[x]
      BY <1>9, <3>6, <3>7, SetIs
    <3>9. \A x \in Procs : SameMail(v1[x], w[x])
      BY <3>6, <3>8 DEF SameMail
    <3>10. \A x \in Procs : /\ w[x].first = IF n = 0 /\ x = d THEN c ELSE v[x].first
                            /\ w[x].link = IF n # 0 /\ x = s[n] THEN c ELSE v[x].link
      BY <1>10, <2>1, <3>6, <3>8
    <3> QED
      BY <3>3, <3>5, <3>7, <3>8, <3>9, <3>10
  <2>2. CASE n # 0
    <3>1. queue # <<>> /\ n \in 1 .. n
      BY <1>12, <2>2
    <3>2. PICK l \in Procs : l = s[n]
      BY <1>12, <3>1
    <3>3. Last(queue) = l
      BY <1>12, <3>2 DEF Last
    <3>4. PICK e : e = [blocked EXCEPT !.proc[l].q_link = c]
      OBVIOUS
    <3>5. k2 = e
      BY <3>1, <3>3, <3>4 DEF JoinedAs
    <3>6. PICK q : q = WithLink(v1[l], c)
      OBVIOUS
    <3>7. Sees(e, Set(v1, l, q))
      BY <1>5, <1>13, <3>4, <3>6, LinkSees
    <3>8. q \in Mails /\ SameMail(v1[l], q) /\ q.link = c /\ q.first = v1[l].first
      BY <1>10, <1>13, <3>6 DEF WithLink, MailOf, Mails, SameMail
    <3>9. PICK w : w = Set(v1, l, q)
      OBVIOUS
    <3>10. w \in Views /\ \A x \in Procs : w[x] = IF x = l THEN q ELSE v1[x]
      BY <1>9, <3>8, <3>9, SetIs
    <3>11. \A x \in Procs : SameMail(v1[x], w[x])
      BY <3>8, <3>10 DEF SameMail
    <3>12. \A x \in Procs : /\ w[x].first = IF n = 0 /\ x = d THEN c ELSE v[x].first
                            /\ w[x].link = IF n # 0 /\ x = s[n] THEN c ELSE v[x].link
      BY <1>10, <2>2, <3>2, <3>8, <3>10
    <3> QED
      BY <3>5, <3>7, <3>9, <3>10, <3>11, <3>12
  <2> QED
    BY <2>1, <2>2
<1>15. PICK w : /\ Sees(k2, w) /\ w \in Views /\ \A x \in Procs : SameMail(v1[x], w[x])
                /\ \A x \in Procs :
                      /\ w[x].first = IF n = 0 /\ x = d THEN c ELSE v[x].first
                      /\ w[x].link = IF n # 0 /\ x = s[n] THEN c ELSE v[x].link
  BY <1>14
<1>16. Apart(w, NULL, 0)
  BY <1>6, <1>15, PlacesApart
<1>17. /\ w[c].block = v[c].block \cup {"SENDING"} /\ w[c].to = d /\ w[c].misc = v[c].misc
       /\ \A x \in Procs \ {c} : /\ w[x].block = v[x].block /\ w[x].to = v[x].to
                                 /\ w[x].what = v[x].what
  BY <1>8, <1>9, <1>15 DEF SameMail, AskedIs
<1>18. \A x \in Procs : (Gone(w[x]) <=> Gone(v[x])) /\ (Sends(w[x]) <=> x = c \/ Sends(v[x]))
  BY <1>17 DEF Gone, Sends
<1>19. Joined(v, w, c, d, n, s)
  BY <1>15, <1>17, <1>18 DEF Joined
<1>20. Queued(w, Senders(v) \cup {c}, NULL)
  BY <1>1, <1>2, <1>11, <1>15, <1>19, JoinedQueued DEF Free
<1>21. Senders(w) = Senders(v) \cup {c}
  BY <1>18 DEF Senders
<1>22. Fine(w)
  BY <1>16, <1>20, <1>21 DEF Fine, Fit
<1>23. Keeps(v, w)
  <2>1. ~ Sends(v[c])
    BY <1>2 DEF Free
  <2> QED
    BY <1>17, <1>18, <2>1 DEF Keeps
<1>24. Asking(w[c], d)
  BY <1>2, <1>17 DEF Asking, Free, Gets, Gone
<1>25. Lives(v, w)
  BY <1>18 DEF Lives
<1> QED
  BY <1>15, <1>22, <1>23, <1>24, <1>25 DEF Sent

(* The receiver waits: it gets the message, and expects a reply no more.   *)
Given(v, k2, d, c, n, m, g) ==
    \E w : Eases(v, k2, w, c, n, m, g) /\ \A y \in Procs \ {d} : w[y] = v[y]

LEMMA GivenMails ==
    ASSUME NEW k, NEW v, Sees(k, v), NEW c, NEW n, NEW m, NEW g, Fit(v, c, n, m, g),
           NEW d \in Procs, NEW x \in Messages, Gets(v[d]), ~ Sends(v[d]),
           NEW k2, k2 = RTS_UNSET(UnsetMisc(Deliver(k, d, x), d, "REPLY_PEND"), d, {"RECEIVING"})
    PROVE  Given(v, k2, d, c, n, m, g)
<1>1. v \in Views /\ v[d] \in Mails /\ "DELIVERMSG" \notin v[d].misc
  BY FitFields DEF Local
<1>2. PICK r1 : r1 = WithMisc(WithGot(v[d], x), v[d].misc \cup {"DELIVERMSG"})
  OBVIOUS
<1>3. PICK r2 : r2 = WithMisc(r1, r1.misc \ {"REPLY_PEND"})
  OBVIOUS
<1>4. PICK r3 : r3 = WithBlock(r2, r2.block \ {"RECEIVING"})
  OBVIOUS
<1>5. PICK t : t = MailOf(v[d].block \ {"RECEIVING"}, v[d].misc \cup {"DELIVERMSG"},
                          v[d].from, v[d].to, v[d].what, v[d].first, v[d].link, x,
                          v[d].notes, v[d].table)
  OBVIOUS
<1>6. r1 \in Mails
  BY <1>1, <1>2 DEF WithMisc, WithGot, MailOf, Mails, MiscFlags
<1>7. r2 \in Mails
  BY <1>3, <1>6 DEF WithMisc, MailOf, Mails
<1>8. r3 \in Mails
  BY <1>4, <1>7 DEF WithBlock, MailOf, Mails
<1>9. t \in Mails
  BY <1>1, <1>5 DEF MailOf, Mails, MiscFlags
<1>10. r3 = WithMisc(t, t.misc \ {"REPLY_PEND"})
  BY <1>2, <1>3, <1>4, <1>5 DEF WithMisc, WithGot, WithBlock, MailOf
<1>11. PICK a : a = Deliver(k, d, x)
  OBVIOUS
<1>12. Sees(a, Set(v, d, r1))
  BY <1>1, <1>2, <1>11, DeliverSees DEF Gives
<1>13. PICK b : b = UnsetMisc(a, d, "REPLY_PEND")
  OBVIOUS
<1>14. Sees(b, Set(v, d, r2))
  <2>1. Sees(b, Clears(Set(v, d, r1), d, "REPLY_PEND"))
    BY <1>12, <1>13, UnsetMiscSees
  <2>2. Set(v, d, r1)[d] = r1
    BY <1>1, <1>6, SetAt
  <2>3. Set(Set(v, d, r1), d, r2) = Set(v, d, r2)
    BY <1>1, <1>6, <1>7, SetTwice
  <2> QED
    BY <1>3, <2>1, <2>2, <2>3 DEF Clears
<1>15. Sees(k2, Set(v, d, r3))
  <2>1. Sees(k2, Unblocked(Set(v, d, r2), d, {"RECEIVING"}))
    BY <1>11, <1>13, <1>14, RtsUnsetSees
  <2>2. Set(v, d, r2)[d] = r2
    BY <1>1, <1>7, SetAt
  <2>3. Set(Set(v, d, r2), d, r3) = Set(v, d, r3)
    BY <1>1, <1>7, <1>8, SetTwice
  <2> QED
    BY <1>4, <2>1, <2>2, <2>3 DEF Unblocked
<1>16. PICK u : u = Takes(v, d, x)
  OBVIOUS
<1>17. u = Set(v, d, t)
  BY <1>1, <1>5, <1>16, TakesIs
<1>18. Fit(u, c, n, m, g) /\ Stays(v, u)
  BY <1>1, <1>16, TakesFit, TakesStays
<1>19. u[d] = t /\ u \in Views /\ \A y \in Procs \ {d} : u[y] = v[y]
  BY <1>1, <1>9, <1>17, SetIs
<1>20. PICK w : w = Set(v, d, r3)
  OBVIOUS
<1>21. w = Clears(u, d, "REPLY_PEND")
  <2>1. Set(Set(v, d, t), d, r3) = Set(v, d, r3)
    BY <1>1, <1>8, <1>9, SetTwice
  <2> QED
    BY <1>10, <1>17, <1>19, <1>20, <2>1 DEF Clears
<1>22. Fit(w, c, n, m, g)
  BY <1>18, <1>21, ClearFit
<1>23. w[d] = r3 /\ \A y \in Procs \ {d} : w[y] = v[y]
  BY <1>1, <1>8, <1>20, SetIs
<1>24. Stays(v, w)
  <2>1. /\ r3.block = v[d].block \ {"RECEIVING"} /\ SamePlace(v[d], r3)
    BY <1>2, <1>3, <1>4 DEF WithMisc, WithGot, WithBlock, MailOf, SamePlace
  <2>2. (Sends(r3) <=> Sends(v[d])) /\ (Gone(r3) <=> Gone(v[d]))
    BY <2>1 DEF Sends, Gone
  <2> QED
    BY <1>1, <1>8, <1>20, <2>1, <2>2, SetStays
<1> QED
  BY <1>15, <1>20, <1>22, <1>23, <1>24 DEF Given, Eases

LEMMA KeepsSelf == ASSUME NEW v PROVE Keeps(v, v) /\ Lives(v, v)
  BY DEF Keeps, Lives

LEMMA SendMails ==
    ASSUME NEW k, NEW v, Sees(k, v), Fine(v), NEW c \in Procs, NEW d \in Procs, d # c,
           Free(v[c]), NEW type \in Types, NEW nonblocking \in BOOLEAN,
           nonblocking = FALSE => MaySend(c, d)
    PROVE  Sent(v, mini_send(k, c, d, type, nonblocking).k, c, d)
<1>1. Fit(v, NULL, 0, Senders(v), NULL) /\ Ranked(v)
  BY FineFields, FitFields
<1>2. PICK x : x = Message(c, type)
  OBVIOUS
<1>3. x \in Messages
  BY <1>2, MessageIn, Constants
<1>4. PICK b : b = RTS_UNSET(UnsetMisc(Deliver(k, d, x), d, "REPLY_PEND"), d, {"RECEIVING"})
  OBVIOUS
<1>5. PICK blocked : BlockedAs(k, c, d, type, blocked)
  BY DEF BlockedAs
<1>6. PICK queue : queue = Callers(k, d)
  OBVIOUS
<1>7. PICK e : JoinedAs(blocked, queue, c, d, e)
  BY DEF JoinedAs
<1>8. mini_send(k, c, d, type, nonblocking) =
         IF isempty(k, d) THEN [k |-> k, r |-> "EDEADSRCDST"]
         ELSE IF WILLRECEIVE(k, d, c) THEN [k |-> b, r |-> "OK"]
         ELSE IF nonblocking THEN [k |-> k, r |-> "ENOTREADY"]
         ELSE IF deadlock(k, "SEND", c, d) THEN [k |-> k, r |-> "ELOCKED"]
         ELSE [k |-> e, r |-> "OK"]
  BY <1>2, <1>4, <1>5, <1>6, <1>7 DEF mini_send, BlockedAs, JoinedAs
<1>9. PICK k2 : k2 = mini_send(k, c, d, type, nonblocking).k
  OBVIOUS
<1>10. \/ k2 = k
       \/ k2 = b /\ WILLRECEIVE(k, d, c)
       \/ /\ k2 = e /\ ~ isempty(k, d) /\ ~ WILLRECEIVE(k, d, c) /\ nonblocking = FALSE
          /\ ~ deadlock(k, "SEND", c, d)
  BY <1>8, <1>9
<1>11. CASE k2 = k
  <2>1. Asking(v[c], d)
    BY DEF Asking, Free
  <2> QED
    BY <1>9, <1>11, <2>1, KeepsSelf DEF Sent
<1>12. CASE k2 = b /\ WILLRECEIVE(k, d, c)
  <2>1. Gets(v[d]) /\ ~ Sends(v[d])
    BY <1>12, WillSeen DEF Will
  <2>2. Given(v, b, d, NULL, 0, Senders(v), NULL)
    BY <1>1, <1>3, <1>4, <2>1, GivenMails
  <2>3. PICK w : /\ Sees(b, w) /\ Fit(w, NULL, 0, Senders(v), NULL) /\ Stays(v, w)
                 /\ \A y \in Procs \ {d} : w[y] = v[y]
    BY <2>2 DEF Given, Eases
  <2>4. Fine(w) /\ Keeps(v, w) /\ Lives(v, w)
    BY <2>3, StaysSame, StaysKeeps DEF Fine, Stays, Lives
  <2>5. Asking(w[c], d)
    BY <2>3 DEF Asking, Free
  <2> QED
    BY <1>9, <1>12, <2>3, <2>4, <2>5 DEF Sent
<1>13. CASE /\ k2 = e /\ ~ isempty(k, d) /\ ~ WILLRECEIVE(k, d, c) /\ nonblocking = FALSE
            /\ ~ deadlock(k, "SEND", c, d)
  <2>1. ~ Gone(v[d]) /\ ~ Will(v[d], c) /\ MaySend(c, d)
    BY <1>13, FlagsSeen, WillSeen
  <2>2. On(v[d]) = c => Sends(v[d])
    BY <2>1, Constants DEF On, Will
  <2>3. PICK call : call = "SEND"
    OBVIOUS
  <2>4. ~ deadlock(k, call, c, d) /\ (On(v[d]) = c => (Sends(v[d]) <=> call = "SEND"))
    BY <1>13, <2>2, <2>3
  <2>5. \E R : Closed(v, d, c, R)
    BY <1>1, <2>4, NoDeadlock
  <2>6. CanAsk(v, c, d)
    BY <2>1, <2>5 DEF CanAsk
  <2>7. Sent(v, e, c, d)
    BY <1>5, <1>6, <1>7, <2>6, JoinMails
  <2> QED
    BY <1>9, <1>13, <2>7
<1> QED
  BY <1>10, <1>11, <1>12, <1>13

-----------------------------------------------------------------------------
(* The end of a quantum: the scheduler never waits for the process.        *)
LEMMA ServedOn ==
    ASSUME NEW v, \A x \in Procs : Local(v[x], x), NEW B \in SUBSET Procs, Serves(B), NEW x \in B
    PROVE  On(v[x]) \in B \cup {ANY, NULL}
<1>1. x \in Procs /\ Local(v[x], x)
  OBVIOUS
<1>2. ASSUME NEW call \in Waiting \cup {"RECEIVE"}, NEW d, <<call, x, d>> \in Calls
      PROVE  d \in B \cup {ANY}
  <2>1. PICK c \in Calls : c = <<call, x, d>>
    BY <1>2
  <2>2. c[1] = call /\ c[2] = x /\ c[3] = d
    BY <2>1
  <2> QED
    BY <2>2 DEF Serves
<1>3. CASE Sends(v[x])
  <2>1. MaySend(x, v[x].to)
    BY <1>1, <1>3 DEF Local
  <2>2. v[x].to \in B \cup {ANY}
    BY <1>2, <2>1 DEF MaySend, Serves
  <2> QED
    BY <1>3, <2>2 DEF On
<1>4. CASE ~ Sends(v[x]) /\ Gets(v[x])
  <2>1. MayGet(x, v[x].from)
    BY <1>1, <1>4 DEF Local
  <2>2. v[x].from \in B \cup {ANY}
    BY <1>2, <2>1 DEF MayGet, Waiting
  <2> QED
    BY <1>4, <2>2 DEF On
<1> QED
  BY <1>3, <1>4 DEF On

LEMMA SchedulerFree ==
    ASSUME NEW k, NEW v, Sees(k, v), Fine(v), NEW B \in SUBSET Procs, Serves(B),
           NEW p \in Procs, p \in Scheduled
    PROVE  ~ deadlock(k, "SEND", p, SCHED)
<1>1. Ranked(v) /\ \A x \in Procs : Local(v[x], x)
  BY FineFields, FitFields
<1>2. SCHED \in Procs /\ SCHED \in B /\ p \notin B /\ p # NULL /\ p # ANY
  BY Constants, AnyIs DEF Serves
<1>3. PICK n, s : Follows(k, v, p, SCHED, n, s)
  BY <1>1, <1>2, FollowsExists
<1>4. /\ n \in Nat \ {0} /\ s \in [1 .. n -> Procs] /\ s[1] = SCHED /\ Len(s) = n
      /\ \A i \in 1 .. n : i # n => On(v[s[i]]) = s[i + 1] /\ s[i + 1] # ANY
  BY <1>3 DEF Follows
<1>5. \A i \in 1 .. n : s[i] \in B
  <2> SUFFICES ASSUME NEW i \in 1 .. n, s[i] \notin B
               PROVE  FALSE
    OBVIOUS
  <2>1. PICK T : T = {j \in 1 .. n : s[j] \notin B}
    OBVIOUS
  <2>2. T \in SUBSET Nat /\ T # {}
    BY <1>4, <2>1
  <2>3. PICK j \in T : \A y \in T : j <= y
    BY <2>2, LeastNat
  <2>4. j \in 1 .. n /\ s[j] \notin B /\ j # 1
    BY <1>2, <1>4, <2>1, <2>3
  <2>5. PICK a : a = j - 1
    OBVIOUS
  <2>6. a \in 1 .. n /\ a # n /\ a + 1 = j /\ ~ (j <= a)
    BY <1>4, <2>4, <2>5
  <2>7. s[a] \in B
    BY <2>1, <2>3, <2>6
  <2>8. On(v[s[a]]) \in B \cup {ANY, NULL}
    BY <1>1, <2>7, ServedOn
  <2>9. On(v[s[a]]) = s[j] /\ s[j] # ANY /\ s[j] # NULL
    BY <1>4, <2>4, <2>6, Constants
  <2> QED
    BY <2>4, <2>8, <2>9
<1>6. PICK xp \in Procs : xp = s[n]
  BY <1>4
<1>7. On(v[xp]) # p
  <2>1. xp \in B
    BY <1>4, <1>5, <1>6
  <2>2. On(v[xp]) \in B \cup {ANY, NULL}
    BY <1>1, <2>1, ServedOn
  <2> QED
    BY <1>2, <2>2
<1>8. PICK on : on = [x \in Procs |-> P_BLOCKEDON(k, x)]
  OBVIOUS
<1>9. PICK group : group = Chain(SCHED, [x \in Procs |-> IF on[x] \in {ANY, p} THEN NULL ELSE on[x]])
  OBVIOUS
<1>10. [x \in Procs |-> IF on[x] \in {ANY, p} THEN NULL ELSE on[x]]
          = [x \in Procs |-> IF P_BLOCKEDON(k, x) \in {ANY, p} THEN NULL ELSE P_BLOCKEDON(k, x)]
  BY <1>8
<1>11. group = s
  BY <1>3, <1>9, <1>10 DEF Follows
<1>12. Last(group) = xp
  BY <1>4, <1>6, <1>11 DEF Last
<1>13. on[xp] # p
  BY <1>7, <1>8, OnSeen
<1> QED
  BY <1>8, <1>9, <1>12, <1>13 DEF deadlock

LEMMA NoTimeMails ==
    ASSUME NEW k, NEW v, Sees(k, v), Fine(v), NEW B \in SUBSET Procs, Serves(B),
           NEW p \in Procs, Free(v[p])
    PROVE  Sent(v, proc_no_time(k, p), p, SCHED)
<1>1. CASE p \in Scheduled
  <2>1. PICK a : a = RTS_SET(k, p, {"NO_QUANTUM"})
    OBVIOUS
  <2>2. Sees(a, v)
    <3>1. {"NO_QUANTUM"} \in SUBSET Flags /\ {"NO_QUANTUM"} \cap Blocks = {}
      BY DEF Flags, Blocks
    <3> QED
      BY <2>1, <3>1, RtsSetUnseen
  <2>3. PICK sent : sent = mini_send(a, p, SCHED, "NO_QUANTUM", FALSE)
    OBVIOUS
  <2>4. SCHED \in Procs /\ SCHED # p /\ SCHED \notin Mortal
    BY <1>1, Constants, KernelAssumption
  <2>5. Sent(v, sent.k, p, SCHED)
    <3>1. MaySend(p, SCHED)
      BY <2>4 DEF MaySend
    <3>2. "NO_QUANTUM" \in Types /\ FALSE \in BOOLEAN
      BY DEF Types
    <3> QED
      BY <2>2, <2>3, <2>4, <3>1, <3>2, SendMails
  <2>6. sent.r = "OK"
    <3>1. ~ isempty(a, SCHED)
      BY <2>2, <2>4, FineFields, FlagsSeen DEF Local
    <3>2. ~ deadlock(a, "SEND", p, SCHED)
      BY <1>1, <2>2, SchedulerFree
    <3> QED
      BY <2>3, <3>1, <3>2 DEF mini_send
  <2>7. PICK c : c = (sent.r = "OK")
    OBVIOUS
  <2>8. proc_no_time(k, p) = assert(sent.k, c)
    BY <1>1, <2>1, <2>3, <2>7 DEF proc_no_time, notify_scheduler
  <2>9. PICK w : /\ Sees(sent.k, w) /\ Fine(w) /\ Keeps(v, w) /\ Lives(v, w)
                 /\ Asking(w[p], SCHED)
    BY <2>5 DEF Sent
  <2>10. Sees(assert(sent.k, c), w)
    <3>1. PICK k2 : k2 = sent.k
      OBVIOUS
    <3>2. Sees(k2, w) /\ c = TRUE
      BY <2>6, <2>7, <2>9, <3>1
    <3>3. Sees(assert(k2, c), w)
      BY <3>2, AssertSees
    <3> QED
      BY <3>1, <3>3
  <2> QED
    BY <2>8, <2>9, <2>10 DEF Sent
<1>2. CASE p \notin Scheduled
  <2>1. PICK k2 : k2 = [k EXCEPT !.proc[p].time_left = 1]
    OBVIOUS
  <2>2. proc_no_time(k, p) = k2
    BY <1>2, <2>1 DEF proc_no_time
  <2>3. Sees(k2, v)
    BY <2>1, TimeSees
  <2>4. Asking(v[p], SCHED)
    BY DEF Asking, Free
  <2> QED
    BY <2>2, <2>3, <2>4, KeepsSelf DEF Sent
<1> QED
  BY <1>1, <1>2

-----------------------------------------------------------------------------
(* Asynchronous messages are tried: what processes wait for is as before,  *)
(* and no entry of a table comes to be due.                                *)
Fewer(v, w) ==
    \A x, y \in Procs : /\ Todo(w[x].table, y) \subseteq Todo(v[x].table, y)
                        /\ Due(w, x, y) \subseteq Due(v, x, y)

Hushed(v, w) ==
    /\ Stays(v, w) /\ Fewer(v, w)
    /\ \A x \in Procs : /\ w[x].block = v[x].block /\ w[x].from = v[x].from
                        /\ w[x].notes = v[x].notes
                        /\ "REPLY_PEND" \in w[x].misc <=> "REPLY_PEND" \in v[x].misc

Sub(t, u) == \A i \in DOMAIN t : ~ t[i].done => i \in DOMAIN u /\ t[i] = u[i]

HushedRecord(m, r) ==
    /\ r \in Mails /\ r.block = m.block /\ r.from = m.from /\ r.notes = m.notes
    /\ SamePlace(m, r) /\ Sub(r.table, m.table)
    /\ "REPLY_PEND" \in r.misc <=> "REPLY_PEND" \in m.misc

LEMMA HushedSet ==
    ASSUME NEW v \in Views, NEW p \in Procs, NEW r, HushedRecord(v[p], r)
    PROVE  Hushed(v, Set(v, p, r))
<1>1. PICK w : w = Set(v, p, r)
  OBVIOUS
<1>2. r \in Mails
  BY DEF HushedRecord
<1>3. \A x \in Procs : w[x] = IF x = p THEN r ELSE v[x]
  BY <1>1, <1>2, SetIs
<1>4. \A x \in Procs : Sub(w[x].table, v[x].table)
  BY <1>3 DEF HushedRecord, Sub
<1>5. \A x \in Procs : /\ w[x].block = v[x].block /\ w[x].from = v[x].from
                       /\ w[x].notes = v[x].notes /\ SamePlace(v[x], w[x])
                       /\ "REPLY_PEND" \in w[x].misc <=> "REPLY_PEND" \in v[x].misc
  BY <1>3 DEF HushedRecord, SamePlace
<1>6. Fewer(v, w)
  BY <1>4, <1>5 DEF Fewer, Sub, Todo, Due
<1>7. Stays(v, w)
  BY <1>5 DEF Stays, Sends, Gone
<1> QED
  BY <1>1, <1>5, <1>6, <1>7 DEF Hushed

LEMMA HushedTwice ==
    ASSUME NEW u, NEW v, NEW w, Hushed(u, v), Hushed(v, w)
    PROVE  Hushed(u, w)
<1>1. Stays(u, w)
  BY StaysTwice DEF Hushed
<1>2. Fewer(u, w)
  BY DEF Hushed, Fewer
<1> QED
  BY <1>1, <1>2 DEF Hushed

LEMMA HushedSelf ==
    ASSUME NEW v
    PROVE  Hushed(v, v)
  BY StaysSelf DEF Hushed, Fewer

LEMMA HushedFine ==
    ASSUME NEW v, NEW w, Hushed(v, w), Fit(w, NULL, 0, Senders(v), NULL)
    PROVE  Fine(w)
  BY StaysSame DEF Hushed, Fine

LEMMA DoneIs ==
    ASSUME NEW t \in Seq(Entries), NEW i
    PROVE  Done(t, i) \in Seq(Entries) /\ Sub(Done(t, i), t) /\ Within(Done(t, i), t)
<1>1. Done(t, i) \in Seq(Entries)
  BY TableDone DEF Done
<1>2. DOMAIN Done(t, i) = DOMAIN t
  BY DEF Done
<1>3. ASSUME NEW j \in DOMAIN t, ~ Done(t, i)[j].done
      PROVE  Done(t, i)[j] = t[j]
  <2>1. t[j] \in Entries
    BY <1>3
  <2>2. CASE i = j
    <3>1. Done(t, i)[j] = [t[j] EXCEPT !.done = TRUE]
      BY <2>2 DEF Done
    <3>2. [t[j] EXCEPT !.done = TRUE].done = TRUE
      BY <2>1 DEF Entries
    <3> QED
      BY <1>3, <3>1, <3>2
  <2>3. CASE i # j
    BY <2>3 DEF Done
  <2> QED
    BY <2>2, <2>3
<1> QED
  BY <1>1, <1>2, <1>3 DEF Sub, Within

Tried(v, k2, d, quiet) ==
    \E w : /\ Sees(k2, w) /\ Fine(w) /\ Hushed(v, w)
           /\ quiet => "DELIVERMSG" \notin w[d].misc

LEMMA TryOneMails ==
    ASSUME NEW k, NEW v, Sees(k, v), Fine(v), NEW src \in Procs, NEW d \in Procs, Free(v[d])
    PROVE  Tried(v, try_one(k, src, d), d, Due(v, src, d) = {})
<1> DEFINE left == Deliverable(k, src, d)
           over == \A j \in DOMAIN k.priv[src].asyntab : k.priv[src].asyntab[j].done
<1>1. /\ v \in Views /\ Fit(v, NULL, 0, Senders(v), NULL)
      /\ \A x \in Procs : v[x] \in Mails /\ Local(v[x], x)
  BY FineFields
<1>2. left = Due(v, src, d) /\ k.priv[src].asyntab = v[src].table /\ v[src].table \in Seq(Entries)
  BY <1>1, UndoneSeen, FieldsSeen DEF Mails
<1>3. CASE left # {}
  <2>1. PICK j : j \in left
    BY <1>3
  <2>2. j \in DOMAIN v[src].table /\ ~ v[src].table[j].done
    BY <1>2, <2>1 DEF Due, Todo
  <2>3. ~ over
    BY <1>2, <2>2
  <2>4. PICK i : i = Min(left)
    OBVIOUS
  <2>5. PICK x : x = Message(src, "ASYN")
    OBVIOUS
  <2>6. x \in Messages
    BY <2>5, MessageIn, Constants DEF Types
  <2>7. PICK a : a = Deliver(k, d, x)
    OBVIOUS
  <2>8. PICK v1 : v1 = Gives(v, d, x)
    OBVIOUS
  <2>9. Sees(a, v1)
    BY <2>6, <2>7, <2>8, DeliverSees DEF Free
  <2>10. Fit(v1, NULL, 0, Senders(v), NULL)
    BY <1>1, <2>6, <2>8, GivesFit DEF Free
  <2>11. PICK r1 : r1 = WithMisc(WithGot(v[d], x), v[d].misc \cup {"DELIVERMSG"})
    OBVIOUS
  <2>12. HushedRecord(v[d], r1) /\ r1.table = v[d].table
    BY <1>1, <2>6, <2>11
       DEF HushedRecord, WithMisc, WithGot, MailOf, Mails, MiscFlags, SamePlace, Sub
  <2>13. v1 = Set(v, d, r1)
    BY <2>8, <2>11 DEF Gives
  <2>14. Hushed(v, v1)
    BY <1>1, <2>12, <2>13, HushedSet
  <2>15. v1 \in Views /\ v1[src] \in Mails /\ v1[src].table = v[src].table
    <3>1. r1 \in Mails
      BY <2>12 DEF HushedRecord
    <3>2. IsSet(v, d, r1, v1)
      BY <1>1, <2>13, <3>1, SetAs
    <3> QED
      BY <1>1, <2>12, <3>1, <3>2 DEF IsSet
  <2>16. PICK b : Ticked(a, src, i, b)
    BY DEF Ticked
  <2>17. PICK t : t = Done(v1[src].table, i)
    OBVIOUS
  <2>18. t \in Seq(Entries) /\ Sub(t, v1[src].table) /\ Within(t, v1[src].table)
    <3>1. PICK u \in Seq(Entries) : u = v1[src].table
      BY <1>2, <2>15
    <3> QED
      BY <2>17, <3>1, DoneIs
  <2>19. PICK r2 : r2 = WithTable(v1[src], t)
    OBVIOUS
  <2>20. PICK w : w = Set(v1, src, r2)
    OBVIOUS
  <2>21. Sees(b, w)
    BY <2>9, <2>16, <2>17, <2>19, <2>20, EntrySees
  <2>22. src \in System
    BY <1>1, <2>2 DEF Local
  <2>23. Fit(w, NULL, 0, Senders(v), NULL)
    BY <2>10, <2>18, <2>19, <2>20, <2>22, TableFit
  <2>24. HushedRecord(v1[src], r2)
    BY <2>15, <2>18, <2>19 DEF HushedRecord, WithTable, MailOf, Mails, SamePlace
  <2>25. Hushed(v, w)
    BY <2>14, <2>15, <2>20, <2>24, HushedSet, HushedTwice
  <2>26. Fine(w)
    BY <2>23, <2>25, HushedFine
  <2>27. try_one(k, src, d) = b
    BY <1>3, <2>3, <2>4, <2>5, <2>7, <2>16 DEF try_one, Ticked
  <2> QED
    BY <1>2, <1>3, <2>21, <2>25, <2>26, <2>27 DEF Tried
<1>4. CASE left = {} /\ over
  <2>1. PICK b : b = [k EXCEPT !.priv[src].asyntab = <<>>]
    OBVIOUS
  <2>2. PICK t : t = <<>>
    OBVIOUS
  <2>3. t \in Seq(Entries) /\ Within(t, v[src].table) /\ Sub(t, v[src].table)
    BY <2>2 DEF Within, Sub
  <2>4. PICK r : r = WithTable(v[src], t)
    OBVIOUS
  <2>5. PICK w : w = Set(v, src, r)
    OBVIOUS
  <2>6. Sees(b, w)
    BY <2>1, <2>2, <2>3, <2>4, <2>5, TableSees
  <2>7. Fit(w, NULL, 0, Senders(v), NULL)
    BY <1>1, <2>2, <2>3, <2>4, <2>5, TableFit
  <2>8. HushedRecord(v[src], r) /\ r.misc = v[src].misc
    BY <1>1, <2>3, <2>4 DEF HushedRecord, WithTable, MailOf, Mails, SamePlace
  <2>9. Hushed(v, w)
    BY <1>1, <2>5, <2>8, HushedSet
  <2>10. Fine(w)
    BY <2>7, <2>9, HushedFine
  <2>11. w[d].misc = v[d].misc
    <3>1. r \in Mails
      BY <2>8 DEF HushedRecord
    <3>2. IsSet(v, src, r, w)
      BY <1>1, <2>5, <3>1, SetAs
    <3> QED
      BY <2>8, <3>2 DEF IsSet
  <2>12. "DELIVERMSG" \notin w[d].misc
    BY <2>11 DEF Free
  <2>13. try_one(k, src, d) = b
    BY <1>4, <2>1 DEF try_one
  <2> QED
    BY <2>6, <2>9, <2>10, <2>12, <2>13 DEF Tried
<1>5. CASE left = {} /\ ~ over
  <2>1. try_one(k, src, d) = k
    BY <1>5 DEF try_one
  <2>2. "DELIVERMSG" \notin v[d].misc
    BY DEF Free
  <2> QED
    BY <2>1, <2>2, HushedSelf DEF Tried
<1> QED
  BY <1>3, <1>4, <1>5

LEMMA UpTo ==
    ASSUME NEW n \in Nat, NEW T, 0 \in T, \A i \in 1 .. n : i - 1 \in T => i \in T
    PROVE  n \in T
<1> SUFFICES ASSUME n \notin T
             PROVE  FALSE
  OBVIOUS
<1>1. PICK S : S = {i \in 0 .. n : i \notin T}
  OBVIOUS
<1>2. S \in SUBSET Nat /\ n \in S
  BY <1>1
<1>3. PICK j \in S : \A y \in S : j <= y
  BY <1>2, LeastNat
<1>4. j \in 1 .. n /\ j \notin T /\ j - 1 \notin S
  BY <1>1, <1>3
<1>5. j - 1 \in 0 .. n
  BY <1>4
<1> QED
  BY <1>1, <1>4, <1>5

(* try_async tries one process after the other, up to the first with       *)
(* something that is due.                                                  *)
NoneDue(v, d) == \A s \in System : ~ Gone(v[s]) => Due(v, s, d) = {}

LEMMA TryStepMails ==
    ASSUME NEW k, NEW v, NEW d \in Procs, Free(v[d]), NEW q, NEW q2, NEW s \in Procs,
           Tried(v, k, d, q), q = TRUE, q2 => Due(v, s, d) = {}
    PROVE  Tried(v, try_one(k, s, d), d, q2)
<1>1. PICK w : /\ Sees(k, w) /\ Fine(w) /\ Hushed(v, w) /\ "DELIVERMSG" \notin w[d].misc
  BY DEF Tried
<1>2. Free(w[d])
  BY <1>1 DEF Hushed, Free, Sends, Gets, Gone
<1>3. Tried(w, try_one(k, s, d), d, Due(w, s, d) = {})
  BY <1>1, <1>2, TryOneMails
<1>4. PICK u : /\ Sees(try_one(k, s, d), u) /\ Fine(u) /\ Hushed(w, u)
               /\ Due(w, s, d) = {} => "DELIVERMSG" \notin u[d].misc
  BY <1>3 DEF Tried
<1>5. Hushed(v, u)
  BY <1>1, <1>4, HushedTwice
<1>6. Due(w, s, d) \subseteq Due(v, s, d)
  BY <1>1 DEF Hushed, Fewer
<1>7. q2 => Due(w, s, d) = {}
  BY <1>6
<1> QED
  BY <1>4, <1>5, <1>7 DEF Tried

LEMMA TryAsyncMails ==
    ASSUME NEW k, NEW v, Sees(k, v), Fine(v), NEW d \in Procs, Free(v[d])
    PROVE  Tried(v, try_async(k, d), d, NoneDue(v, d))
<1> DEFINE live == {s \in System : ~ isempty(k, s)}
           found == {s \in live : Deliverable(k, s, d) # {}}
           set == IF found = {} THEN live ELSE {s \in live : s <= Min(found)}
<1>1. PICK tried : tried = set
  OBVIOUS
<1>2. tried \in SUBSET Procs
  BY <1>1, Constants
<1>3. PICK f : f = CHOOSE g : Trying(k, d, tried, g)
  OBVIOUS
<1>4. k \in Kernels
  BY SeesFields
<1>5. Trying(k, d, tried, f)
  BY <1>2, <1>3, <1>4, TryingExists
<1>6. PICK a : a = f[NR_PROCS]
  OBVIOUS
<1>7. PICK none : none = (found = {} /\ \A s \in live : Postponed(k, s, d) = {})
  OBVIOUS
<1>8. try_async(k, d) = IF none THEN UnsetMisc(a, d, "ASYNMSG") ELSE a
  <2>1. try_async(k, d) = IF found = {} /\ \A s \in live : Postponed(k, s, d) = {}
                            THEN UnsetMisc(a, d, "ASYNMSG") ELSE a
    BY <1>1, <1>3, <1>6 DEF try_async, Trying
  <2> QED
    BY <1>7, <2>1
<1>9. \A s \in System : /\ s \in live <=> ~ Gone(v[s])
                        /\ s \in found <=> ~ Gone(v[s]) /\ Due(v, s, d) # {}
                        /\ s \in live => Postponed(k, s, d) = Todo(v[s].table, d) \ Due(v, s, d)
  <2> TAKE s \in System
  <2>1. s \in Procs
    BY Constants
  <2>2. s \in live <=> ~ Gone(v[s])
    BY <2>1, FlagsSeen
  <2>3. /\ Deliverable(k, s, d) = Due(v, s, d)
        /\ Postponed(k, s, d) = Todo(v[s].table, d) \ Due(v, s, d)
    BY <2>1, UndoneSeen
  <2> QED
    BY <2>2, <2>3
<1>10. PICK low \in Nat : found # {} => low = Min(found) /\ low \in found
  <2>1. found \in SUBSET Nat
    BY Constants
  <2>2. found # {} => Min(found) \in found
    <3> HIDE DEF found
    <3> QED
      BY <2>1, MinIn
  <2>3. found # {} => Min(found) \in Nat
    BY <2>1, <2>2
  <2> HIDE DEF found
  <2>4. CASE found = {}
    <3>1. \E low \in Nat : found # {} => low = Min(found) /\ low \in found
      BY <2>4, Constants
    <3> QED
      BY <3>1
  <2>5. CASE found # {}
    BY <2>2, <2>3, <2>5
  <2> QED
    BY <2>4, <2>5
<1>11. PICK still : still = {i \in 0 .. NR_PROCS : found = {} \/ i < low}
  OBVIOUS
<1>112. \A i \in 0 .. NR_PROCS : i \in still <=> found = {} \/ i < low
  <2> HIDE DEF found
  <2> QED
    BY <1>11
<1>12. PICK T : T = {i \in 0 .. NR_PROCS : Tried(v, f[i], d, (i \in still))}
  OBVIOUS
<1>13. NR_PROCS \in Nat /\ 0 \in 0 .. NR_PROCS
  BY Constants
<1>14. 0 \in T
  <2>1. f[0] = k
    BY <1>5, <1>13 DEF Trying
  <2>2. "DELIVERMSG" \notin v[d].misc
    BY DEF Free
  <2>3. Tried(v, f[0], d, (0 \in still))
    BY <2>1, <2>2, HushedSelf DEF Tried
  <2> QED
    BY <1>12, <1>13, <2>3
<1>15. ASSUME NEW i \in 1 .. NR_PROCS, i - 1 \in T
       PROVE  i \in T
  <2>0. i \in 0 .. NR_PROCS /\ i - 1 \in 0 .. NR_PROCS
    BY <1>13
  <2>1. PICK k1 : k1 = f[i - 1]
    OBVIOUS
  <2>2. Tried(v, k1, d, (i - 1 \in still))
    BY <1>12, <1>15, <2>1
  <2>3. f[i] = IF i \in tried THEN try_one(k1, i, d) ELSE k1
    BY <1>5, <2>0, <2>1 DEF Trying
  <2>4. (i \in still) => (i - 1 \in still)
    <3> HIDE DEF found
    <3> QED
      BY <1>112, <1>13, <2>0
  <2>5. CASE i \notin tried
    <3>1. Tried(v, k1, d, (i \in still))
      BY <2>2, <2>4 DEF Tried
    <3> QED
      BY <1>12, <2>0, <2>3, <2>5, <3>1
  <2>6. CASE i \in tried
    <3>1. i \in live /\ (found # {} => i <= low)
      BY <1>1, <1>10, <2>6
    <3>2. (i - 1 \in still) = TRUE
      <4>1. found = {} \/ i - 1 < low
        <5> HIDE DEF found
        <5> QED
          BY <1>13, <2>0, <3>1
      <4> HIDE DEF found
      <4> QED
        BY <1>112, <2>0, <4>1
    <3>3. (i \in still) => Due(v, i, d) = {}
      <4>1. (i \in still) => i \notin found
        <5>1. i \in found => found # {} /\ \A y \in found : low <= y
          <6>1. found \in SUBSET Nat
            BY Constants
          <6>2. found # {} => \A y \in found : Min(found) <= y
            <7> HIDE DEF found
            <7> QED
              BY <6>1, MinIn
          <6> HIDE DEF found
          <6> QED
            BY <1>10, <6>2
        <5>2. (i \in still) => found = {} \/ i < low
          BY <1>112, <2>0
        <5> HIDE DEF found
        <5> QED
          BY <1>13, <2>0, <5>1, <5>2
      <4>2. i \in System /\ ~ Gone(v[i])
        BY <1>9, <3>1
      <4> HIDE DEF found, live
      <4> QED
        BY <1>9, <4>1, <4>2
    <3>4. i \in Procs
      BY <1>2, <2>6
    <3>5. Tried(v, try_one(k1, i, d), d, (i \in still))
      BY <2>2, <3>2, <3>3, <3>4, TryStepMails
    <3> QED
      BY <1>12, <2>0, <2>3, <2>6, <3>5
  <2> QED
    BY <2>5, <2>6
<1>16. Tried(v, a, d, (NR_PROCS \in still))
  <2>1. NR_PROCS \in T
    BY <1>13, <1>14, <1>15, UpTo
  <2> QED
    BY <1>6, <1>12, <2>1
<1>17. NoneDue(v, d) => (NR_PROCS \in still)
  <2>1. NoneDue(v, d) => found = {}
    BY <1>9 DEF NoneDue
  <2> HIDE DEF found
  <2> QED
    BY <1>112, <1>13, <2>1, Constants
<1>18. PICK w : /\ Sees(a, w) /\ Fine(w) /\ Hushed(v, w)
                /\ NoneDue(v, d) => "DELIVERMSG" \notin w[d].misc
  BY <1>16, <1>17 DEF Tried
<1>19. CASE ~ none
  BY <1>8, <1>18, <1>19 DEF Tried
<1>20. CASE none
  <2>1. PICK u : u = Clears(w, d, "ASYNMSG")
    OBVIOUS
  <2>2. Sees(UnsetMisc(a, d, "ASYNMSG"), u)
    BY <1>18, <2>1, UnsetMiscSees
  <2>3. NoEntries(w, d)
    <3> SUFFICES ASSUME NEW s \in System, ~ Gone(w[s])
                 PROVE  Todo(w[s].table, d) = {}
      BY DEF NoEntries
    <3>1. s \in Procs
      BY Constants
    <3>2. ~ Gone(v[s])
      BY <1>18, <3>1 DEF Hushed, Stays
    <3>3. s \in live /\ s \notin found /\ Postponed(k, s, d) = {}
      BY <1>7, <1>9, <1>20, <3>2
    <3>4. Due(v, s, d) = {} /\ Todo(v[s].table, d) \ Due(v, s, d) = {}
      BY <1>9, <3>2, <3>3
    <3>5. Todo(w[s].table, d) \subseteq Todo(v[s].table, d)
      BY <1>18, <3>1 DEF Hushed, Fewer
    <3> QED
      BY <3>4, <3>5
  <2>4. /\ w \in Views /\ w[d] \in Mails /\ Fit(w, NULL, 0, Senders(w), NULL)
    BY <1>18, FineFields
  <2>5. Fit(u, NULL, 0, Senders(w), NULL)
    BY <2>1, <2>3, <2>4, ClearFit
  <2>6. PICK r : r = WithMisc(w[d], w[d].misc \ {"ASYNMSG"})
    OBVIOUS
  <2>7. HushedRecord(w[d], r) /\ r.misc = w[d].misc \ {"ASYNMSG"}
    BY <2>4, <2>6 DEF HushedRecord, WithMisc, MailOf, Mails, SamePlace, Sub
  <2>8. u = Set(w, d, r)
    BY <2>1, <2>6 DEF Clears
  <2>9. Hushed(w, u)
    BY <2>4, <2>7, <2>8, HushedSet
  <2>10. Fine(u)
    BY <2>5, <2>9, HushedFine
  <2>11. u[d] = r
    BY <2>4, <2>7, <2>8, SetAt DEF HushedRecord
  <2>12. NoneDue(v, d) => "DELIVERMSG" \notin u[d].misc
    BY <1>18, <2>7, <2>11
  <2>13. Hushed(v, u)
    BY <1>18, <2>9, HushedTwice
  <2> QED
    BY <1>8, <1>20, <2>2, <2>10, <2>12, <2>13 DEF Tried
<1>21. none \in BOOLEAN
  BY <1>7
<1> QED
  BY <1>19, <1>20, <1>21
-----------------------------------------------------------------------------
(* mini_receive: a process blocks on receiving.                            *)
Listens(m, src) ==
    MailOf(m.block \cup {"RECEIVING"}, m.misc, src, m.to, m.what, m.first, m.link, m.got,
           m.notes, m.table)

ListensTo(m, r, src) ==
    /\ r \in Mails /\ r.block = m.block \cup {"RECEIVING"} /\ r.misc = m.misc /\ r.from = src
    /\ r.to = m.to /\ r.what = m.what /\ r.first = m.first /\ r.link = m.link /\ r.got = m.got
    /\ r.notes = m.notes /\ r.table = m.table

(* There is nothing for c from src, and src does not wait for c.           *)
Nobody(v, c, src) == \A x \in Procs : Sends(v[x]) /\ v[x].to = c => src \notin {ANY, x}

CanListen(v, c, src) ==
    /\ Asking(v[c], src) /\ MayGet(c, src)
    /\ ~ Sends(v[c]) =>
          /\ Nobody(v, c, src)
          /\ src = ANY => v[c].notes = {} /\ "REPLY_PEND" \notin v[c].misc /\ NoEntries(v, c)
          /\ src # ANY => \E R : Closed(v, src, c, R)

LEMMA ListensIs ==
    ASSUME NEW m \in Mails, NEW src \in Procs \cup {ANY}
    PROVE  ListensTo(m, Listens(m, src), src)
<1>1. src \in Pointers \cup {ANY} /\ "RECEIVING" \in Blocks
  BY Constants DEF Blocks
<1> QED
  BY <1>1 DEF ListensTo, Listens, MailOf, Mails

LEMMA ListensApart ==
    ASSUME NEW v, Fine(v), NEW c \in Procs, NEW src \in Procs \cup {ANY},
           CanListen(v, c, src), ~ Sends(v[c])
    PROVE  Apart(Set(v, c, Listens(v[c], src)), NULL, 0)
<1>1. /\ v \in Views /\ Present(v) /\ Meets(v) /\ Marked2(v, NULL, 0) /\ Ranked(v)
      /\ \A x \in Procs : v[x] \in Mails /\ Local(v[x], x)
  BY FineFields, FitFields
<1>2. PICK r : r = Listens(v[c], src)
  OBVIOUS
<1>3. ListensTo(v[c], r, src)
  BY <1>1, <1>2, ListensIs
<1>4. PICK w : w = Set(v, c, r)
  OBVIOUS
<1>5. w \in Views /\ \A x \in Procs : w[x] = IF x = c THEN r ELSE v[x]
  <2>1. v \in Views /\ r \in Mails
    BY <1>1, <1>3 DEF ListensTo
  <2> QED
    BY <1>4, <2>1, SetAs DEF IsSet
<1>6. /\ ~ Gets(v[c]) /\ ~ Gone(v[c]) /\ "DELIVERMSG" \notin v[c].misc /\ MayGet(c, src)
      /\ Nobody(v, c, src)
      /\ src = ANY => v[c].notes = {} /\ "REPLY_PEND" \notin v[c].misc /\ NoEntries(v, c)
      /\ src # ANY => \E R : Closed(v, src, c, R)
  BY DEF CanListen, Asking
<1>7. Gets(r) /\ ~ Sends(r) /\ ~ Gone(r) /\ (Open(r) => src = ANY)
  BY <1>3, <1>6 DEF ListensTo, Sends, Gets, Gone, Open
<1>8. Local(r, c)
  <2>1. Local(v[c], c)
    BY <1>1
  <2> QED
    BY <1>3, <1>6, <1>7, <2>1 DEF ListensTo, Local
<1>9. Present(w)
  BY <1>1, <1>3, <1>5, <1>6, <1>7 DEF Present, Local, MaySend
<1>10. Meets(w)
  <2> SUFFICES ASSUME NEW x \in Procs, NEW y \in Procs, Sends(w[x]), w[x].to = y,
                      Gets(w[y]), ~ Sends(w[y])
               PROVE  w[y].from \notin {ANY, x}
    BY DEF Meets
  <2>1. x # c /\ w[x] = v[x]
    BY <1>5, <1>7
  <2>2. CASE y = c
    <3>1. w[y].from = src
      BY <1>3, <1>5, <2>2 DEF ListensTo
    <3> QED
      BY <1>6, <2>1, <2>2, <3>1 DEF Nobody
  <2>3. CASE y # c
    BY <1>1, <1>5, <2>1, <2>3 DEF Meets
  <2> QED
    BY <2>2, <2>3
<1>11. Marked2(w, NULL, 0)
  <2> SUFFICES ASSUME NEW s \in System, ~ Gone(w[s]), NEW i \in DOMAIN w[s].table,
                      ~ w[s].table[i].done, s = NULL => i <= 0
               PROVE  Expects(w[w[s].table[i].dst])
    BY DEF Marked2
  <2>1. s \in Procs
    BY Constants
  <2>2. w[s].table = v[s].table /\ ~ Gone(v[s])
    BY <1>3, <1>5, <1>6, <2>1 DEF ListensTo
  <2>3. PICK y : y = v[s].table[i].dst
    OBVIOUS
  <2>4. Expects(v[y])
    BY <1>1, <2>2, <2>3 DEF Marked2
  <2>5. y \in Procs
    <3>1. v[s].table \in Seq(Entries)
      BY <1>1, <2>1 DEF Mails
    <3>2. v[s].table[i] \in Entries
      BY <2>2, <3>1
    <3> QED
      BY <2>3, <3>2 DEF Entries
  <2>6. y = c => ~ NoEntries(v, c)
    BY <2>2, <2>3 DEF NoEntries, Todo
  <2>7. Expects(w[y])
    BY <1>3, <1>5, <1>6, <1>7, <2>4, <2>5, <2>6 DEF Expects, ListensTo
  <2> QED
    BY <2>2, <2>3, <2>7
<1>12. Ranked(w)
  <2>1. \A x \in Procs \ {c} : Awaits(w[x]) = Awaits(v[x])
    BY <1>5
  <2>2. On(w[c]) = src
    BY <1>3, <1>5, <1>7 DEF On, ListensTo
  <2>3. CASE src = ANY
    <3>1. Awaits(w[c]) = NULL
      BY <2>2, <2>3 DEF Awaits
    <3>2. PICK e : Ranks(v, e)
      BY <1>1 DEF Ranked
    <3>3. Ranks(w, e)
      BY <2>1, <3>1, <3>2 DEF Ranks
    <3> QED
      BY <3>3 DEF Ranked
  <2>4. CASE src # ANY
    <3>1. PICK R : Closed(v, src, c, R)
      BY <1>6, <2>4
    <3>2. src \in Procs /\ Awaits(w[c]) = src
      BY <2>2, <2>4 DEF Awaits
    <3> QED
      BY <1>1, <2>1, <3>1, <3>2, NewRank
  <2> QED
    BY <2>3, <2>4
<1>13. \A x \in Procs : Local(w[x], x)
  BY <1>1, <1>5, <1>8
<1>14. Apart(w, NULL, 0)
  BY <1>5, <1>9, <1>10, <1>11, <1>12, <1>13 DEF Apart
<1> QED
  BY <1>2, <1>4, <1>14

LEMMA ListensFine ==
    ASSUME NEW v, Fine(v), NEW c \in Procs, NEW src \in Procs \cup {ANY}, CanListen(v, c, src),
           NEW w, w = Set(v, c, Listens(v[c], src))
    PROVE  Fine(w) /\ Keeps(v, w)
<1>1. /\ v \in Views /\ Fit(v, NULL, 0, Senders(v), NULL) /\ Queued(v, Senders(v), NULL)
      /\ \A x \in Procs : v[x] \in Mails /\ Local(v[x], x)
  BY FineFields, FitFields
<1>2. PICK r : r = Listens(v[c], src)
  OBVIOUS
<1>3. ListensTo(v[c], r, src)
  BY <1>1, <1>2, ListensIs
<1>4. w \in Views /\ \A x \in Procs : w[x] = IF x = c THEN r ELSE v[x]
  <2>1. v \in Views /\ r \in Mails
    BY <1>1, <1>3 DEF ListensTo
  <2> QED
    BY <1>2, <2>1, SetAs DEF IsSet
<1>5. Stays(v, w)
  BY <1>3, <1>4 DEF ListensTo, Stays, SamePlace, Sends, Gone
<1>6. Senders(w) = Senders(v) /\ LinkOf(w) = LinkOf(v)
  BY <1>5, StaysSame
<1>7. CASE Sends(v[c])
  <2>1. v[c].to = src /\ ~ Gets(v[c]) /\ ~ Gone(v[c]) /\ "DELIVERMSG" \notin v[c].misc
        /\ MayGet(c, src)
    BY <1>7 DEF CanListen, Asking
  <2>2. Sends(r) /\ ~ Gone(r) /\ Gets(r)
    BY <1>3, <1>7, <2>1 DEF ListensTo, Sends, Gone, Gets
  <2>3. Local(r, c)
    <3>1. Local(v[c], c)
      BY <1>1
    <3> QED
      BY <1>3, <1>7, <2>1, <2>2, <3>1 DEF ListensTo, Local, Open
  <2>4. Awaits(r) = Awaits(v[c])
    BY <1>3, <1>7, <2>2 DEF ListensTo, Awaits, On
  <2>5. Within(r.table, v[c].table) /\ SamePlace(v[c], r)
    BY <1>3 DEF ListensTo, Within, SamePlace
  <2>6. Mild(v, c, r)
    BY <1>3, <1>7, <2>1, <2>2, <2>3, <2>4, <2>5 DEF Mild, ListensTo
  <2>7. Fit(w, NULL, 0, Senders(v), NULL)
    BY <1>1, <1>2, <2>6, MildFit
  <2> QED
    BY <1>5, <1>6, <2>7, StaysKeeps DEF Fine
<1>8. CASE ~ Sends(v[c])
  <2>1. Apart(w, NULL, 0)
    BY <1>8, ListensApart
  <2>2. \A d \in Procs : \A k, s : Waits(v, Senders(v), d, k, s) => Waits(w, Senders(v), d, k, s)
    BY <1>5, <1>6 DEF Waits, Stays, SamePlace
  <2>3. Queued(w, Senders(v), NULL)
    BY <1>1, <1>5, <2>2 DEF Queued, Stays, SamePlace
  <2> QED
    BY <1>5, <1>6, <2>1, <2>3, StaysKeeps DEF Fine, Fit
<1> QED
  BY <1>7, <1>8

LEMMA ListenMails ==
    ASSUME NEW k, NEW v, Sees(k, v), Fine(v), NEW c \in Procs, NEW src \in Procs \cup {ANY},
           CanListen(v, c, src),
           NEW a, a = [k EXCEPT !.proc[c].getfrom = src],
           NEW k2, k2 = RTS_SET(a, c, {"RECEIVING"})
    PROVE  Ends(v, k2, c)
<1>1. v \in Views /\ v[c] \in Mails
  BY FineFields
<1>2. PICK v1 : v1 = Set(v, c, WithFrom(v[c], src))
  OBVIOUS
<1>3. src \in Pointers \cup {ANY}
  BY Constants
<1>4. Sees(a, v1)
  BY <1>2, <1>3, FromSees
<1>5. {"RECEIVING"} \in SUBSET Flags /\ {"RECEIVING"} \cap Blocks = {"RECEIVING"}
  BY DEF Flags, Blocks
<1>6. Sees(k2, Blocked(v1, c, {"RECEIVING"}))
  BY <1>4, <1>5, RtsSetSees
<1>7. PICK q : q = WithFrom(v[c], src)
  OBVIOUS
<1>8. q \in Mails
  BY <1>1, <1>3, <1>7 DEF WithFrom, MailOf, Mails
<1>9. v1[c] = q
  BY <1>1, <1>2, <1>7, <1>8, SetAt
<1>10. PICK r : r = Listens(v[c], src)
  OBVIOUS
<1>11. r \in Mails
  BY <1>1, <1>10, ListensIs DEF ListensTo
<1>12. WithBlock(q, q.block \cup {"RECEIVING"}) = r
  BY <1>7, <1>10 DEF WithBlock, WithFrom, Listens, MailOf
<1>13. Blocked(v1, c, {"RECEIVING"}) = Set(Set(v, c, q), c, r)
  BY <1>2, <1>5, <1>7, <1>9, <1>12 DEF Blocked
<1>14. Set(Set(v, c, q), c, r) = Set(v, c, r)
  BY <1>1, <1>8, <1>11, SetTwice
<1>15. PICK w : w = Set(v, c, r)
  OBVIOUS
<1>16. Sees(k2, w)
  BY <1>6, <1>13, <1>14, <1>15
<1>17. Fine(w) /\ Keeps(v, w)
  BY <1>10, <1>15, ListensFine
<1> QED
  BY <1>16, <1>17, ToldKeeps DEF Ends

(* Before it does, it looks for asynchronous messages.  If there are none, *)
(* nothing was delivered, and if it waits for any none is left undone.     *)
Silent(v, k2, c, src, asyn) ==
    \E w : /\ Sees(k2, w) /\ Fine(w) /\ Hushed(v, w)
           /\ ~ asyn => /\ "DELIVERMSG" \notin w[c].misc
                        /\ src = ANY /\ "REPLY_PEND" \notin v[c].misc => NoEntries(w, c)

LEMMA NothingDue ==
    ASSUME NEW k, NEW v, Sees(k, v), Fine(v), NEW c \in Procs, NEW src \in Procs \cup {ANY},
           ~ AsynMessages(k, c, src), "ASYNMSG" \in v[c].misc, src # ANY => ~ Gone(v[src])
    PROVE  IF src = ANY THEN NoneDue(v, c) ELSE Due(v, src, c) = {}
<1>1. \A s \in System : src \in {ANY, s} /\ ~ Gone(v[s]) => Due(v, s, c) = {}
  <2> TAKE s \in System
  <2>1. s \in Procs
    BY Constants
  <2>2. Misc(k, c, "ASYNMSG")
    BY MiscSeen
  <2>3. (isempty(k, s) <=> Gone(v[s])) /\ Deliverable(k, s, c) = Due(v, s, c)
    BY <2>1, FlagsSeen, UndoneSeen
  <2> QED
    BY <2>2, <2>3 DEF AsynMessages
<1>2. CASE src = ANY
  BY <1>1, <1>2 DEF NoneDue
<1>3. CASE src # ANY /\ src \in System
  BY <1>1, <1>3
<1>4. CASE src # ANY /\ src \notin System
  <2>1. v[src].table = <<>>
    BY <1>4, FineFields DEF Local
  <2> QED
    BY <1>4, <2>1 DEF Due, Todo
<1> QED
  BY <1>2, <1>3, <1>4

LEMMA SilentEntries ==
    ASSUME NEW v, Fine(v), NEW c \in Procs, "REPLY_PEND" \notin v[c].misc,
           "ASYNMSG" \in v[c].misc => NoneDue(v, c)
    PROVE  NoEntries(v, c)
<1> SUFFICES ASSUME NEW s \in System, ~ Gone(v[s]), NEW i \in Todo(v[s].table, c)
             PROVE  FALSE
  BY DEF NoEntries
<1>1. i \in DOMAIN v[s].table /\ ~ v[s].table[i].done /\ v[s].table[i].dst = c
  BY DEF Todo
<1>2. s # NULL
  BY Constants
<1>3. Marked2(v, NULL, 0)
  BY FineFields, FitFields
<1>4. Expects(v[v[s].table[i].dst])
  BY <1>1, <1>2, <1>3 DEF Marked2
<1>5. NoneDue(v, c)
  BY <1>1, <1>4 DEF Expects
<1>6. i \in Due(v, s, c)
  BY DEF Due
<1> QED
  BY <1>5, <1>6 DEF NoneDue

LEMMA TrySomeMails ==
    ASSUME NEW k, NEW v, Sees(k, v), Fine(v), NEW c \in Procs, Free(v[c]),
           NEW src \in Procs \cup {ANY}, src # ANY => ~ Gone(v[src]),
           NEW tried, tried = IF Misc(k, c, "ASYNMSG")
                                THEN IF src = ANY THEN try_async(k, c) ELSE try_one(k, src, c)
                                ELSE k
    PROVE  Silent(v, tried, c, src, AsynMessages(k, c, src))
<1>1. PICK asyn : asyn = AsynMessages(k, c, src)
  OBVIOUS
<1>2. Misc(k, c, "ASYNMSG") <=> "ASYNMSG" \in v[c].misc
  BY MiscSeen
<1>3. CASE "ASYNMSG" \notin v[c].misc
  <2>1. tried = k
    BY <1>2, <1>3
  <2>2. Hushed(v, v) /\ "DELIVERMSG" \notin v[c].misc
    BY HushedSelf DEF Free
  <2>3. "REPLY_PEND" \notin v[c].misc => NoEntries(v, c)
    BY <1>3, SilentEntries
  <2> QED
    BY <1>1, <2>1, <2>2, <2>3 DEF Silent
<1>4. CASE "ASYNMSG" \in v[c].misc
  <2>1. ~ asyn => IF src = ANY THEN NoneDue(v, c) ELSE Due(v, src, c) = {}
    BY <1>1, <1>4, NothingDue
  <2>2. PICK w : /\ Sees(tried, w) /\ Fine(w) /\ Hushed(v, w)
                 /\ ~ asyn => "DELIVERMSG" \notin w[c].misc
    <3>1. CASE src = ANY
      <4>1. Tried(v, try_async(k, c), c, NoneDue(v, c))
        BY TryAsyncMails
      <4>2. tried = try_async(k, c)
        BY <1>2, <1>4, <3>1
      <4> QED
        BY <2>1, <3>1, <4>1, <4>2 DEF Tried
    <3>2. CASE src # ANY
      <4>1. Tried(v, try_one(k, src, c), c, Due(v, src, c) = {})
        BY <3>2, TryOneMails
      <4>2. tried = try_one(k, src, c)
        BY <1>2, <1>4, <3>2
      <4> QED
        BY <2>1, <3>2, <4>1, <4>2 DEF Tried
    <3> QED
      BY <3>1, <3>2
  <2>3. ~ asyn /\ src = ANY /\ "REPLY_PEND" \notin v[c].misc => NoEntries(w, c)
    <3> SUFFICES ASSUME ~ asyn, src = ANY, "REPLY_PEND" \notin v[c].misc
                 PROVE  NoEntries(w, c)
      OBVIOUS
    <3>1. NoEntries(v, c)
      BY <2>1, SilentEntries
    <3>2. \A s \in System : s \in Procs
      BY Constants
    <3> QED
      BY <2>2, <3>1, <3>2 DEF NoEntries, Hushed, Stays, Fewer
  <2> QED
    BY <1>1, <2>2, <2>3 DEF Silent
<1> QED
  BY <1>3, <1>4

(* A successful receive ends with the flag cleared.                        *)
LEMMA DoneMails ==
    ASSUME NEW v, Fine(v), NEW k2, NEW c \in Procs, Ends(v, k2, c)
    PROVE  Ends(v, UnsetMisc(k2, c, "REPLY_PEND"), c)
<1>1. PICK w : Sees(k2, w) /\ Fine(w) /\ Told(v, w, c)
  BY DEF Ends
<1>2. Fit(w, NULL, 0, Senders(w), NULL) /\ w \in Views /\ w[c] \in Mails
  BY <1>1, FineFields
<1>3. PICK f : f = "REPLY_PEND"
  OBVIOUS
<1>4. PICK u : u = Clears(w, c, f)
  OBVIOUS
<1>5. Sees(UnsetMisc(k2, c, f), u)
  BY <1>1, <1>4, UnsetMiscSees
<1>6. Fit(u, NULL, 0, Senders(w), NULL)
  BY <1>2, <1>3, <1>4, ClearFit
<1>7. PICK r : r = WithMisc(w[c], w[c].misc \ {f})
  OBVIOUS
<1>8. /\ r \in Mails /\ r.block = w[c].block /\ r.got = w[c].got /\ r.misc = w[c].misc \ {f}
      /\ SamePlace(w[c], r)
  BY <1>2, <1>7 DEF WithMisc, MailOf, Mails, SamePlace
<1>9. u = Set(w, c, r)
  BY <1>4, <1>7 DEF Clears
<1>10. Stays(w, u)
  BY <1>2, <1>8, <1>9, SetStays DEF Sends, Gone
<1>11. u[c] = r
  BY <1>2, <1>8, <1>9, SetAt
<1>12. Fine(u)
  BY <1>6, <1>10, StaysSame DEF Fine
<1>13. \A s \in Procs : Sends(v[s]) => v[s].to \in Procs
  BY FineFields DEF Local, MaySend
<1>14. u[c].got = w[c].got /\ ("DELIVERMSG" \in w[c].misc => "DELIVERMSG" \in u[c].misc)
  BY <1>3, <1>8, <1>11
<1>15. v \in Views /\ w \in Views
  BY <1>2, FineFields
<1>16. Told(v, u, c)
  BY <1>1, <1>10, <1>13, <1>14, <1>15, ToldBefore
<1> QED
  BY <1>3, <1>5, <1>12, <1>16 DEF Ends

(* A notification is delivered.                                            *)
LEMMA NoteMails ==
    ASSUME NEW k, NEW v, Sees(k, v), Fine(v), NEW c \in Procs, Free(v[c]), NEW x \in Messages,
           NEW n, NEW a, a = Deliver(k, c, x),
           NEW b, b = [a EXCEPT !.priv[c].notify_pending = @ \ {n}]
    PROVE  Ends(v, b, c)
<1>1. Fit(v, NULL, 0, Senders(v), NULL) /\ v \in Views /\ v[c] \in Mails
  BY FineFields
<1>2. PICK v1 : v1 = Gives(v, c, x)
  OBVIOUS
<1>3. Sees(a, v1)
  BY <1>2, DeliverSees DEF Free
<1>4. Fit(v1, NULL, 0, Senders(v), NULL)
  BY <1>1, <1>2, GivesFit DEF Free
<1>5. PICK r : r = WithMisc(WithGot(v[c], x), v[c].misc \cup {"DELIVERMSG"})
  OBVIOUS
<1>6. r \in Mails /\ r.block = v[c].block /\ SamePlace(v[c], r)
  BY <1>1, <1>5 DEF WithMisc, WithGot, MailOf, Mails, SamePlace, MiscFlags
<1>7. v1 = Set(v, c, r)
  BY <1>2, <1>5 DEF Gives
<1>8. v1 \in Views /\ v1[c] = r /\ Stays(v, v1)
  BY <1>1, <1>6, <1>7, SetIs, SetAt, SetStays DEF Sends, Gone
<1>9. PICK y : y = a.priv[c].notify_pending \ {n}
  OBVIOUS
<1>10. y \in SUBSET Pointers
  BY <1>3, <1>9, SeesFields DEF Privs
<1>11. b = [a EXCEPT !.priv[c].notify_pending = y]
  BY <1>9
<1>12. PICK w : w = Set(v1, c, WithNotes(v1[c], y))
  OBVIOUS
<1>13. Sees(b, w)
  BY <1>3, <1>10, <1>11, <1>12, NotesSees
<1>14. ~ Open(v1[c])
  BY <1>6, <1>8 DEF Open, Gets, Free
<1>15. Fit(w, NULL, 0, Senders(v), NULL)
  BY <1>4, <1>10, <1>12, <1>14, NotesFit
<1>16. Stays(v1, w)
  BY <1>8, <1>10, <1>12, NotesStay
<1>17. Stays(v, w)
  BY <1>8, <1>16, StaysTwice
<1> QED
  BY <1>13, <1>15, <1>17, StaysSame, StaysKeeps, ToldKeeps DEF Ends, Fine

(* Nobody on the queue sends what src asks for.                            *)
LEMMA NobodyQueued ==
    ASSUME NEW k, NEW v, Sees(k, v), Fine(v), NEW c \in Procs, ~ Gone(v[c]), NEW src,
           SelectInSeq(Callers(k, c), LAMBDA s : src \in {ANY, s}) = 0
    PROVE  Nobody(v, c, src)
<1> SUFFICES ASSUME NEW x \in Procs, Sends(v[x]), v[x].to = c, src \in {ANY, x}
             PROVE  FALSE
  BY DEF Nobody
<1>1. PICK n, s : Waits(v, Senders(v), c, n, s)
  BY FineFields, FitFields, Constants DEF Queued
<1>2. Walks(k, v, Senders(v), c, n, s)
  BY <1>1, WaitsAre
<1>3. Has(n, s, x)
  BY <1>1 DEF Waits, Senders
<1>4. PICK i \in 1 .. n : s[i] = x
  BY <1>3 DEF Has
<1>5. PICK I : I = {j \in 1 .. Len(Callers(k, c)) : src \in {ANY, Callers(k, c)[j]}}
  OBVIOUS
<1>6. i \in I
  BY <1>2, <1>4, <1>5 DEF Walks
<1>7. I \in SUBSET Nat /\ ~ 0 \in I
  BY <1>2, <1>5 DEF Walks
<1>8. Min(I) \in I
  BY <1>6, <1>7, MinIn
<1>9. Min(I) = 0
  <2>1. SelectInSeq(Callers(k, c), LAMBDA s2 : src \in {ANY, s2}) = IF I # {} THEN Min(I) ELSE 0
    BY <1>5 DEF SelectInSeq
  <2> QED
    BY <1>6, <2>1
<1> QED
  BY <1>7, <1>8, <1>9

(* The chain is the same after the asynchronous messages have been tried.  *)
LEMMA HushedClosed ==
    ASSUME NEW v, NEW w, Hushed(v, w), NEW e, NEW c, NEW R, Closed(v, e, c, R)
    PROVE  Closed(w, e, c, R)
<1>1. \A x \in Procs : Awaits(w[x]) = Awaits(v[x])
  BY DEF Hushed, Stays, SamePlace, Awaits, On, Sends, Gets
<1> QED
  BY <1>1 DEF Closed

LEMMA ReceiveMails ==
    ASSUME NEW k, NEW v, Sees(k, v), Fine(v), NEW c \in Procs, NEW src \in Procs \cup {ANY},
           src # c, Asking(v[c], src), MayGet(c, src),
           src = ANY => "REPLY_PEND" \notin v[c].misc, src # ANY => ~ Gone(v[src])
    PROVE  Ends(v, mini_receive(k, c, src), c)
<1>0. k \in Kernels /\ v \in Views /\ v[c] \in Mails /\ Ranked(v) /\ Local(v[c], c)
  BY SeesFields, FineFields, FitFields
<1>1. PICK free, notes :
         /\ free = ~ Flag(k, c, "SENDING")
         /\ notes = IF Misc(k, c, "REPLY_PEND") THEN {} ELSE PendingNotes(k, c, src)
  OBVIOUS
<1>2. PICK tried :
         tried = IF Misc(k, c, "ASYNMSG") /\ free /\ notes = {}
                   THEN IF src = ANY THEN try_async(k, c) ELSE try_one(k, src, c)
                   ELSE k
  OBVIOUS
<1>3. PICK first : first = SelectInSeq(Callers(k, c), LAMBDA s : src \in {ANY, s})
  OBVIOUS
<1>4. PICK asyn : asyn = AsynMessages(k, c, src)
  OBVIOUS
<1>5. free \in BOOLEAN /\ asyn \in BOOLEAN /\ (free <=> ~ Sends(v[c]))
  BY <1>1, <1>4, FlagsSeen DEF AsynMessages
<1>6. notes \in SUBSET Pointers
  <2>1. PendingNotes(k, c, src) \in SUBSET Pointers
    BY <1>0, NotesIn
  <2> QED
    BY <1>1, <2>1
<1>7. free => Free(v[c])
  BY <1>5 DEF Asking, Free
<1>8. free /\ notes = {} => Silent(v, tried, c, src, asyn)
  <2> SUFFICES ASSUME free, notes = {}
               PROVE  Silent(v, tried, c, src, asyn)
    OBVIOUS
  <2>1. tried = IF Misc(k, c, "ASYNMSG")
                  THEN IF src = ANY THEN try_async(k, c) ELSE try_one(k, src, c)
                  ELSE k
    BY <1>2
  <2> QED
    BY <1>4, <1>7, <2>1, TrySomeMails
<1>9. CASE free /\ notes # {}
  <2>1. PICK i : i = Min(notes)
    OBVIOUS
  <2>2. i \in Pointers
    <3>1. notes \in SUBSET Nat
      BY <1>6, Constants
    <3>2. Min(notes) \in notes
      BY <1>9, <3>1, MinIn
    <3> QED
      BY <1>6, <2>1, <3>2
  <2>3. PICK x : x = Message(i, "NOTIFY")
    OBVIOUS
  <2>4. x \in Messages
    BY <2>2, <2>3, MessageIn DEF Types
  <2>5. PICK a : a = Deliver(k, c, x)
    OBVIOUS
  <2>6. PICK b : b = [a EXCEPT !.priv[c].notify_pending = @ \ {i}]
    OBVIOUS
  <2>7. Ends(v, b, c)
    BY <1>7, <1>9, <2>4, <2>5, <2>6, NoteMails
  <2>8. mini_receive(k, c, src) = UnsetMisc(b, c, "REPLY_PEND")
    BY <1>1, <1>9, <2>1, <2>3, <2>5, <2>6 DEF mini_receive
  <2> QED
    BY <2>7, <2>8, DoneMails
<1>10. CASE free /\ notes = {} /\ asyn
  <2>1. mini_receive(k, c, src) = UnsetMisc(tried, c, "REPLY_PEND")
    BY <1>1, <1>2, <1>4, <1>10 DEF mini_receive
  <2>2. PICK w : Sees(tried, w) /\ Fine(w) /\ Hushed(v, w)
    BY <1>8, <1>10 DEF Silent
  <2>3. Ends(v, tried, c)
    BY <2>2, StaysKeeps, ToldKeeps DEF Hushed, Ends
  <2> QED
    BY <2>1, <2>3, DoneMails
<1>11. CASE free /\ notes = {} /\ ~ asyn /\ first # 0
  <2>1. PICK b : b = ReceiveQueued(tried, c, first)
    OBVIOUS
  <2>2. mini_receive(k, c, src) = UnsetMisc(b, c, "REPLY_PEND")
    BY <1>1, <1>2, <1>3, <1>4, <1>11, <2>1 DEF mini_receive
  <2>3. PICK w : /\ Sees(tried, w) /\ Fine(w) /\ Hushed(v, w)
                 /\ "DELIVERMSG" \notin w[c].misc
    BY <1>8, <1>11 DEF Silent
  <2>4. Callers(tried, c) = Callers(k, c)
    <3>1. LinkOf(w) = LinkOf(v) /\ w[c].first = v[c].first
      BY <2>3, StaysSame DEF Hushed, Stays, SamePlace
    <3> QED
      BY <2>3, <3>1, CallersSeen
  <2>5. first \in 1 .. Len(Callers(tried, c))
    <3>1. PICK I : I = {i \in 1 .. Len(Callers(k, c)) : src \in {ANY, Callers(k, c)[i]}}
      OBVIOUS
    <3>2. first = IF I # {} THEN Min(I) ELSE 0
      BY <1>3, <3>1 DEF SelectInSeq
    <3>3. Callers(k, c) \in Seq(Procs)
      BY <1>0, CallersIn
    <3>4. Len(Callers(k, c)) \in Nat
      BY <3>3
    <3>5. I \in SUBSET Nat
      BY <3>1, <3>4
    <3>6. I # {}
      BY <1>11, <3>2
    <3>7. first \in I
      BY <3>2, <3>5, <3>6, MinIn
    <3> QED
      BY <2>4, <3>1, <3>7
  <2>6. Free(w[c])
    BY <1>7, <1>11, <2>3 DEF Hushed, Free, Sends, Gets, Gone
  <2>7. Ends(w, b, c)
    BY <2>1, <2>3, <2>5, <2>6, QueuedMails
  <2>8. PICK u : Sees(b, u) /\ Fine(u) /\ Told(w, u, c)
    BY <2>7 DEF Ends
  <2>9. Keeps(v, w) /\ "DELIVERMSG" \notin v[c].misc
    BY <1>7, <1>11, <2>3, StaysKeeps DEF Hushed, Free
  <2>10. Told(v, u, c)
    BY <2>8, <2>9, ToldAfter
  <2>11. Ends(v, b, c)
    BY <2>8, <2>10 DEF Ends
  <2> QED
    BY <2>2, <2>11, DoneMails
<1>12. CASE ~ (free /\ notes # {}) /\ ~ (free /\ notes = {} /\ asyn)
            /\ ~ (free /\ notes = {} /\ ~ asyn /\ first # 0)
  <2>1. PICK a : a = [tried EXCEPT !.proc[c].getfrom = src]
    OBVIOUS
  <2>2. PICK b : b = RTS_SET(a, c, {"RECEIVING"})
    OBVIOUS
  <2>3. mini_receive(k, c, src) =
           IF deadlock(k, "RECEIVE", c, src) THEN tried ELSE b
    BY <1>1, <1>2, <1>3, <1>4, <1>12, <2>1, <2>2 DEF mini_receive
  <2>4. PICK w : /\ Sees(tried, w) /\ Fine(w) /\ Hushed(v, w)
                 /\ ~ free => w = v
                 /\ free => /\ "DELIVERMSG" \notin w[c].misc
                            /\ src = ANY /\ "REPLY_PEND" \notin v[c].misc => NoEntries(w, c)
    <3>1. CASE free
      BY <1>5, <1>8, <1>12, <3>1 DEF Silent
    <3>2. CASE ~ free
      BY <1>2, <3>2, HushedSelf
    <3> QED
      BY <1>5, <3>1, <3>2
  <2>5. Keeps(v, w) /\ "DELIVERMSG" \notin v[c].misc
    BY <2>4, StaysKeeps DEF Hushed, Asking
  <2>6. CASE deadlock(k, "RECEIVE", c, src)
    <3>1. Ends(v, tried, c)
      BY <2>4, <2>5, ToldKeeps DEF Ends
    <3> QED
      BY <2>3, <2>6, <3>1
  <2>7. CASE ~ deadlock(k, "RECEIVE", c, src)
    <3>1. Asking(w[c], src)
      BY <1>5, <2>4 DEF Hushed, Asking, Stays, Sends, Gets, Gone
    <3>2. ~ Sends(w[c]) => free /\ notes = {} /\ ~ asyn /\ first = 0
      BY <1>5, <1>12, <2>4
    <3>3. ~ Sends(w[c]) => Nobody(v, c, src)
      BY <1>3, <3>2, NobodyQueued DEF Asking
    <3>4. ~ Sends(w[c]) => Nobody(w, c, src)
      BY <2>4, <3>3 DEF Nobody, Hushed, Stays, SamePlace
    <3>5. ~ Sends(w[c]) /\ src = ANY
             => w[c].notes = {} /\ "REPLY_PEND" \notin w[c].misc /\ NoEntries(w, c)
      <4> SUFFICES ASSUME ~ Sends(w[c]), src = ANY
                   PROVE  w[c].notes = {} /\ "REPLY_PEND" \notin w[c].misc /\ NoEntries(w, c)
        OBVIOUS
      <4>1. "REPLY_PEND" \notin w[c].misc /\ NoEntries(w, c)
        BY <2>4, <3>2 DEF Hushed
      <4>2. ~ Misc(k, c, "REPLY_PEND")
        BY MiscSeen
      <4>3. PendingNotes(k, c, src) = {}
        BY <1>1, <3>2, <4>2
      <4>4. k.priv[c].notify_pending = {}
        BY <4>3 DEF PendingNotes
      <4>5. v[c].notes = {}
        BY <4>4, FieldsSeen
      <4> QED
        BY <2>4, <4>1, <4>5 DEF Hushed
    <3>6. ~ Sends(w[c]) /\ src # ANY => \E R : Closed(w, src, c, R)
      <4> SUFFICES ASSUME ~ Sends(w[c]), src # ANY
                   PROVE  \E R : Closed(w, src, c, R)
        OBVIOUS
      <4>1. src \in Procs
        OBVIOUS
      <4>2. On(v[src]) = c => ~ Sends(v[src])
        BY <3>3, <4>1 DEF Nobody, On
      <4>3. PICK call : call = "RECEIVE"
        OBVIOUS
      <4>4. ~ deadlock(k, call, c, src) /\ (On(v[src]) = c => (Sends(v[src]) <=> call = "SEND"))
        BY <2>7, <4>2, <4>3
      <4>5. \E R : Closed(v, src, c, R)
        BY <1>0, <4>1, <4>4, NoDeadlock
      <4> QED
        BY <2>4, <4>5, HushedClosed
    <3>7. CanListen(w, c, src)
      BY <3>1, <3>4, <3>5, <3>6 DEF CanListen
    <3>8. Ends(w, b, c)
      BY <2>1, <2>2, <2>4, <3>7, ListenMails
    <3>9. Ends(v, b, c)
      BY <2>5, <3>8, ToldAfter DEF Ends
    <3> QED
      BY <2>3, <2>7, <3>9
  <2> QED
    BY <2>6, <2>7
<1> QED
  BY <1>5, <1>9, <1>10, <1>11, <1>12

-----------------------------------------------------------------------------
(* The system call.                                                        *)
LEMMA SentEnds ==
    ASSUME NEW v, NEW k2, NEW c, NEW d, Sent(v, k2, c, d)
    PROVE  Ends(v, k2, c)
  BY ToldKeeps DEF Sent, Ends

LEMMA EndsBefore ==
    ASSUME NEW u, NEW v, Keeps(u, v), NEW k2, NEW c \in Procs, "DELIVERMSG" \notin u[c].misc,
           Ends(v, k2, c)
    PROVE  Ends(u, k2, c)
  BY ToldAfter DEF Ends

LEMMA MarkMails ==
    ASSUME NEW v, Fine(v), NEW p \in Procs, Free(v[p]), NEW f,
           NEW r, r = WithMisc(v[p], v[p].misc \cup {f}) \/ r = WithMisc(v[p], v[p].misc \ {f}),
           f \in MiscFlags \ {"DELIVERMSG"}, NEW w, w = Set(v, p, r)
    PROVE  Stays(v, w) /\ Free(w[p])
<1>1. v \in Views /\ v[p] \in Mails
  BY FineFields
<1>2. /\ r \in Mails /\ r.block = v[p].block /\ SamePlace(v[p], r)
      /\ r.misc \in {v[p].misc \cup {f}, v[p].misc \ {f}}
  BY <1>1 DEF WithMisc, MailOf, Mails, SamePlace
<1>3. w[p] = r
  BY <1>1, <1>2, SetAt
<1>4. Stays(v, w)
  BY <1>1, <1>2, SetStays DEF Sends, Gone
<1> QED
  BY <1>2, <1>3, <1>4 DEF Free, Sends, Gets, Gone

LEMMA AskedMails ==
    ASSUME NEW k, NEW v, Sees(k, v), Fine(v), NEW c \in Procs, NEW d \in Procs, d # c,
           Free(v[c]), MaySend(c, d), MayGet(c, d), ~ Gone(v[d]),
           NEW asked, asked = SetMisc(k, c, "REPLY_PEND"),
           NEW sent, sent = mini_send(asked, c, d, "MSG", FALSE),
           NEW k2, k2 = IF sent.r = "OK" THEN mini_receive(sent.k, c, d) ELSE sent.k
    PROVE  Ends(v, k2, c)
<1>1. PICK f : f = "REPLY_PEND"
  OBVIOUS
<1>2. f \in MiscFlags /\ f \in MiscFlags \ {"DELIVERMSG"} /\ f # "SIG_DELAY"
  BY <1>1 DEF MiscFlags
<1>3. PICK v1 : v1 = Marks(v, c, f)
  OBVIOUS
<1>4. Sees(asked, v1)
  BY <1>1, <1>2, <1>3, SetMiscSees
<1>5. PICK r : r = WithMisc(v[c], v[c].misc \cup {f})
  OBVIOUS
<1>6. v1 = Set(v, c, r)
  BY <1>3, <1>5 DEF Marks
<1>7. Stays(v, v1) /\ Free(v1[c])
  <2>1. r = WithMisc(v[c], v[c].misc \cup {f}) \/ r = WithMisc(v[c], v[c].misc \ {f})
    BY <1>5
  <2>2. f \in MiscFlags \ {"DELIVERMSG"}
    BY <1>2
  <2> QED
    BY <1>6, <2>1, <2>2, MarkMails
<1>8. Fit(v, NULL, 0, Senders(v), NULL) /\ ~ Open(v[c])
  BY FineFields DEF Free, Open
<1>9. Fit(v1, NULL, 0, Senders(v), NULL)
  BY <1>2, <1>3, <1>8, MarkFit
<1>10. Fine(v1)
  BY <1>7, <1>9, StaysSame DEF Fine
<1>11. Keeps(v, v1) /\ "DELIVERMSG" \notin v[c].misc
  BY <1>7, StaysKeeps DEF Free
<1>12. "MSG" \in Types /\ FALSE \in BOOLEAN
  BY DEF Types
<1>13. Sent(v1, sent.k, c, d)
  BY <1>4, <1>7, <1>10, <1>12, SendMails
<1>14. CASE sent.r # "OK"
  <2>1. Ends(v1, sent.k, c)
    BY <1>13, SentEnds
  <2>2. k2 = sent.k
    BY <1>14
  <2> QED
    BY <1>11, <2>1, <2>2, EndsBefore
<1>15. CASE sent.r = "OK"
  <2>1. PICK w : /\ Sees(sent.k, w) /\ Fine(w) /\ Keeps(v1, w) /\ Lives(v1, w) /\ Asking(w[c], d)
    BY <1>13 DEF Sent
  <2>2. PICK k1 : k1 = sent.k
    OBVIOUS
  <2>3. ~ Gone(w[d])
    BY <1>7, <2>1 DEF Lives, Stays
  <2>4. d # ANY /\ d \in Procs \cup {ANY}
    BY AnyIs
  <2>5. Sees(k1, w)
    BY <2>1, <2>2
  <2>6. Ends(w, mini_receive(k1, c, d), c)
    BY <2>1, <2>3, <2>4, <2>5, ReceiveMails
  <2>7. Keeps(v, w)
    BY <1>11, <2>1, KeepsTwice
  <2>8. Ends(v, mini_receive(k1, c, d), c)
    BY <1>11, <2>6, <2>7, EndsBefore
  <2>9. k2 = mini_receive(k1, c, d)
    BY <1>15, <2>2
  <2> QED
    BY <2>8, <2>9
<1> QED
  BY <1>14, <1>15

LEMMA CallMails ==
    ASSUME NEW k, NEW v, Sees(k, v), Fine(v), NEW c \in Procs, Free(v[c]), NoSelf,
           NEW call, NEW other, <<call, c, other>> \in Calls
    PROVE  Ends(v, do_sync_ipc(k, c, call, other), c)
<1>1. /\ call \in {"SEND", "SENDNB", "SENDREC", "RECEIVE", "NOTIFY"}
      /\ other \in Procs \cup {ANY} /\ (other = ANY => call = "RECEIVE")
  <2>1. <<call, c, other>> \in {"SEND", "SENDNB", "SENDREC", "RECEIVE", "NOTIFY"} \X Procs \X
                                  (Procs \cup {ANY})
    BY KernelAssumption
  <2>2. <<call, c, other>>[3] = ANY => <<call, c, other>>[1] = "RECEIVE"
    BY KernelAssumption
  <2> QED
    BY <2>1, <2>2
<1>2. other # c
  <2>1. <<call, c, other>>[2] # <<call, c, other>>[3]
    BY DEF NoSelf
  <2> QED
    BY <2>1
<1>3. /\ call = "RECEIVE" => MayGet(c, other)
      /\ call = "SENDREC" => MayGet(c, other) /\ MaySend(c, other)
      /\ call = "SEND" => MaySend(c, other)
  BY <1>1, <1>2 DEF MayGet, MaySend, Waiting
<1>4. PICK sent : sent = mini_send(k, c, other, "MSG", FALSE)
  OBVIOUS
<1>5. PICK tried : tried = mini_send(k, c, other, "MSG", TRUE)
  OBVIOUS
<1>6. PICK asked : asked = SetMisc(k, c, "REPLY_PEND")
  OBVIOUS
<1>7. PICK sent2 : sent2 = mini_send(asked, c, other, "MSG", FALSE)
  OBVIOUS
<1>8. PICK both : both = IF sent2.r = "OK" THEN mini_receive(sent2.k, c, other) ELSE sent2.k
  OBVIOUS
<1>9. PICK got : got = mini_receive(UnsetMisc(k, c, "REPLY_PEND"), c, other)
  OBVIOUS
<1>10. PICK k2 : k2 = do_sync_ipc(k, c, call, other)
  OBVIOUS
<1>11. k2 = IF other # ANY /\ isempty(k, other) THEN k
            ELSE CASE call = "SEND"    -> sent.k
                   [] call = "SENDNB"  -> tried.k
                   [] call = "SENDREC" -> both
                   [] call = "RECEIVE" -> got
                   [] call = "NOTIFY"  -> mini_notify(k, c, other)
  BY <1>4, <1>5, <1>6, <1>7, <1>8, <1>9, <1>10 DEF do_sync_ipc
<1>12. "MSG" \in Types /\ FALSE \in BOOLEAN /\ TRUE \in BOOLEAN /\ FALSE # TRUE
  BY DEF Types
<1>13. "DELIVERMSG" \notin v[c].misc
  BY DEF Free
<1>14. CASE other # ANY /\ isempty(k, other)
  <2>1. Keeps(v, v)
    BY KeepsSelf
  <2>2. Ends(v, k, c)
    BY <2>1, ToldKeeps DEF Ends
  <2> QED
    BY <1>10, <1>11, <1>14, <2>2
<1>15. CASE ~ (other # ANY /\ isempty(k, other)) /\ call = "SEND"
  <2>1. other \in Procs /\ MaySend(c, other)
    BY <1>1, <1>3, <1>15
  <2>2. Sent(v, sent.k, c, other)
    BY <1>2, <1>4, <1>12, <2>1, SendMails
  <2>3. k2 = sent.k
    BY <1>11, <1>15
  <2> QED
    BY <1>10, <2>2, <2>3, SentEnds
<1>16. CASE ~ (other # ANY /\ isempty(k, other)) /\ call = "SENDNB"
  <2>1. other \in Procs
    BY <1>1, <1>16
  <2>2. Sent(v, tried.k, c, other)
    BY <1>2, <1>5, <1>12, <2>1, SendMails
  <2>3. k2 = tried.k
    BY <1>11, <1>16
  <2> QED
    BY <1>10, <2>2, <2>3, SentEnds
<1>17. CASE ~ (other # ANY /\ isempty(k, other)) /\ call = "SENDREC"
  <2>1. other \in Procs /\ MaySend(c, other) /\ MayGet(c, other) /\ ~ isempty(k, other)
    BY <1>1, <1>3, <1>17, AnyIs
  <2>2. ~ Gone(v[other])
    BY <2>1, FlagsSeen
  <2>3. Ends(v, both, c)
    BY <1>2, <1>6, <1>7, <1>8, <2>1, <2>2, AskedMails
  <2>4. k2 = both
    BY <1>11, <1>17
  <2> QED
    BY <1>10, <2>3, <2>4
<1>18. CASE ~ (other # ANY /\ isempty(k, other)) /\ call = "RECEIVE"
  <2>1. PICK f : f = "REPLY_PEND"
    OBVIOUS
  <2>2. f \in MiscFlags \ {"DELIVERMSG"} /\ f # "ASYNMSG"
    BY <2>1 DEF MiscFlags
  <2>3. PICK v1 : v1 = Clears(v, c, f)
    OBVIOUS
  <2>4. PICK k1 : k1 = UnsetMisc(k, c, f)
    OBVIOUS
  <2>5. Sees(k1, v1)
    BY <2>3, <2>4, UnsetMiscSees
  <2>6. PICK r : r = WithMisc(v[c], v[c].misc \ {f})
    OBVIOUS
  <2>7. v1 = Set(v, c, r)
    BY <2>3, <2>6 DEF Clears
  <2>8. Stays(v, v1) /\ Free(v1[c]) /\ v1[c] = r
    <3>1. r = WithMisc(v[c], v[c].misc \cup {f}) \/ r = WithMisc(v[c], v[c].misc \ {f})
      BY <2>6
    <3>2. f \in MiscFlags \ {"DELIVERMSG"}
      BY <2>2
    <3>3. Stays(v, v1) /\ Free(v1[c])
      BY <2>7, <3>1, <3>2, MarkMails
    <3>4. v \in Views /\ v[c] \in Mails
      BY FineFields
    <3>5. r \in Mails
      BY <2>6, <3>4 DEF WithMisc, MailOf, Mails
    <3> QED
      BY <2>7, <3>3, <3>4, <3>5, SetAt
  <2>9. f \notin v1[c].misc
    BY <2>6, <2>8 DEF WithMisc, MailOf
  <2>10. Fit(v, NULL, 0, Senders(v), NULL)
    BY FineFields
  <2>11. Fit(v1, NULL, 0, Senders(v), NULL)
    BY <2>2, <2>3, <2>10, ClearFit
  <2>12. Fine(v1)
    BY <2>8, <2>11, StaysSame DEF Fine
  <2>13. Keeps(v, v1)
    BY <2>8, StaysKeeps
  <2>14. other # ANY => ~ Gone(v1[other])
    <3>1. other # ANY => other \in Procs /\ ~ Gone(v[other])
      BY <1>1, <1>18, FlagsSeen
    <3> QED
      BY <2>8, <3>1 DEF Stays
  <2>15. Asking(v1[c], other) /\ MayGet(c, other)
    BY <1>3, <1>18, <2>8 DEF Asking, Free
  <2>16. other = ANY => "REPLY_PEND" \notin v1[c].misc
    BY <2>1, <2>9
  <2>17. Ends(v1, mini_receive(k1, c, other), c)
    BY <1>1, <1>2, <2>5, <2>12, <2>14, <2>15, <2>16, ReceiveMails
  <2>18. k2 = mini_receive(k1, c, other)
    BY <1>9, <1>11, <1>18, <2>1, <2>4
  <2> QED
    BY <1>10, <1>13, <2>13, <2>17, <2>18, EndsBefore
<1>19. CASE ~ (other # ANY /\ isempty(k, other)) /\ call = "NOTIFY"
  <2>1. other \in Procs /\ c \in Pointers
    BY <1>1, <1>19, Constants
  <2>2. Fit(v, NULL, 0, Senders(v), NULL)
    BY FineFields
  <2>3. Notified(v, mini_notify(k, c, other), NULL, 0, Senders(v), NULL)
    BY <2>1, <2>2, NotifyMails
  <2>4. PICK w : /\ Sees(mini_notify(k, c, other), w) /\ Stays(v, w)
                 /\ Fit(w, NULL, 0, Senders(v), NULL)
    BY <2>3 DEF Notified, Eases
  <2>5. Fine(w) /\ Keeps(v, w)
    BY <2>4, StaysSame, StaysKeeps DEF Fine
  <2>6. k2 = mini_notify(k, c, other)
    BY <1>11, <1>19
  <2> QED
    BY <1>10, <2>4, <2>5, <2>6, ToldKeeps DEF Ends
<1> QED
  BY <1>1, <1>14, <1>15, <1>16, <1>17, <1>18, <1>19

-----------------------------------------------------------------------------
(* senda: one entry of the table after the other is looked at.             *)
LEMMA TableApart ==
    ASSUME NEW v, NEW m, NEW g, Fit(v, NULL, 0, m, g), NEW c \in Procs, c \in System,
           NEW t \in Seq(Entries), NEW w, w = Set(v, c, WithTable(v[c], t))
    PROVE  Fit(w, c, 0, m, g) /\ Stays(v, w)
<1>1. /\ v \in Views /\ Present(v) /\ Meets(v) /\ Marked2(v, NULL, 0) /\ Ranked(v) /\ Queued(v, m, g)
      /\ \A x \in Procs : v[x] \in Mails /\ Local(v[x], x)
  BY FitFields
<1>2. PICK r : r = WithTable(v[c], t)
  OBVIOUS
<1>3. /\ r \in Mails /\ r.block = v[c].block /\ r.misc = v[c].misc /\ r.from = v[c].from
      /\ SamePlace(v[c], r) /\ r.notes = v[c].notes /\ r.table = t
  BY <1>1, <1>2 DEF WithTable, MailOf, Mails, SamePlace
<1>4. w \in Views /\ \A x \in Procs : w[x] = IF x = c THEN r ELSE v[x]
  BY <1>1, <1>2, <1>3, SetAs DEF IsSet
<1>5. \A x \in Procs : /\ w[x].block = v[x].block /\ w[x].misc = v[x].misc
                       /\ w[x].from = v[x].from /\ w[x].notes = v[x].notes
                       /\ SamePlace(v[x], w[x])
  BY <1>3, <1>4 DEF SamePlace
<1>6. \A x \in Procs : /\ Sends(w[x]) <=> Sends(v[x])
                       /\ Gets(w[x]) <=> Gets(v[x])
                       /\ Gone(w[x]) <=> Gone(v[x])
                       /\ Open(w[x]) <=> Open(v[x])
                       /\ Awaits(w[x]) = Awaits(v[x])
  BY <1>5 DEF Sends, Gets, Gone, Open, Awaits, On, SamePlace
<1>7. Stays(v, w)
  BY <1>5, <1>6 DEF Stays
<1>8. \A x \in Procs : Local(w[x], x)
  <2> TAKE x \in Procs
  <2>1. Local(v[x], x)
    BY <1>1
  <2>2. x \notin System => w[x].table = <<>>
    BY <1>4, <2>1 DEF Local
  <2> QED
    BY <1>5, <1>6, <2>1, <2>2 DEF Local, SamePlace
<1>9. Present(w) /\ Meets(w)
  <2>1. \A x \in Procs : Sends(v[x]) => v[x].to \in Procs
    BY <1>1 DEF Local, MaySend
  <2> QED
    BY <1>1, <1>5, <1>6, <2>1 DEF Present, Meets, SamePlace
<1>10. Ranked(w)
  BY <1>1, <1>6 DEF Ranked, Ranks
<1>11. Marked2(w, c, 0)
  <2> SUFFICES ASSUME NEW s \in System, ~ Gone(w[s]), NEW i \in DOMAIN w[s].table,
                      ~ w[s].table[i].done, s = c => i <= 0
               PROVE  Expects(w[w[s].table[i].dst])
    BY DEF Marked2
  <2>1. s \in Procs /\ s # NULL
    BY Constants
  <2>2. w[s].table \in Seq(Entries)
    BY <1>4, <2>1 DEF Views, Mails
  <2>3. s # c /\ w[s].table[i] \in Entries
    BY <2>2
  <2>4. w[s].table = v[s].table /\ ~ Gone(v[s])
    BY <1>4, <2>1, <2>3
  <2>5. PICK y : y = v[s].table[i].dst
    OBVIOUS
  <2>6. y \in Procs
    BY <2>3, <2>4, <2>5 DEF Entries
  <2>7. Expects(v[y])
    BY <1>1, <2>1, <2>4, <2>5 DEF Marked2
  <2>8. Expects(w[y])
    BY <1>5, <1>6, <2>6, <2>7 DEF Expects
  <2> QED
    BY <2>4, <2>5, <2>8
<1>12. LinkOf(w) = LinkOf(v)
  BY <1>7, StaysSame
<1>13. \A d \in Procs : \A n, s : Waits(v, m, d, n, s) => Waits(w, m, d, n, s)
  BY <1>5, <1>12 DEF Waits, SamePlace
<1>14. Queued(w, m, g)
  BY <1>1, <1>5, <1>6, <1>13 DEF Queued, SamePlace
<1> QED
  BY <1>4, <1>7, <1>8, <1>9, <1>10, <1>11, <1>14 DEF Fit, Apart

(* The i-th entry is done, or its receiver is marked.                      *)
LEMMA LookedAt ==
    ASSUME NEW w, NEW c \in Procs, NEW n \in Nat, NEW i, i = n + 1, NEW m, NEW g,
           Fit(w, c, n, m, g), NEW l \in Nat, DOMAIN w[c].table = 1 .. l,
           w[c].table[i].done \/ Expects(w[w[c].table[i].dst])
    PROVE  Fit(w, c, i, m, g)
<1>1. Marked2(w, c, i)
  <2> SUFFICES ASSUME NEW s \in System, ~ Gone(w[s]), NEW j \in DOMAIN w[s].table,
                      ~ w[s].table[j].done, s = c => j <= i
               PROVE  Expects(w[w[s].table[j].dst])
    BY DEF Marked2
  <2>1. s \in Procs
    BY Constants
  <2>2. CASE s = c /\ j = i
    BY <2>1, <2>2
  <2>3. CASE ~ (s = c /\ j = i)
    <3>1. s = c => j <= n
      <4> SUFFICES ASSUME s = c
                   PROVE  j <= n
        OBVIOUS
      <4>1. j \in Nat /\ j <= i /\ j # i
        BY <2>1, <2>3
      <4> QED
        BY <4>1
    <3>2. Marked2(w, c, n)
      BY FitFields
    <3> QED
      BY <3>1, <3>2 DEF Marked2
  <2> QED
    BY <2>2, <2>3
<1> QED
  BY <1>1 DEF Fit, Apart

Looked(v, k2, c, i, m, l) ==
    \E w : /\ Sees(k2, w) /\ Fit(w, c, i, m, NULL) /\ Stays(v, w)
           /\ DOMAIN w[c].table = 1 .. l

LEMMA TickMails ==
    ASSUME NEW k, NEW v, Sees(k, v), NEW c \in Procs, c \in System, NEW n \in Nat,
           NEW i, i = n + 1, NEW m, Fit(v, c, n, m, NULL),
           NEW l \in Nat, DOMAIN v[c].table = 1 .. l, i \in 1 .. l,
           NEW k2, Ticked(k, c, i, k2)
    PROVE  Looked(v, k2, c, i, m, l)
<1>1. v \in Views /\ v[c] \in Mails
  BY FitFields
<1>2. PICK t : t = Done(v[c].table, i)
  OBVIOUS
<1>3. v[c].table \in Seq(Entries)
  BY <1>1 DEF Mails
<1>4. t \in Seq(Entries) /\ Within(t, v[c].table)
  BY <1>2, <1>3, DoneIs
<1>5. DOMAIN t = 1 .. l /\ t[i].done
  <2>1. PICK e : e = v[c].table[i]
    OBVIOUS
  <2>2. e \in Entries
    BY <1>3, <2>1
  <2>3. t[i] = [e EXCEPT !.done = TRUE]
    BY <1>2, <2>1 DEF Done
  <2>4. t[i].done = TRUE
    BY <2>2, <2>3 DEF Entries
  <2> QED
    BY <1>2, <2>4 DEF Done
<1>6. PICK r : r = WithTable(v[c], t)
  OBVIOUS
<1>7. r \in Mails /\ r.block = v[c].block /\ SamePlace(v[c], r) /\ r.table = t
  BY <1>1, <1>4, <1>6 DEF WithTable, MailOf, Mails, SamePlace
<1>8. PICK w : w = Set(v, c, r)
  OBVIOUS
<1>9. Sees(k2, w)
  BY <1>2, <1>6, <1>8, EntrySees
<1>10. Fit(w, c, n, m, NULL)
  BY <1>4, <1>6, <1>8, TableFit
<1>11. w[c] = r /\ Stays(v, w)
  BY <1>1, <1>7, <1>8, SetAt, SetStays DEF Sends, Gone
<1>12. DOMAIN w[c].table = 1 .. l /\ w[c].table[i].done
  BY <1>5, <1>7, <1>11
<1>13. Fit(w, c, i, m, NULL)
  BY <1>10, <1>12, LookedAt
<1> QED
  BY <1>9, <1>11, <1>12, <1>13 DEF Looked

LEMMA SendaEntryMails ==
    ASSUME NEW k, NEW v, Sees(k, v), NEW c \in Procs, c \in System, NEW n \in Nat,
           NEW i, i = n + 1, NEW m, Fit(v, c, n, m, NULL),
           NEW l \in Nat, DOMAIN v[c].table = 1 .. l, i \in 1 .. l
    PROVE  Looked(v, SendaEntry(c, k, i), c, i, m, l)
<1>1. /\ v \in Views /\ v[c].table = k.priv[c].asyntab
      /\ \A x \in Procs : v[x] \in Mails /\ Local(v[x], x)
  BY FitFields, FieldsSeen
<1>2. PICK e : e = k.priv[c].asyntab[i]
  OBVIOUS
<1>3. v[c].table \in Seq(Entries) /\ e = v[c].table[i] /\ e \in Entries
  BY <1>1, <1>2 DEF Mails
<1>4. PICK d \in Procs : d = e.dst
  BY <1>3 DEF Entries
<1>5. PICK will : will = (WILLRECEIVE(k, d, c) /\ ~ (e.noreply /\ Misc(k, d, "REPLY_PEND")))
  OBVIOUS
<1>6. PICK b : b = SendaEntry(c, k, i)
  OBVIOUS
<1>7. CASE isempty(k, d)
  <2>1. Ticked(k, c, i, b)
    BY <1>2, <1>4, <1>6, <1>7 DEF SendaEntry, Ticked
  <2> QED
    BY <1>6, <2>1, TickMails
<1>8. CASE ~ isempty(k, d) /\ will
  <2>1. PICK x : x = Message(c, "ASYN")
    OBVIOUS
  <2>2. x \in Messages
    BY <2>1, MessageIn, Constants DEF Types
  <2>3. PICK a : a = RTS_UNSET(Deliver(k, d, x), d, {"RECEIVING"})
    OBVIOUS
  <2>4. Gets(v[d]) /\ ~ Sends(v[d])
    BY <1>5, <1>8, WillSeen DEF Will
  <2>5. PICK v1 : v1 = Takes(v, d, x)
    OBVIOUS
  <2>6. Sees(a, v1) /\ Fit(v1, c, n, m, NULL) /\ Stays(v, v1)
    BY <2>2, <2>3, <2>4, <2>5, TakesSees DEF Eases
  <2>7. PICK r : r = MailOf(v[d].block \ {"RECEIVING"}, v[d].misc \cup {"DELIVERMSG"},
                            v[d].from, v[d].to, v[d].what, v[d].first, v[d].link, x,
                            v[d].notes, v[d].table)
    OBVIOUS
  <2>8. v1 = Set(v, d, r)
    BY <1>1, <2>2, <2>5, <2>7, TakesIs
  <2>9. r \in Mails /\ r.table = v[d].table
    <3>1. v[d] \in Mails
      BY <1>1
    <3> QED
      BY <2>2, <2>7, <3>1 DEF MailOf, Mails, MiscFlags
  <2>10. v1[c].table = v[c].table
    <3>1. v \in Views /\ r \in Mails
      BY <1>1, <2>9
    <3>2. IsSet(v, d, r, v1)
      BY <2>8, <3>1, SetAs
    <3> QED
      BY <2>9, <3>2 DEF IsSet
  <2>11. Ticked(a, c, i, b)
    BY <1>2, <1>4, <1>5, <1>6, <1>8, <2>1, <2>3 DEF SendaEntry, Ticked
  <2>12. Looked(v1, b, c, i, m, l)
    BY <2>6, <2>10, <2>11, TickMails
  <2> QED
    BY <1>6, <2>6, <2>12, StaysTwice DEF Looked
<1>9. CASE ~ isempty(k, d) /\ ~ will
  <2>1. PICK f : f = "ASYNMSG"
    OBVIOUS
  <2>2. f \in MiscFlags /\ f \in MiscFlags \ {"DELIVERMSG"} /\ f # "REPLY_PEND" /\ f # "SIG_DELAY"
    BY <2>1 DEF MiscFlags
  <2>3. b = SetMisc(k, d, f)
    BY <1>2, <1>4, <1>5, <1>6, <1>9, <2>1 DEF SendaEntry
  <2>4. PICK w : w = Marks(v, d, f)
    OBVIOUS
  <2>5. Sees(b, w)
    BY <2>2, <2>3, <2>4, SetMiscSees
  <2>6. Fit(w, c, n, m, NULL)
    BY <2>2, <2>4, MarkFit
  <2>7. PICK r : r = WithMisc(v[d], v[d].misc \cup {f})
    OBVIOUS
  <2>8. /\ r \in Mails /\ r.block = v[d].block /\ r.from = v[d].from /\ SamePlace(v[d], r)
        /\ r.misc = v[d].misc \cup {f} /\ r.table = v[d].table
    <3>1. v[d] \in Mails
      BY <1>1
    <3> QED
      BY <2>2, <2>7, <3>1 DEF WithMisc, MailOf, Mails, SamePlace
  <2>9. w = Set(v, d, r)
    BY <2>4, <2>7 DEF Marks
  <2>10. Stays(v, w)
    BY <1>1, <2>8, <2>9, SetStays DEF Sends, Gone
  <2>11. \A x \in Procs : w[x] = IF x = d THEN r ELSE v[x]
    <3>1. v \in Views /\ r \in Mails
      BY <1>1, <2>8
    <3>2. IsSet(v, d, r, w)
      BY <2>9, <3>1, SetAs
    <3> QED
      BY <3>2 DEF IsSet
  <2>12. w[c].table = v[c].table
    BY <2>8, <2>11
  <2>13. ~ Open(v[d])
    <3>1. Open(v[d]) => WILLRECEIVE(k, d, c)
      BY WillSeen DEF Open, Will
    <3>2. Open(v[d]) => "REPLY_PEND" \notin v[d].misc
      BY <1>1 DEF Local
    <3> QED
      BY <1>5, <1>9, <3>1, <3>2, MiscSeen
  <2>14. Expects(w[d])
    BY <2>1, <2>8, <2>11, <2>13 DEF Expects, Open, Sends, Gets
  <2>15. DOMAIN w[c].table = 1 .. l /\ Expects(w[w[c].table[i].dst])
    BY <1>3, <1>4, <2>12, <2>14
  <2>16. Fit(w, c, i, m, NULL)
    BY <2>6, <2>15, LookedAt
  <2> QED
    BY <1>6, <2>5, <2>10, <2>15, <2>16 DEF Looked
<1> QED
  BY <1>7, <1>8, <1>9

LEMMA TableStays ==
    ASSUME NEW v, NEW c, NEW n, NEW m, NEW g, Fit(v, c, n, m, g), NEW p \in Procs,
           NEW t \in Seq(Entries)
    PROVE  Stays(v, Set(v, p, WithTable(v[p], t)))
<1>1. v \in Views /\ v[p] \in Mails
  BY FitFields
<1>2. PICK r : r = WithTable(v[p], t)
  OBVIOUS
<1>3. r \in Mails /\ r.block = v[p].block /\ SamePlace(v[p], r)
  BY <1>1, <1>2 DEF WithTable, MailOf, Mails, SamePlace
<1> QED
  BY <1>1, <1>2, <1>3, SetStays DEF Sends, Gone

LEMMA SendaMails ==
    ASSUME NEW k, Ok(k), NEW v, Sees(k, v), Fine(v), NEW c \in Procs, c \in System,
           NEW table \in Seq(Entries)
    PROVE  Ends(v, mini_senda(k, c, table), c)
<1>1. PICK n \in Nat : n = Len(table)
  OBVIOUS
<1>2. PICK k0 : k0 = [k EXCEPT !.priv[c].asyntab = table]
  OBVIOUS
<1>3. k \in Kernels /\ v \in Views /\ v[c] \in Mails /\ Fit(v, NULL, 0, Senders(v), NULL)
  BY SeesFields, FineFields
<1>4. PICK v0 : v0 = Set(v, c, WithTable(v[c], table))
  OBVIOUS
<1>5. Sees(k0, v0)
  BY <1>2, <1>4, TableSees
<1>6. PICK m : m = Senders(v)
  OBVIOUS
<1>7. Fit(v0, c, 0, m, NULL) /\ Stays(v, v0)
  BY <1>3, <1>4, <1>6, TableApart
<1>8. DOMAIN v0[c].table = 1 .. n
  <2>1. PICK r : r = WithTable(v[c], table)
    OBVIOUS
  <2>2. r \in Mails /\ r.table = table
    BY <1>3, <2>1 DEF WithTable, MailOf, Mails
  <2>3. v0[c] = r
    BY <1>3, <1>4, <2>1, <2>2, SetAt
  <2> QED
    BY <1>1, <2>2, <2>3
<1>9. k0 \in Room(k, c, n)
  <2>1. TableSet(k, c, table, k0)
    BY <1>2, <1>3, TableCalm
  <2>2. Calm(k, k0) /\ k0.priv[c].asyntab = table
    BY <2>1 DEF TableSet
  <2>3. Leads(k, k0) /\ k0 \in Kernels
    BY <2>2, CalmLeads, CalmKernel
  <2> QED
    BY <1>1, <2>2, <2>3 DEF Room
<1>10. PICK f : f = CHOOSE g : Sending(k0, n, c, g)
  OBVIOUS
<1>11. Sending(k0, n, c, f)
  BY <1>9, <1>10, SendingExists
<1>12. \A i \in 0 .. n : f[i] = IF i = 0 THEN k0 ELSE SendaEntry(c, f[i - 1], i)
  BY <1>11 DEF Sending
<1>13. PICK T : T = {i \in 0 .. n : Looked(v, f[i], c, i, m, n)}
  OBVIOUS
<1>14. 0 \in T
  <2>1. f[0] = k0
    BY <1>12
  <2>2. Looked(v, k0, c, 0, m, n)
    BY <1>5, <1>7, <1>8 DEF Looked
  <2> QED
    BY <1>13, <2>1, <2>2
<1>15. ASSUME NEW i \in 1 .. n, i - 1 \in T
       PROVE  i \in T
  <2>1. PICK j \in Nat : j = i - 1
    OBVIOUS
  <2>2. i = j + 1 /\ i \in 0 .. n /\ i # 0
    BY <2>1
  <2>3. PICK x : x = f[j]
    OBVIOUS
  <2>4. Looked(v, x, c, j, m, n)
    BY <1>13, <1>15, <2>1, <2>3
  <2>5. PICK u : /\ Sees(x, u) /\ Fit(u, c, j, m, NULL) /\ Stays(v, u)
                 /\ DOMAIN u[c].table = 1 .. n
    BY <2>4 DEF Looked
  <2>6. Looked(u, SendaEntry(c, x, i), c, i, m, n)
    BY <2>2, <2>5, SendaEntryMails
  <2>7. Looked(v, SendaEntry(c, x, i), c, i, m, n)
    BY <2>5, <2>6, StaysTwice DEF Looked
  <2>8. f[i] = SendaEntry(c, x, i)
    BY <1>12, <2>1, <2>2, <2>3
  <2> QED
    BY <1>13, <2>2, <2>7, <2>8
<1>16. n \in T
  BY <1>14, <1>15, UpTo
<1>17. PICK sent : sent = f[n]
  OBVIOUS
<1>18. PICK w : /\ Sees(sent, w) /\ Fit(w, c, n, m, NULL) /\ Stays(v, w)
                /\ DOMAIN w[c].table = 1 .. n
  BY <1>13, <1>16, <1>17 DEF Looked
<1>19. Fit(w, NULL, 0, m, NULL)
  <2>1. Marked2(w, c, n)
    BY <1>18, FitFields
  <2>2. Marked2(w, NULL, 0)
    BY <1>18, <2>1 DEF Marked2
  <2> QED
    BY <1>18, <2>2 DEF Fit, Apart
<1>20. Ends(v, sent, c)
  BY <1>6, <1>18, <1>19, StaysSame, StaysKeeps, ToldKeeps DEF Ends, Fine
<1>21. PICK b : b = [sent EXCEPT !.priv[c].asyntab = <<>>]
  OBVIOUS
<1>22. Ends(v, b, c)
  <2>1. PICK none : none = <<>>
    OBVIOUS
  <2>2. none \in Seq(Entries) /\ Within(none, w[c].table)
    BY <2>1 DEF Within
  <2>3. PICK u : u = Set(w, c, WithTable(w[c], none))
    OBVIOUS
  <2>4. Sees(b, u)
    BY <1>18, <1>21, <2>1, <2>2, <2>3, TableSees
  <2>5. Fit(u, NULL, 0, m, NULL)
    BY <1>19, <2>2, <2>3, TableFit
  <2>6. Stays(w, u)
    BY <1>19, <2>2, <2>3, TableStays
  <2> QED
    BY <1>6, <1>18, <2>4, <2>5, <2>6, StaysTwice, StaysSame, StaysKeeps, ToldKeeps DEF Ends, Fine
<1>23. mini_senda(k, c, table) =
         IF \A i \in DOMAIN table : sent.priv[c].asyntab[i].done THEN b ELSE sent
  <2> DEFINE g == CHOOSE h : Sending([k EXCEPT !.priv[c].asyntab = table],
                                     Len(table), c, h)
             out == g[Len(table)]
  <2>1. mini_senda(k, c, table) =
          IF \A i \in DOMAIN table : out.priv[c].asyntab[i].done
            THEN [out EXCEPT !.priv[c].asyntab = <<>>] ELSE out
    BY DEF mini_senda, Sending
  <2>2. f = g
    BY <1>1, <1>2, <1>10
  <2>3. sent = out
    BY <1>1, <1>17, <2>2
  <2> HIDE DEF out
  <2> QED
    BY <1>21, <2>1, <2>3
<1> QED
  BY <1>20, <1>22, <1>23

-----------------------------------------------------------------------------
(* The exit of a process: first it leaves the queue on which it waits.     *)
LEMMA FreedFit ==
    ASSUME NEW v, NEW c, NEW n, NEW m, NEW g, Fit(v, c, n, m, g), NEW p \in Procs,
           NEW b, b = v[p].block \ {"SENDING", "RECEIVING"}
    PROVE  Fit(Set(v, p, Released(v[p], b)), c, n, m, g)
<1>1. v[p] \in Mails /\ Local(v[p], p)
  BY FitFields
<1>2. PICK r : r = Released(v[p], b)
  OBVIOUS
<1>3. /\ r.block = b /\ r.from = v[p].from /\ r.to = v[p].to /\ r.what = v[p].what
      /\ r.first = v[p].first /\ r.link = v[p].link /\ r.notes = v[p].notes
      /\ r.table = v[p].table /\ r.misc = v[p].misc \ {"SIG_DELAY"} /\ r \in Mails
  BY <1>1, <1>2 DEF Released, MailOf, Mails
<1>4. ~ Sends(r) /\ ~ Gets(r) /\ (Gone(r) <=> Gone(v[p]))
  BY <1>3 DEF Sends, Gets, Gone
<1>5. Local(r, p)
  BY <1>1, <1>3, <1>4 DEF Local, Gone, Open
<1>6. Awaits(r) = NULL
  BY <1>4, AnyIs DEF Awaits, On
<1>7. Mild(v, p, r)
  BY <1>3, <1>4, <1>5, <1>6 DEF Mild, SamePlace, Within
<1> QED
  BY <1>2, <1>7, MildFit

(* At most one process sends to one that may exit: it has no link.         *)
LEMMA SoleSender ==
    ASSUME NEW v, \A x \in Procs : Local(v[x], x), Queued(v, Senders(v), NULL), OneSender,
           NEW rc \in Mortal, ~ Gone(v[rc]), NEW x \in Procs, Sends(v[x]), v[x].to = rc
    PROVE  v[x].link = NULL
<1>1. rc \in Procs /\ rc # NULL /\ rc # SCHED
  BY KernelAssumption, Constants
<1>2. ASSUME NEW y \in Procs, Sends(v[y]), v[y].to = rc
      PROVE  \E call \in Waiting : <<call, y, rc>> \in Calls
  <2>1. MaySend(y, rc)
    BY <1>2 DEF Local
  <2> QED
    BY <1>1, <2>1 DEF MaySend
<1>3. \A y \in Procs : Sends(v[y]) /\ v[y].to = rc => y = x
  <2> SUFFICES ASSUME NEW y \in Procs, Sends(v[y]), v[y].to = rc
               PROVE  y = x
    OBVIOUS
  <2>1. PICK a \in Waiting : <<a, y, rc>> \in Calls
    BY <1>2
  <2>2. PICK b \in Waiting : <<b, x, rc>> \in Calls
    BY <1>2
  <2>3. PICK c1, c2 : c1 = <<a, y, rc>> /\ c2 = <<b, x, rc>>
    OBVIOUS
  <2>4. /\ c1[1] = a /\ c1[2] = y /\ c1[3] = rc /\ c1 \in Calls
        /\ c2[1] = b /\ c2[2] = x /\ c2[3] = rc /\ c2 \in Calls
    BY <2>1, <2>2, <2>3
  <2> QED
    BY <2>1, <2>2, <2>4 DEF OneSender
<1>4. PICK n, s : Waits(v, Senders(v), rc, n, s)
  BY <1>1 DEF Queued
<1>5. List(n, s, v[rc].first, LinkOf(v)) /\ \A y \in Procs : Has(n, s, y) => y = x
  BY <1>3, <1>4 DEF Waits, Senders
<1>6. PICK i \in 1 .. n : s[i] = x
  BY <1>4 DEF Waits, Senders, Has
<1>7. n \in 1 .. n /\ s[n] \in Procs
  BY <1>5, <1>6 DEF List
<1>8. s[n] = x
  BY <1>5, <1>7 DEF Has
<1>9. LinkOf(v)[s[n]] = NULL
  BY <1>5, <1>7 DEF List
<1> QED
  BY <1>8, <1>9 DEF LinkOf

(* Those who go on sending after rc has exited.                            *)
Remaining(v, rc) == {x \in Procs \ {rc} : Sends(v[x]) /\ v[x].to # rc}

Removed(v, k2, rc) ==
    \E w : /\ Sees(k2, w) /\ Fit(w, NULL, 0, Remaining(v, rc), rc)
           /\ \A x \in Procs : SameMail(v[x], w[x])

LEMMA RestQueued ==
    ASSUME NEW v, NEW w, NEW rc \in Procs, Queued(w, Senders(v) \ {rc}, rc),
           \A x \in Procs : SameMail(v[x], w[x]),
           \A x \in Procs : Sends(v[x]) /\ v[x].to = rc => w[x].link = NULL
    PROVE  Queued(w, Remaining(v, rc), rc)
<1>1. ASSUME NEW d \in Procs, d # rc, NEW n, NEW s, Waits(w, Senders(v) \ {rc}, d, n, s)
      PROVE  Waits(w, Remaining(v, rc), d, n, s)
  <2>1. \A x \in Procs : w[x].to = v[x].to
    BY DEF SameMail
  <2>2. \A x \in Procs : x \in Senders(v) \ {rc} /\ w[x].to = d <=> x \in Remaining(v, rc) /\ w[x].to = d
    BY <1>1, <2>1 DEF Senders, Remaining
  <2> QED
    BY <1>1, <2>2 DEF Waits
<1>2. \A x \in Procs : x \in Senders(v) \ {rc} /\ w[x].link # NULL => x \in Remaining(v, rc)
  BY DEF Senders, Remaining
<1> QED
  BY <1>1, <1>2 DEF Queued

LEMMA RemovedMails ==
    ASSUME NEW k, NEW v, Sees(k, v), Fine(v), OneSender, NEW rc \in Mortal, ~ Gone(v[rc]),
           NEW d, d = k.proc[rc].sendto,
           NEW i, i = SelectInSeq(Callers(k, d), LAMBDA s : s = rc),
           NEW k2, k2 = IF ~ Flag(k, rc, "SENDING") THEN k
                        ELSE IF i = 0 THEN k ELSE RemoveCaller(k, d, i)
    PROVE  Removed(v, k2, rc)
<1>1. /\ v \in Views /\ Apart(v, NULL, 0) /\ Queued(v, Senders(v), NULL) /\ Present(v)
      /\ \A x \in Procs : v[x] \in Mails /\ Local(v[x], x)
  BY FineFields DEF Fit
<1>2. rc \in Procs /\ rc # NULL
  BY KernelAssumption, Constants
<1>3. \A x \in Procs : Sends(v[x]) /\ v[x].to = rc => v[x].link = NULL
  BY <1>1, SoleSender
<1>4. CASE ~ Sends(v[rc])
  <2>1. k2 = k
    BY <1>2, <1>4, FlagsSeen
  <2>2. Senders(v) \ {rc} = Senders(v)
    BY <1>4 DEF Senders
  <2>3. Queued(v, Senders(v) \ {rc}, rc)
    BY <1>1, <1>2, <2>2, Constants DEF Queued
  <2>4. \A x \in Procs : SameMail(v[x], v[x])
    BY DEF SameMail
  <2>5. Queued(v, Remaining(v, rc), rc)
    BY <1>2, <1>3, <2>3, <2>4, RestQueued
  <2> QED
    BY <1>1, <2>1, <2>4, <2>5 DEF Removed, Fit
<1>5. CASE Sends(v[rc])
  <2>1. d = v[rc].to /\ d \in Procs /\ d # rc /\ ~ Gone(v[d]) /\ d # NULL
    BY <1>1, <1>2, <1>5, FieldsSeen, Constants DEF Local, MaySend, Present
  <2>2. PICK n, s : Waits(v, Senders(v), d, n, s)
    BY <1>1, <2>1 DEF Queued
  <2>3. Walks(k, v, Senders(v), d, n, s)
    BY <2>1, <2>2, WaitsAre
  <2>4. Has(n, s, rc)
    BY <1>2, <1>5, <2>1, <2>2 DEF Waits, Senders
  <2>5. i \in 1 .. n /\ s[i] = rc
    <3>1. PICK I : I = {j \in 1 .. Len(Callers(k, d)) : Callers(k, d)[j] = rc}
      OBVIOUS
    <3>2. i = IF I # {} THEN Min(I) ELSE 0
      BY <3>1 DEF SelectInSeq
    <3>3. I = {j \in 1 .. n : s[j] = rc} /\ n \in Nat
      BY <2>3, <3>1 DEF Walks
    <3>4. I # {} /\ I \in SUBSET Nat
      BY <2>4, <3>3 DEF Has
    <3>5. Min(I) \in I
      BY <3>4, MinIn
    <3> QED
      BY <3>2, <3>3, <3>4, <3>5
  <2>6. PICK w : w = Cut(v, d, s, i)
    OBVIOUS
  <2>7. Sees(RemoveCaller(k, d, i), w) /\ IsCut(v, d, s, i, w)
    BY <2>1, <2>2, <2>5, <2>6, CutSees
  <2>8. k2 = RemoveCaller(k, d, i)
    <3>1. i # 0
      BY <2>5
    <3> QED
      BY <1>2, <1>5, <3>1, FlagsSeen
  <2>9. Apart(w, NULL, 0)
    BY <1>1, <2>7, PlacesApart DEF IsCut
  <2>10. Unqueued(v, d, s, i, w)
    BY <2>7 DEF Unqueued, IsCut, SameMail, Gone
  <2>11. Queued(w, Senders(v) \ {rc}, rc)
    <3>1. w \in Views
      BY <2>7 DEF IsCut
    <3>2. PICK g : g = NULL
      OBVIOUS
    <3>3. PICK g2 : g2 = rc
      OBVIOUS
    <3>4. (g2 = g /\ w[s[i]].link = NULL) \/ (g = NULL /\ g2 = s[i])
      BY <2>5, <3>2, <3>3
    <3>5. Queued(w, Senders(v) \ {s[i]}, g2)
      <4>1. Queued(v, Senders(v), g)
        BY <1>1, <3>2
      <4> QED
        BY <1>1, <2>1, <2>2, <2>5, <2>10, <3>1, <3>4, <4>1, CutQueued
    <3> QED
      BY <2>5, <3>3, <3>5
  <2>12. \A x \in Procs : Sends(v[x]) /\ v[x].to = rc => w[x].link = NULL
    <3> SUFFICES ASSUME NEW x \in Procs, Sends(v[x]), v[x].to = rc
                 PROVE  w[x].link = NULL
      OBVIOUS
    <3>1. i # 1 => i - 1 \in 1 .. n
      BY <2>3, <2>5 DEF Walks
    <3>2. i # 1 => x # s[i - 1]
      BY <2>1, <2>3, <3>1 DEF Walks
    <3>3. w[x].link = v[x].link
      BY <2>7, <3>2 DEF IsCut
    <3> QED
      BY <1>3, <3>3
  <2>13. Queued(w, Remaining(v, rc), rc)
    BY <1>2, <2>7, <2>11, <2>12, RestQueued DEF IsCut
  <2> QED
    BY <2>7, <2>8, <2>9, <2>13 DEF Removed, Fit, IsCut
<1> QED
  BY <1>4, <1>5

(* While it goes, those that wait for it are released one by one.  A       *)
(* delayed stop of it does not matter any more.                            *)
Prompt(m) == WithMisc(m, m.misc \ {"SIG_DELAY"})

Shaded(u, w, rc) ==
    /\ u \in Views /\ w \in Views
    /\ \A x \in Procs : w[x] = IF x = rc THEN Prompt(u[x]) ELSE u[x]

(* Those up to i wait for it no more.                                      *)
LetGo(v, u, rc, i) ==
    /\ ~ Sends(u[rc]) /\ ~ Gets(u[rc])
    /\ "SIG_DELAY" \in u[rc].misc => rc \in Signalled
    /\ \A x \in Procs : /\ Gone(u[x]) <=> Gone(v[x])
                        /\ u[x].to = v[x].to
                        /\ Sends(u[x]) => Sends(v[x])
                        /\ x \in Remaining(v, rc) => Sends(u[x])
                        /\ x <= i => On(u[x]) # rc

Leaving(k, v, rc, i) ==
    \E u, w : /\ Sees(k, u) /\ Shaded(u, w, rc) /\ LetGo(v, u, rc, i)
              /\ Fit(w, NULL, 0, Remaining(v, rc), rc)

LEMMA PromptIs ==
    ASSUME NEW m \in Mails
    PROVE  /\ Prompt(m) \in Mails /\ Prompt(m).block = m.block /\ SamePlace(m, Prompt(m))
           /\ Prompt(m).misc = m.misc \ {"SIG_DELAY"} /\ Prompt(m).from = m.from
           /\ Prompt(m).got = m.got /\ Prompt(m).notes = m.notes /\ Prompt(m).table = m.table
BY DEF Prompt, WithMisc, MailOf, Mails, SamePlace

LEMMA LeavingStarts ==
    ASSUME NEW k, NEW v, Sees(k, v), Fine(v), OneSender, NEW rc \in Mortal, ~ Gone(v[rc])
    PROVE  Leaving(clear_ipc(k, rc), v, rc, 0)
<1>1. rc \in Procs /\ rc # NULL
  BY KernelAssumption, Constants
<1>2. PICK d : d = k.proc[rc].sendto
  OBVIOUS
<1>3. PICK i : i = SelectInSeq(Callers(k, d), LAMBDA s : s = rc)
  OBVIOUS
<1>4. PICK a : a = IF ~ Flag(k, rc, "SENDING") THEN k
                   ELSE IF i = 0 THEN k ELSE RemoveCaller(k, d, i)
  OBVIOUS
<1>5. Removed(v, a, rc)
  BY <1>2, <1>3, <1>4, RemovedMails
<1>6. PICK y : /\ Sees(a, y) /\ Fit(y, NULL, 0, Remaining(v, rc), rc)
               /\ \A x \in Procs : SameMail(v[x], y[x])
  BY <1>5 DEF Removed
<1>7. /\ y \in Views /\ y[rc] \in Mails /\ y[rc].block = a.proc[rc].rts \cap Blocks
      /\ a.proc[rc].rts \in SUBSET Flags
  BY <1>1, <1>6, FitFields, BlockIs
<1>8. PICK f : f = a.proc[rc].rts \ {"SENDING", "RECEIVING"}
  OBVIOUS
<1>9. PICK b : b = y[rc].block \ {"SENDING", "RECEIVING"}
  OBVIOUS
<1>10. f \in SUBSET Flags /\ f \cap Blocks = b
  BY <1>7, <1>8, <1>9
<1>11. PICK e : e = [a EXCEPT !.proc[rc].rts = f]
  OBVIOUS
<1>12. PICK r : r = WithBlock(y[rc], b)
  OBVIOUS
<1>13. PICK u : u = Set(y, rc, r)
  OBVIOUS
<1>14. Sees(e, u)
  <2>1. Sees(e, Set(y, rc, WithBlock(y[rc], f \cap Blocks)))
    BY <1>1, <1>6, <1>10, <1>11, RtsSees
  <2> QED
    BY <1>10, <1>12, <1>13, <2>1
<1>15. PICK q : q = Released(y[rc], b)
  OBVIOUS
<1>16. PICK w : w = Set(y, rc, q)
  OBVIOUS
<1>17. Fit(w, NULL, 0, Remaining(v, rc), rc)
  BY <1>1, <1>6, <1>9, <1>15, <1>16, FreedFit
<1>18. r \in Mails /\ q \in Mails /\ r.block = b /\ r.to = y[rc].to
  BY <1>7, <1>9, <1>12, <1>15 DEF WithBlock, Released, MailOf, Mails
<1>19. q = Prompt(r)
  BY <1>12, <1>15 DEF Prompt, Released, WithMisc, WithBlock, MailOf
<1>20. /\ u \in Views /\ w \in Views
       /\ \A x \in Procs : u[x] = IF x = rc THEN r ELSE y[x]
       /\ \A x \in Procs : w[x] = IF x = rc THEN q ELSE y[x]
  <2>1. IsSet(y, rc, r, u) /\ IsSet(y, rc, q, w)
    BY <1>1, <1>7, <1>13, <1>16, <1>18, SetAs
  <2> QED
    BY <2>1 DEF IsSet
<1>21. Shaded(u, w, rc)
  BY <1>19, <1>20 DEF Shaded
<1>22. LetGo(v, u, rc, 0)
  <2>1. ~ Sends(u[rc]) /\ ~ Gets(u[rc])
    BY <1>1, <1>9, <1>18, <1>20 DEF Sends, Gets
  <2>2. ASSUME NEW x \in Procs
        PROVE  /\ Gone(u[x]) <=> Gone(v[x])
               /\ u[x].to = v[x].to
               /\ Sends(u[x]) => Sends(v[x])
               /\ x \in Remaining(v, rc) => Sends(u[x])
    <3>1. SameMail(v[x], y[x])
      BY <1>6
    <3> QED
      BY <1>9, <1>18, <1>20, <2>1, <3>1 DEF SameMail, Gone, Sends, Remaining
  <2>3. \A x \in Procs : ~ (x <= 0)
    BY KernelAssumption
  <2>4. "SIG_DELAY" \in u[rc].misc => rc \in Signalled
    <3>1. u[rc].misc = y[rc].misc
      BY <1>1, <1>12, <1>20 DEF WithBlock, MailOf
    <3>2. y[rc].misc = v[rc].misc /\ Local(v[rc], rc)
      BY <1>1, <1>6, FineFields DEF SameMail
    <3> QED
      BY <3>1, <3>2 DEF Local
  <2> QED
    BY <2>1, <2>2, <2>3, <2>4 DEF LetGo
<1>23. clear_ipc(k, rc) = e
  BY <1>2, <1>3, <1>4, <1>8, <1>11 DEF clear_ipc
<1> QED
  BY <1>14, <1>17, <1>21, <1>22, <1>23 DEF Leaving

(* What becomes of process p in its turn.                                  *)
Turned(m, notes, out) ==
    MailOf(IF out THEN m.block \ {"SENDING", "RECEIVING"} ELSE m.block,
           m.misc, m.from, m.to, m.what, m.first, m.link, m.got, notes, m.table)

TurnedIs(m, r, notes, out) ==
    /\ r \in Mails /\ r.misc = m.misc /\ r.from = m.from /\ SamePlace(m, r) /\ r.notes = notes
    /\ r.table = m.table
    /\ r.block = IF out THEN m.block \ {"SENDING", "RECEIVING"} ELSE m.block

LEMMA TurnedAs ==
    ASSUME NEW m \in Mails, NEW notes \in SUBSET m.notes, NEW out \in BOOLEAN
    PROVE  TurnedIs(m, Turned(m, notes, out), notes, out)
BY DEF TurnedIs, Turned, MailOf, Mails, SamePlace

LEMMA TurnSees ==
    ASSUME NEW k, NEW u, Sees(k, u), NEW rc \in Procs, NEW p \in Procs,
           NEW notes, notes = u[p].notes \ ({rc} \cap System),
           NEW out, out = (On(u[p]) = rc)
    PROVE  Sees(ClearOne(k, rc, p), Set(u, p, Turned(u[p], notes, out)))
<1>1. u \in Views /\ u[p] \in Mails /\ u[p].notes = k.priv[p].notify_pending
  BY SeesFields, FieldsSeen
<1>2. notes \in SUBSET Pointers
  BY <1>1 DEF Mails
<1>3. PICK a : a = [k EXCEPT !.priv[p].notify_pending = notes]
  OBVIOUS
<1>4. PICK q : q = WithNotes(u[p], notes)
  OBVIOUS
<1>5. PICK v : v = Set(u, p, q)
  OBVIOUS
<1>6. Sees(a, v)
  BY <1>2, <1>3, <1>4, <1>5, NotesSees
<1>7. /\ q \in Mails /\ q.block = u[p].block /\ On(q) = On(u[p])
  BY <1>1, <1>2, <1>4 DEF WithNotes, MailOf, Mails, On, Sends, Gets
<1>8. v \in Views /\ v[p] = q
  BY <1>1, <1>5, <1>7, SetIs, SetAt
<1>9. P_BLOCKEDON(a, p) = On(u[p])
  BY <1>6, <1>7, <1>8, OnSeen
<1>10. PICK flags : flags = {"RECEIVING", "SENDING"}
  OBVIOUS
<1>11. PICK b : b = RTS_UNSET(a, p, flags)
  OBVIOUS
<1>12. Sees(b, Unblocked(v, p, flags))
  BY <1>6, <1>11, RtsUnsetSees
<1>13. ClearOne(k, rc, p) = IF out THEN b ELSE a
  <2>1. a = [k EXCEPT !.priv[p].notify_pending = @ \ ({rc} \cap System)]
    BY <1>1, <1>3
  <2> QED
    BY <1>9, <1>10, <1>11, <2>1 DEF ClearOne
<1>14. PICK r : r = Turned(u[p], notes, out)
  OBVIOUS
<1>15. CASE out
  <2>1. r = WithBlock(q, q.block \ flags)
    BY <1>4, <1>10, <1>14, <1>15 DEF Turned, WithBlock, WithNotes, MailOf
  <2>2. r \in Mails
    BY <1>7, <2>1 DEF WithBlock, MailOf, Mails
  <2>3. Unblocked(v, p, flags) = Set(Set(u, p, q), p, r)
    BY <1>5, <1>8, <2>1 DEF Unblocked
  <2>4. Set(Set(u, p, q), p, r) = Set(u, p, r)
    BY <1>1, <1>7, <2>2, SetTwice
  <2> QED
    BY <1>12, <1>13, <1>14, <1>15, <2>3, <2>4
<1>16. CASE ~ out
  <2>1. r = q
    BY <1>4, <1>14, <1>16 DEF Turned, WithNotes, MailOf
  <2> QED
    BY <1>5, <1>6, <1>13, <1>14, <1>16, <2>1
<1> QED
  BY <1>15, <1>16

LEMMA TurnMild ==
    ASSUME NEW v, NEW w, NEW m, NEW rc \in Mortal, Fit(w, NULL, 0, m, rc), Undelayed,
           NEW p \in Procs, ~ Gone(w[p]), NEW notes \in SUBSET w[p].notes,
           NEW out, out = (On(w[p]) = rc),
           NEW r, TurnedIs(w[p], r, notes, out)
    PROVE  Mild(w, p, r)
<1>1. w[p] \in Mails /\ Local(w[p], p)
  BY FitFields
<1>2. rc # NULL /\ rc # ANY /\ rc # SCHED
  BY KernelAssumption, Constants, AnyIs
<1>3. out => "SIG_DELAY" \notin w[p].misc
  <2> SUFFICES ASSUME out, "SIG_DELAY" \in w[p].misc
               PROVE  FALSE
    OBVIOUS
  <2>1. p \in Signalled /\ Sends(w[p])
    BY <1>1 DEF Local
  <2>2. MaySend(p, rc)
    BY <1>1, <2>1 DEF Local, On
  <2>3. PICK call \in Waiting : <<call, p, rc>> \in Calls
    BY <1>2, <2>2 DEF MaySend
  <2>4. PICK c : c = <<call, p, rc>>
    OBVIOUS
  <2>5. c \in Calls /\ c[1] = call /\ c[2] = p /\ c[3] = rc
    BY <2>3, <2>4
  <2> QED
    BY <2>1, <2>3, <2>5 DEF Undelayed
<1>4. out => ~ Sends(r) /\ ~ Gets(r)
  BY DEF TurnedIs, Sends, Gets
<1>5. ~ out => r.block = w[p].block
  BY DEF TurnedIs
<1>6. Gone(r) <=> Gone(w[p])
  BY DEF TurnedIs, Gone
<1>7. out \in BOOLEAN
  OBVIOUS
<1>8. Local(r, p)
  <2>1. CASE out
    BY <1>1, <1>3, <1>4, <1>6, <2>1 DEF Local, TurnedIs, Open
  <2>2. CASE ~ out
    <3>1. /\ Sends(r) <=> Sends(w[p])
          /\ Gets(r) <=> Gets(w[p])
          /\ Open(r) <=> Open(w[p])
      BY <1>5, <2>2 DEF Sends, Gets, Open, TurnedIs
    <3>2. Open(r) => r.notes = {}
      BY <1>1, <3>1 DEF Local, TurnedIs
    <3> QED
      BY <1>1, <1>5, <1>6, <2>2, <3>1, <3>2 DEF Local, TurnedIs, SamePlace
  <2> QED
    BY <1>7, <2>1, <2>2
<1>9. Awaits(r) \in {NULL, Awaits(w[p])}
  <2>1. CASE out
    BY <1>4, <2>1, AnyIs DEF Awaits, On
  <2>2. CASE ~ out
    BY <1>5, <2>2 DEF Awaits, On, Sends, Gets, TurnedIs, SamePlace
  <2> QED
    BY <1>7, <2>1, <2>2
<1>10. /\ Sends(r) => Sends(w[p])
       /\ Gets(r) /\ ~ Sends(r) => Gets(w[p]) /\ ~ Sends(w[p]) /\ r.from = w[p].from
  <2>1. CASE out
    BY <1>4, <2>1
  <2>2. CASE ~ out
    BY <1>5, <2>2 DEF Sends, Gets, TurnedIs
  <2> QED
    BY <1>7, <2>1, <2>2
<1> QED
  BY <1>6, <1>8, <1>9, <1>10 DEF Mild, TurnedIs, Within

LEMMA TurnMails ==
    ASSUME NEW k, NEW v, NEW rc \in Mortal, ~ Gone(v[rc]), Undelayed,
           NEW j \in Nat, Leaving(k, v, rc, j),
           NEW p \in Procs, p = j + 1, ~ Gone(v[p])
    PROVE  Leaving(ClearOne(k, rc, p), v, rc, p)
<1>1. PICK u, w : /\ Sees(k, u) /\ Shaded(u, w, rc) /\ LetGo(v, u, rc, j)
                  /\ Fit(w, NULL, 0, Remaining(v, rc), rc)
  BY DEF Leaving
<1>2. rc \in Procs /\ rc # NULL
  BY KernelAssumption, Constants
<1>3. /\ u \in Views /\ w \in Views /\ \A x \in Procs : u[x] \in Mails /\ w[x] \in Mails
      /\ \A x \in Procs : w[x] = IF x = rc THEN Prompt(u[x]) ELSE u[x]
  BY <1>1 DEF Shaded, Views
<1>4. PICK notes : notes = u[p].notes \ ({rc} \cap System)
  OBVIOUS
<1>5. PICK out \in BOOLEAN : out = (On(u[p]) = rc)
  OBVIOUS
<1>6. PICK r : r = Turned(u[p], notes, out)
  OBVIOUS
<1>7. TurnedIs(u[p], r, notes, out) /\ notes \in SUBSET u[p].notes /\ r \in Mails
  <2>1. u[p] \in Mails /\ notes \in SUBSET u[p].notes
    BY <1>3, <1>4
  <2>2. TurnedIs(u[p], r, notes, out)
    BY <1>5, <1>6, <2>1, TurnedAs
  <2> QED
    BY <2>1, <2>2 DEF TurnedIs
<1>8. PICK u2 : u2 = Set(u, p, r)
  OBVIOUS
<1>9. Sees(ClearOne(k, rc, p), u2)
  BY <1>1, <1>2, <1>4, <1>5, <1>6, <1>8, TurnSees
<1>10. u2 \in Views /\ \A x \in Procs : u2[x] = IF x = p THEN r ELSE u[x]
  BY <1>3, <1>7, <1>8, SetAs DEF IsSet
<1>11. ~ Sends(u[rc]) /\ ~ Gets(u[rc])
  BY <1>1 DEF LetGo
<1>12. LetGo(v, u2, rc, p)
  <2>1. /\ ~ Sends(u2[rc]) /\ ~ Gets(u2[rc])
        /\ "SIG_DELAY" \in u2[rc].misc => rc \in Signalled
    <3>1. "SIG_DELAY" \in u[rc].misc => rc \in Signalled
      BY <1>1 DEF LetGo
    <3> QED
      BY <1>2, <1>5, <1>7, <1>10, <1>11, <3>1 DEF Sends, Gets, TurnedIs
  <2>2. ASSUME NEW x \in Procs, x # p
        PROVE  /\ Gone(u2[x]) <=> Gone(v[x])
               /\ u2[x].to = v[x].to
               /\ Sends(u2[x]) => Sends(v[x])
               /\ x \in Remaining(v, rc) => Sends(u2[x])
               /\ x <= p => On(u2[x]) # rc
    <3>1. u2[x] = u[x]
      BY <1>10, <2>2
    <3>2. x <= p => x <= j
      <4>1. x \in Nat
        BY Constants
      <4> QED
        BY <2>2, <4>1
    <3> QED
      BY <1>1, <3>1, <3>2 DEF LetGo
  <2>3. /\ Gone(u[p]) <=> Gone(v[p])
        /\ u[p].to = v[p].to
        /\ Sends(u[p]) => Sends(v[p])
        /\ p \in Remaining(v, rc) => Sends(u[p])
    BY <1>1 DEF LetGo
  <2>4. u2[p] = r /\ r.to = u[p].to /\ (Gone(r) <=> Gone(u[p])) /\ (Sends(r) => Sends(u[p]))
    BY <1>5, <1>7, <1>10 DEF TurnedIs, SamePlace, Gone, Sends
  <2>5. CASE out
    <3>1. ~ Sends(r) /\ ~ Gets(r)
      BY <1>7, <2>5 DEF TurnedIs, Sends, Gets
    <3>2. On(r) # rc
      BY <1>2, <3>1 DEF On
    <3>3. p \notin Remaining(v, rc)
      BY <1>5, <2>3, <2>5 DEF Remaining, On
    <3> QED
      BY <2>1, <2>2, <2>3, <2>4, <3>2, <3>3 DEF LetGo
  <2>6. CASE ~ out
    <3>1. r.block = u[p].block /\ r.from = u[p].from
      BY <1>7, <2>6 DEF TurnedIs
    <3>2. On(r) = On(u[p]) /\ (Sends(r) <=> Sends(u[p]))
      BY <2>4, <3>1 DEF On, Sends, Gets
    <3> QED
      BY <1>5, <2>1, <2>2, <2>3, <2>4, <2>6, <3>2 DEF LetGo
  <2> QED
    BY <1>5, <2>5, <2>6
<1>13. CASE p = rc
  <2>1. ~ out
    BY <1>2, <1>5, <1>11, <1>13 DEF On
  <2>2. w[rc] = Prompt(u[rc])
    BY <1>2, <1>3
  <2>3. PICK q : q = WithNotes(w[rc], notes)
    OBVIOUS
  <2>4. PICK w2 : w2 = Set(w, rc, q)
    OBVIOUS
  <2>5. notes \in SUBSET Pointers
    BY <1>3, <1>7 DEF Mails
  <2>6. ~ Open(w[rc])
    <3>1. w[rc].block = u[rc].block
      BY <1>2, <1>3, <2>2, PromptIs
    <3> QED
      BY <1>11, <3>1 DEF Open, Gets
  <2>7. Fit(w2, NULL, 0, Remaining(v, rc), rc)
    BY <1>1, <1>2, <2>3, <2>4, <2>5, <2>6, NotesFit
  <2>8. q \in Mails
    <3>1. w[rc] \in Mails
      BY <1>2, <1>3
    <3> QED
      BY <2>3, <2>5, <3>1 DEF WithNotes, MailOf, Mails
  <2>9. q = Prompt(r)
    <3>1. PICK y : y = u[rc]
      OBVIOUS
    <3>2. r = MailOf(y.block, y.misc, y.from, y.to, y.what, y.first, y.link, y.got, notes, y.table)
      BY <1>6, <1>13, <2>1, <3>1 DEF Turned
    <3>3. q = MailOf(y.block, y.misc \ {"SIG_DELAY"}, y.from, y.to, y.what, y.first, y.link, y.got,
                     notes, y.table)
      BY <2>2, <2>3, <3>1 DEF Prompt, WithNotes, WithMisc, MailOf
    <3> QED
      BY <3>2, <3>3 DEF Prompt, WithMisc, MailOf
  <2>10. w2 \in Views /\ \A x \in Procs : w2[x] = IF x = rc THEN q ELSE w[x]
    BY <1>2, <1>3, <2>4, <2>8, SetAs DEF IsSet
  <2>11. Shaded(u2, w2, rc)
    BY <1>3, <1>10, <1>13, <2>9, <2>10 DEF Shaded
  <2> QED
    BY <1>9, <1>12, <2>7, <2>11 DEF Leaving
<1>14. CASE p # rc
  <2>1. w[p] = u[p]
    BY <1>3, <1>14
  <2>2. ~ Gone(w[p])
    BY <1>1, <2>1 DEF LetGo
  <2>3. Mild(w, p, r)
    BY <1>1, <1>5, <1>7, <2>1, <2>2, TurnMild
  <2>4. PICK w2 : w2 = Set(w, p, r)
    OBVIOUS
  <2>5. Fit(w2, NULL, 0, Remaining(v, rc), rc)
    BY <1>1, <2>3, <2>4, MildFit
  <2>6. w2 \in Views /\ \A x \in Procs : w2[x] = IF x = p THEN r ELSE w[x]
    BY <1>3, <1>7, <2>4, SetAs DEF IsSet
  <2>7. Shaded(u2, w2, rc)
    BY <1>3, <1>10, <1>14, <2>6 DEF Shaded
  <2> QED
    BY <1>9, <1>12, <2>5, <2>7 DEF Leaving
<1> QED
  BY <1>13, <1>14

(* A slot that is free has no turn.                                        *)
LEMMA TurnSkipped ==
    ASSUME NEW k, NEW v, NEW rc \in Mortal, ~ Gone(v[rc]), NEW j \in Nat, Leaving(k, v, rc, j),
           NEW p, p = j + 1, p \in Procs => Gone(v[p])
    PROVE  Leaving(k, v, rc, p)
<1>1. PICK u, w : /\ Sees(k, u) /\ Shaded(u, w, rc) /\ LetGo(v, u, rc, j)
                  /\ Fit(w, NULL, 0, Remaining(v, rc), rc)
  BY DEF Leaving
<1>2. rc \in Procs /\ rc # NULL
  BY KernelAssumption, Constants
<1>3. ASSUME NEW x \in Procs, x <= p
      PROVE  On(u[x]) # rc
  <2>1. CASE x = p
    <3>1. Gone(v[x]) /\ x # rc /\ Gone(u[x])
      BY <1>1, <2>1 DEF LetGo
    <3>2. w[x] = u[x] /\ Local(w[x], x)
      BY <1>1, <3>1, FitFields DEF Shaded
    <3>3. ~ Sends(u[x]) /\ ~ Gets(u[x])
      BY <3>1, <3>2 DEF Local, Sends, Gets
    <3> QED
      BY <1>2, <3>3 DEF On
  <2>2. CASE x # p
    <3>1. x \in Nat
      BY Constants
    <3>2. x <= j
      BY <1>3, <2>2, <3>1
    <3> QED
      BY <1>1, <3>2 DEF LetGo
  <2> QED
    BY <2>1, <2>2
<1>4. LetGo(v, u, rc, p)
  BY <1>1, <1>3 DEF LetGo
<1> QED
  BY <1>1, <1>4 DEF Leaving

LEMMA ClearRefsMails ==
    ASSUME NEW k, Ok(k), NEW v, NEW rc \in Mortal, Dying(k, rc), ~ Gone(v[rc]), Undelayed,
           Leaving(k, v, rc, 0)
    PROVE  Leaving(clear_ipc_refs(k, rc), v, rc, NR_PROCS)
<1>1. rc \in Procs /\ NR_PROCS \in Nat
  BY KernelAssumption, Constants
<1>2. PICK m : m = {q \in Procs : ~ isempty(k, q)}
  OBVIOUS
<1>3. \A q \in Procs : q \in m <=> ~ Gone(v[q])
  <2>1. PICK u, w : Sees(k, u) /\ LetGo(v, u, rc, 0)
    BY DEF Leaving
  <2>2. ASSUME NEW q \in Procs
        PROVE  q \in m <=> ~ Gone(v[q])
    <3>1. isempty(k, q) <=> Gone(u[q])
      BY <2>1, FlagsSeen
    <3>2. Gone(u[q]) <=> Gone(v[q])
      BY <2>1 DEF LetGo
    <3> QED
      BY <1>2, <3>1, <3>2
  <2> QED
    BY <2>2
<1>4. m \in SUBSET Procs
  BY <1>2
<1>5. k \in Cleared(k, rc)
  BY OkKernel, LeadsSelf DEF Cleared
<1>6. PICK f : f = CHOOSE g : Clearing(k, rc, m, g)
  OBVIOUS
<1>7. Clearing(k, rc, m, f)
  BY <1>1, <1>4, <1>5, <1>6, ClearingExists
<1>8. \A p \in 0 .. NR_PROCS : f[p] = IF p = 0 THEN k
          ELSE IF p \in m THEN ClearOne(f[p - 1], rc, p) ELSE f[p - 1]
  BY <1>7 DEF Clearing
<1>9. PICK T : T = {i \in 0 .. NR_PROCS : Leaving(f[i], v, rc, i)}
  OBVIOUS
<1>10. 0 \in T
  <2>1. 0 \in 0 .. NR_PROCS
    BY <1>1
  <2>2. f[0] = k
    BY <1>8, <2>1
  <2> QED
    BY <1>9, <2>1, <2>2
<1>11. ASSUME NEW i \in 1 .. NR_PROCS, i - 1 \in T
       PROVE  i \in T
  <2>1. PICK j \in Nat : j = i - 1
    BY <1>1
  <2>2. i \in 0 .. NR_PROCS /\ i # 0 /\ i = j + 1
    BY <1>1, <2>1
  <2>3. Leaving(f[j], v, rc, j)
    BY <1>9, <1>11, <2>1
  <2>4. f[i] = IF i \in m THEN ClearOne(f[j], rc, i) ELSE f[j]
    BY <1>8, <2>1, <2>2
  <2>5. CASE i \in m
    <3>1. i \in Procs /\ ~ Gone(v[i])
      BY <1>3, <1>4, <2>5
    <3>2. Leaving(ClearOne(f[j], rc, i), v, rc, i)
      BY <2>2, <2>3, <3>1, TurnMails
    <3> QED
      BY <1>9, <2>2, <2>4, <2>5, <3>2
  <2>6. CASE i \notin m
    <3>1. i \in Procs => Gone(v[i])
      BY <1>3, <2>6
    <3>2. Leaving(f[j], v, rc, i)
      BY <2>2, <2>3, <3>1, TurnSkipped
    <3> QED
      BY <1>9, <2>2, <2>4, <2>6, <3>2
  <2> QED
    BY <2>5, <2>6
<1>12. NR_PROCS \in T
  BY <1>1, <1>10, <1>11, UpTo
<1>13. clear_ipc_refs(k, rc) = f[NR_PROCS]
  BY <1>2, <1>6 DEF clear_ipc_refs, Clearing, ClearOne
<1> QED
  BY <1>9, <1>12, <1>13

(* Nobody waits for it any more: its slot is free.                         *)
Buried(u, y, rc) ==
    /\ u \in Views /\ y \in Views
    /\ \A x \in Procs : y[x] = IF x = rc THEN WithBlock(u[rc], {"SLOT_FREE"}) ELSE u[x]

LEMMA BuriedApart ==
    ASSUME NEW v, NEW u, NEW w, NEW y, NEW rc \in Mortal, NEW m, Shaded(u, w, rc),
           LetGo(v, u, rc, NR_PROCS), Fit(w, NULL, 0, m, rc), Buried(u, y, rc)
    PROVE  Apart(y, NULL, 0)
<1>1. rc \in Procs /\ rc # NULL /\ rc # ANY
  BY KernelAssumption, Constants, AnyIs
<1>2. /\ \A x \in Procs : x # rc => y[x] = w[x]
      /\ y[rc] = WithBlock(u[rc], {"SLOT_FREE"}) /\ w[rc] = Prompt(u[rc])
      /\ u[rc] \in Mails /\ y \in Views
  BY <1>1 DEF Shaded, Buried, Views
<1>3. /\ y[rc].block = {"SLOT_FREE"} /\ y[rc].misc = u[rc].misc /\ y[rc].table = w[rc].table
      /\ w[rc].misc = u[rc].misc \ {"SIG_DELAY"}
      /\ ~ Sends(y[rc]) /\ ~ Gets(y[rc]) /\ Gone(y[rc])
  <2>1. y[rc].block = {"SLOT_FREE"} /\ y[rc].misc = u[rc].misc /\ y[rc].table = u[rc].table
    BY <1>2 DEF WithBlock, MailOf
  <2> QED
    BY <1>2, <2>1, PromptIs DEF Sends, Gets, Gone
<1>4. /\ Present(w) /\ Meets(w) /\ Marked2(w, NULL, 0) /\ Ranked(w)
      /\ \A x \in Procs : Local(w[x], x)
  BY FitFields
<1>5. \A x \in Procs : On(y[x]) # rc
  <2>1. ASSUME NEW x \in Procs, x # rc
        PROVE  On(y[x]) # rc
    <3>1. y[x] = u[x]
      BY <2>1 DEF Buried
    <3>2. x <= NR_PROCS
      BY Constants
    <3> QED
      BY <3>1, <3>2 DEF LetGo
  <2>2. On(y[rc]) = NULL
    BY <1>3 DEF On
  <2> QED
    BY <1>1, <2>1, <2>2
<1>6. ASSUME NEW x \in Procs
      PROVE  Local(y[x], x)
  <2>1. CASE x = rc
    <3>1. "SIG_DELAY" \in y[rc].misc => rc \in Signalled
      BY <1>3 DEF LetGo
    <3>2. rc \notin System => y[rc].table = <<>>
      BY <1>1, <1>3, <1>4 DEF Local
    <3> QED
      BY <1>3, <2>1, <3>1, <3>2 DEF Local, Open
  <2>2. CASE x # rc
    BY <1>2, <1>4, <2>2
  <2> QED
    BY <2>1, <2>2
<1>7. ASSUME NEW x \in Procs, Sends(y[x])
      PROVE  /\ x # rc /\ y[x].to \in Procs /\ y[x].to # rc
             /\ y[x] = w[x] /\ y[y[x].to] = w[y[x].to]
  <2>1. x # rc /\ y[x] = w[x]
    BY <1>2, <1>3, <1>7
  <2>2. y[x].to \in Procs
    BY <1>6, <1>7 DEF Local, MaySend
  <2>3. y[x].to # rc
    BY <1>5, <1>7 DEF On
  <2> QED
    BY <1>2, <2>1, <2>2, <2>3
<1>8. Present(y)
  BY <1>4, <1>7 DEF Present
<1>9. Meets(y)
  <2> SUFFICES ASSUME NEW x \in Procs, NEW d \in Procs,
                      Sends(y[x]), y[x].to = d, Gets(y[d]), ~ Sends(y[d])
               PROVE  y[d].from \notin {ANY, x}
    BY DEF Meets
  <2>1. y[x] = w[x] /\ y[d] = w[d]
    BY <1>7
  <2> QED
    BY <1>4, <2>1 DEF Meets
<1>10. Marked2(y, NULL, 0)
  <2> SUFFICES ASSUME NEW s \in System, ~ Gone(y[s]), NEW i \in DOMAIN y[s].table,
                      ~ y[s].table[i].done
               PROVE  Expects(y[y[s].table[i].dst])
    BY DEF Marked2
  <2>1. s \in Procs /\ s # NULL
    BY KernelAssumption, Constants
  <2>2. y[s] = w[s] /\ w[s].table \in Seq(Entries)
    <3>1. y[s] = w[s]
      BY <1>2, <1>3, <2>1
    <3>2. w[s] \in Mails
      BY <2>1, FitFields
    <3> QED
      BY <3>1, <3>2 DEF Mails
  <2>3. PICK d : d = w[s].table[i].dst
    OBVIOUS
  <2>4. d \in Procs
    <3>1. w[s].table[i] \in Entries
      BY <2>2
    <3> QED
      BY <2>3, <3>1 DEF Entries
  <2>5. Expects(w[d])
    BY <1>4, <2>1, <2>2, <2>3 DEF Marked2
  <2>6. CASE d = rc
    <3>1. ~ Open(y[rc])
      BY <1>3 DEF Open
    <3> QED
      BY <1>3, <2>2, <2>3, <2>5, <2>6, <3>1 DEF Expects
  <2>7. CASE d # rc
    BY <1>2, <2>2, <2>3, <2>4, <2>5, <2>7
  <2> QED
    BY <2>6, <2>7
<1>11. Ranked(y)
  <2>1. PICK r : Ranks(w, r)
    BY <1>4 DEF Ranked
  <2>2. Awaits(y[rc]) = NULL
    BY <1>3 DEF Awaits, On
  <2>3. Ranks(y, r)
    <3>1. ASSUME NEW x \in Procs, Awaits(y[x]) # NULL
          PROVE  Awaits(y[x]) \in Procs /\ r[Awaits(y[x])] < r[x]
      <4>1. y[x] = w[x]
        BY <1>2, <2>2, <3>1
      <4> QED
        BY <2>1, <3>1, <4>1 DEF Ranks
    <3> QED
      BY <2>1, <3>1 DEF Ranks
  <2> QED
    BY <2>3 DEF Ranked
<1> QED
  BY <1>2, <1>6, <1>8, <1>9, <1>10, <1>11 DEF Apart

LEMMA BuriedFine ==
    ASSUME NEW v, NEW u, NEW w, NEW y, NEW rc \in Mortal, Shaded(u, w, rc),
           LetGo(v, u, rc, NR_PROCS), Fit(w, NULL, 0, Remaining(v, rc), rc), Buried(u, y, rc),
           NEW c
    PROVE  Fine(y) /\ Told(v, y, c)
<1>1. rc \in Procs /\ rc # NULL
  BY KernelAssumption, Constants
<1>2. PICK m : m = Remaining(v, rc)
  OBVIOUS
<1>3. Apart(y, NULL, 0)
  BY BuriedApart
<1>4. /\ \A x \in Procs : x # rc => y[x] = w[x] /\ y[x] = u[x]
      /\ y[rc] = WithBlock(u[rc], {"SLOT_FREE"}) /\ w[rc] = Prompt(u[rc])
      /\ u[rc] \in Mails
  BY <1>1 DEF Shaded, Buried, Views
<1>5. ~ Sends(y[rc]) /\ Gone(y[rc])
  BY <1>4 DEF WithBlock, MailOf, Sends, Gone
<1>6. y[rc].link = w[rc].link /\ y[rc].to = w[rc].to
  <2>1. y[rc].link = u[rc].link /\ y[rc].to = u[rc].to
    BY <1>4 DEF WithBlock, MailOf
  <2> QED
    BY <1>4, <2>1, PromptIs DEF SamePlace
<1>7. Senders(y) = m
  <2>1. ASSUME NEW x \in Procs
        PROVE  Sends(y[x]) <=> x \in Remaining(v, rc)
    <3>1. CASE x = rc
      BY <1>5, <3>1 DEF Remaining
    <3>2. CASE x # rc
      <4>1. y[x] = u[x] /\ x <= NR_PROCS
        BY <1>4, <3>2, Constants
      <4>2. /\ On(u[x]) # rc /\ u[x].to = v[x].to /\ (Sends(u[x]) => Sends(v[x]))
            /\ (x \in Remaining(v, rc) => Sends(u[x]))
        BY <4>1 DEF LetGo
      <4> QED
        BY <3>2, <4>1, <4>2 DEF Remaining, On
    <3> QED
      BY <3>1, <3>2
  <2>2. Remaining(v, rc) \subseteq Procs
    BY DEF Remaining
  <2> QED
    BY <1>2, <2>1, <2>2 DEF Senders
<1>8. LinkOf(y) = LinkOf(w) /\ \A x \in Procs : y[x].link = w[x].link /\ y[x].to = w[x].to
  BY <1>4, <1>6 DEF LinkOf
<1>9. Queued(w, m, rc)
  BY <1>2, FitFields
<1>10. Queued(y, m, NULL)
  <2>1. ASSUME NEW d \in Procs, ~ Gone(y[d])
        PROVE  \E n, s : Waits(y, m, d, n, s)
    <3>1. d # rc /\ y[d] = w[d]
      BY <1>4, <1>5, <2>1
    <3>2. PICK n, s : Waits(w, m, d, n, s)
      BY <1>9, <2>1, <3>1 DEF Queued
    <3>3. Waits(y, m, d, n, s)
      BY <1>8, <3>1, <3>2 DEF Waits
    <3> QED
      BY <3>3
  <2>2. ASSUME NEW x \in Procs, ~ Gone(y[x]), y[x].link # NULL
        PROVE  x \in m
    <3>1. x # rc /\ y[x] = w[x]
      BY <1>4, <1>5, <2>2
    <3> QED
      BY <1>9, <2>2, <3>1 DEF Queued
  <2> QED
    BY <2>1, <2>2 DEF Queued
<1>11. Fine(y)
  BY <1>3, <1>7, <1>10 DEF Fine, Fit
<1>12. Told(v, y, c)
  <2> SUFFICES ASSUME NEW s \in Procs, Sends(v[s]), ~ Sends(y[s])
               PROVE  Gone(y[s]) \/ Gone(y[v[s].to])
    BY DEF Told
  <2>1. s \notin Remaining(v, rc)
    BY <1>2, <1>7 DEF Senders
  <2>2. s = rc \/ v[s].to = rc
    BY <2>1 DEF Remaining
  <2> QED
    BY <1>5, <2>2
<1> QED
  BY <1>11, <1>12

LEMMA BuryMails ==
    ASSUME NEW k, NEW v, NEW rc \in Mortal, Leaving(k, v, rc, NR_PROCS), NEW c,
           NEW k2, k2 = [k EXCEPT !.proc[rc].rts = {"SLOT_FREE"}]
    PROVE  Ends(v, k2, c)
<1>1. rc \in Procs
  BY KernelAssumption
<1>2. PICK u, w : /\ Sees(k, u) /\ Shaded(u, w, rc) /\ LetGo(v, u, rc, NR_PROCS)
                  /\ Fit(w, NULL, 0, Remaining(v, rc), rc)
  BY DEF Leaving
<1>3. PICK f : f = {"SLOT_FREE"}
  OBVIOUS
<1>4. f \in SUBSET Flags /\ f \cap Blocks = f
  BY <1>3 DEF Flags, Blocks
<1>5. PICK q : q = WithBlock(u[rc], f)
  OBVIOUS
<1>6. PICK y : y = Set(u, rc, q)
  OBVIOUS
<1>7. Sees(k2, y)
  <2>1. k2 = [k EXCEPT !.proc[rc].rts = f]
    BY <1>3
  <2>2. Sees(k2, Set(u, rc, WithBlock(u[rc], f \cap Blocks)))
    BY <1>1, <1>2, <1>4, <2>1, RtsSees
  <2> QED
    BY <1>4, <1>5, <1>6, <2>2
<1>8. u \in Views /\ u[rc] \in Mails
  BY <1>1, <1>2 DEF Shaded, Views
<1>9. q \in Mails
  BY <1>3, <1>5, <1>8 DEF WithBlock, MailOf, Mails, Blocks
<1>10. IsSet(u, rc, q, y)
  BY <1>1, <1>6, <1>8, <1>9, SetAs
<1>11. Buried(u, y, rc)
  BY <1>3, <1>5, <1>8, <1>10 DEF IsSet, Buried
<1>12. Fine(y) /\ Told(v, y, c)
  BY <1>2, <1>11, BuriedFine
<1> QED
  BY <1>7, <1>12 DEF Ends

LEMMA ClearMails ==
    ASSUME NEW k, Ok(k), NEW v, Sees(k, v), Fine(v), OneSender, Undelayed,
           NEW rc \in Mortal, rc # k.cur, ~ Gone(v[rc]),
           NEW c \in Procs, "DELIVERMSG" \notin v[c].misc
    PROVE  Ends(v, do_clear(k, rc), c)
<1>0. rc \in Procs
  BY KernelAssumption
<1>1. PICK flags : flags = {"NO_ENDPOINT"}
  OBVIOUS
<1>2. PICK off : off = RTS_SET(k, rc, flags)
  OBVIOUS
<1>3. flags \in SUBSET (Flags \ {"PREEMPTED", "SENDING"}) /\ flags # {} /\ flags \cap Blocks = {}
  BY <1>1 DEF Flags, Blocks
<1>4. Ok(off) /\ RtsDone(k, rc, k.proc[rc].rts \cup flags, off)
  BY <1>0, <1>2, <1>3, OkSet
<1>5. Dying(off, rc) /\ off \in Kernels
  BY <1>0, <1>1, <1>4, OkKernel DEF Leads, RtsDone, OnlyFlags, Dying
<1>6. Sees(off, v)
  BY <1>0, <1>2, <1>3, RtsSetUnseen
<1>7. PICK a : a = [off EXCEPT !.priv[rc].asyntab = <<>>]
  OBVIOUS
<1>8. Calm(off, a)
  <2>1. <<>> \in Seq(Entries)
    OBVIOUS
  <2>2. TableSet(off, rc, <<>>, a)
    BY <1>0, <1>5, <1>7, <2>1, TableCalm
  <2> QED
    BY <2>2 DEF TableSet
<1>9. Ok(a) /\ Dying(a, rc)
  <2>1. Ok(off) /\ off \in Kernels
    BY <1>4, <1>5
  <2>2. Leads(off, a)
    BY <1>8, <2>1, CalmLeads
  <2>3. Dying(a, rc)
    BY <1>0, <1>5, <1>8 DEF Calm, Quiet, Dying
  <2> QED
    BY <2>2, <2>3 DEF Leads
<1>10. PICK t \in Seq(Entries) : t = <<>>
  <2>1. <<>> \in Seq(Entries)
    OBVIOUS
  <2> QED
    BY <2>1
<1>11. PICK v1 : v1 = Set(v, rc, WithTable(v[rc], t))
  OBVIOUS
<1>12. Sees(a, v1)
  <2>1. a = [off EXCEPT !.priv[rc].asyntab = t]
    BY <1>7, <1>10
  <2> QED
    BY <1>0, <1>6, <1>11, <2>1, TableSees
<1>13. Fit(v, NULL, 0, Senders(v), NULL)
  BY FineFields
<1>14. Fit(v1, NULL, 0, Senders(v), NULL)
  <2>1. Within(t, v[rc].table)
    BY <1>10 DEF Within
  <2> QED
    BY <1>0, <1>10, <1>11, <1>13, <2>1, TableFit
<1>15. Stays(v, v1)
  BY <1>0, <1>11, <1>13, TableStays
<1>16. Fine(v1) /\ ~ Gone(v1[rc]) /\ Keeps(v, v1)
  <2>1. Senders(v1) = Senders(v) /\ Keeps(v, v1)
    BY <1>15, StaysSame, StaysKeeps
  <2>2. ~ Gone(v1[rc])
    BY <1>0, <1>15 DEF Stays
  <2> QED
    BY <1>14, <2>1, <2>2 DEF Fine
<1>17. PICK b : b = clear_ipc(a, rc)
  OBVIOUS
<1>18. Dying(b, rc) /\ Ok(b)
  BY <1>0, <1>9, <1>17, ClearIpcLeads DEF Leads
<1>19. Leaving(b, v1, rc, 0)
  BY <1>12, <1>16, <1>17, LeavingStarts
<1>20. PICK d : d = clear_ipc_refs(b, rc)
  OBVIOUS
<1>21. Leaving(d, v1, rc, NR_PROCS)
  BY <1>16, <1>18, <1>19, <1>20, ClearRefsMails
<1>22. PICK k2 : k2 = [d EXCEPT !.proc[rc].rts = {"SLOT_FREE"}]
  OBVIOUS
<1>23. Ends(v1, k2, c)
  BY <1>21, <1>22, BuryMails
<1>24. do_clear(k, rc) = k2
  BY <1>1, <1>2, <1>7, <1>17, <1>20, <1>22 DEF do_clear
<1> QED
  BY <1>16, <1>23, <1>24, EndsBefore

-----------------------------------------------------------------------------
(* The steps of the system.  A process in user mode has got its message.   *)
MailInv ==
    /\ KernelInv
    /\ \E v : Sees(K, v) /\ Fine(v)
    /\ mode = "user" => "DELIVERMSG" \notin K.proc[K.cur].misc

Moves == \E v, w : /\ Sees(K, v) /\ Fine(v) /\ Sees(K', w) /\ Fine(w)
                   /\ Told(v, w, proc_ptr)

(* Nothing that message passing sees changes.                              *)
LEMMA UnseenEnds ==
    ASSUME NEW k2, NEW v, Sees(k2, v), Fine(v), NEW c
    PROVE  Ends(v, k2, c)
<1>1. Told(v, v, c)
  BY KeepsSelf, ToldKeeps
<1> QED
  BY <1>1 DEF Ends

LEMMA NotifiedEnds ==
    ASSUME NEW v, NEW k2, Notified(v, k2, NULL, 0, Senders(v), NULL), NEW c
    PROVE  Ends(v, k2, c)
<1>1. PICK w : Eases(v, k2, w, NULL, 0, Senders(v), NULL)
  BY DEF Notified
<1>2. Sees(k2, w) /\ Fit(w, NULL, 0, Senders(v), NULL) /\ Stays(v, w)
  BY <1>1 DEF Eases
<1>3. Fine(w)
  BY <1>2, StaysSame DEF Fine
<1>4. Told(v, w, c)
  BY <1>2, StaysKeeps, ToldKeeps
<1> QED
  BY <1>2, <1>3, <1>4 DEF Ends

LEMMA EndsMove ==
    ASSUME NEW v, Sees(K, v), Fine(v), NEW k2, Ends(v, k2, proc_ptr), Become(k2)
    PROVE  Moves
<1>1. PICK w : Sees(k2, w) /\ Fine(w) /\ Told(v, w, proc_ptr)
  BY DEF Ends
<1>2. K' = k2
  BY <1>1, BecomesIs DEF Sees
<1> QED
  BY <1>1, <1>2 DEF Moves

(* The process that enters the kernel is free to send and to receive.      *)
EntersAs(p, k, v) ==
    /\ Sees(K, v) /\ Sees(k, v) /\ Fine(v) /\ Free(v[p]) /\ Ok(k) /\ k.cur = p

LEMMA EntersMails ==
    ASSUME MailInv, NEW p \in Procs, proc_ptr = p, mode = "user",
           NEW left \in Lefts(p), NEW k, Trapped(p, left, k)
    PROVE  \E v : EntersAs(p, k, v)
<1>1. KernelInv /\ Ok(K) /\ K \in Kernels /\ K.proc = proc /\ K.cur = proc_ptr
  BY OkKernel DEF MailInv, KernelInv, K
<1>2. PICK v : Sees(K, v) /\ Fine(v)
  BY DEF MailInv
<1>3. left \in {0, 1}
  <2>1. K.proc[p].time_left \in {0, 1}
    BY <1>1, KFields DEF Slots
  <2> QED
    BY <1>1, <2>1 DEF Lefts
<1>4. k = [K EXCEPT !.proc[p].time_left = left]
  BY DEF Trapped
<1>5. Sees(k, v)
  BY <1>2, <1>3, <1>4, TimeSees
<1>6. Ok(k) /\ k.cur = p
  BY <1>1, Enters
<1>7. Free(v[p])
  <2>1. K.proc[p].rts = {} /\ "DELIVERMSG" \notin K.proc[p].misc
    BY <1>1 DEF MailInv, KernelInv
  <2>2. v[p].block = K.proc[p].rts \cap Blocks /\ v[p].misc = K.proc[p].misc
    BY <1>2, BlockIs, MiscIs
  <2> QED
    BY <2>1, <2>2 DEF Free, Sends, Gets, Gone
<1> QED
  BY <1>2, <1>5, <1>6, <1>7 DEF EntersAs

LEMMA IpcMoves ==
    ASSUME MailInv, NoSelf, NEW p \in Procs, do_ipc(p)
    PROVE  Moves
<1>1. PICK c \in Calls : c[2] = p /\ Enter(p, LAMBDA k : do_sync_ipc(k, p, c[1], c[3]))
  BY DEF do_ipc
<1>2. /\ mode = "user" /\ proc_ptr = p
      /\ \E left \in Lefts(p) :
            Become(do_sync_ipc([K EXCEPT !.proc[p].time_left = left], p, c[1], c[3]))
  BY <1>1 DEF Enter, Lefts
<1>3. PICK left \in Lefts(p) :
         Become(do_sync_ipc([K EXCEPT !.proc[p].time_left = left], p, c[1], c[3]))
  BY <1>2
<1>4. PICK k : Trapped(p, left, k)
  BY DEF Trapped
<1>5. PICK v : EntersAs(p, k, v)
  BY <1>2, <1>4, EntersMails
<1>6. PICK call, other : call = c[1] /\ other = c[3]
  OBVIOUS
<1>7. <<call, p, other>> \in Calls
  <2>1. c = <<c[1], c[2], c[3]>>
    BY KernelAssumption
  <2> QED
    BY <1>1, <1>6, <2>1
<1>8. PICK k2 : k2 = do_sync_ipc(k, p, call, other)
  OBVIOUS
<1>9. Become(k2)
  BY <1>3, <1>4, <1>6, <1>8 DEF Trapped
<1>10. Ends(v, k2, p)
  BY <1>5, <1>7, <1>8, CallMails DEF EntersAs
<1> QED
  BY <1>2, <1>5, <1>9, <1>10, EndsMove DEF EntersAs

LEMMA SendaMoves ==
    ASSUME MailInv, NEW p \in Procs, senda(p)
    PROVE  Moves
<1>1. PICK t \in Tables[p] : p \in System /\ Enter(p, LAMBDA k : mini_senda(k, p, t))
  BY DEF senda
<1>2. /\ mode = "user" /\ proc_ptr = p
      /\ \E left \in Lefts(p) :
            Become(mini_senda([K EXCEPT !.proc[p].time_left = left], p, t))
  BY <1>1 DEF Enter, Lefts
<1>3. PICK left \in Lefts(p) : Become(mini_senda([K EXCEPT !.proc[p].time_left = left], p, t))
  BY <1>2
<1>4. PICK k : Trapped(p, left, k)
  BY DEF Trapped
<1>5. PICK v : EntersAs(p, k, v)
  BY <1>2, <1>4, EntersMails
<1>6. t \in Seq(Entries)
  BY <1>1, KernelAssumption DEF Entries
<1>7. PICK k2 : k2 = mini_senda(k, p, t)
  OBVIOUS
<1>8. Become(k2)
  BY <1>3, <1>4, <1>7 DEF Trapped
<1>9. Ends(v, k2, p)
  BY <1>1, <1>5, <1>6, <1>7, SendaMails DEF EntersAs
<1> QED
  BY <1>2, <1>5, <1>8, <1>9, EndsMove DEF EntersAs

LEMMA ScheduledSees ==
    ASSUME NEW k, NEW v, Sees(k, v), NEW p \in Procs, NEW priority \in Queues
    PROVE  Sees(sched_proc(k, p, priority), v)
<1>1. PICK flags : flags = {"NO_QUANTUM"}
  OBVIOUS
<1>2. flags \in SUBSET Flags /\ flags \cap Blocks = {}
  BY <1>1 DEF Flags, Blocks
<1>3. PICK off : off = IF proc_is_runnable(k, p) THEN RTS_SET(k, p, flags) ELSE k
  OBVIOUS
<1>4. Sees(off, v)
  BY <1>2, <1>3, RtsSetUnseen
<1>5. PICK a : a = [off EXCEPT !.proc[p].priority = priority]
  OBVIOUS
<1>6. Sees(a, v)
  BY <1>4, <1>5, PrioritySees
<1>7. PICK b : b = [a EXCEPT !.proc[p].time_left = 1]
  OBVIOUS
<1>8. Sees(b, v)
  BY <1>6, <1>7, TimeSees
<1>9. Sees(RTS_UNSET(b, p, flags), v)
  BY <1>2, <1>8, RtsUnsetUnseen
<1>10. sched_proc(k, p, priority) = RTS_UNSET(b, p, flags)
  BY <1>1, <1>3, <1>5, <1>7 DEF sched_proc
<1> QED
  BY <1>9, <1>10

LEMMA ScheduleMoves ==
    ASSUME MailInv, NEW target \in Scheduled, NEW priority \in Queues,
           schedule(SCHED, target, priority)
    PROVE  Moves
<1>1. Enter(SCHED, LAMBDA k : sched_proc(k, target, priority))
  BY DEF schedule
<1>2. /\ mode = "user" /\ proc_ptr = SCHED
      /\ \E left \in Lefts(SCHED) :
            Become(sched_proc([K EXCEPT !.proc[SCHED].time_left = left], target, priority))
  BY <1>1 DEF Enter, Lefts
<1>3. PICK left \in Lefts(SCHED) :
         Become(sched_proc([K EXCEPT !.proc[SCHED].time_left = left], target, priority))
  BY <1>2
<1>4. PICK k : Trapped(SCHED, left, k)
  BY DEF Trapped
<1>5. PICK v : EntersAs(SCHED, k, v)
  BY <1>2, <1>4, EntersMails, Constants
<1>6. PICK k2 : k2 = sched_proc(k, target, priority)
  OBVIOUS
<1>7. Become(k2)
  BY <1>3, <1>4, <1>6 DEF Trapped
<1>8. Sees(k2, v)
  BY <1>5, <1>6, ScheduledSees, KernelAssumption DEF EntersAs
<1>9. Ends(v, k2, SCHED)
  BY <1>5, <1>8, UnseenEnds DEF EntersAs
<1> QED
  BY <1>2, <1>5, <1>7, <1>9, EndsMove DEF EntersAs

LEMMA ClearMoves ==
    ASSUME MailInv, OneSender, Undelayed, NEW target \in Mortal, clear(PM, target)
    PROVE  Moves
<1>1. Enter(PM, LAMBDA k : do_clear(k, target)) /\ ~ isempty(K, target)
  BY DEF clear
<1>2. /\ mode = "user" /\ proc_ptr = PM
      /\ \E left \in Lefts(PM) : Become(do_clear([K EXCEPT !.proc[PM].time_left = left], target))
  BY <1>1 DEF Enter, Lefts
<1>3. PICK left \in Lefts(PM) : Become(do_clear([K EXCEPT !.proc[PM].time_left = left], target))
  BY <1>2
<1>4. PICK k : Trapped(PM, left, k)
  BY DEF Trapped
<1>5. PICK v : EntersAs(PM, k, v)
  BY <1>2, <1>4, EntersMails, Constants
<1>6. PICK k2 : k2 = do_clear(k, target)
  OBVIOUS
<1>7. Become(k2)
  BY <1>3, <1>4, <1>6 DEF Trapped
<1>8. target \in Procs /\ target # k.cur /\ PM \in Procs
  BY <1>5, KernelAssumption DEF EntersAs
<1>9. ~ Gone(v[target])
  BY <1>1, <1>5, <1>8, FlagsSeen DEF EntersAs
<1>10. "DELIVERMSG" \notin v[PM].misc
  BY <1>5 DEF EntersAs, Free
<1>11. Ends(v, k2, PM)
  BY <1>5, <1>6, <1>8, <1>9, <1>10, ClearMails DEF EntersAs
<1> QED
  BY <1>2, <1>5, <1>7, <1>11, EndsMove DEF EntersAs

LEMMA KillMoves ==
    ASSUME MailInv, NEW p \in System, NEW target \in Signalled, kill(p, target)
    PROVE  Moves
<1>1. Enter(p, LAMBDA k : cause_sig(k, target))
  BY DEF kill
<1>2. /\ mode = "user" /\ proc_ptr = p
      /\ \E left \in Lefts(p) : Become(cause_sig([K EXCEPT !.proc[p].time_left = left], target))
  BY <1>1 DEF Enter, Lefts
<1>3. PICK left \in Lefts(p) : Become(cause_sig([K EXCEPT !.proc[p].time_left = left], target))
  BY <1>2
<1>4. PICK k : Trapped(p, left, k)
  BY DEF Trapped
<1>5. PICK v : EntersAs(p, k, v)
  BY <1>2, <1>4, EntersMails, Constants, KernelAssumption
<1>6. PICK k2 : k2 = cause_sig(k, target)
  OBVIOUS
<1>7. Become(k2)
  BY <1>3, <1>4, <1>6 DEF Trapped
<1>8. Notified(v, k2, NULL, 0, Senders(v), NULL)
  <2>1. target \in Procs
    BY KernelAssumption
  <2>2. Sees(k, v) /\ Fit(v, NULL, 0, Senders(v), NULL)
    BY <1>5, FineFields DEF EntersAs
  <2> QED
    BY <1>6, <2>1, <2>2, SignalMails
<1>9. Ends(v, k2, p)
  BY <1>8, NotifiedEnds
<1> QED
  BY <1>2, <1>5, <1>7, <1>9, EndsMove DEF EntersAs

LEMMA GetksigMoves ==
    ASSUME MailInv, NEW p \in Procs, getksig(p)
    PROVE  Moves
<1>0. PICK T : T = {t \in Procs : Flag(K, t, "SIGNALED")}
  OBVIOUS
<1>1. Enter(p, LAMBDA k : RTS_UNSET(k, Min(T), {"SIGNALED"})) /\ T # {}
  BY <1>0 DEF getksig
<1>2. /\ mode = "user" /\ proc_ptr = p
      /\ \E left \in Lefts(p) :
            Become(RTS_UNSET([K EXCEPT !.proc[p].time_left = left], Min(T), {"SIGNALED"}))
  BY <1>1 DEF Enter, Lefts
<1>3. PICK left \in Lefts(p) :
         Become(RTS_UNSET([K EXCEPT !.proc[p].time_left = left], Min(T), {"SIGNALED"}))
  BY <1>2
<1>4. PICK k : Trapped(p, left, k)
  BY DEF Trapped
<1>5. PICK v : EntersAs(p, k, v)
  BY <1>2, <1>4, EntersMails
<1>6. PICK t, flags : t = Min(T) /\ flags = {"SIGNALED"}
  OBVIOUS
<1>7. t \in Procs
  <2>1. T \in SUBSET Nat
    BY <1>0, Constants
  <2>2. t \in T
    BY <1>1, <1>6, <2>1, MinIn
  <2> QED
    BY <1>0, <2>2
<1>8. PICK k2 : k2 = RTS_UNSET(k, t, flags)
  OBVIOUS
<1>9. Become(k2)
  BY <1>3, <1>4, <1>6, <1>8 DEF Trapped
<1>10. Sees(k2, v)
  <2>1. flags \cap Blocks = {}
    BY <1>6 DEF Blocks
  <2> QED
    BY <1>5, <1>7, <1>8, <2>1, RtsUnsetUnseen DEF EntersAs
<1>11. Ends(v, k2, p)
  BY <1>5, <1>10, UnseenEnds DEF EntersAs
<1> QED
  BY <1>2, <1>5, <1>9, <1>11, EndsMove DEF EntersAs

LEMMA EndksigMoves ==
    ASSUME MailInv, NEW target \in Signalled, endksig(PM, target)
    PROVE  Moves
<1>1. Enter(PM, LAMBDA k : RTS_UNSET(k, target, {"SIG_PENDING"}))
  BY DEF endksig
<1>2. /\ mode = "user" /\ proc_ptr = PM
      /\ \E left \in Lefts(PM) :
            Become(RTS_UNSET([K EXCEPT !.proc[PM].time_left = left], target, {"SIG_PENDING"}))
  BY <1>1 DEF Enter, Lefts
<1>3. PICK left \in Lefts(PM) :
         Become(RTS_UNSET([K EXCEPT !.proc[PM].time_left = left], target, {"SIG_PENDING"}))
  BY <1>2
<1>4. PICK k : Trapped(PM, left, k)
  BY DEF Trapped
<1>5. PICK v : EntersAs(PM, k, v)
  BY <1>2, <1>4, EntersMails, Constants
<1>6. PICK flags : flags = {"SIG_PENDING"}
  OBVIOUS
<1>7. PICK k2 : k2 = RTS_UNSET(k, target, flags)
  OBVIOUS
<1>8. Become(k2)
  BY <1>3, <1>4, <1>6, <1>7 DEF Trapped
<1>9. Sees(k2, v)
  <2>1. flags \cap Blocks = {} /\ target \in Procs
    BY <1>6, KernelAssumption DEF Blocks
  <2> QED
    BY <1>5, <1>7, <2>1, RtsUnsetUnseen DEF EntersAs
<1>10. Ends(v, k2, PM)
  BY <1>5, <1>9, UnseenEnds DEF EntersAs
<1> QED
  BY <1>2, <1>5, <1>8, <1>10, EndsMove DEF EntersAs

(* The stop of a process that sends waits for the end of that.             *)
LEMMA StoppedEnds ==
    ASSUME NEW k, NEW v, Sees(k, v), Fine(v), NEW p \in Signalled, NEW c,
           NEW k2, k2 = IF Flag(k, p, "SENDING") \/ Misc(k, p, "SIG_DELAY")
                          THEN SetMisc(k, p, "SIG_DELAY")
                          ELSE RTS_SET(k, p, {"PROC_STOP"})
    PROVE  Ends(v, k2, c)
<1>1. p \in Procs
  BY KernelAssumption
<1>2. CASE Flag(k, p, "SENDING") \/ Misc(k, p, "SIG_DELAY")
  <2>1. PICK f \in MiscFlags \ {"DELIVERMSG"} : f = "SIG_DELAY"
    BY DEF MiscFlags
  <2>2. Gone(v[p]) \/ Sends(v[p])
    <3>1. (Flag(k, p, "SENDING") <=> Sends(v[p])) /\ (Misc(k, p, "SIG_DELAY") <=> "SIG_DELAY" \in v[p].misc)
      BY <1>1, FlagsSeen, MiscSeen
    <3>2. Local(v[p], p)
      BY <1>1, FineFields
    <3> QED
      BY <1>2, <3>1, <3>2 DEF Local
  <2>3. PICK w : w = Marks(v, p, f)
    OBVIOUS
  <2>4. Fit(v, NULL, 0, Senders(v), NULL) /\ v \in Views /\ v[p] \in Mails
    BY <1>1, FineFields
  <2>5. f = "REPLY_PEND" => ~ Open(v[p])
    BY <2>1
  <2>6. Fit(w, NULL, 0, Senders(v), NULL)
    BY <1>1, <2>2, <2>3, <2>4, <2>5, MarkFit
  <2>7. Stays(v, w)
    <3>1. PICK r : r = WithMisc(v[p], v[p].misc \cup {f})
      OBVIOUS
    <3>2. r \in Mails /\ (Sends(r) <=> Sends(v[p])) /\ (Gone(r) <=> Gone(v[p])) /\ SamePlace(v[p], r)
      BY <2>1, <2>4, <3>1 DEF WithMisc, MailOf, Mails, Sends, Gone, SamePlace
    <3> QED
      BY <1>1, <2>3, <2>4, <3>1, <3>2, SetStays DEF Marks
  <2>8. k2 = SetMisc(k, p, f)
    BY <1>2, <2>1
  <2>9. Sees(k2, w)
    BY <1>1, <2>1, <2>3, <2>8, SetMiscSees
  <2>10. Fine(w)
    BY <2>6, <2>7, StaysSame DEF Fine
  <2>11. Told(v, w, c)
    BY <2>7, StaysKeeps, ToldKeeps
  <2> QED
    BY <2>9, <2>10, <2>11 DEF Ends
<1>3. CASE ~ (Flag(k, p, "SENDING") \/ Misc(k, p, "SIG_DELAY"))
  <2>1. PICK flags : flags = {"PROC_STOP"}
    OBVIOUS
  <2>2. flags \in SUBSET Flags /\ flags \cap Blocks = {}
    BY <2>1 DEF Flags, Blocks
  <2>3. k2 = RTS_SET(k, p, flags)
    BY <1>3, <2>1
  <2>4. Sees(k2, v)
    BY <1>1, <2>2, <2>3, RtsSetUnseen
  <2> QED
    BY <2>4, UnseenEnds
<1> QED
  BY <1>2, <1>3

LEMMA StopMoves ==
    ASSUME MailInv, NEW target \in Signalled, runctl_stop(PM, target)
    PROVE  Moves
<1>1. Enter(PM, LAMBDA k : IF Flag(k, target, "SENDING") \/ Misc(k, target, "SIG_DELAY")
                             THEN SetMisc(k, target, "SIG_DELAY")
                             ELSE RTS_SET(k, target, {"PROC_STOP"}))
  BY DEF runctl_stop
<1>2. /\ mode = "user" /\ proc_ptr = PM
      /\ \E left \in Lefts(PM) : \E k :
            /\ Trapped(PM, left, k)
            /\ Become(IF Flag(k, target, "SENDING") \/ Misc(k, target, "SIG_DELAY")
                        THEN SetMisc(k, target, "SIG_DELAY")
                        ELSE RTS_SET(k, target, {"PROC_STOP"}))
  BY <1>1 DEF Enter, Lefts, Trapped
<1>3. PICK left \in Lefts(PM) : \E k :
            /\ Trapped(PM, left, k)
            /\ Become(IF Flag(k, target, "SENDING") \/ Misc(k, target, "SIG_DELAY")
                        THEN SetMisc(k, target, "SIG_DELAY")
                        ELSE RTS_SET(k, target, {"PROC_STOP"}))
  BY <1>2
<1>4. PICK k : /\ Trapped(PM, left, k)
               /\ Become(IF Flag(k, target, "SENDING") \/ Misc(k, target, "SIG_DELAY")
                           THEN SetMisc(k, target, "SIG_DELAY")
                           ELSE RTS_SET(k, target, {"PROC_STOP"}))
  BY <1>3
<1>5. PICK v : EntersAs(PM, k, v)
  BY <1>2, <1>4, EntersMails, Constants
<1>6. PICK k2 : k2 = IF Flag(k, target, "SENDING") \/ Misc(k, target, "SIG_DELAY")
                       THEN SetMisc(k, target, "SIG_DELAY")
                       ELSE RTS_SET(k, target, {"PROC_STOP"})
  OBVIOUS
<1>7. Become(k2)
  BY <1>4, <1>6
<1>8. Ends(v, k2, PM)
  BY <1>5, <1>6, StoppedEnds DEF EntersAs
<1> QED
  BY <1>2, <1>5, <1>7, <1>8, EndsMove DEF EntersAs

LEMMA ResumeMoves ==
    ASSUME MailInv, NEW target \in Signalled, runctl_resume(PM, target)
    PROVE  Moves
<1>1. Enter(PM, LAMBDA k : RTS_UNSET(k, target, {"PROC_STOP"}))
  BY DEF runctl_resume
<1>2. /\ mode = "user" /\ proc_ptr = PM
      /\ \E left \in Lefts(PM) :
            Become(RTS_UNSET([K EXCEPT !.proc[PM].time_left = left], target, {"PROC_STOP"}))
  BY <1>1 DEF Enter, Lefts
<1>3. PICK left \in Lefts(PM) :
         Become(RTS_UNSET([K EXCEPT !.proc[PM].time_left = left], target, {"PROC_STOP"}))
  BY <1>2
<1>4. PICK k : Trapped(PM, left, k)
  BY DEF Trapped
<1>5. PICK v : EntersAs(PM, k, v)
  BY <1>2, <1>4, EntersMails, Constants
<1>6. PICK flags : flags = {"PROC_STOP"}
  OBVIOUS
<1>7. PICK k2 : k2 = RTS_UNSET(k, target, flags)
  OBVIOUS
<1>8. Become(k2)
  BY <1>3, <1>4, <1>6, <1>7 DEF Trapped
<1>9. Sees(k2, v)
  <2>1. flags \cap Blocks = {} /\ target \in Procs
    BY <1>6, KernelAssumption DEF Blocks
  <2> QED
    BY <1>5, <1>7, <2>1, RtsUnsetUnseen DEF EntersAs
<1>10. Ends(v, k2, PM)
  BY <1>5, <1>9, UnseenEnds DEF EntersAs
<1> QED
  BY <1>2, <1>5, <1>8, <1>10, EndsMove DEF EntersAs

LEMMA TickMoves ==
    ASSUME MailInv, NEW p \in Procs, clock_tick(p)
    PROVE  Moves
<1>1. Enter(p, LAMBDA k : k)
  BY DEF clock_tick
<1>2. /\ mode = "user" /\ proc_ptr = p
      /\ \E left \in Lefts(p) : Become([K EXCEPT !.proc[p].time_left = left])
  BY <1>1 DEF Enter, Lefts
<1>3. PICK left \in Lefts(p) : Become([K EXCEPT !.proc[p].time_left = left])
  BY <1>2
<1>4. PICK k : Trapped(p, left, k)
  BY DEF Trapped
<1>5. PICK v : EntersAs(p, k, v)
  BY <1>2, <1>4, EntersMails
<1>6. Become(k)
  BY <1>3, <1>4 DEF Trapped
<1>7. Ends(v, k, p)
  BY <1>5, UnseenEnds DEF EntersAs
<1> QED
  BY <1>2, <1>5, <1>6, <1>7, EndsMove DEF EntersAs

LEMMA InterruptMoves ==
    ASSUME MailInv, NEW d \in Drivers, interrupt(d)
    PROVE  Moves
<1>0. HARDWARE \in Pointers /\ d \in Procs
  BY KernelAssumption DEF HARDWARE, Pointers, NULL
<1>1. CASE Become(mini_notify(K, HARDWARE, d))
  <2>1. PICK k : k = K
    OBVIOUS
  <2>2. PICK v : Sees(k, v) /\ Fine(v)
    BY <2>1 DEF MailInv
  <2>3. PICK k2 : k2 = mini_notify(k, HARDWARE, d)
    OBVIOUS
  <2>4. Notified(v, k2, NULL, 0, Senders(v), NULL)
    BY <1>0, <2>2, <2>3, FineFields, NotifyMails
  <2>5. Ends(v, k2, proc_ptr)
    BY <2>4, NotifiedEnds
  <2>6. Become(k2)
    BY <1>1, <2>1, <2>3
  <2> QED
    BY <2>1, <2>2, <2>5, <2>6, EndsMove
<1>2. ASSUME NEW p \in Procs, Enter(p, LAMBDA k : mini_notify(k, HARDWARE, d))
      PROVE  Moves
  <2>1. /\ mode = "user" /\ proc_ptr = p
        /\ \E left \in Lefts(p) :
              Become(mini_notify([K EXCEPT !.proc[p].time_left = left], HARDWARE, d))
    BY <1>2 DEF Enter, Lefts
  <2>2. PICK left \in Lefts(p) :
           Become(mini_notify([K EXCEPT !.proc[p].time_left = left], HARDWARE, d))
    BY <2>1
  <2>3. PICK k : Trapped(p, left, k)
    BY DEF Trapped
  <2>4. PICK v : EntersAs(p, k, v)
    BY <2>1, <2>3, EntersMails
  <2>5. PICK k2 : k2 = mini_notify(k, HARDWARE, d)
    OBVIOUS
  <2>6. Become(k2)
    BY <2>2, <2>3, <2>5 DEF Trapped
  <2>7. Notified(v, k2, NULL, 0, Senders(v), NULL)
    <3>1. Sees(k, v) /\ Fit(v, NULL, 0, Senders(v), NULL)
      BY <2>4, FineFields DEF EntersAs
    <3> QED
      BY <1>0, <2>5, <3>1, NotifyMails
  <2>8. Ends(v, k2, p)
    BY <2>7, NotifiedEnds
  <2> QED
    BY <2>1, <2>4, <2>6, <2>8, EndsMove DEF EntersAs
<1>3. \/ Become(mini_notify(K, HARDWARE, d))
      \/ \E p \in Procs : Enter(p, LAMBDA k : mini_notify(k, HARDWARE, d))
  BY DEF interrupt
<1> QED
  BY <1>1, <1>2, <1>3

LEMMA PickMoves ==
    ASSUME MailInv, pick_new
    PROVE  Moves
<1>1. PICK k : k = K
  OBVIOUS
<1>2. Ok(k) /\ k \in Kernels /\ k.cur = proc_ptr /\ k.proc = proc
  BY <1>1, OkKernel DEF MailInv, KernelInv, K
<1>3. PICK v : Sees(k, v) /\ Fine(v)
  BY <1>1 DEF MailInv
<1>4. PICK p : p = proc_ptr
  OBVIOUS
<1>5. PICK back : back = IF p = NULL THEN k
                         ELSE [k EXCEPT !.proc[p].rts = @ \ {"PREEMPTED"}]
  OBVIOUS
<1>6. PICK queued :
         queued = IF p = NULL \/ ~ Flag(k, p, "PREEMPTED") \/ ~ proc_is_runnable(back, p)
                    THEN back
                  ELSE IF back.proc[p].time_left # 0 THEN enqueue_head(back, p)
                  ELSE enqueue(back, p)
  OBVIOUS
<1>7. PICK next : next = pick_proc(queued)
  OBVIOUS
<1>8. PICK k2 : k2 = [queued EXCEPT !.cur = next]
  OBVIOUS
<1>9. Become(k2)
  BY <1>1, <1>4, <1>5, <1>6, <1>7, <1>8 DEF pick_new
<1>10. p # NULL => p \in Procs
  BY <1>2, <1>4, CurIs
<1>11. Sees(back, v)
  <2>1. CASE p = NULL
    BY <1>3, <1>5, <2>1
  <2>2. CASE p # NULL
    <3>1. p \in Procs
      BY <1>10, <2>2
    <3>2. PICK f : f = k.proc[p].rts \ {"PREEMPTED"}
      OBVIOUS
    <3>3. /\ v \in Views /\ v[p].block = k.proc[p].rts \cap Blocks
          /\ k.proc[p].rts \in SUBSET Flags
      BY <1>3, <3>1, BlockIs, FineFields
    <3>4. f \in SUBSET Flags /\ f \cap Blocks = v[p].block
      BY <3>2, <3>3 DEF Blocks
    <3>5. back = [k EXCEPT !.proc[p].rts = f]
      BY <1>5, <2>2, <3>2
    <3>6. Sees(back, Set(v, p, WithBlock(v[p], f \cap Blocks)))
      BY <1>3, <3>1, <3>4, <3>5, RtsSees
    <3> QED
      BY <3>1, <3>3, <3>4, <3>6, BlockSame
  <2> QED
    BY <2>1, <2>2
<1>12. Sees(queued, v)
  <2>1. CASE p = NULL \/ ~ Flag(k, p, "PREEMPTED") \/ ~ proc_is_runnable(back, p)
    BY <1>6, <1>11, <2>1
  <2>2. CASE ~ (p = NULL \/ ~ Flag(k, p, "PREEMPTED") \/ ~ proc_is_runnable(back, p))
    <3>1. Sees(enqueue_head(back, p), v) /\ Sees(enqueue(back, p), v)
      BY <1>10, <1>11, <2>2, EnqueueHeadSees, EnqueueSees
    <3> QED
      BY <1>6, <2>2, <3>1
  <2> QED
    BY <2>1, <2>2
<1>13. next \in Pointers
  <2>1. PICK busy : busy = {q \in Queues : queued.head[q] # NULL}
    OBVIOUS
  <2>2. next = IF busy = {} THEN NULL ELSE queued.head[Min(busy)]
    BY <1>7, <2>1 DEF pick_proc
  <2>3. busy \in SUBSET Nat
    BY <2>1, Constants
  <2>4. busy # {} => Min(busy) \in busy
    BY <2>3, MinIn
  <2>5. queued \in Kernels
    BY <1>12 DEF Sees
  <2>6. CASE busy = {}
    BY <2>2, <2>6 DEF Pointers
  <2>7. CASE busy # {}
    <3>1. Min(busy) \in Queues
      BY <2>1, <2>4, <2>7
    <3> QED
      BY <2>2, <2>5, <2>7, <3>1, KFields
  <2> QED
    BY <2>6, <2>7
<1>14. Sees(k2, v)
  BY <1>8, <1>12, <1>13, CurSees
<1>15. Ends(v, k2, proc_ptr)
  BY <1>3, <1>14, UnseenEnds
<1> QED
  BY <1>1, <1>3, <1>9, <1>15, EndsMove

(* The process goes on with its message, and with time left or as a sender *)
(* to the scheduler.                                                       *)
LEMMA GoesOnMoves ==
    ASSUME MailInv, NEW B \in SUBSET Procs, Serves(B), check_misc_flags
    PROVE  Moves /\ "DELIVERMSG" \notin K'.proc[K'.cur].misc
<1>1. PICK k : k = K
  OBVIOUS
<1>2. Ok(k) /\ k \in Kernels /\ k.cur = proc_ptr /\ k.proc = proc
  BY <1>1, OkKernel DEF MailInv, KernelInv, K
<1>3. PICK v : Sees(k, v) /\ Fine(v)
  BY <1>1 DEF MailInv
<1>4. PICK p \in Procs : p = proc_ptr
  BY <1>2, KFields DEF check_misc_flags, CurRunnable, Pointers
<1>5. ~ Sends(v[p]) /\ ~ Gets(v[p]) /\ ~ Gone(v[p])
  <2>1. k.proc[p].rts = {}
    BY <1>1, <1>4 DEF check_misc_flags, CurRunnable, proc_is_runnable
  <2>2. v[p].block = {}
    BY <1>3, <2>1, BlockIs
  <2> QED
    BY <2>2 DEF Sends, Gets, Gone
<1>6. v \in Views /\ v[p] \in Mails /\ Fit(v, NULL, 0, Senders(v), NULL)
  BY <1>3, FineFields
<1>7. PICK u : u = UnsetMisc(k, p, "DELIVERMSG")
  OBVIOUS
<1>8. PICK m \in Messages : m = NoMessage
  BY DEF NoMessage, Message, Messages, Types, Pointers
<1>9. PICK a : a = [u EXCEPT !.proc[p].delivermsg = m]
  OBVIOUS
<1>10. PICK r : r = WithMisc(v[p], v[p].misc \ {"DELIVERMSG"})
  OBVIOUS
<1>11. PICK v1 : v1 = Set(v, p, r)
  OBVIOUS
<1>12. Sees(u, v1)
  BY <1>3, <1>7, <1>10, <1>11, UnsetMiscSees DEF Clears
<1>13. PICK q : q = WithGot(r, m)
  OBVIOUS
<1>14. r \in Mails /\ q \in Mails /\ q = Copied(v[p])
  <2>1. r \in Mails /\ r.misc \subseteq MiscFlags
    BY <1>6, <1>10 DEF WithMisc, MailOf, Mails
  <2>2. q \in Mails
    BY <1>13, <2>1 DEF WithGot, MailOf, Mails
  <2>3. q = Copied(v[p])
    BY <1>8, <1>10, <1>13 DEF WithGot, WithMisc, MailOf, Copied
  <2> QED
    BY <2>1, <2>2, <2>3
<1>15. PICK v2 : v2 = Set(v, p, q)
  OBVIOUS
<1>16. Sees(a, v2)
  <2>1. v1[p] = r
    BY <1>6, <1>11, <1>14, SetAt
  <2>2. Sees(a, Set(v1, p, WithGot(v1[p], m)))
    BY <1>9, <1>12, GotSees
  <2>3. Set(v1, p, q) = v2
    BY <1>6, <1>11, <1>14, <1>15, SetTwice
  <2> QED
    BY <1>13, <2>1, <2>2, <2>3
<1>17. Fit(v2, NULL, 0, Senders(v), NULL)
  BY <1>6, <1>14, <1>15, CopiedFit
<1>18. /\ q.block = v[p].block /\ SamePlace(v[p], q) /\ "DELIVERMSG" \notin q.misc
  BY <1>14 DEF Copied, MailOf, SamePlace
<1>19. Stays(v, v2)
  BY <1>6, <1>14, <1>15, <1>18, SetStays DEF Sends, Gone
<1>20. Fine(v2) /\ Keeps(v, v2)
  BY <1>17, <1>19, StaysSame, StaysKeeps DEF Fine
<1>21. Free(v2[p])
  <2>1. v2[p] = q
    BY <1>6, <1>14, <1>15, SetAt
  <2> QED
    BY <1>5, <1>18, <2>1 DEF Free, Sends, Gets, Gone
<1>22. PICK b : b = IF k.proc[p].time_left = 0 THEN proc_no_time(a, p) ELSE a
  OBVIOUS
<1>23. Become(b)
  BY <1>1, <1>2, <1>4, <1>7, <1>8, <1>9, <1>22 DEF check_misc_flags
<1>24. \E w : Sees(b, w) /\ Fine(w) /\ Keeps(v2, w) /\ "DELIVERMSG" \notin w[p].misc
  <2>1. CASE k.proc[p].time_left = 0
    <3>1. Sent(v2, proc_no_time(a, p), p, SCHED)
      BY <1>16, <1>20, <1>21, NoTimeMails
    <3> QED
      BY <1>22, <2>1, <3>1 DEF Sent, Asking
  <2>2. CASE k.proc[p].time_left # 0
    <3>1. Keeps(v2, v2)
      BY KeepsSelf
    <3> QED
      BY <1>16, <1>20, <1>21, <1>22, <2>2, <3>1 DEF Free
  <2> QED
    BY <2>1, <2>2
<1>25. PICK w : Sees(b, w) /\ Fine(w) /\ Keeps(v2, w) /\ "DELIVERMSG" \notin w[p].misc
  BY <1>24
<1>26. Told(v, w, proc_ptr)
  BY <1>20, <1>25, KeepsTwice, ToldKeeps
<1>27. K' = b /\ b \in Kernels
  BY <1>23, <1>25, BecomesIs DEF Sees
<1>28. K'.cur = p
  <2>1. Leads(a, b) /\ a.cur = p
    <3>1. u \in Kernels /\ u.cur = p /\ Ok(u)
      <4>1. "DELIVERMSG" \in MiscFlags
        BY DEF MiscFlags
      <4>2. Calm(k, u)
        BY <1>2, <1>7, <4>1, SetMiscCalm
      <4> QED
        BY <1>2, <1>4, <4>2, CalmLeads, CalmKernel DEF Leads
    <3>2. Calm(u, a)
      BY <1>9, <3>1, DelivermsgCalm
    <3>3. Ok(a) /\ a.cur = p
      BY <3>1, <3>2, CalmLeads DEF Leads
    <3>4. Leads(a, b)
      BY <1>22, <3>3, NoTimeLeads, LeadsSelf
    <3> QED
      BY <3>3, <3>4
  <2> QED
    BY <1>27, <2>1 DEF Leads
<1>29. "DELIVERMSG" \notin K'.proc[K'.cur].misc
  BY <1>25, <1>27, <1>28, MiscIs
<1> QED
  BY <1>1, <1>3, <1>25, <1>26, <1>27, <1>29 DEF Moves

-----------------------------------------------------------------------------
(* At the start everybody waits for a message from anybody.                *)
LEMMA InitMail == Init => MailInv
<1> SUFFICES ASSUME Init PROVE MailInv
  OBVIOUS
<1>1. KernelInv
  BY InitOk
<1>2. PICK k : k = K
  OBVIOUS
<1>3. k \in Kernels /\ k.panic = FALSE
  BY <1>1, <1>2, OkKernel DEF KernelInv, K, Init
<1>4. PICK m : m = MailOf({"RECEIVING"}, {}, ANY, NULL, "NONE", NULL, NULL, NoMessage, {}, <<>>)
  OBVIOUS
<1>5. PICK v : v = View(k)
  OBVIOUS
<1>6. \A x \in Procs : v[x] = m
  <2> SUFFICES ASSUME NEW x \in Procs PROVE v[x] = m
    OBVIOUS
  <2>1. k.proc[x] = [rts |-> {"RECEIVING"}, misc |-> {}, priority |-> Prio[x], time_left |-> 1,
                     getfrom |-> ANY, sendto |-> NULL, caller_q |-> NULL, q_link |-> NULL,
                     nextready |-> NULL, sendmsg |-> "NONE", delivermsg |-> NoMessage]
    BY <1>2 DEF K, Init
  <2>2. k.priv[x] = [notify_pending |-> {}, asyntab |-> <<>>]
    BY <1>2 DEF K, Init
  <2>3. PICK s, r : s = k.proc[x] /\ r = k.priv[x]
    OBVIOUS
  <2>4. /\ s.rts = {"RECEIVING"} /\ s.misc = {} /\ s.getfrom = ANY /\ s.sendto = NULL
        /\ s.sendmsg = "NONE" /\ s.caller_q = NULL /\ s.q_link = NULL /\ s.delivermsg = NoMessage
        /\ r.notify_pending = {} /\ r.asyntab = <<>>
    BY <2>1, <2>2, <2>3
  <2>5. {"RECEIVING"} \cap Blocks = {"RECEIVING"}
    BY DEF Blocks
  <2>6. Mail(s, r) = m
    BY <1>4, <2>4, <2>5 DEF Mail
  <2> QED
    BY <1>5, <2>3, <2>6 DEF View
<1>7. Sees(k, v)
  BY <1>3, <1>5 DEF Sees
<1>8. v \in Views
  BY <1>7, SeesFields
<1>9. /\ m.block = {"RECEIVING"} /\ m.misc = {} /\ m.from = ANY /\ m.link = NULL /\ m.first = NULL
      /\ m.notes = {} /\ m.table = <<>>
  BY <1>4 DEF MailOf
<1>10. ~ Sends(m) /\ Gets(m) /\ ~ Gone(m) /\ Awaits(m) = NULL
  BY <1>9 DEF Sends, Gets, Gone, Awaits, On
<1>11. \A x \in Procs : Local(v[x], x)
  BY <1>6, <1>9, <1>10 DEF Local, MayGet, Open
<1>12. Present(v) /\ Meets(v)
  BY <1>6, <1>10 DEF Present, Meets
<1>13. Marked2(v, NULL, 0)
  <2>1. \A s \in System : DOMAIN v[s].table = {}
    BY <1>6, <1>9, Constants
  <2> QED
    BY <2>1 DEF Marked2
<1>14. Ranked(v)
  <2>1. PICK r : r = [x \in Procs |-> 0]
    OBVIOUS
  <2>2. Ranks(v, r)
    BY <1>6, <1>10, <2>1 DEF Ranks
  <2> QED
    BY <2>2 DEF Ranked
<1>15. Senders(v) = {}
  BY <1>6, <1>10 DEF Senders
<1>16. Queued(v, {}, NULL)
  <2>1. ASSUME NEW d \in Procs
        PROVE  \E n, s : Waits(v, {}, d, n, s)
    <3>1. PICK s : s = [i \in 1 .. 0 |-> NULL]
      OBVIOUS
    <3>2. List(0, s, v[d].first, LinkOf(v))
      BY <1>6, <1>9, <3>1 DEF List
    <3>3. Waits(v, {}, d, 0, s)
      BY <3>2 DEF Waits, Has
    <3> QED
      BY <3>3
  <2>2. \A x \in Procs : v[x].link = NULL
    BY <1>6, <1>9
  <2> QED
    BY <2>1, <2>2 DEF Queued
<1>17. Fine(v)
  BY <1>8, <1>11, <1>12, <1>13, <1>14, <1>15, <1>16 DEF Fine, Fit, Apart
<1>18. mode = "idle"
  BY DEF Init
<1> QED
  BY <1>1, <1>2, <1>7, <1>17, <1>18 DEF MailInv

(* Every step moves, and only switch_to_user leads to user mode.           *)
Onward == Moves /\ (mode' = "user" => "DELIVERMSG" \notin K'.proc[K'.cur].misc)

LEMMA NextMoves == ASSUME MailInv, Orderly, Next PROVE Onward
<1>1. NoSelf /\ OneSender /\ Undelayed
  BY DEF Orderly
<1>2. PICK B \in SUBSET Procs : Serves(B)
  BY DEF Orderly
<1>3. ASSUME NEW p \in Procs, do_ipc(p) \/ senda(p) \/ getksig(p) \/ clock_tick(p)
      PROVE  Moves /\ mode' = "switch"
  <2>1. Moves
    BY <1>1, <1>3, IpcMoves, SendaMoves, GetksigMoves, TickMoves
  <2>2. mode' = "switch"
    BY <1>3 DEF do_ipc, senda, getksig, clock_tick, Enter
  <2> QED
    BY <2>1, <2>2
<1>4. ASSUME NEW target \in Scheduled, NEW priority \in Queues,
             schedule(SCHED, target, priority)
      PROVE  Moves /\ mode' = "switch"
  <2>1. mode' = "switch"
    BY <1>4 DEF schedule, Enter
  <2> QED
    BY <1>4, <2>1, ScheduleMoves
<1>5. ASSUME NEW target \in Mortal, clear(PM, target)
      PROVE  Moves /\ mode' = "switch"
  <2>1. mode' = "switch"
    BY <1>5 DEF clear, Enter
  <2> QED
    BY <1>1, <1>5, <2>1, ClearMoves
<1>6. ASSUME NEW target \in Signalled, NEW p \in System, kill(p, target)
      PROVE  Moves /\ mode' = "switch"
  <2>1. mode' = "switch"
    BY <1>6 DEF kill, Enter
  <2> QED
    BY <1>6, <2>1, KillMoves
<1>7. ASSUME NEW target \in Signalled,
             endksig(PM, target) \/ runctl_stop(PM, target) \/ runctl_resume(PM, target)
      PROVE  Moves /\ mode' = "switch"
  <2>1. mode' = "switch"
    BY <1>7 DEF endksig, runctl_stop, runctl_resume, Enter
  <2> QED
    BY <1>7, <2>1, EndksigMoves, StopMoves, ResumeMoves
<1>8. ASSUME NEW d \in Drivers, interrupt(d)
      PROVE  Moves /\ mode' = "switch"
  <2>1. mode' = "switch"
    BY <1>8 DEF interrupt, Enter
  <2> QED
    BY <1>8, <2>1, InterruptMoves
<1>9. CASE pick_new
  <2>1. mode' # "user"
    BY <1>9 DEF pick_new
  <2> QED
    BY <1>9, <2>1, PickMoves DEF Onward
<1>10. CASE check_misc_flags
  BY <1>2, <1>10, GoesOnMoves DEF Onward
<1> QED
  BY <1>3, <1>4, <1>5, <1>6, <1>7, <1>8, <1>9, <1>10 DEF Next, Onward

LEMMA MailNext == ASSUME Orderly PROVE MailInv /\ [Next]_vars => MailInv'
<1> SUFFICES ASSUME MailInv, [Next]_vars PROVE MailInv'
  OBVIOUS
<1>1. KernelInv'
  BY NextKeeps DEF MailInv
<1>2. CASE Next
  <2>1. Onward
    BY <1>2, NextMoves
  <2>2. PICK w : Sees(K', w) /\ Fine(w)
    BY <2>1 DEF Onward, Moves
  <2>3. mode' = "user" => "DELIVERMSG" \notin K'.proc[K'.cur].misc
    BY <2>1 DEF Onward
  <2> QED
    BY <1>1, <2>2, <2>3 DEF MailInv
<1>3. CASE UNCHANGED vars
  <2>1. K' = K /\ mode' = mode
    BY <1>3 DEF vars, K
  <2>2. (\E v : Sees(K, v) /\ Fine(v)) /\ (mode = "user" => "DELIVERMSG" \notin K.proc[K.cur].misc)
    BY DEF MailInv
  <2>3. \E v : Sees(K', v) /\ Fine(v)
    BY <2>1, <2>2
  <2>4. mode' = "user" => "DELIVERMSG" \notin K'.proc[K'.cur].misc
    BY <2>1, <2>2
  <2> QED
    BY <1>1, <2>3, <2>4 DEF MailInv
<1> QED
  BY <1>2, <1>3

-----------------------------------------------------------------------------
(* The theorems, for programs that keep to the rules.                      *)

(* What message passing rests on holds between any two steps.              *)
THEOREM MailSound == ASSUME Orderly PROVE Spec => []MailInv
<1>1. Init => MailInv
  BY InitMail
<1>2. MailInv /\ [Next]_vars => MailInv'
  BY MailNext
<1> QED
  BY <1>1, <1>2, PTL DEF Spec

(* No assertion of the kernel fails: no message is delivered over another  *)
(* one, the link of a process that blocks is clear, and the message about  *)
(* the end of a quantum can always be sent.                                *)
THEOREM NeverPanicsSafe == ASSUME Orderly PROVE Spec => []NeverPanics
<1>1. MailInv => NeverPanics
  BY DEF MailInv, Sees, K, NeverPanics
<1> QED
  BY <1>1, MailSound, PTL

(* The queue of d as the kernel follows it holds those that send to d.     *)
LEMMA QueuesAre ==
    ASSUME MailInv, NEW v, Sees(K, v), Fine(v), NEW d \in Alive
    PROVE  /\ IsInjective(Callers(K, d))
           /\ ToSet(Callers(K, d)) = {x \in Procs : Sends(v[x]) /\ v[x].to = d}
           /\ Callers(K, d) = <<>> \/ \E x \in Procs : Sends(v[x]) /\ v[x].to = d
<1>1. PICK k : k = K
  OBVIOUS
<1>2. d \in Procs /\ ~ Gone(v[d]) /\ Sees(k, v)
  <2>1. d \in Procs /\ ~ isempty(k, d) /\ Sees(k, v)
    BY <1>1 DEF Alive
  <2> QED
    BY <2>1, FlagsSeen
<1>3. Queued(v, Senders(v), NULL)
  BY FineFields, FitFields
<1>4. PICK n, s : Waits(v, Senders(v), d, n, s)
  <2>1. d # NULL
    BY <1>2, Constants
  <2> QED
    BY <1>2, <1>3, <2>1 DEF Queued
<1>5. Walks(k, v, Senders(v), d, n, s)
  BY <1>2, <1>4, WaitsAre
<1>6. /\ Callers(k, d) = s /\ n \in Nat /\ s \in [1 .. n -> Procs] /\ Len(s) = n
      /\ \A i, j \in 1 .. n : s[i] = s[j] => i = j
      /\ \A i \in 1 .. n : s[i] \in Senders(v) /\ v[s[i]].to = d
  BY <1>5 DEF Walks
<1>7. IsInjective(s)
  BY <1>6 DEF IsInjective
<1>8. ToSet(s) = {x \in Procs : Has(n, s, x)}
  BY <1>6 DEF ToSet, Has
<1>9. \A x \in Procs : Has(n, s, x) <=> Sends(v[x]) /\ v[x].to = d
  BY <1>4 DEF Waits, Senders
<1>10. s = <<>> \/ \E x \in Procs : Sends(v[x]) /\ v[x].to = d
  <2>1. CASE n = 0
    <3>1. s = <<>>
      BY <1>5, <2>1 DEF Walks
    <3> QED
      BY <3>1
  <2>2. CASE n # 0
    <3>1. 1 \in 1 .. n
      BY <1>6, <2>2
    <3>2. s[1] \in Procs /\ Has(n, s, s[1])
      BY <1>6, <3>1 DEF Has
    <3> QED
      BY <1>9, <3>2
  <2> QED
    BY <2>1, <2>2
<1>11. ToSet(s) = {x \in Procs : Sends(v[x]) /\ v[x].to = d}
  BY <1>8, <1>9
<1> QED
  BY <1>1, <1>6, <1>7, <1>10, <1>11

(* Who is alive, in terms of the view.                                     *)
LEMMA AliveSeen ==
    ASSUME NEW v, Sees(K, v), Fine(v), NEW x \in Procs
    PROVE  /\ x \in Alive <=> ~ Gone(v[x])
           /\ Flag(K, x, "SENDING") <=> Sends(v[x])
           /\ Flag(K, x, "RECEIVING") <=> Gets(v[x])
           /\ Sends(v[x]) => x \in Alive
           /\ proc[x].sendto = v[x].to /\ proc[x].getfrom = v[x].from
           /\ proc[x].q_link = v[x].link /\ proc[x].misc = v[x].misc
           /\ proc[x].sendmsg = v[x].what /\ proc[x].delivermsg = v[x].got
           /\ priv[x].notify_pending = v[x].notes
           /\ P_BLOCKEDON(K, x) = On(v[x])
<1>1. PICK k : k = K /\ Sees(k, v)
  OBVIOUS
<1>2. k.proc = proc /\ k.priv = priv
  BY <1>1 DEF K
<1>3. /\ Flag(k, x, "SENDING") <=> Sends(v[x])
      /\ Flag(k, x, "RECEIVING") <=> Gets(v[x])
      /\ isempty(k, x) <=> Gone(v[x])
  BY <1>1, FlagsSeen
<1>4. Local(v[x], x)
  BY FineFields
<1>5. Sends(v[x]) => ~ Gone(v[x])
  BY <1>4 DEF Local, Sends
<1>6. x \in Alive <=> ~ Gone(v[x])
  BY <1>1, <1>3 DEF Alive
<1>7. P_BLOCKEDON(k, x) = On(v[x])
  BY <1>1, OnSeen
<1>8. /\ v[x].misc = k.proc[x].misc /\ v[x].from = k.proc[x].getfrom
      /\ v[x].to = k.proc[x].sendto /\ v[x].what = k.proc[x].sendmsg
      /\ v[x].link = k.proc[x].q_link /\ v[x].got = k.proc[x].delivermsg
      /\ v[x].notes = k.priv[x].notify_pending
  BY <1>1, FieldsSeen
<1> QED
  BY <1>1, <1>2, <1>3, <1>5, <1>6, <1>7, <1>8

LEMMA CallersFit == MailInv => CallerQueuesOK
<1> SUFFICES ASSUME MailInv PROVE CallerQueuesOK
  OBVIOUS
<1>1. PICK v : Sees(K, v) /\ Fine(v)
  BY DEF MailInv
<1>2. ASSUME NEW d \in Alive
      PROVE  /\ IsInjective(Callers(K, d))
             /\ ToSet(Callers(K, d)) = {s \in Alive : Flag(K, s, "SENDING") /\ proc[s].sendto = d}
  <2>1. {x \in Procs : Sends(v[x]) /\ v[x].to = d} =
           {s \in Alive : Flag(K, s, "SENDING") /\ proc[s].sendto = d}
    <3>1. \A x \in Procs : Sends(v[x]) /\ v[x].to = d
             <=> x \in Alive /\ Flag(K, x, "SENDING") /\ proc[x].sendto = d
      BY <1>1, AliveSeen
    <3>2. Alive \subseteq Procs
      BY DEF Alive
    <3> QED
      BY <3>1, <3>2
  <2> QED
    BY <1>1, <2>1, QueuesAre
<1>3. ASSUME NEW s \in Alive, proc[s].q_link # NULL
      PROVE  Flag(K, s, "SENDING")
  <2>1. s \in Procs /\ s # NULL
    BY Constants DEF Alive
  <2>2. ~ Gone(v[s]) /\ v[s].link # NULL
    BY <1>1, <1>3, <2>1, AliveSeen
  <2>3. Queued(v, Senders(v), NULL)
    BY <1>1, FineFields, FitFields
  <2>4. s \in Senders(v)
    BY <2>1, <2>2, <2>3 DEF Queued
  <2> QED
    BY <1>1, <2>1, <2>4, AliveSeen DEF Senders
<1> QED
  BY <1>2, <1>3 DEF CallerQueuesOK

LEMMA RankedEnds == MailInv => NoCircle
<1> SUFFICES ASSUME MailInv PROVE NoCircle
  OBVIOUS
<1>1. PICK v : Sees(K, v) /\ Fine(v)
  BY DEF MailInv
<1>2. PICK on : on = [p \in Procs |-> P_BLOCKEDON(K, p)]
  OBVIOUS
<1>3. PICK next : next = [p \in Procs |-> IF on[p] = ANY THEN NULL ELSE on[p]]
  OBVIOUS
<1>4. \A x \in Procs : next[x] = Awaits(v[x])
  <2> SUFFICES ASSUME NEW x \in Procs PROVE next[x] = Awaits(v[x])
    OBVIOUS
  <2>1. on[x] = On(v[x])
    BY <1>1, <1>2, AliveSeen
  <2> QED
    BY <1>3, <2>1 DEF Awaits
<1>5. PICK r : Ranks(v, r)
  <2>1. Ranked(v)
    BY <1>1, FineFields, FitFields
  <2> QED
    BY <2>1 DEF Ranked
<1>6. Falls(next, r)
  <2>1. \A x \in Procs : next[x] \in Pointers /\ (next[x] # NULL => r[next[x]] < r[x])
    BY <1>4, <1>5 DEF Ranks, Pointers
  <2>2. next \in [Procs -> Pointers]
    BY <1>3, <2>1
  <2>3. r \in [Procs -> Nat]
    BY <1>5 DEF Ranks
  <2> QED
    BY <2>1, <2>2, <2>3 DEF Falls
<1>7. ASSUME NEW p \in Alive
      PROVE  next[Last(Chain(p, next))] = NULL
  <2>1. p \in Procs /\ p \in Pointers /\ p # NULL
    BY Constants DEF Alive
  <2>2. PICK n, s : List(n, s, p, next)
    BY <1>6, <2>1, RankList DEF Ending
  <2>3. Chain(p, next) = s
    BY <1>6, <2>2, ChainList DEF Falls
  <2>4. /\ n \in Nat /\ s \in [1 .. n -> Procs] /\ p = IF n = 0 THEN NULL ELSE s[1]
        /\ \A i \in 1 .. n : next[s[i]] = IF i = n THEN NULL ELSE s[i + 1]
    BY <2>2 DEF List
  <2>5. n # 0 /\ Len(s) = n
    BY <2>1, <2>4, AsSequence
  <2>6. n \in 1 .. n
    BY <2>4, <2>5
  <2>7. Last(s) = s[n]
    BY <2>5 DEF Last
  <2> QED
    BY <2>3, <2>4, <2>6, <2>7
<1> QED
  BY <1>2, <1>3, <1>7 DEF NoCircle

(* Blocked senders wait where the receiver looks for them, in queues that  *)
(* hold nobody else, and never for each other.                             *)
THEOREM SendersSafe == ASSUME Orderly PROVE Spec => []SendersOK
<1>1. MailInv => SendersOK
  BY CallersFit, RankedEnds DEF SendersOK
<1> QED
  BY <1>1, MailSound, PTL

LEMMA NothingWaits == MailInv => NothingMissed
<1> SUFFICES ASSUME MailInv, NEW p \in Alive,
                    Flag(K, p, "RECEIVING") /\ ~ Flag(K, p, "SENDING"), proc[p].getfrom = ANY
             PROVE  /\ Callers(K, p) = <<>> /\ priv[p].notify_pending = {}
                    /\ \A s \in System \cap Alive : Undone(K, s, p) = {}
  BY DEF NothingMissed
<1>1. PICK v : Sees(K, v) /\ Fine(v)
  BY DEF MailInv
<1>2. p \in Procs
  BY DEF Alive
<1>3. Gets(v[p]) /\ ~ Sends(v[p]) /\ v[p].from = ANY /\ priv[p].notify_pending = v[p].notes
  BY <1>1, <1>2, AliveSeen
<1>4. Open(v[p])
  BY <1>3 DEF Open
<1>5. v[p].notes = {}
  BY <1>1, <1>2, <1>4, FineFields DEF Local
<1>6. Callers(K, p) = <<>>
  <2>1. ~ \E x \in Procs : Sends(v[x]) /\ v[x].to = p
    BY <1>1, <1>2, <1>3, FineFields DEF Meets
  <2> QED
    BY <1>1, <2>1, QueuesAre
<1>7. ASSUME NEW s \in System \cap Alive
      PROVE  Undone(K, s, p) = {}
  <2>1. s \in Procs /\ s # NULL /\ s \in System
    BY Constants
  <2>2. ~ Gone(v[s])
    BY <1>1, <1>7, <2>1, AliveSeen
  <2>3. Undone(K, s, p) = Todo(v[s].table, p)
    <3>1. PICK k : k = K /\ Sees(k, v)
      BY <1>1
    <3> QED
      BY <1>2, <2>1, <3>1, UndoneSeen
  <2>4. Marked2(v, NULL, 0)
    BY <1>1, FineFields, FitFields
  <2>5. ~ Expects(v[p])
    BY <1>4 DEF Expects
  <2>6. \A i \in DOMAIN v[s].table : ~ (~ v[s].table[i].done /\ v[s].table[i].dst = p)
    BY <2>1, <2>2, <2>4, <2>5 DEF Marked2
  <2> QED
    BY <2>3, <2>6 DEF Todo
<1> QED
  BY <1>3, <1>5, <1>6, <1>7

(* Neither a receiver nor PM waits for what has already happened.          *)
THEOREM NothingForgottenSafe == ASSUME Orderly PROVE Spec => []NothingForgotten
<1>1. MailInv => DelayEnds
  <2> SUFFICES ASSUME MailInv, NEW p \in Alive, Misc(K, p, "SIG_DELAY")
               PROVE  Flag(K, p, "SENDING")
    BY DEF DelayEnds
  <2>1. PICK v : Sees(K, v) /\ Fine(v)
    BY DEF MailInv
  <2>2. p \in Procs
    BY DEF Alive
  <2>3. "SIG_DELAY" \in v[p].misc
    <3>1. PICK k : k = K /\ Sees(k, v)
      BY <2>1
    <3> QED
      BY <2>2, <3>1, MiscSeen
  <2>4. ~ Gone(v[p]) /\ (Flag(K, p, "SENDING") <=> Sends(v[p]))
    BY <2>1, <2>2, AliveSeen
  <2>5. Local(v[p], p)
    BY <2>1, <2>2, FineFields
  <2> QED
    BY <2>3, <2>4, <2>5 DEF Local
<1>2. MailInv => NothingForgotten
  BY <1>1, NothingWaits DEF NothingForgotten
<1> QED
  BY <1>2, MailSound, PTL

(* A blocked sender is released only by the receiver that takes its        *)
(* message, or because one of the two dies.                                *)
THEOREM SendsDeliveredSafe == ASSUME Orderly PROVE Spec => SendsDelivered
<1> DEFINE Taken ==
       \A s \in Alive :
          Flag(K, s, "SENDING") /\ "SENDING" \notin proc'[s].rts
          => LET d == proc[s].sendto
             IN  \/ "SLOT_FREE" \in proc'[s].rts \cup proc'[d].rts
                 \/ /\ proc'[d].delivermsg = Message(s, proc[s].sendmsg)
                    /\ "DELIVERMSG" \notin proc[d].misc /\ "DELIVERMSG" \in proc'[d].misc
                    /\ proc_ptr = d
<1>1. MailInv /\ [Next]_vars => [Taken]_vars
  <2> SUFFICES ASSUME MailInv, Next, NEW s \in Alive, Flag(K, s, "SENDING"),
                      "SENDING" \notin proc'[s].rts, NEW d, d = proc[s].sendto
               PROVE  \/ "SLOT_FREE" \in proc'[s].rts \cup proc'[d].rts
                      \/ /\ proc'[d].delivermsg = Message(s, proc[s].sendmsg)
                         /\ "DELIVERMSG" \notin proc[d].misc /\ "DELIVERMSG" \in proc'[d].misc
                         /\ proc_ptr = d
    OBVIOUS
  <2>1. Onward
    BY NextMoves
  <2>2. PICK v, w : /\ Sees(K, v) /\ Fine(v) /\ Sees(K', w) /\ Fine(w)
                    /\ Told(v, w, proc_ptr)
    BY <2>1 DEF Onward, Moves
  <2>3. s \in Procs
    BY DEF Alive
  <2>4. Sends(v[s]) /\ v[s].to = d /\ proc[s].sendmsg = v[s].what
    BY <2>2, <2>3, AliveSeen
  <2>5. d \in Procs
    <3>1. Local(v[s], s)
      BY <2>2, <2>3, FineFields
    <3> QED
      BY <2>4, <3>1 DEF Local, MaySend
  <2>6. PICK k : k = K'
    OBVIOUS
  <2>7. Sees(k, w) /\ k.proc = proc'
    BY <2>2, <2>6 DEF K
  <2>8. \A x \in Procs : /\ "SENDING" \in proc'[x].rts <=> Sends(w[x])
                         /\ "SLOT_FREE" \in proc'[x].rts <=> Gone(w[x])
                         /\ proc'[x].delivermsg = w[x].got /\ proc'[x].misc = w[x].misc
    BY <2>7, FlagsSeen, FieldsSeen DEF Flag
  <2>9. proc[d].misc = v[d].misc
    BY <2>2, <2>5, AliveSeen
  <2>10. ~ Sends(w[s])
    BY <2>3, <2>8
  <2>11. Gone(w[s]) \/ Gone(w[d]) \/ Took(v, w, proc_ptr, s)
    BY <2>2, <2>3, <2>4, <2>10 DEF Told
  <2>12. CASE Took(v, w, proc_ptr, s)
    <3>1. /\ proc_ptr = d /\ w[d].got = Message(s, v[s].what)
          /\ "DELIVERMSG" \notin v[d].misc /\ "DELIVERMSG" \in w[d].misc
      BY <2>4, <2>12 DEF Took
    <3> QED
      BY <2>4, <2>5, <2>8, <2>9, <3>1
  <2> QED
    BY <2>3, <2>5, <2>8, <2>11, <2>12
<1> QED
  BY <1>1, MailSound, PTL DEF Spec, SendsDelivered
=============================================================================
