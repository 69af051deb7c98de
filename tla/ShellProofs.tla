---------------------------- MODULE ShellProofs ----------------------------
(***************************************************************************)
(* TLAPS proofs about the shell: its process table is well formed, a shell *)
(* in wait() has a child to wait for, shells take turns as long as no      *)
(* background command is given, and parse finds what a line says.          *)
(***************************************************************************)
EXTENDS Shell, FiniteSetTheorems, SequenceTheorems, WellFoundedInduction, TLAPS

(* The table is a table of process records.                                *)
IsProcess(r) ==
    r = [st |-> r.st, parent |-> r.parent, args |-> r.args, cmd |-> r.cmd,
         child |-> r.child]

Shaped ==
    /\ proc = [p \in Pid |-> proc[p]]
    /\ \A p \in Pid : IsProcess(proc[p])

(* A process that can act by itself, or has ended and is not yet reaped.   *)
Active(p) == proc[p].st \notin {"free", "waiting"}

(* Without background commands the processes form a chain: every process   *)
(* but the first shell is the one child its parent started last and waits  *)
(* for, so that only the process at the end of the chain is active.        *)
ChainInv ==
    /\ \A p \in Pid : proc[p].st # "nohang"
    /\ \A p, q \in Pid : Active(p) /\ Active(q) => p = q
    /\ \A q \in Pid : proc[q].parent # INIT =>
          /\ proc[proc[q].parent].st = "waiting"
          /\ proc[proc[q].parent].child = q

(* A parent is another process, and one that has not ended.                *)
ParentInv ==
    \A q \in Pid : proc[q].parent # INIT =>
        /\ proc[q].parent # q
        /\ proc[proc[q].parent].st \notin {"free", "zombie"}

ShellInv == /\ Shaped /\ TypeOK /\ ParentInv /\ WaiterHasChild
            /\ ~ampersand => ChainInv

-----------------------------------------------------------------------------
LEMMA FreeFields ==
    /\ IsProcess(Free) /\ Free.st = "free" /\ Free.parent = INIT
    /\ DOMAIN Free.args = 1 .. NumArgs
BY DEF IsProcess, Free, EmptyArgs

LEMMA FreeSlot ==
    ASSUME ShellInv, NEW p \in Pid, proc[p].st = "free"
    PROVE  proc[p].parent = INIT /\ \A q \in Pid : proc[q].parent # p
BY FreeFields, ShellAssumption DEF ShellInv, TypeOK

(* A step that changes what a shell remembers, not what it does.           *)
LEMMA SameProcesses ==
    ASSUME ShellInv, Shaped',
           \A t \in Pid : /\ proc'[t].st = proc[t].st
                          /\ proc'[t].parent = proc[t].parent
                          /\ proc'[t].child = proc[t].child
                          /\ DOMAIN proc'[t].args = 1 .. NumArgs
                          /\ proc[t].st = "free" => proc'[t] = proc[t],
           ~ampersand' => ~ampersand
    PROVE  ShellInv'
<1>1. TypeOK'
  BY DEF ShellInv, TypeOK
<1>2. WaiterHasChild'
  BY DEF ShellInv, WaiterHasChild
<1>3. ParentInv'
  BY DEF ShellInv, ParentInv, TypeOK
<1>4. ChainInv => ChainInv'
  <2>1. \A q \in Pid : proc[q].parent \in Pid \cup {INIT}
    BY DEF ShellInv, TypeOK
  <2> QED
    BY <2>1 DEF ChainInv, Active
<1> QED
  BY <1>1, <1>2, <1>3, <1>4 DEF ShellInv

(* A process ends: it has no children under ChainInv, and no process waits *)
(* for the children it leaves to init.                                     *)
LEMMA EndedStep ==
    ASSUME ShellInv, NEW p \in Pid, proc[p].st \in {"reading", "program"},
           proc' = Ended(p), ~ampersand' => ~ampersand
    PROVE  ShellInv'
<1>1. /\ Shaped /\ TypeOK /\ ParentInv /\ WaiterHasChild
      /\ \A t \in Pid : IsProcess(proc[t]) /\ proc[t].parent \in Pid \cup {INIT}
  BY DEF ShellInv, TypeOK, Shaped
<1>2. /\ proc'[p].st = IF proc[p].parent = INIT THEN "free" ELSE "zombie"
      /\ proc'[p].parent = proc[p].parent
      /\ IsProcess(proc'[p]) /\ DOMAIN proc'[p].args = 1 .. NumArgs
      /\ proc'[p].st = "free" => proc'[p] = Free
  <2>1. proc'[p] = IF proc[p].parent = INIT THEN Free
                   ELSE [Free EXCEPT !.st = "zombie", !.parent = proc[p].parent]
    BY DEF Ended
  <2>2. CASE proc[p].parent = INIT
    BY <2>1, <2>2, FreeFields
  <2>3. CASE proc[p].parent # INIT
    <3>1. proc'[p] = [st |-> "zombie", parent |-> proc[p].parent,
                      args |-> EmptyArgs, cmd |-> NoCommand, child |-> NULL]
      BY <2>1, <2>3 DEF Free
    <3> QED
      BY <2>3, <3>1 DEF IsProcess, EmptyArgs
  <2> QED
    BY <2>2, <2>3
<1>3. ASSUME NEW t \in Pid, t # p
      PROVE  /\ proc'[t] = IF proc[t].parent = p
                           THEN IF proc[t].st = "zombie" THEN Free
                                ELSE [proc[t] EXCEPT !.parent = INIT]
                           ELSE proc[t]
             /\ IsProcess(proc'[t]) /\ DOMAIN proc'[t].args = 1 .. NumArgs
             /\ proc'[t].st = IF proc[t].parent = p /\ proc[t].st = "zombie"
                              THEN "free" ELSE proc[t].st
             /\ proc'[t].parent = IF proc[t].parent = p THEN INIT ELSE proc[t].parent
             /\ proc'[t].st # "free" => proc'[t].child = proc[t].child
             /\ proc'[t].st = "free" => proc'[t] = Free
  <2>1. proc'[t] = IF proc[t].parent = p
                   THEN IF proc[t].st = "zombie" THEN Free
                        ELSE [proc[t] EXCEPT !.parent = INIT]
                   ELSE proc[t]
    BY <1>3 DEF Ended
  <2>2. proc[t].parent = p => proc[t].st # "free"
    BY FreeSlot, ShellAssumption
  <2>3. IsProcess(proc[t]) /\ DOMAIN proc[t].args = 1 .. NumArgs
        /\ (proc[t].st = "free" => proc[t] = Free)
    BY <1>1 DEF TypeOK
  <2>4. CASE proc[t].parent = p /\ proc[t].st = "zombie"
    BY <2>1, <2>4, FreeFields
  <2>5. CASE proc[t].parent = p /\ proc[t].st # "zombie"
    BY <2>1, <2>2, <2>3, <2>5 DEF IsProcess
  <2>6. CASE proc[t].parent # p
    BY <2>1, <2>3, <2>6
  <2> QED
    BY <2>1, <2>4, <2>5, <2>6
<1>4. Shaped'
  <2>1. proc' = [t \in Pid |-> proc'[t]]
    BY DEF Ended
  <2> QED
    BY <1>2, <1>3, <2>1 DEF Shaped
<1>5. ASSUME NEW t \in Pid, proc'[t].parent # INIT
      PROVE  /\ proc'[t].parent # t
             /\ proc'[proc'[t].parent].st \notin {"free", "zombie"}
  <2>1. proc'[t].parent = proc[t].parent /\ proc[t].parent # INIT
    BY <1>2, <1>3, <1>5
  <2>2. PICK u \in Pid : u = proc[t].parent
    BY <1>1, <2>1
  <2>3. u # t /\ proc[u].st \notin {"free", "zombie"}
    BY <1>1, <2>1, <2>2 DEF ParentInv
  <2>4. u # p
    BY <1>3, <1>5, <2>2, <2>3
  <2> QED
    BY <1>3, <2>1, <2>2, <2>3, <2>4
<1>6. TypeOK' /\ ParentInv'
  <2>1. \A t \in Pid : proc'[t].st \in States
    BY <1>1, <1>2, <1>3 DEF TypeOK, States
  <2>2. \A t \in Pid : /\ proc'[t].parent \in Pid \cup {INIT}
                       /\ DOMAIN proc'[t].args = 1 .. NumArgs
                       /\ proc'[t].st = "free" => proc'[t] = Free
    BY <1>1, <1>2, <1>3
  <2> QED
    BY <1>5, <2>1, <2>2 DEF TypeOK, ParentInv
<1>7. WaiterHasChild'
  <2> SUFFICES ASSUME NEW t \in Pid, proc'[t].st = "waiting"
               PROVE  \E q \in Pid : proc'[q].parent = t
    BY DEF WaiterHasChild
  <2>1. t # p /\ proc[t].st = "waiting"
    BY <1>2, <1>3
  <2>2. PICK q \in Pid : proc[q].parent = t
    BY <1>1, <2>1 DEF WaiterHasChild
  <2> QED
    BY <1>2, <1>3, <2>1, <2>2
<1>8. ASSUME ChainInv PROVE ChainInv'
  <2>1. \A t \in Pid : proc[t].parent # p
    BY <1>8, ShellAssumption DEF ChainInv
  <2>2. \A t \in Pid : /\ proc'[t].parent = proc[t].parent
                       /\ t # p => proc'[t] = proc[t]
    BY <1>2, <1>3, <2>1
  <2>3. Active(p)
    BY DEF Active
  <2>4. ASSUME NEW t \in Pid, Active(t)' PROVE t = p
    BY <1>8, <2>2, <2>3, <2>4 DEF ChainInv, Active
  <2>5. \A t \in Pid : proc'[t].st # "nohang"
    BY <1>2, <1>8, <2>2 DEF ChainInv
  <2>6. ASSUME NEW t \in Pid, proc'[t].parent # INIT
        PROVE  /\ proc'[proc'[t].parent].st = "waiting"
               /\ proc'[proc'[t].parent].child = t
    BY <1>1, <1>8, <2>1, <2>2, <2>6 DEF ChainInv
  <2> QED
    BY <2>4, <2>5, <2>6 DEF ChainInv
<1> QED
  BY <1>4, <1>6, <1>7, <1>8 DEF ShellInv

(* A process goes on to something else under the same parent.              *)
LEMMA GoesOnStep ==
    ASSUME ShellInv, NEW p \in Pid, proc[p].st \in {"forked", "nohang"},
           NEW r, IsProcess(r), r.parent = proc[p].parent,
           r.st \in {"reading", "program"}, DOMAIN r.args = 1 .. NumArgs,
           proc' = [proc EXCEPT ![p] = r], UNCHANGED ampersand
    PROVE  ShellInv'
<1>1. /\ Shaped /\ TypeOK /\ ParentInv /\ WaiterHasChild
      /\ \A t \in Pid : IsProcess(proc[t]) /\ proc[t].parent \in Pid \cup {INIT}
  BY DEF ShellInv, TypeOK, Shaped
<1>2. /\ proc'[p] = r /\ \A t \in Pid \ {p} : proc'[t] = proc[t]
      /\ proc' = [t \in Pid |-> proc'[t]]
  BY <1>1 DEF Shaped
<1>3. \A t \in Pid : proc'[t].parent = proc[t].parent
  BY <1>2
<1>4. Shaped'
  BY <1>1, <1>2 DEF Shaped
<1>5. TypeOK' /\ ParentInv'
  <2>1. r.st \in States /\ r.st \notin {"free", "zombie"}
    BY DEF States
  <2> QED
    BY <1>1, <1>2, <1>3, <2>1 DEF TypeOK, ParentInv
<1>6. WaiterHasChild'
  BY <1>1, <1>2, <1>3 DEF WaiterHasChild
<1>7. ASSUME ChainInv PROVE ChainInv'
  <2>1. \A t \in Pid : Active(t)' => Active(t)
    BY <1>2 DEF Active
  <2>2. \A t \in Pid : proc'[t].st # "nohang"
    BY <1>2, <1>7 DEF ChainInv
  <2>3. ASSUME NEW t \in Pid, proc'[t].parent # INIT
        PROVE  /\ proc'[proc'[t].parent].st = "waiting"
               /\ proc'[proc'[t].parent].child = t
    <3>1. PICK u \in Pid : u = proc[t].parent
      BY <1>1, <1>3, <2>3
    <3>2. proc[u].st = "waiting" /\ proc[u].child = t
      BY <1>3, <1>7, <2>3, <3>1 DEF ChainInv
    <3> QED
      BY <1>2, <1>3, <3>1, <3>2
  <2> QED
    BY <1>7, <2>1, <2>2, <2>3 DEF ChainInv
<1> QED
  BY <1>4, <1>5, <1>6, <1>7 DEF ShellInv

LEMMA ReadAgainFields ==
    ASSUME ShellInv, NEW p \in Pid
    PROVE  /\ IsProcess(ReadAgain(p)) /\ ReadAgain(p).st = "reading"
           /\ ReadAgain(p).parent = proc[p].parent
           /\ DOMAIN ReadAgain(p).args = 1 .. NumArgs
<1>1. ReadAgain(p) = [st |-> "reading", parent |-> proc[p].parent,
                      args |-> proc[p].args, cmd |-> NoCommand, child |-> NULL]
  <2>1. PICK r : r = [Free EXCEPT !.st = "reading", !.parent = proc[p].parent]
    OBVIOUS
  <2>2. r = [st |-> "reading", parent |-> proc[p].parent, args |-> EmptyArgs,
             cmd |-> NoCommand, child |-> NULL]
    BY <2>1 DEF Free
  <2>3. ReadAgain(p) = [r EXCEPT !.args = proc[p].args]
    BY <2>1 DEF ReadAgain
  <2> QED
    BY <2>2, <2>3
<1>2. IsProcess(ReadAgain(p))
  BY <1>1 DEF IsProcess
<1>3. /\ ReadAgain(p).st = "reading" /\ ReadAgain(p).parent = proc[p].parent
      /\ ReadAgain(p).args = proc[p].args
  BY <1>1
<1> QED
  BY <1>2, <1>3 DEF ShellInv, TypeOK

(* A shell reaps a child and reads again.                                  *)
LEMMA ReapStep ==
    ASSUME ShellInv, NEW p \in Pid, proc[p].st \in {"waiting", "nohang"},
           NEW q \in Zombies(p),
           proc' = [proc EXCEPT ![p] = ReadAgain(p), ![q] = Free],
           UNCHANGED ampersand
    PROVE  ShellInv'
<1>1. /\ Shaped /\ TypeOK /\ ParentInv /\ WaiterHasChild
      /\ \A t \in Pid : IsProcess(proc[t]) /\ proc[t].parent \in Pid \cup {INIT}
  BY DEF ShellInv, TypeOK, Shaped
<1>2. q \in Pid /\ q # p /\ proc[q].st = "zombie" /\ proc[q].parent = p
  BY DEF Zombies
<1>3. /\ proc'[p] = ReadAgain(p) /\ proc'[q] = Free
      /\ \A t \in Pid \ {p, q} : proc'[t] = proc[t]
      /\ proc' = [t \in Pid |-> proc'[t]]
  BY <1>1, <1>2 DEF Shaped
<1>4. /\ IsProcess(proc'[p]) /\ proc'[p].st = "reading"
      /\ proc'[p].parent = proc[p].parent /\ DOMAIN proc'[p].args = 1 .. NumArgs
  BY <1>3, ReadAgainFields
<1>5. \A t \in Pid : proc[t].parent # q
  BY <1>1, <1>2, ShellAssumption DEF ParentInv
<1>6. \A t \in Pid : proc'[t].parent = IF t = q THEN INIT ELSE proc[t].parent
  BY <1>3, <1>4, FreeFields
<1>7. Shaped'
  BY <1>1, <1>3, <1>4, FreeFields DEF Shaped
<1>8. ASSUME NEW t \in Pid, proc'[t].parent # INIT
      PROVE  /\ proc'[t].parent = proc[t].parent
             /\ proc'[t].parent # t
             /\ proc'[proc'[t].parent].st \notin {"free", "zombie"}
  <2>1. proc'[t].parent = proc[t].parent /\ proc[t].parent # INIT
    BY <1>6, <1>8
  <2>2. PICK u \in Pid : u = proc[t].parent
    BY <1>1, <2>1
  <2>3. u # t /\ proc[u].st \notin {"free", "zombie"} /\ u # q
    BY <1>1, <1>5, <2>1, <2>2 DEF ParentInv
  <2>4. proc'[u].st \notin {"free", "zombie"}
    BY <1>3, <1>4, <2>3
  <2> QED
    BY <2>1, <2>2, <2>3, <2>4
<1>9. TypeOK' /\ ParentInv'
  <2>1. ASSUME NEW t \in Pid
        PROVE  /\ proc'[t].st \in States
               /\ proc'[t].parent \in Pid \cup {INIT}
               /\ DOMAIN proc'[t].args = 1 .. NumArgs
               /\ proc'[t].st = "free" => proc'[t] = Free
    BY <1>1, <1>3, <1>4, <1>6, FreeFields DEF TypeOK, States
  <2> QED
    BY <1>8, <2>1 DEF TypeOK, ParentInv
<1>10. WaiterHasChild'
  <2> SUFFICES ASSUME NEW t \in Pid, proc'[t].st = "waiting"
               PROVE  \E u \in Pid : proc'[u].parent = t
    BY DEF WaiterHasChild
  <2>1. t # p /\ t # q /\ proc[t].st = "waiting"
    BY <1>3, <1>4, FreeFields
  <2>2. PICK u \in Pid : proc[u].parent = t
    BY <1>1, <2>1 DEF WaiterHasChild
  <2> QED
    BY <1>2, <1>6, <2>1, <2>2
<1>11. ASSUME ChainInv PROVE ChainInv'
  <2>1. ASSUME NEW t \in Pid, Active(t)' PROVE t = p
    <3>1. t # q
      BY <1>3, <2>1, FreeFields DEF Active
    <3>2. Active(q)
      BY <1>2 DEF Active
    <3> QED
      BY <1>2, <1>3, <1>11, <2>1, <3>1, <3>2 DEF ChainInv, Active
  <2>2. \A t \in Pid : proc'[t].st # "nohang"
    BY <1>3, <1>4, <1>11, FreeFields DEF ChainInv
  <2>3. proc[p].child = q
    BY <1>2, <1>11, ShellAssumption DEF ChainInv
  <2>4. ASSUME NEW t \in Pid, proc'[t].parent # INIT
        PROVE  /\ proc'[proc'[t].parent].st = "waiting"
               /\ proc'[proc'[t].parent].child = t
    <3>1. PICK u \in Pid : u = proc[t].parent /\ u = proc'[t].parent
      BY <1>1, <1>8, <2>4
    <3>2. proc[u].st = "waiting" /\ proc[u].child = t
      BY <1>11, <2>4, <3>1, ZenonT(40) DEF ChainInv
    <3>3. u # p /\ u # q
      BY <1>5, <1>6, <2>3, <2>4, <3>1, <3>2
    <3> QED
      BY <1>3, <3>1, <3>2, <3>3
  <2> QED
    BY <2>1, <2>2, <2>4 DEF ChainInv
<1> QED
  BY <1>7, <1>9, <1>10, <1>11 DEF ShellInv

(* A shell starts a command.                                               *)
LEMMA ForkStep ==
    ASSUME ShellInv, NEW p \in Pid, proc[p].st = "reading",
           NEW c \in Pid, proc[c].st = "free",
           NEW shell, IsProcess(shell), DOMAIN shell.args = 1 .. NumArgs,
           NEW state \in {"nohang", "waiting"}, Fork(p, c, shell, state),
           ~ampersand' => ~ampersand /\ state = "waiting"
    PROVE  ShellInv'
<1>1. /\ Shaped /\ TypeOK /\ ParentInv /\ WaiterHasChild
      /\ \A t \in Pid : IsProcess(proc[t]) /\ proc[t].parent \in Pid \cup {INIT}
  BY DEF ShellInv, TypeOK, Shaped
<1>2. p # c /\ proc[c].parent = INIT /\ \A t \in Pid : proc[t].parent # c
  BY FreeSlot
<1>3. PICK r : r = [proc[p] EXCEPT !.st = state, !.args = shell.args, !.child = c]
  OBVIOUS
<1>4. /\ IsProcess(r) /\ r.st = state /\ r.parent = proc[p].parent
      /\ DOMAIN r.args = 1 .. NumArgs /\ r.child = c
  <2>1. r = [st |-> state, parent |-> proc[p].parent, args |-> shell.args,
             cmd |-> proc[p].cmd, child |-> c]
    <3>1. proc[p] = [st |-> proc[p].st, parent |-> proc[p].parent,
                     args |-> proc[p].args, cmd |-> proc[p].cmd,
                     child |-> proc[p].child]
      BY <1>1 DEF IsProcess
    <3>2. PICK r1 : r1 = [proc[p] EXCEPT !.st = state, !.args = shell.args]
      OBVIOUS
    <3>3. r1 = [st |-> state, parent |-> proc[p].parent, args |-> shell.args,
                cmd |-> proc[p].cmd, child |-> proc[p].child]
      BY <3>1, <3>2
    <3>4. r = [r1 EXCEPT !.child = c]
      BY <1>3, <3>2
    <3> QED
      BY <3>3, <3>4
  <2> QED
    BY <2>1 DEF IsProcess
<1>5. PICK d : d = [shell EXCEPT !.st = "forked", !.parent = p]
  OBVIOUS
<1>6. /\ IsProcess(d) /\ d.st = "forked" /\ d.parent = p
      /\ DOMAIN d.args = 1 .. NumArgs
  <2>1. d = [st |-> "forked", parent |-> p, args |-> shell.args,
             cmd |-> shell.cmd, child |-> shell.child]
    BY <1>5 DEF IsProcess
  <2> QED
    BY <2>1 DEF IsProcess
<1>7. /\ proc'[p] = r /\ proc'[c] = d
      /\ \A t \in Pid \ {p, c} : proc'[t] = proc[t]
      /\ proc' = [t \in Pid |-> proc'[t]]
  BY <1>1, <1>2, <1>3, <1>5 DEF Shaped, Fork
<1>8. Shaped'
  BY <1>1, <1>4, <1>6, <1>7 DEF Shaped
<1>9. \A t \in Pid : proc'[t].parent = IF t = c THEN p ELSE proc[t].parent
  BY <1>4, <1>6, <1>7
<1>10. ASSUME NEW t \in Pid, proc'[t].parent # INIT
       PROVE  /\ proc'[t].parent # t
              /\ proc'[proc'[t].parent].st \notin {"free", "zombie"}
  <2>1. CASE t = c
    BY <1>2, <1>4, <1>7, <1>9, <2>1
  <2>2. CASE t # c
    <3>1. PICK u \in Pid : u = proc[t].parent /\ u = proc'[t].parent
      BY <1>1, <1>9, <1>10, <2>2
    <3>2. u # t /\ proc[u].st \notin {"free", "zombie"} /\ u # c
      BY <1>1, <1>2, <1>9, <1>10, <3>1 DEF ParentInv
    <3> QED
      BY <1>4, <1>7, <3>1, <3>2
  <2> QED
    BY <2>1, <2>2
<1>11. TypeOK' /\ ParentInv'
  <2>1. ASSUME NEW t \in Pid
        PROVE  /\ proc'[t].st \in States
               /\ proc'[t].parent \in Pid \cup {INIT}
               /\ DOMAIN proc'[t].args = 1 .. NumArgs
               /\ proc'[t].st = "free" => proc'[t] = Free
    BY <1>1, <1>4, <1>6, <1>7, <1>9 DEF TypeOK, States
  <2> QED
    BY <1>10, <2>1 DEF TypeOK, ParentInv
<1>12. WaiterHasChild'
  <2> SUFFICES ASSUME NEW t \in Pid, proc'[t].st = "waiting"
               PROVE  \E u \in Pid : proc'[u].parent = t
    BY DEF WaiterHasChild
  <2>1. CASE t = p
    BY <1>9, <2>1
  <2>2. CASE t # p
    <3>1. proc[t].st = "waiting"
      BY <1>6, <1>7, <2>2
    <3>2. PICK u \in Pid : proc[u].parent = t
      BY <1>1, <3>1 DEF WaiterHasChild
    <3>3. u # c
      BY <1>2, <3>2, ShellAssumption
    <3> QED
      BY <1>9, <3>2, <3>3
  <2> QED
    BY <2>1, <2>2
<1>13. ASSUME ChainInv, state = "waiting" PROVE ChainInv'
  <2>1. ASSUME NEW t \in Pid, Active(t)' PROVE t = c
    <3>1. t # p
      BY <1>4, <1>7, <1>13, <2>1 DEF Active
    <3>2. Active(p)
      BY DEF Active
    <3> QED
      BY <1>7, <1>13, <2>1, <3>1, <3>2 DEF ChainInv, Active
  <2>2. \A t \in Pid : proc'[t].st # "nohang"
    BY <1>4, <1>6, <1>7, <1>13 DEF ChainInv
  <2>3. ASSUME NEW t \in Pid, proc'[t].parent # INIT
        PROVE  /\ proc'[proc'[t].parent].st = "waiting"
               /\ proc'[proc'[t].parent].child = t
    <3>1. CASE t = c
      BY <1>4, <1>7, <1>9, <1>13, <3>1
    <3>2. CASE t # c
      <4>1. PICK u \in Pid : u = proc[t].parent /\ u = proc'[t].parent
        BY <1>1, <1>9, <2>3, <3>2
      <4>2. proc[u].st = "waiting" /\ proc[u].child = t
        BY <1>9, <1>13, <2>3, <4>1, ZenonT(40) DEF ChainInv
      <4>3. u # p /\ u # c
        BY <4>2
      <4> QED
        BY <1>7, <4>1, <4>2, <4>3
    <3> QED
      BY <3>1, <3>2
  <2> QED
    BY <2>1, <2>2, <2>3 DEF ChainInv
<1> QED
  BY <1>8, <1>11, <1>12, <1>13 DEF ShellInv

-----------------------------------------------------------------------------
(* The actions of the shell and of its children.                           *)
LEMMA GetLineLength ==
    ASSUME NEW args, NEW line
    PROVE  DOMAIN get_line(args, line) = 1 .. NumArgs
BY DEF get_line

LEMMA ArgsStep ==
    ASSUME ShellInv, NEW p \in Pid, proc[p].st # "free",
           NEW args, DOMAIN args = 1 .. NumArgs,
           proc' = [proc EXCEPT ![p].args = args], ~ampersand' => ~ampersand
    PROVE  ShellInv'
<1>1. /\ Shaped /\ \A t \in Pid : IsProcess(proc[t])
      /\ \A t \in Pid : DOMAIN proc[t].args = 1 .. NumArgs
  BY DEF ShellInv, Shaped, TypeOK
<1>2. PICK r : r = [proc[p] EXCEPT !.args = args]
  OBVIOUS
<1>3. r = [st |-> proc[p].st, parent |-> proc[p].parent, args |-> args,
           cmd |-> proc[p].cmd, child |-> proc[p].child]
  <2>1. proc[p] = [st |-> proc[p].st, parent |-> proc[p].parent,
                   args |-> proc[p].args, cmd |-> proc[p].cmd,
                   child |-> proc[p].child]
    BY <1>1 DEF IsProcess
  <2> QED
    BY <1>2, <2>1
<1>4. /\ IsProcess(r) /\ r.st = proc[p].st /\ r.parent = proc[p].parent
      /\ r.child = proc[p].child /\ r.args = args
  BY <1>3 DEF IsProcess
<1>5. /\ proc'[p] = r /\ \A t \in Pid \ {p} : proc'[t] = proc[t]
      /\ proc' = [t \in Pid |-> proc'[t]]
  BY <1>1, <1>2 DEF Shaped
<1>6. Shaped'
  BY <1>1, <1>4, <1>5 DEF Shaped
<1> QED
  BY <1>1, <1>4, <1>5, <1>6, SameProcesses

LEMMA CommandStep ==
    ASSUME ShellInv, NEW p \in Pid, NEW line \in Lines, Command(p, line)
    PROVE  ShellInv'
<1>1. PICK args : args = get_line(proc[p].args, line)
  OBVIOUS
<1>2. PICK cmd : cmd = parse(args)
  OBVIOUS
<1>3. PICK shell : shell = [proc[p] EXCEPT !.args = args, !.cmd = cmd]
  OBVIOUS
<1>4. /\ proc[p].st = "reading"
      /\ ampersand' = (ampersand \/ cmd.background)
      /\ \/ proc' = [proc EXCEPT ![p].args = args]
         \/ proc' = Ended(p)
         \/ execute(p, shell)
  BY <1>1, <1>2, <1>3, Zenon DEF Command
<1>5. DOMAIN args = 1 .. NumArgs
  BY <1>1, GetLineLength
<1>6. IsProcess(shell) /\ shell.args = args /\ shell.cmd = cmd
  <2>1. proc[p] = [st |-> proc[p].st, parent |-> proc[p].parent,
                   args |-> proc[p].args, cmd |-> proc[p].cmd,
                   child |-> proc[p].child]
    BY DEF ShellInv, Shaped, IsProcess
  <2>2. shell = [st |-> proc[p].st, parent |-> proc[p].parent, args |-> args,
                 cmd |-> cmd, child |-> proc[p].child]
    BY <1>3, <2>1
  <2> QED
    BY <2>2 DEF IsProcess
<1>7. CASE proc' = [proc EXCEPT ![p].args = args]
  BY <1>4, <1>5, <1>7, ArgsStep
<1>8. CASE proc' = Ended(p)
  BY <1>4, <1>8, EndedStep
<1>9. CASE execute(p, shell)
  <2>1. CASE proc' = [proc EXCEPT ![p].args = shell.args]
    BY <1>4, <1>5, <1>6, <2>1, ArgsStep
  <2>2. ASSUME NEW c \in Pid, proc[c].st = "free",
               Fork(p, c, shell, IF shell.cmd.background THEN "nohang" ELSE "waiting")
        PROVE  ShellInv'
    <3>1. PICK state \in {"nohang", "waiting"} :
            /\ state = IF shell.cmd.background THEN "nohang" ELSE "waiting"
            /\ ~cmd.background => state = "waiting"
      BY <1>6
    <3>2. Fork(p, c, shell, state)
      BY <2>2, <3>1
    <3>3. ~ampersand' => ~ampersand /\ state = "waiting"
      BY <1>4, <3>1
    <3> QED
      BY <1>4, <1>5, <1>6, <2>2, <3>2, <3>3, ForkStep
  <2> QED
    BY <1>9, <2>1, <2>2 DEF execute
<1> QED
  BY <1>4, <1>7, <1>8, <1>9

LEMMA WaitStep ==
    ASSUME ShellInv, NEW p \in Pid, wait(p) \/ waitpid(p), UNCHANGED ampersand
    PROVE  ShellInv'
<1>1. CASE \E q \in Zombies(p) :
             /\ proc[p].st \in {"waiting", "nohang"}
             /\ proc' = [proc EXCEPT ![p] = ReadAgain(p), ![q] = Free]
  BY <1>1, ReapStep
<1>2. CASE proc[p].st = "nohang" /\ proc' = [proc EXCEPT ![p] = ReadAgain(p)]
  BY <1>2, ReadAgainFields, GoesOnStep
<1> QED
  BY <1>1, <1>2 DEF wait, waitpid

LEMMA ChildStep ==
    ASSUME ShellInv, NEW p \in Pid, Child(p), UNCHANGED ampersand
    PROVE  ShellInv'
<1>1. PICK r : /\ proc[p].st = "forked"
               /\ \/ r = [Free EXCEPT !.st = "program", !.parent = proc[p].parent]
                  \/ r = ReadAgain(p)
               /\ proc' = [proc EXCEPT ![p] = r]
  BY Zenon DEF Child
<1>2. CASE r = [Free EXCEPT !.st = "program", !.parent = proc[p].parent]
  <2>1. r = [st |-> "program", parent |-> proc[p].parent,
             args |-> EmptyArgs, cmd |-> NoCommand, child |-> NULL]
    BY <1>2 DEF Free
  <2>2. IsProcess(r)
    BY <2>1 DEF IsProcess
  <2>3. r.st = "program" /\ r.parent = proc[p].parent
        /\ DOMAIN r.args = 1 .. NumArgs
    BY <2>1 DEF EmptyArgs
  <2> QED
    BY <1>1, <2>2, <2>3, GoesOnStep
<1>3. CASE r = ReadAgain(p)
  BY <1>1, <1>3, ReadAgainFields, GoesOnStep
<1> QED
  BY <1>1, <1>2, <1>3

LEMMA InitShell == Init => ShellInv
<1> SUFFICES ASSUME Init PROVE ShellInv
  OBVIOUS
<1>1. ASSUME NEW p \in Pid
      PROVE  /\ IsProcess(proc[p]) /\ proc[p].parent = INIT
             /\ DOMAIN proc[p].args = 1 .. NumArgs
             /\ proc[p].st = IF p = FirstShell THEN "reading" ELSE "free"
             /\ p # FirstShell => proc[p] = Free
  <2>1. CASE p # FirstShell
    BY <2>1, FreeFields DEF Init
  <2>2. CASE p = FirstShell
    <3>1. proc[p] = [st |-> "reading", parent |-> INIT, args |-> EmptyArgs,
                     cmd |-> NoCommand, child |-> NULL]
      BY <2>2 DEF Init, Free
    <3>2. IsProcess(proc[p])
      BY <3>1 DEF IsProcess
    <3> QED
      BY <2>2, <3>1, <3>2 DEF EmptyArgs
  <2> QED
    BY <2>1, <2>2
<1>2. Shaped
  BY <1>1 DEF Init, Shaped
<1>3. TypeOK /\ ParentInv /\ WaiterHasChild
  BY <1>1 DEF TypeOK, ParentInv, WaiterHasChild, States
<1>4. ChainInv
  BY <1>1 DEF ChainInv, Active
<1> QED
  BY <1>2, <1>3, <1>4 DEF ShellInv

LEMMA NextShell == ShellInv /\ [Next]_vars => ShellInv'
<1> SUFFICES ASSUME ShellInv, [Next]_vars PROVE ShellInv'
  OBVIOUS
<1>1. ASSUME NEW p \in Pid, NEW line \in Lines, Command(p, line)
      PROVE  ShellInv'
  BY <1>1, CommandStep
<1>2. ASSUME NEW p \in Pid, EndOfInput(p) \/ ProgramExit(p), UNCHANGED ampersand
      PROVE  ShellInv'
  BY <1>2, EndedStep DEF EndOfInput, ProgramExit
<1>3. ASSUME NEW p \in Pid, wait(p) \/ waitpid(p) \/ Child(p), UNCHANGED ampersand
      PROVE  ShellInv'
  BY <1>3, WaitStep, ChildStep
<1>4. CASE UNCHANGED vars
  <2>1. \A t \in Pid : DOMAIN proc[t].args = 1 .. NumArgs
    BY DEF ShellInv, TypeOK
  <2>2. Shaped' /\ proc' = proc /\ ampersand' = ampersand
    BY <1>4 DEF ShellInv, Shaped, vars
  <2> QED
    BY <2>1, <2>2, SameProcesses
<1> QED
  BY <1>1, <1>2, <1>3, <1>4 DEF Next, Terminated

-----------------------------------------------------------------------------
(* The process table of the shells stays a forest of well-formed entries,  *)
(* and a chain as long as no background command was given, whatever lines  *)
(* are read, whichever children fall back into main's loop and whoever     *)
(* ends first.                                                             *)
THEOREM ProcessesSound == Spec => []ShellInv
BY InitShell, NextShell, PTL DEF Spec

(* Type correctness; in particular _args keeps its length, and no process  *)
(* has a parent whose slot is free.                                        *)
THEOREM ShellTypes == Spec => []TypeOK
<1>1. ShellInv => TypeOK
  BY DEF ShellInv
<1> QED
  BY <1>1, ProcessesSound, PTL

(* A shell in the foreground wait() has a child to wait for, so the call   *)
(* returns when that child ends; and as long as no background command is   *)
(* given one process reads commands at a time, although a child whose exec *)
(* fails returns from execute() into its own main loop.                    *)
THEOREM ShellsTakeTurns == Spec => []TakeTurns
<1>1. ShellInv => TakeTurns
  <2> SUFFICES ASSUME ShellInv PROVE TakeTurns
    OBVIOUS
  <2>1. WaiterHasChild
    BY DEF ShellInv
  <2>2. OneReader
    <3> DEFINE Readers == {p \in Pid : proc[p].st = "reading"}
    <3> SUFFICES ASSUME ~ampersand PROVE Cardinality(Readers) <= 1
      BY DEF OneReader
    <3>1. \A p, q \in Readers : p = q
      BY DEF ShellInv, ChainInv, Active
    <3>2. CASE Readers = {}
      BY <3>2, FS_EmptySet
    <3>3. CASE Readers # {}
      <4>1. PICK p : Readers = {p}
        BY <3>1, <3>3
      <4>2. Cardinality({p}) = 1
        BY FS_Singleton
      <4> HIDE DEF Readers
      <4> QED
        BY <4>1, <4>2
    <3> QED
      BY <3>2, <3>3
  <2> QED
    BY <2>1, <2>2 DEF TakeTurns
<1> QED
  BY <1>1, ProcessesSound, PTL

(* As long as no background command is given, a shell goes on after a      *)
(* command only when the process of that command has ended.                *)
THEOREM ForegroundSafe == Spec => ForegroundWaits
<1> DEFINE Waits == ~ampersand =>
              \A p \in Pid :
                  proc[p].st = "waiting" /\ proc'[p].st = "reading" =>
                      proc[proc[p].child].st = "zombie"
<1>1. ShellInv /\ [Next]_vars => [Waits]_vars
  <2> SUFFICES ASSUME ShellInv, Next, ~ampersand, NEW p \in Pid,
                      proc[p].st = "waiting", proc'[p].st = "reading"
               PROVE  proc[proc[p].child].st = "zombie"
    OBVIOUS
  <2>1. ASSUME NEW r \in Pid, r # p, NEW x, proc' = [proc EXCEPT ![r] = x]
        PROVE  FALSE
    BY <2>1 DEF ShellInv, Shaped
  <2>2. ASSUME NEW r \in Pid, proc' = Ended(r), proc[r].st # "waiting"
        PROVE  FALSE
    <3>1. p # r
      BY <2>2
    <3>2. proc'[p] = IF proc[p].parent = r
                     THEN [proc[p] EXCEPT !.parent = INIT] ELSE proc[p]
      BY <2>2, <3>1 DEF Ended
    <3>3. IsProcess(proc[p])
      BY DEF ShellInv, Shaped
    <3>4. proc'[p].st = proc[p].st
      BY <3>2, <3>3 DEF IsProcess
    <3> QED
      BY <3>4
  <2>3. ASSUME NEW r \in Pid, NEW q \in Zombies(r),
               proc' = [proc EXCEPT ![r] = ReadAgain(r), ![q] = Free]
        PROVE  r = p
    BY <2>3 DEF ShellInv, Shaped, Zombies
  <2>4. ASSUME NEW r \in Pid, NEW line \in Lines, Command(r, line)
        PROVE  FALSE
    <3>1. proc[r].st = "reading"
      BY <2>4 DEF Command
    <3>2. PICK shell :
            \/ \E args : proc' = [proc EXCEPT ![r].args = args]
            \/ proc' = Ended(r)
            \/ \E c \in Pid : \E state : proc[c].st = "free" /\ Fork(r, c, shell, state)
      BY <2>4, Zenon DEF Command, execute
    <3>3. ASSUME NEW args, proc' = [proc EXCEPT ![r].args = args]
          PROVE  FALSE
      BY <3>1, <3>3 DEF ShellInv, Shaped
    <3>4. ASSUME NEW c \in Pid, NEW state, proc[c].st = "free",
                 Fork(r, c, shell, state)
          PROVE  FALSE
      BY <3>1, <3>4 DEF ShellInv, Shaped, Fork
    <3> QED
      BY <2>2, <3>1, <3>2, <3>3, <3>4
  <2>5. PICK q \in Zombies(p) : proc' = [proc EXCEPT ![p] = ReadAgain(p), ![q] = Free]
    <3>1. PICK r \in Pid : \/ EndOfInput(r) \/ ProgramExit(r)
                           \/ wait(r) \/ waitpid(r) \/ Child(r)
      BY <2>4 DEF Next, Terminated, vars
    <3>2. ~(EndOfInput(r) \/ ProgramExit(r))
      BY <2>2 DEF EndOfInput, ProgramExit
    <3>3. ~Child(r)
      BY <2>1, Zenon DEF Child
    <3> QED
      BY <2>1, <2>3, <3>1, <3>2, <3>3 DEF wait, waitpid
  <2>6. proc[q].st = "zombie" /\ proc[q].parent = p /\ q \in Pid
    BY DEF Zombies
  <2>7. proc[p].child = q
    BY <2>6, ShellAssumption DEF ShellInv, ChainInv
  <2> QED
    BY <2>6, <2>7
<1> QED
  BY <1>1, ProcessesSound, PTL DEF Spec, ForegroundWaits

-----------------------------------------------------------------------------
(* Induction over natural numbers: a set of them has a least element.      *)
LEMMA LeastNat ==
    ASSUME NEW S \in SUBSET Nat, S # {}
    PROVE  \E x \in S : \A y \in S : x <= y
<1> DEFINE R == {ss \in Nat \X Nat : ss[1] < ss[2]}
<1>1. IsWellFoundedOn(R, Nat)
  BY NatLessThanWellFounded, Zenon DEF OpToRel
<1> HIDE DEF R
<1>2. PICK x \in S : \A y \in S : ~ (<<y, x>> \in R)
  BY <1>1, WFMin
<1>3. ASSUME NEW y \in S PROVE x <= y
  <2>1. ~ (<<y, x>> \in Nat \X Nat /\ y < x)
    BY <1>2, Zenon DEF R
  <2> QED
    BY <2>1
<1> QED
  BY <1>3

(* The loop of parse as a recursive function.                              *)
Run(args, n, g) ==
    g = [i \in 0 .. n |-> IF i = 0 THEN NoCommand ELSE ParseToken(g[i - 1], args[i])]

LEMMA RunExists ==
    ASSUME NEW args, NEW n \in Nat
    PROVE  \E g : Run(args, n, g)
<1> DEFINE T == {m \in Nat : ~ \E g : Run(args, m, g)}
<1> SUFFICES ASSUME T # {} PROVE FALSE
  OBVIOUS
<1>1. PICK m \in T : \A y \in T : m <= y
  BY LeastNat
<1>2. CASE m = 0
  <2>1. PICK g : g = [i \in 0 .. 0 |-> NoCommand]
    OBVIOUS
  <2>2. Run(args, 0, g)
    BY <2>1 DEF Run
  <2> QED
    BY <1>2, <2>2
<1>3. CASE m # 0
  <2>1. m - 1 \in Nat /\ m - 1 \notin T
    BY <1>1, <1>3
  <2>2. PICK g : Run(args, m - 1, g)
    BY <2>1
  <2>3. PICK h : h = [i \in 0 .. m |-> IF i = m THEN ParseToken(g[m - 1], args[m]) ELSE g[i]]
    OBVIOUS
  <2>4. \A i \in 0 .. m - 1 : g[i] = IF i = 0 THEN NoCommand ELSE ParseToken(g[i - 1], args[i])
    BY <2>2 DEF Run
  <2>5. ASSUME NEW i \in 0 .. m
        PROVE  h[i] = IF i = 0 THEN NoCommand ELSE ParseToken(h[i - 1], args[i])
    <3>1. CASE i = 0
      BY <1>3, <2>1, <2>3, <2>4, <3>1
    <3>2. CASE i # 0
      <4>1. i - 1 \in 0 .. m /\ i - 1 # m
        BY <3>2
      <4>2. h[i - 1] = g[i - 1]
        BY <2>3, <4>1
      <4>3. h[i] = ParseToken(g[i - 1], args[i])
        BY <2>3, <2>4, <3>2
      <4> QED
        BY <3>2, <4>2, <4>3
    <3> QED
      BY <3>1, <3>2
  <2>6. Run(args, m, h)
    BY <2>3, <2>5 DEF Run
  <2> QED
    BY <2>6
<1> QED
  BY <1>2, <1>3

LEMMA ParsedLoop ==
    ASSUME NEW args, Len(args) \in Nat
    PROVE  /\ Parsed(args)[0] = NoCommand
           /\ \A i \in 1 .. Len(args) : Parsed(args)[i] = ParseToken(Parsed(args)[i - 1], args[i])
<1>1. Parsed(args) = CHOOSE g : Run(args, Len(args), g)
  BY DEF Parsed, Run
<1>2. Run(args, Len(args), Parsed(args))
  BY <1>1, RunExists
<1>3. PICK g : g = Parsed(args)
  OBVIOUS
<1>4. \A i \in 0 .. Len(args) : g[i] = IF i = 0 THEN NoCommand ELSE ParseToken(g[i - 1], args[i])
  BY <1>2, <1>3 DEF Run
<1> QED
  BY <1>3, <1>4

-----------------------------------------------------------------------------
(* The file name after the last s of the first i - 1 tokens.               *)
FileOf(line, i, s, v) ==
    /\ (\A j \in 1 .. i - 1 : line[j] # s) => v = NULL
    /\ \A j \in 1 .. i - 1 :
          line[j] = s /\ (\A l \in 1 .. i - 1 : line[l] = s => l <= j) => v = line[j + 1]

(* The first special token of the first i, or i + 1.                       *)
FirstSpecial(line, i, f) ==
    /\ f \in 1 .. i + 1
    /\ \A j \in 1 .. f - 1 : line[j] \notin Special
    /\ f <= i => line[f] \in Special

(* What parse has found after i tokens.                                    *)
SoFar(line, i, c) ==
    /\ c = [argv |-> c.argv, in |-> c.in, out |-> c.out, background |-> c.background,
            isCommand |-> c.isCommand, next |-> c.next]
    /\ \E f \in 1 .. i + 1 : FirstSpecial(line, i, f) /\ c.argv = SubSeq(line, 1, f - 1)
    /\ FileOf(line, i, "<", c.in) /\ FileOf(line, i, ">", c.out)
    /\ c.background = \E j \in 1 .. i : line[j] = "&"
    /\ c.isCommand = \A j \in 1 .. i : line[j] \notin Special
    /\ c.next = IF i = 0 THEN "token" ELSE IF line[i] = "<" THEN "in"
                ELSE IF line[i] = ">" THEN "out" ELSE "token"

LEMMA FileKept ==
    ASSUME NEW line, NEW i \in Nat, NEW s, NEW v, FileOf(line, i, s, v),
           i = 0 \/ line[i] # s
    PROVE  FileOf(line, i + 1, s, v)
BY DEF FileOf

LEMMA FileTaken ==
    ASSUME NEW line, NEW i \in Nat \ {0}, NEW s, line[i] = s
    PROVE  FileOf(line, i + 1, s, line[i + 1])
BY DEF FileOf

LEMMA FirstKept ==
    ASSUME NEW line, NEW i \in Nat, NEW f, FirstSpecial(line, i, f),
           f <= i \/ line[i + 1] \in Special
    PROVE  FirstSpecial(line, i + 1, f)
BY DEF FirstSpecial

LEMMA FirstMoved ==
    ASSUME NEW line, NEW i \in Nat, NEW f, FirstSpecial(line, i, f),
           f > i, line[i + 1] \notin Special
    PROVE  f = i + 1 /\ FirstSpecial(line, i + 1, i + 2)
BY DEF FirstSpecial

LEMMA Words ==
    ASSUME NEW S, NEW line \in Seq(S), NEW i \in 1 .. Len(line)
    PROVE  Append(SubSeq(line, 1, i - 1), line[i]) = SubSeq(line, 1, i)
<1>1. /\ SubSeq(line, 1, i - 1) \in Seq(S) /\ Len(SubSeq(line, 1, i - 1)) = i - 1
      /\ SubSeq(line, 1, i) \in Seq(S) /\ Len(SubSeq(line, 1, i)) = i
      /\ line[i] \in S
  OBVIOUS
<1>2. /\ \A j \in 1 .. i - 1 : SubSeq(line, 1, i - 1)[j] = line[j]
      /\ \A j \in 1 .. i : SubSeq(line, 1, i)[j] = line[j]
  OBVIOUS
<1>3. PICK a \in Seq(S) : a = SubSeq(line, 1, i - 1)
  BY <1>1
<1>4. PICK b \in Seq(S) : b = SubSeq(line, 1, i)
  BY <1>1
<1>5. Append(a, line[i]) \in Seq(S) /\ Len(Append(a, line[i])) = i
  BY <1>1, <1>3
<1>6. ASSUME NEW j \in 1 .. i PROVE Append(a, line[i])[j] = b[j]
  BY <1>1, <1>2, <1>3, <1>4
<1>7. Append(a, line[i]) = b
  BY <1>1, <1>4, <1>5, <1>6, SeqEqual
<1> QED
  BY <1>3, <1>4, <1>7

(* One turn of the loop on a word, a file name, or a special token.        *)
LEMMA TurnFound ==
    ASSUME NEW line \in Seq(STRING \ {NULL}), WellFormed(line),
           NEW i \in 0 .. Len(line) - 1, NEW c, SoFar(line, i, c)
    PROVE  SoFar(line, i + 1, ParseToken(c, line[i + 1]))
<1>1. PICK a : a = line[i + 1]
  OBVIOUS
<1>2. PICK c2 : c2 = ParseToken(c, a)
  OBVIOUS
<1>3. /\ i \in Nat /\ i + 1 \in DOMAIN line /\ a # NULL
      /\ i # 0 /\ line[i] \in {"<", ">"} => a \notin Special
  <2>1. i # 0 => i \in DOMAIN line
    OBVIOUS
  <2> QED
    BY <1>1, <2>1 DEF WellFormed
<1>4. PICK f \in 1 .. i + 1 : FirstSpecial(line, i, f) /\ c.argv = SubSeq(line, 1, f - 1)
  BY DEF SoFar
<1>5. /\ c = [argv |-> c.argv, in |-> c.in, out |-> c.out, background |-> c.background,
              isCommand |-> c.isCommand, next |-> c.next]
      /\ FileOf(line, i, "<", c.in) /\ FileOf(line, i, ">", c.out)
      /\ c.background = \E j \in 1 .. i : line[j] = "&"
      /\ c.isCommand = \A j \in 1 .. i : line[j] \notin Special
      /\ c.next = IF i = 0 THEN "token" ELSE IF line[i] = "<" THEN "in"
                  ELSE IF line[i] = ">" THEN "out" ELSE "token"
  BY DEF SoFar
<1>6. /\ (\E j \in 1 .. i + 1 : line[j] = "&") <=> (\E j \in 1 .. i : line[j] = "&") \/ a = "&"
      /\ (\A j \in 1 .. i + 1 : line[j] \notin Special)
           <=> (\A j \in 1 .. i : line[j] \notin Special) /\ a \notin Special
  BY <1>1, <1>3
<1>7. c.isCommand <=> f > i
  BY <1>3, <1>4, <1>5 DEF FirstSpecial
<1>8. c.isCommand \in BOOLEAN /\ c.background \in BOOLEAN
  BY <1>5
<1>9. CASE c.next = "in"
  <2>1. i # 0 /\ line[i] = "<" /\ a \notin Special
    BY <1>3, <1>5, <1>9
  <2>2. c2 = [argv |-> c.argv, in |-> a, out |-> c.out, background |-> c.background,
              isCommand |-> c.isCommand, next |-> "token"]
    BY <1>2, <1>5, <1>9 DEF ParseToken
  <2>3. FileOf(line, i + 1, "<", a) /\ FileOf(line, i + 1, ">", c.out)
    BY <1>1, <1>3, <1>5, <2>1, FileKept, FileTaken
  <2>4. FirstSpecial(line, i + 1, f) /\ f \in 1 .. (i + 1) + 1
    <3>1. f <= i
      BY <1>3, <1>4, <2>1 DEF FirstSpecial, Special
    <3> QED
      BY <1>3, <1>4, <3>1, FirstKept
  <2>5. c2.background = (\E j \in 1 .. i + 1 : line[j] = "&")
        /\ c2.isCommand = \A j \in 1 .. i + 1 : line[j] \notin Special
    BY <1>5, <1>6, <2>1, <2>2 DEF Special
  <2>6. c2.next = "token" /\ line[i + 1] \notin {"<", ">"} /\ i + 1 # 0
    BY <1>1, <2>1, <2>2 DEF Special
  <2>7. /\ c2 = [argv |-> c2.argv, in |-> c2.in, out |-> c2.out,
                 background |-> c2.background, isCommand |-> c2.isCommand, next |-> c2.next]
        /\ c2.argv = c.argv /\ c2.in = a /\ c2.out = c.out
    BY <2>2
  <2> QED
    BY <1>1, <1>2, <1>4, <2>3, <2>4, <2>5, <2>6, <2>7 DEF SoFar
<1>10. CASE c.next = "out"
  <2>1. i # 0 /\ line[i] = ">" /\ a \notin Special
    BY <1>3, <1>5, <1>10
  <2>2. c2 = [argv |-> c.argv, in |-> c.in, out |-> a, background |-> c.background,
              isCommand |-> c.isCommand, next |-> "token"]
    BY <1>2, <1>5, <1>10 DEF ParseToken
  <2>3. FileOf(line, i + 1, ">", a) /\ FileOf(line, i + 1, "<", c.in)
    BY <1>1, <1>3, <1>5, <2>1, FileKept, FileTaken
  <2>4. FirstSpecial(line, i + 1, f) /\ f \in 1 .. (i + 1) + 1
    <3>1. f <= i
      BY <1>3, <1>4, <2>1 DEF FirstSpecial, Special
    <3> QED
      BY <1>3, <1>4, <3>1, FirstKept
  <2>5. c2.background = (\E j \in 1 .. i + 1 : line[j] = "&")
        /\ c2.isCommand = \A j \in 1 .. i + 1 : line[j] \notin Special
    BY <1>5, <1>6, <2>1, <2>2 DEF Special
  <2>6. c2.next = "token" /\ line[i + 1] \notin {"<", ">"} /\ i + 1 # 0
    BY <1>1, <2>1, <2>2 DEF Special
  <2>7. /\ c2 = [argv |-> c2.argv, in |-> c2.in, out |-> c2.out,
                 background |-> c2.background, isCommand |-> c2.isCommand, next |-> c2.next]
        /\ c2.argv = c.argv /\ c2.in = c.in /\ c2.out = a
    BY <2>2
  <2> QED
    BY <1>1, <1>2, <1>4, <2>3, <2>4, <2>5, <2>6, <2>7 DEF SoFar
<1>11. CASE c.next = "token"
  <2>1. i = 0 \/ line[i] \notin {"<", ">"}
    BY <1>5, <1>11
  <2>2. FileOf(line, i + 1, "<", c.in) /\ FileOf(line, i + 1, ">", c.out)
    BY <1>3, <1>5, <2>1, FileKept
  <2>3. CASE a \in Special
    <3>1. c2 = [argv |-> c.argv, in |-> c.in, out |-> c.out,
                background |-> IF a = "&" THEN TRUE ELSE c.background,
                isCommand |-> FALSE,
                next |-> IF a = "<" THEN "in" ELSE IF a = ">" THEN "out" ELSE "token"]
      BY <1>2, <1>3, <1>5, <1>11, <2>3 DEF ParseToken, Special
    <3>2. FirstSpecial(line, i + 1, f) /\ f \in 1 .. (i + 1) + 1
      BY <1>1, <1>3, <1>4, <2>3, FirstKept
    <3>3. c2.background = (\E j \in 1 .. i + 1 : line[j] = "&")
          /\ c2.isCommand = \A j \in 1 .. i + 1 : line[j] \notin Special
      BY <1>5, <1>6, <2>3, <3>1
    <3>4. c2.next = IF a = "<" THEN "in" ELSE IF a = ">" THEN "out" ELSE "token"
      BY <3>1
    <3>5. /\ c2 = [argv |-> c2.argv, in |-> c2.in, out |-> c2.out,
                   background |-> c2.background, isCommand |-> c2.isCommand, next |-> c2.next]
          /\ c2.argv = c.argv /\ c2.in = c.in /\ c2.out = c.out
      BY <3>1
    <3> QED
      BY <1>1, <1>2, <1>3, <1>4, <2>2, <3>2, <3>3, <3>4, <3>5, SMTT(30) DEF SoFar
  <2>4. CASE a \notin Special
    <3>1. c2 = [argv |-> IF c.isCommand THEN Append(c.argv, a) ELSE c.argv,
                in |-> c.in, out |-> c.out, background |-> c.background,
                isCommand |-> c.isCommand, next |-> "token"]
      BY <1>2, <1>3, <1>5, <1>11, <2>4 DEF ParseToken, Special
    <3>2. c2.background = (\E j \in 1 .. i + 1 : line[j] = "&")
          /\ c2.isCommand = \A j \in 1 .. i + 1 : line[j] \notin Special
      BY <1>5, <1>6, <2>4, <3>1 DEF Special
    <3>3. \E g \in 1 .. (i + 1) + 1 :
             FirstSpecial(line, i + 1, g) /\ c2.argv = SubSeq(line, 1, g - 1)
      <4>1. CASE c.isCommand
        <5>1. f = i + 1 /\ FirstSpecial(line, i + 1, i + 2)
          BY <1>1, <1>3, <1>4, <1>7, <2>4, <4>1, FirstMoved
        <5>2. c2.argv = Append(SubSeq(line, 1, (i + 1) - 1), line[i + 1])
          BY <1>1, <1>4, <3>1, <4>1, <5>1
        <5>3. c2.argv = SubSeq(line, 1, (i + 2) - 1)
          BY <1>3, <5>2, Words
        <5> QED
          BY <5>1, <5>3
      <4>2. CASE ~c.isCommand
        <5>1. FirstSpecial(line, i + 1, f)
          BY <1>3, <1>4, <1>7, <4>2, FirstKept
        <5> QED
          BY <1>4, <3>1, <4>2, <5>1
      <4> QED
        BY <4>1, <4>2
    <3>4. c2.next = "token" /\ line[i + 1] \notin {"<", ">"} /\ i + 1 # 0
      BY <1>1, <2>4, <3>1 DEF Special
    <3>5. /\ c2 = [argv |-> c2.argv, in |-> c2.in, out |-> c2.out,
                   background |-> c2.background, isCommand |-> c2.isCommand, next |-> c2.next]
          /\ c2.in = c.in /\ c2.out = c.out
      BY <3>1
    <3> QED
      BY <1>1, <1>2, <2>2, <3>2, <3>3, <3>4, <3>5 DEF SoFar
  <2> QED
    BY <2>3, <2>4
<1> QED
  BY <1>5, <1>9, <1>10, <1>11

(* Every token of the line is parsed, then the NULL stops the loop.        *)
LEMMA LoopFound ==
    ASSUME NEW line \in Seq(STRING \ {NULL}), WellFormed(line),
           NEW args, NEW i \in 0 .. Len(line),
           Len(args) = NumArgs, \A j \in 1 .. Len(line) : args[j] = line[j]
    PROVE  SoFar(line, i, Parsed(args)[i])
<1>1. NumArgs \in Nat /\ Len(line) \in Nat /\ Len(line) < NumArgs
  BY ShellAssumption DEF WellFormed
<1>2. PICK g : g = Parsed(args)
  OBVIOUS
<1>3. /\ g[0] = NoCommand
      /\ \A j \in 1 .. NumArgs : g[j] = ParseToken(g[j - 1], args[j])
  BY <1>1, <1>2, ParsedLoop
<1> DEFINE T == {j \in 0 .. Len(line) : ~SoFar(line, j, g[j])}
<1> SUFFICES ASSUME T # {} PROVE FALSE
  BY <1>2
<1> T \in SUBSET Nat
  OBVIOUS
<1>4. PICK j \in T : \A y \in T : j <= y
  BY LeastNat
<1>5. CASE j = 0
  <2>1. SoFar(line, 0, NoCommand)
    <3>1. SubSeq(line, 1, 1 - 1) = << >>
      OBVIOUS
    <3>2. FirstSpecial(line, 0, 1) /\ 1 \in 1 .. 0 + 1
      BY DEF FirstSpecial
    <3>3. FileOf(line, 0, "<", NULL) /\ FileOf(line, 0, ">", NULL)
      BY DEF FileOf
    <3> QED
      BY <3>1, <3>2, <3>3 DEF SoFar, NoCommand
  <2> QED
    BY <1>3, <1>5, <2>1
<1>6. CASE j # 0
  <2>1. j - 1 \in 0 .. Len(line) - 1 /\ j - 1 \notin T /\ j \in 1 .. NumArgs
        /\ j \in 1 .. Len(line) /\ (j - 1) + 1 = j
    BY <1>1, <1>4, <1>6
  <2>2. SoFar(line, j - 1, g[j - 1])
    BY <2>1
  <2>3. SoFar(line, (j - 1) + 1, ParseToken(g[j - 1], line[(j - 1) + 1]))
    BY <2>1, <2>2, TurnFound
  <2>4. g[j] = ParseToken(g[j - 1], line[j])
    BY <1>3, <2>1
  <2> QED
    BY <2>1, <2>3, <2>4
<1> QED
  BY <1>5, <1>6

LEMMA LoopStops ==
    ASSUME NEW args, NEW n \in Nat, n < NumArgs, Len(args) = NumArgs,
           args[n + 1] = NULL, NEW c, Parsed(args)[n] = c, c.next = "token",
           c = [argv |-> c.argv, in |-> c.in, out |-> c.out, background |-> c.background,
                isCommand |-> c.isCommand, next |-> c.next]
    PROVE  parse(args) = [argv |-> c.argv, in |-> c.in, out |-> c.out,
                          background |-> c.background, isCommand |-> c.isCommand,
                          next |-> "stop"]
<1>1. NumArgs \in Nat
  BY ShellAssumption
<1>2. PICK g : g = Parsed(args)
  OBVIOUS
<1>3. \A j \in 1 .. NumArgs : g[j] = ParseToken(g[j - 1], args[j])
  BY <1>1, <1>2, ParsedLoop
<1>4. PICK d : d = [argv |-> c.argv, in |-> c.in, out |-> c.out,
                    background |-> c.background, isCommand |-> c.isCommand, next |-> "stop"]
  OBVIOUS
<1>5. g[n + 1] = d
  <2>1. n + 1 \in 1 .. NumArgs /\ (n + 1) - 1 = n
    BY <1>1
  <2>2. g[n + 1] = ParseToken(c, NULL)
    BY <1>2, <1>3, <2>1
  <2>3. ParseToken(c, NULL) = [c EXCEPT !.next = "stop"]
    BY DEF ParseToken, NULL
  <2> QED
    BY <1>4, <2>2, <2>3
<1> DEFINE T == {j \in n + 1 .. NumArgs : g[j] # d}
<1>6. ASSUME T # {} PROVE FALSE
  <2> T \in SUBSET Nat
    BY <1>1
  <2>1. PICK j \in T : \A y \in T : j <= y
    BY <1>6, LeastNat
  <2>2. j # n + 1 /\ j - 1 \in n + 1 .. NumArgs /\ j - 1 \notin T /\ j \in 1 .. NumArgs
    BY <1>1, <1>5, <2>1
  <2>3. g[j] = ParseToken(d, args[j])
    BY <1>3, <2>2
  <2>4. d.next = "stop"
    BY <1>4
  <2> QED
    BY <2>1, <2>2, <2>3, <2>4 DEF ParseToken
<1>7. g[NumArgs] = d
  BY <1>1, <1>6
<1> QED
  BY <1>2, <1>4, <1>7 DEF parse

(* What parse makes of a well-formed line, whatever the array held.        *)
LEMMA ParseLine ==
    ASSUME NEW line \in Seq(STRING \ {NULL}), WellFormed(line), NEW old
    PROVE  parse(get_line(old, line)) = Meaning(line)
<1>1. NumArgs \in Nat /\ Len(line) \in Nat /\ Len(line) < NumArgs
  BY ShellAssumption DEF WellFormed
<1>2. PICK n \in Nat : n = Len(line)
  BY <1>1
<1>3. PICK args : args = get_line(old, line)
  OBVIOUS
<1>4. args = [i \in 1 .. NumArgs |-> IF i <= n THEN line[i]
                                     ELSE IF i = n + 1 THEN NULL ELSE old[i]]
  BY <1>1, <1>2, <1>3 DEF get_line
<1>5. /\ Len(args) = NumArgs
      /\ \A j \in 1 .. Len(line) : args[j] = line[j]
      /\ args[n + 1] = NULL
  BY <1>1, <1>2, <1>4
<1>6. PICK c : c = Parsed(args)[n]
  OBVIOUS
<1>7. SoFar(line, n, c)
  BY <1>1, <1>2, <1>5, <1>6, LoopFound
<1>8. /\ n # 0 => line[n] \notin {"<", ">"}
      /\ c.next = "token"
  <2>1. \A i \in DOMAIN line : line[i] \in {"<", ">"} => i < Len(line)
    BY DEF WellFormed
  <2>2. n # 0 => n \in DOMAIN line
    BY <1>2
  <2>3. n # 0 => line[n] \notin {"<", ">"}
    BY <1>2, <2>1, <2>2
  <2>4. c.next = IF n = 0 THEN "token" ELSE IF line[n] = "<" THEN "in"
                 ELSE IF line[n] = ">" THEN "out" ELSE "token"
    BY <1>7 DEF SoFar
  <2> QED
    BY <2>3, <2>4
<1>9. parse(args) = [argv |-> c.argv, in |-> c.in, out |-> c.out,
                     background |-> c.background, isCommand |-> c.isCommand,
                     next |-> "stop"]
  BY <1>1, <1>2, <1>5, <1>6, <1>7, <1>8, LoopStops DEF SoFar
<1> DEFINE specials == {i \in DOMAIN line : line[i] \in Special}
           first == IF specials = {} THEN Len(line) + 1
                    ELSE CHOOSE i \in specials : \A j \in specials : i <= j
           after(s) == LET at == {i \in DOMAIN line : line[i] = s}
                       IN  IF at = {} THEN NULL
                           ELSE line[1 + CHOOSE i \in at : \A j \in at : j <= i]
<1>10. DOMAIN line = 1 .. n
  BY <1>2
<1>11. c.argv = SubSeq(line, 1, first - 1)
  <2>1. PICK f \in 1 .. n + 1 : FirstSpecial(line, n, f) /\ c.argv = SubSeq(line, 1, f - 1)
    BY <1>7 DEF SoFar
  <2>2. CASE specials = {}
    BY <1>2, <1>10, <2>1, <2>2 DEF FirstSpecial
  <2>3. CASE specials # {}
    <3>1. f \in specials /\ \A j \in specials : f <= j
      BY <1>10, <2>1, <2>3 DEF FirstSpecial
    <3>2. \A i \in specials : (\A j \in specials : i <= j) => i = f
      BY <1>10, <3>1
    <3>3. (CHOOSE i \in specials : \A j \in specials : i <= j) = f
      BY <3>1, <3>2
    <3> QED
      BY <2>1, <2>3, <3>3
  <2> QED
    BY <2>2, <2>3
<1>12. ASSUME NEW s \in {"<", ">"}, NEW v, FileOf(line, n, s, v)
       PROVE  v = after(s)
  <2> DEFINE at == {i \in DOMAIN line : line[i] = s}
  <2>1. at = {i \in 1 .. n - 1 : line[i] = s}
    <3>1. n # 0 => line[n] # s
      BY <1>8
    <3> QED
      BY <1>10, <3>1
  <2>2. CASE at = {}
    BY <1>12, <2>1, <2>2 DEF FileOf
  <2>3. CASE at # {}
    <3>1. PICK m \in at : \A j \in at : j <= m
      <4> DEFINE D == {n - i : i \in at}
      <4>1. D \in SUBSET Nat /\ D # {}
        BY <2>1, <2>3
      <4>2. PICK d \in D : \A y \in D : d <= y
        BY <4>1, LeastNat
      <4>3. PICK m \in at : d = n - m
        BY <4>2
      <4>4. ASSUME NEW j \in at PROVE j <= m
        <5>1. n - j \in D /\ j \in Nat /\ m \in Nat
          BY <1>10
        <5>2. n - m <= n - j
          BY <4>2, <4>3, <5>1
        <5> QED
          BY <5>1, <5>2
      <4> QED
        BY <4>4
    <3>2. \A i \in at : (\A j \in at : j <= i) => i = m
      BY <1>10, <3>1
    <3>3. (CHOOSE i \in at : \A j \in at : j <= i) = m
      BY <3>1, <3>2
    <3>4. /\ m \in 1 .. n - 1 /\ line[m] = s
          /\ \A l \in 1 .. n - 1 : line[l] = s => l <= m
      BY <2>1, <3>1
    <3>5. v = line[m + 1]
      BY <1>12, <3>4 DEF FileOf
    <3>6. m + 1 = 1 + m
      BY <3>4
    <3>7. after(s) = line[1 + m]
      BY <2>3, <3>3
    <3> QED
      BY <3>5, <3>6, <3>7
  <2> QED
    BY <2>2, <2>3
<1>13. c.in = after("<") /\ c.out = after(">")
  <2>1. FileOf(line, n, "<", c.in) /\ FileOf(line, n, ">", c.out)
    BY <1>7 DEF SoFar
  <2> HIDE DEF after
  <2> QED
    BY <1>12, <2>1
<1>14. /\ c.background = ("&" \in {line[i] : i \in DOMAIN line})
       /\ c.isCommand = (specials = {})
  <2>1. /\ c.background = \E j \in 1 .. n : line[j] = "&"
        /\ c.isCommand = \A j \in 1 .. n : line[j] \notin Special
    BY <1>7 DEF SoFar
  <2>2. /\ (\E j \in 1 .. n : line[j] = "&") <=> ("&" \in {line[i] : i \in DOMAIN line})
        /\ (\A j \in 1 .. n : line[j] \notin Special) <=> (specials = {})
    BY <1>10
  <2>3. c.background = ("&" \in {line[i] : i \in DOMAIN line})
    <3> DEFINE tokens == {line[i] : i \in DOMAIN line}
    <3>1. CASE "&" \in tokens
      <4>1. c.background = TRUE
        BY <2>1, <2>2, <3>1
      <4> QED
        BY <3>1, <4>1
    <3>2. CASE "&" \notin tokens
      <4>1. c.background = FALSE
        BY <2>1, <2>2, <3>2
      <4> HIDE DEF tokens
      <4>2. ("&" \in tokens) = FALSE
        BY <3>2
      <4>3. c.background = ("&" \in tokens)
        BY <4>1, <4>2
      <4> QED
        BY <4>3 DEF tokens
    <3> QED
      BY <3>1, <3>2
  <2>4. c.isCommand = (specials = {})
    <3> HIDE DEF specials
    <3> QED
      BY <2>1, <2>2, Zenon
  <2> QED
    BY <2>3, <2>4
<1>15. Meaning(line) = [argv |-> SubSeq(line, 1, first - 1), in |-> after("<"),
                        out |-> after(">"), background |-> "&" \in {line[i] : i \in DOMAIN line},
                        isCommand |-> specials = {}, next |-> "stop"]
  BY DEF Meaning
<1> HIDE DEF specials, first, after
<1> QED
  BY <1>3, <1>9, <1>11, <1>13, <1>14, <1>15

(* A well-formed line means the same to every shell, whatever longer lines *)
(* it left in the argument array before: for every array and every line    *)
(* that fits, parse finds the words, the files and the ampersand.          *)
THEOREM ParseSafe == Spec => []ParseFaithful
<1>1. ParseFaithful
  BY ParseLine, ShellAssumption DEF ParseFaithful
<1> QED
  BY <1>1, PTL
=============================================================================
