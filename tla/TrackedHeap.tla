---------------------------- MODULE TrackedHeap ----------------------------
(***************************************************************************)
(* What slugmem.h promises, without the table: blocks are allocated and    *)
(* freed, a call is refused exactly when it is wrong, and at the end the   *)
(* verdict says whether a call was refused or a block is still held.       *)
(***************************************************************************)
EXTENDS Naturals

CONSTANT Addr

VARIABLES heap, refused, verdict

tvars == <<heap, refused, verdict>>

Init == heap = {} /\ refused = {} /\ verdict = "none"

Running == verdict = "none" /\ refused = {}

Malloc ==
    /\ Running
    /\ \E addr \in Addr \ heap : heap' = heap \cup {addr}
    /\ UNCHANGED <<refused, verdict>>

Free ==
    /\ Running
    /\ \E addr \in heap : heap' = heap \ {addr}
    /\ UNCHANGED <<refused, verdict>>

(* A refusal ends the program; nothing else is printed when there was no   *)
(* allocation before it.                                                   *)
Refuse ==
    /\ Running
    /\ \/ refused' = {[kind |-> "over 128MB", addr |-> 0]}
       \/ \E addr \in (Addr \cup {0}) \ heap,
             kind \in {"not allocated", "already freed"} :
                refused' = {[kind |-> kind, addr |-> addr]}
    /\ verdict' \in {"none", "problems"}
    /\ UNCHANGED heap

Judge ==
    /\ verdict = "none"
    /\ verdict' = IF refused = {} /\ heap = {} THEN "no problems" ELSE "problems"
    /\ UNCHANGED <<heap, refused>>

Next == Malloc \/ Free \/ Refuse \/ Judge

Spec == Init /\ [][Next]_tvars
=============================================================================
