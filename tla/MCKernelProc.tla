---------------------------- MODULE MCKernelProc ----------------------------
(* Instances of KernelProc for TLC.                                        *)
EXTENDS KernelProc

(* A scheduler 1, PM 2, a server 3 and a user process 4.  The calls of 2,  *)
(* 3 and 4 can form circles of two and three, 2 has two senders, and only  *)
(* one process sends to the mortal one.                                    *)
MCPrio == [p \in Procs |-> IF p = 4 THEN 1 ELSE 0]
MCCalls == {<<"RECEIVE", p, ANY>> : p \in Procs} \cup
           {<<"RECEIVE", 2, 3>>, <<"SENDNB", 1, 2>>, <<"SENDREC", 2, 3>>,
            <<"SEND", 3, 2>>, <<"SEND", 3, 4>>, <<"SENDREC", 4, 2>>, <<"NOTIFY", 4, 2>>}
Entry(d, noreply) == [dst |-> d, noreply |-> noreply, done |-> FALSE]
MCTables == [p \in Procs |-> IF p = 3 THEN {<<Entry(2, FALSE), Entry(2, TRUE)>>}
                                      ELSE {}]

(* The first instance keeps to the rules of message passing.               *)
ASSUME RulesKept == Calls = MCCalls => Orderly

(* A server 3 that dies while two users 4 and 5 are queued on it.          *)
ExitPrio == [p \in Procs |-> 0]
ExitCalls == {<<"RECEIVE", p, ANY>> : p \in Procs} \cup
             {<<"RECEIVE", 2, 1>>, <<"SEND", 3, 4>>, <<"SEND", 3, 5>>,
              <<"SENDREC", 4, 3>>, <<"SENDREC", 5, 3>>, <<"SENDREC", 4, 2>>}
NoTables == [p \in Procs |-> {}]

(* The fields that the code reads only under a flag are left out of the    *)
(* fingerprint of a state while the flag is clear.                         *)
MCView ==
    LET live(p) == [proc[p] EXCEPT
            !.getfrom = IF "RECEIVING" \in proc[p].rts THEN @ ELSE NULL,
            !.sendto = IF "SENDING" \in proc[p].rts THEN @ ELSE NULL,
            !.sendmsg = IF "SENDING" \in proc[p].rts THEN @ ELSE "NONE",
            !.nextready = IF proc[p].rts = {} THEN @ ELSE NULL]
    IN  <<[p \in Procs |-> live(p)], rdy_head, rdy_tail, priv, proc_ptr, mode, panic>>
=============================================================================
