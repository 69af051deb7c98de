-------------------------------- MODULE MCRS --------------------------------
(* Instances of RS for TLC.                                                *)
EXTENDS RS

Opt(script, repl, period) == [script |-> script, repl |-> repl, period |-> period]
Watched == {Opt(FALSE, FALSE, TRUE)}
NoFailure == {{}}
EachFailure == {{}, {"fork"}, {"map"}, {"init"}, {"swap"}}

(* The fields of a slot that are set before they are read again, when the  *)
(* slot is free or nobody waits for its answer, are left out.              *)
MCView == <<[s \in Slots |->
                LET r == rproc[s]
                    heard == IF "LATEREPLY" \in r.flags THEN r ELSE [r EXCEPT !.caller = NULL]
                IN  IF r.flags # {} THEN heard
                    ELSE [FreshSlot EXCEPT !.ep = r.ep, !.prev = r.prev, !.next = r.next,
                                           !.old = r.old, !.new = r.new]],
            rproc_ptr, rupdate, shutting_down, world, ds, waiting, stray, crashed>>
=============================================================================
