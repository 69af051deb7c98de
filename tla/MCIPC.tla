------------------------------- MODULE MCIPC -------------------------------
(* A small instance of IPC for TLC.                                        *)
EXTENDS IPC

Users == [p \in Procs |-> IF p = "a" THEN "alice" ELSE "bob"]
MCModes == {<<{"r", "w"}, {"r"}>>}
Op(num, op, nowait) == [num |-> num, op |-> op, nowait |-> nowait]
MCSemOps == {<<Op(1, -1, FALSE)>>, <<Op(1, -2, FALSE)>>, <<Op(1, 1, FALSE)>>,
             <<Op(1, 0, FALSE)>>, <<Op(1, -1, TRUE), Op(2, 1, TRUE)>>}
MCSetAlls == {<<2, 3>>}
=============================================================================
