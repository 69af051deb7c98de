----------------------------- MODULE MCPMSched -----------------------------
(* Small instances of PMSched for TLC.                                     *)
EXTENDS PMSched

NoNices == {}
UpNice == {2}
SomeNices == {-1, 2, 3}
=============================================================================
