----------------------------- MODULE MCSlugmem -----------------------------
(* Addresses that collide in tables of 5 and of 25 positions, two of them  *)
(* at the last position, so that probing wraps around to the first.        *)
EXTENDS Slugmem

MCAddr == {24, 25, 49, 50}
=============================================================================
