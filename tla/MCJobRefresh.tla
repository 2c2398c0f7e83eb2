---------------------------- MODULE MCJobRefresh ----------------------------
(* Small instances of JobRefresh. *)
EXTENDS JobRefresh, TLC

CONSTANTS t1, t2, a1, a2

Interchangeable == Permutations(Tickets) \cup Permutations(Apis)
=============================================================================
