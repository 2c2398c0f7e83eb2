----------------------------- MODULE MCPaidRun -----------------------------
(* Small instances of PaidRun: three POSTs for one artifact, the third a    *)
(* refresh. *)
EXTENDS PaidRun, TLC

CONSTANTS p1, p2, p3

Interchangeable == Permutations({p1, p2})
=============================================================================
