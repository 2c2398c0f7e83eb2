---------------------------- MODULE MCPaidStream ----------------------------
(* Small instances of PaidStream: three POSTs for two texts. *)
EXTENDS PaidStream, TLC

Interchangeable == Permutations(Posts) \cup Permutations(Keys)
=============================================================================
