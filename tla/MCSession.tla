------------------------------ MODULE MCSession ------------------------------
(* A small instance of Session. *)
EXTENDS Session, TLC

CONSTANTS t1, t2, r1, r2, r3

MadeBy == (r1 :> t1) @@ (r2 :> t2) @@ (r3 :> t1)
=============================================================================
