---------------------------- MODULE MCUploadClient ----------------------------
(* Small instances of UploadClient: a tab has one upload under way, and the   *)
(* tabs are alike.                                                            *)
EXTENDS UploadClient, TLC

CONSTANTS t1, t2, a, b, f, g

OwnTab == [t \in Tabs |-> t]
TabsAlike == Permutations({t1, t2})
=============================================================================
