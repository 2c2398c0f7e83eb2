----------------------------- MODULE MCCvUpload -----------------------------
(* Small instances of CvUpload. *)
EXTENDS CvUpload, TLC

CONSTANTS k1, r1, r2, w1, w2, p1, p2

AllSteps == RequestSteps \cup WorkerSteps \cup PollSteps

\* Every step but the one between claim_failed and the refund.
AllButRefund == AllSteps \ {"refund"}

OnlyRefund == {"refund"}

Symmetric == Permutations({r1, r2}) \cup Permutations({w1, w2}) \cup Permutations({p1, p2})
=============================================================================
