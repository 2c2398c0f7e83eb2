--------------------------- MODULE UploadContract ---------------------------
(***************************************************************************)
(* What a CV upload promises its owner, with no workers, leases, queues or *)
(* polls in sight: a job is opened once, paid for once, ends once, and a   *)
(* failed one is given back what was taken, once; but a free job that      *)
(* fails may be given the price it never paid.  CvUpload implements it.    *)
(***************************************************************************)
EXTENDS Naturals

CONSTANTS Jobs, Price

VARIABLES
    outcome, taken, returned,
    fee     \* what a job costs

contract == <<outcome, taken, returned, fee>>

Init ==
    /\ outcome = [k \in Jobs |-> "absent"]
    /\ taken = [k \in Jobs |-> 0]
    /\ returned = [k \in Jobs |-> 0]
    /\ fee = [k \in Jobs |-> Price]

\* The text of a job may be one that was paid for before.
Open(k) ==
    /\ outcome[k] = "absent"
    /\ outcome' = [outcome EXCEPT ![k] = "processing"]
    /\ fee' \in {fee, [fee EXCEPT ![k] = 0]}
    /\ UNCHANGED <<taken, returned>>

\* The charge may land on a job that has failed meanwhile.
Take(k) ==
    /\ outcome[k] \in {"processing", "failed"}
    /\ taken[k] = 0
    /\ taken' = [taken EXCEPT ![k] = fee[k]]
    /\ UNCHANGED <<outcome, returned, fee>>

Finish(k) ==
    /\ outcome[k] = "processing"
    /\ taken[k] = fee[k]
    /\ outcome' = [outcome EXCEPT ![k] = "done"]
    /\ UNCHANGED <<taken, returned, fee>>

\* One job fails and is owed its money, or some are failed and repaid at once.
Fail(k) ==
    /\ outcome[k] = "processing"
    /\ outcome' = [outcome EXCEPT ![k] = "failed"]
    /\ UNCHANGED <<taken, returned, fee>>

FailAndReturn(S) ==
    /\ \A k \in S : outcome[k] = "processing" /\ returned[k] = 0
    /\ outcome' = [k \in Jobs |-> IF k \in S THEN "failed" ELSE outcome[k]]
    /\ returned' = [k \in Jobs |-> IF k \in S THEN taken[k] ELSE returned[k]]
    /\ UNCHANGED <<taken, fee>>

Return(k) ==
    /\ outcome[k] = "failed"
    /\ returned[k] = 0
    /\ \/ returned' = [returned EXCEPT ![k] = taken[k]]
       \/ fee[k] = 0 /\ returned' = [returned EXCEPT ![k] = Price]
    /\ UNCHANGED <<outcome, taken, fee>>

Next ==
    \/ \E k \in Jobs : Open(k) \/ Take(k) \/ Finish(k) \/ Fail(k) \/ Return(k)
    \/ \E S \in SUBSET Jobs : FailAndReturn(S)

Spec == Init /\ [][Next]_contract
=============================================================================
