--------------------------- MODULE CvUploadProofs ---------------------------
(***************************************************************************)
(* Machine-checked proofs about CvUpload, for every number of jobs,        *)
(* requests, workers and polls and every retry and stall budget.           *)
(***************************************************************************)
EXTENDS CvUpload, FiniteSetTheorems, TLAPS

USE DEF row, ledger, lane, web, runners, polls

LEMMA CostIsNat == ASSUME NEW k \in Jobs PROVE Cost(k) \in Nat
  BY NumbersAssumption DEF Cost

-----------------------------------------------------------------------------
(***************************************************************************)
(* Every step of the system is one of these.                               *)
(***************************************************************************)

LEMMA InitType == Init => TypeOK
  BY JobsAssumption DEF Init, TypeOK, RequestSteps, WorkerSteps, PollSteps, NoJob

LEMMA NextType == TypeOK /\ [Next]_vars => TypeOK'
<1> SUFFICES ASSUME TypeOK, [Next]_vars PROVE TypeOK'
  OBVIOUS
<1> USE NumbersAssumption, ModesAssumption DEF TypeOK
<1>1. ASSUME NEW r \in Requests, LookUp(r) PROVE TypeOK'
  BY <1>1 DEF LookUp, GoRequest, RequestSteps
<1>2. ASSUME NEW r \in Requests, CreateProcessingJob(r) PROVE TypeOK'
  BY <1>2 DEF CreateProcessingJob, GoRequest, RequestSteps
<1>3. ASSUME NEW r \in Requests, ChargeCoins(r) PROVE TypeOK'
  BY <1>3 DEF ChargeCoins, GoRequest, RequestSteps, Cost
<1>4. ASSUME NEW r \in Requests, RejectInsufficient(r) PROVE TypeOK'
  <2>1. rjob[r] \in Jobs
    BY <1>4 DEF RejectInsufficient
  <2>2. /\ status' \in [Jobs -> {"absent", "processing", "done", "failed"}]
        /\ lease' \in [Jobs -> {"live", "expired", "null"}]
        /\ rpc' \in [Requests -> RequestSteps]
    BY <1>4, <2>1 DEF RejectInsufficient, GoRequest, RequestSteps
  <2>3. flagged' \in [Jobs -> BOOLEAN]
    BY <1>4, <2>1 DEF RejectInsufficient
  <2>4. \A s \in Requests : rpc'[s] \notin {"lookup", "over"} => rjob'[s] \in Jobs
    BY <1>4 DEF RejectInsufficient, GoRequest
  <2> QED
    BY <1>4, <2>2, <2>3, <2>4 DEF RejectInsufficient
<1>5. ASSUME NEW r \in Requests, MarkCharged(r) PROVE TypeOK'
  BY <1>5 DEF MarkCharged, GoRequest, RequestSteps, Cost
<1>6. ASSUME NEW r \in Requests, Enqueue(r) PROVE TypeOK'
  BY <1>6 DEF Enqueue, GoRequest, RequestSteps
<1>7. ASSUME NEW r \in Requests, RequestDies(r) PROVE TypeOK'
  BY <1>7 DEF RequestDies, GoRequest, RequestSteps
<1>8. ASSUME NEW w \in Workers, ParseSucceeds(w) PROVE TypeOK'
  BY <1>8 DEF ParseSucceeds, GoWorker, Heartbeat, WorkerSteps
<1>9. ASSUME NEW w \in Workers, ParseFailsTransient(w) PROVE TypeOK'
  BY <1>9 DEF ParseFailsTransient, GoWorker, Raise, Assign, WorkerSteps
<1>10. ASSUME NEW w \in Workers, ParseFailsPermanent(w) PROVE TypeOK'
  BY <1>10 DEF ParseFailsPermanent, GoWorker, WorkerSteps
<1>11. ASSUME NEW w \in Workers, ClaimForCompletion(w) PROVE TypeOK'
  BY <1>11 DEF ClaimForCompletion, GoWorker, Return, WorkerSteps
<1>12. ASSUME NEW w \in Workers, PersistBaseline(w) PROVE TypeOK'
  BY <1>12 DEF PersistBaseline, GoWorker, WorkerSteps
<1>13. ASSUME NEW w \in Workers, MarkDone(w) PROVE TypeOK'
  BY <1>13 DEF MarkDone, GoWorker, WorkerSteps
<1>14. ASSUME NEW w \in Workers, FollowUp(w) PROVE TypeOK'
  BY <1>14 DEF FollowUp, GoWorker, Return, WorkerSteps
<1>15. ASSUME NEW w \in Workers, ClaimFailed(w) PROVE TypeOK'
  <2> wjob[w] \in Jobs
    BY <1>15 DEF ClaimFailed
  <2>1. CASE MayFail(wjob[w])
    <3>1. flagged' \in [Jobs -> BOOLEAN]
      BY <1>15, <2>1 DEF ClaimFailed
    <3>2. /\ status' \in [Jobs -> {"absent", "processing", "done", "failed"}]
          /\ lease' \in [Jobs -> {"live", "expired", "null"}]
          /\ wpc' \in [Workers -> WorkerSteps]
          /\ UNCHANGED <<stamped, stalls, ledger, baselines, lane, web, wjob,
                         wvia, polls, faults>>
      BY <1>15, <2>1 DEF ClaimFailed, GoWorker, WorkerSteps
    <3>3. \A v \in Workers : wpc'[v] # "idle" => wjob'[v] \in Jobs
      BY <1>15, <2>1 DEF ClaimFailed, GoWorker
    <3> QED
      BY <3>1, <3>2, <3>3
  <2>2. CASE ~MayFail(wjob[w])
    BY <1>15, <2>2 DEF ClaimFailed, GoWorker, Return, WorkerSteps
  <2> QED
    BY <2>1, <2>2
<1>16. ASSUME NEW w \in Workers, RefundCoins(w) PROVE TypeOK'
  BY <1>16 DEF RefundCoins, GoWorker, Repaid, WorkerSteps
<1>17. ASSUME NEW w \in Workers, SettleFailed(w) PROVE TypeOK'
  BY <1>17 DEF SettleFailed, GoWorker, Return, WorkerSteps
<1>18. ASSUME NEW w \in Workers, CallRaises(w) PROVE TypeOK'
  BY <1>18 DEF CallRaises, Fault, GoWorker, Return, Raise, Assign, WorkerSteps
<1>19. ASSUME NEW w \in Workers, WorkerDies(w) PROVE TypeOK'
  BY <1>19 DEF WorkerDies, Fault, GoWorker, WorkerSteps
<1>20. ASSUME NEW w \in Workers, ReleaseInflightLeases(w) PROVE TypeOK'
  BY <1>20 DEF ReleaseInflightLeases
<1>21. ASSUME NEW w \in Workers, NEW k \in Jobs, Deliver(w, k) PROVE TypeOK'
  <2>1. /\ record' \in [Jobs -> {"none", "live", "finished"}]
        /\ queue' \in [Jobs -> Nat]
    BY <1>21 DEF Deliver
  <2>2. CASE UNCHANGED <<lease, runners>>
    BY <1>21, <2>1, <2>2 DEF Deliver
  <2>3. CASE Assign(w, k, "parse", "handler") /\ Heartbeat(k)
    <3>1. lease' \in [Jobs -> {"live", "expired", "null"}]
      BY <2>3 DEF Heartbeat
    <3>2. /\ wpc' \in [Workers -> WorkerSteps]
          /\ wjob' \in [Workers -> Jobs \cup {NoJob}]
          /\ wvia' \in [Workers -> {"handler", "callback"}]
          /\ \A v \in Workers : wpc'[v] # "idle" => wjob'[v] \in Jobs
      BY <2>3 DEF Assign, GoWorker, WorkerSteps
    <3> QED
      BY <1>21, <2>1, <3>1, <3>2 DEF Deliver
  <2> QED
    BY <1>21, <2>2, <2>3 DEF Deliver
<1>22. ASSUME NEW w \in Workers, NEW k \in Jobs, Abandon(w, k) PROVE TypeOK'
  BY <1>22 DEF Abandon, Assign, GoWorker, WorkerSteps
<1>23. ASSUME NEW p \in Pollers, ClaimStalled(p) PROVE TypeOK'
  BY <1>23 DEF ClaimStalled, GoPoll, PollSteps
<1>24. ASSUME NEW p \in Pollers, RequeueAbandoned(p) PROVE TypeOK'
  BY <1>24 DEF RequeueAbandoned, GoPoll, PollSteps
<1>25. ASSUME NEW p \in Pollers, RecordStallRequeue(p) PROVE TypeOK'
  BY <1>25 DEF RecordStallRequeue, GoPoll, PollSteps
<1>26. ASSUME NEW p \in Pollers, PollSweep(p) PROVE TypeOK'
  BY <1>26 DEF PollSweep, SweepStaleJobs, Stale, Repaid, SweepRefund, GoPoll, PollSteps
<1>27. ASSUME NEW p \in Pollers, PollDies(p) PROVE TypeOK'
  BY <1>27 DEF PollDies, GoPoll, PollSteps
<1>28. ASSUME NEW p \in Pollers, NEW k \in Jobs, FetchStale(p, k) PROVE TypeOK'
  BY <1>28 DEF FetchStale, GoPoll, PollSteps
<1>29. CASE BootSweep
  BY <1>29 DEF BootSweep, SweepStaleJobs, Stale, Repaid, SweepRefund
<1>30. ASSUME NEW k \in Jobs, LeaseExpires(k) PROVE TypeOK'
  BY <1>30 DEF LeaseExpires
<1>31. CASE UNCHANGED vars
  BY <1>31 DEF vars
<1> QED
  BY <1>1, <1>2, <1>3, <1>4, <1>5, <1>6, <1>7, <1>8, <1>9, <1>10, <1>11, <1>12, <1>13, <1>14, <1>15, <1>16, <1>17, <1>18, <1>19, <1>20, <1>21, <1>22, <1>23, <1>24, <1>25, <1>26, <1>27, <1>28, <1>29, <1>30, <1>31
     DEF Next, RequestStep, WorkerStep, PollStep

\* The sweep fails only processing rows, which nobody has refunded, and leaves
\* the charges, the lane and the processes alone.
LEMMA SweepUpload ==
  ASSUME TypeOK, UploadInv, SweepStaleJobs,
         UNCHANGED <<baselines, lane, web, runners>>
  PROVE  UploadInv'
<1> USE DEF TypeOK, UploadInv, Intake
<1>1. \A k \in Jobs : status'[k] = status[k] \/ (status[k] = "processing" /\ status'[k] = "failed")
  BY DEF SweepStaleJobs, Stale, Processing
<1>2. \A k \in Jobs : refunded'[k] # refunded[k] => status'[k] = "failed"
  BY DEF SweepStaleJobs
<1>3. UNCHANGED <<charged, baselines, queue, record, orphaned, rpc, rjob, free, wpc, wjob>>
  BY DEF SweepStaleJobs
<1>4. OneIntake' /\ IntakeCharges'
  BY <1>1, <1>3, CostIsNat DEF OneIntake, IntakeCharges, Cost
<1>5. QueuedIsCharged' /\ WorkedIsCharged' /\ AbsentIsUntouched' /\ ChargedAtMostOnce'
  BY <1>1, <1>3 DEF QueuedIsCharged, WorkedIsCharged, AbsentIsUntouched, ChargedAtMostOnce, Cost
<1>6. FinishHoldsBaseline' /\ RefundInHand'
  BY <1>1, <1>3 DEF FinishHoldsBaseline, RefundInHand
<1>7. RefundedHasFailed' /\ DoneIsPaidFor'
  BY <1>1, <1>2, <1>3 DEF RefundedHasFailed, DoneIsPaidFor, Cost
<1> QED
  BY <1>4, <1>5, <1>6, <1>7

LEMMA NextUpload == TypeOK /\ TypeOK' /\ UploadInv /\ [Next]_vars => UploadInv'
<1> SUFFICES ASSUME TypeOK, TypeOK', UploadInv, [Next]_vars PROVE UploadInv'
  OBVIOUS
<1> USE NumbersAssumption DEF TypeOK, UploadInv, Cost, Intake, OneIntake, IntakeCharges, QueuedIsCharged, WorkedIsCharged, FinishHoldsBaseline, RefundInHand, RefundedHasFailed, AbsentIsUntouched, ChargedAtMostOnce, DoneIsPaidFor
<1>1. ASSUME NEW r \in Requests, LookUp(r) PROVE UploadInv'
  BY <1>1, CostIsNat DEF LookUp, GoRequest
<1>2. ASSUME NEW r \in Requests, CreateProcessingJob(r) PROVE UploadInv'
  <2> DEFINE k == rjob[r]
  <2>1. /\ k \in Jobs /\ rpc[r] = "insert"
        /\ UNCHANGED <<ledger, baselines, lane, rjob, runners>>
    BY <1>2 DEF CreateProcessingJob
  <2>2. CASE MayInsert(k)
    <3>1. /\ status[k] = "absent" /\ status' = [status EXCEPT ![k] = "processing"]
          /\ rpc' = [rpc EXCEPT ![r] = "charge"]
          /\ free' \in {free, free \cup {k}}
      BY <1>2, <2>2 DEF CreateProcessingJob, GoRequest, MayInsert
    <3>2. /\ charged[k] = 0 /\ queue[k] = 0 /\ record[k] = "none" /\ ~orphaned[k]
          /\ refunded[k] = 0
          /\ \A s \in Requests : rpc[s] \in Intake => rjob[s] # k
          /\ \A w \in Workers : wpc[w] # "idle" => wjob[w] # k
      BY <2>1, <3>1
    <3>3. \A j \in Jobs \ {k} : Cost(j)' = Cost(j) /\ status'[j] = status[j]
      BY <3>1
    <3>4. OneIntake' /\ IntakeCharges'
      BY <2>1, <3>1, <3>2, <3>3
    <3>5. QueuedIsCharged' /\ AbsentIsUntouched' /\ ChargedAtMostOnce' /\ RefundedHasFailed'
      BY <2>1, <3>1, <3>2, <3>3
    <3>6. WorkedIsCharged' /\ FinishHoldsBaseline' /\ RefundInHand' /\ DoneIsPaidFor'
      BY <2>1, <3>1, <3>2, <3>3
    <3> QED
      BY <3>4, <3>5, <3>6
  <2>3. CASE ~MayInsert(k)
    BY <1>2, <2>1, <2>3 DEF CreateProcessingJob, GoRequest
  <2> QED
    BY <2>2, <2>3
<1>3. ASSUME NEW r \in Requests, ChargeCoins(r) PROVE UploadInv'
  BY <1>3, CostIsNat DEF ChargeCoins, GoRequest
<1>4. ASSUME NEW r \in Requests, RejectInsufficient(r) PROVE UploadInv'
  BY <1>4, CostIsNat DEF RejectInsufficient, GoRequest, MayFail, Processing
<1>5. ASSUME NEW r \in Requests, MarkCharged(r) PROVE UploadInv'
  BY <1>5, CostIsNat DEF MarkCharged, GoRequest
<1>6. ASSUME NEW r \in Requests, Enqueue(r) PROVE UploadInv'
  BY <1>6, CostIsNat DEF Enqueue, GoRequest
<1>7. ASSUME NEW r \in Requests, RequestDies(r) PROVE UploadInv'
  BY <1>7, CostIsNat DEF RequestDies, GoRequest
<1>8. ASSUME NEW w \in Workers, ParseSucceeds(w) PROVE UploadInv'
  BY <1>8, CostIsNat DEF ParseSucceeds, GoWorker
<1>9. ASSUME NEW w \in Workers, ParseFailsTransient(w) PROVE UploadInv'
  <2>1. OneIntake' /\ IntakeCharges' /\ AbsentIsUntouched' /\ ChargedAtMostOnce'
    BY <1>9, CostIsNat DEF ParseFailsTransient, GoWorker, Raise, Assign
  <2>2. QueuedIsCharged' /\ WorkedIsCharged' /\ FinishHoldsBaseline'
    BY <1>9, CostIsNat DEF ParseFailsTransient, GoWorker, Raise, Assign
  <2>3. RefundInHand' /\ RefundedHasFailed' /\ DoneIsPaidFor'
    BY <1>9, CostIsNat DEF ParseFailsTransient, GoWorker, Raise, Assign
  <2> QED
    BY <2>1, <2>2, <2>3
<1>10. ASSUME NEW w \in Workers, ParseFailsPermanent(w) PROVE UploadInv'
  BY <1>10, CostIsNat DEF ParseFailsPermanent, GoWorker
<1>11. ASSUME NEW w \in Workers, ClaimForCompletion(w) PROVE UploadInv'
  BY <1>11, CostIsNat DEF ClaimForCompletion, GoWorker, Return
<1>12. ASSUME NEW w \in Workers, PersistBaseline(w) PROVE UploadInv'
  BY <1>12, CostIsNat DEF PersistBaseline, GoWorker
<1>13. ASSUME NEW w \in Workers, MarkDone(w) PROVE UploadInv'
  <2>1. /\ wjob[w] \in Jobs /\ wpc[w] = "finish"
        /\ wpc' = [wpc EXCEPT ![w] = "follow"]
        /\ UNCHANGED <<ledger, baselines, lane, web, wjob>>
    BY <1>13 DEF MarkDone, GoWorker
  <2>2. CASE MayFinish(wjob[w])
    <3>1. /\ status' = [status EXCEPT ![wjob[w]] = "done"]
          /\ status[wjob[w]] = "processing"
      BY <1>13, <2>2 DEF MarkDone, MayFinish, Processing
    <3> QED
      BY <2>1, <3>1
  <2>3. CASE UNCHANGED status
    BY <2>1, <2>3
  <2> QED
    BY <1>13, <2>2, <2>3 DEF MarkDone
<1>14. ASSUME NEW w \in Workers, FollowUp(w) PROVE UploadInv'
  BY <1>14, CostIsNat DEF FollowUp, GoWorker, Return
<1>15. ASSUME NEW w \in Workers, ClaimFailed(w) PROVE UploadInv'
  <2>1. /\ wjob[w] \in Jobs /\ wpc[w] = "fail"
        /\ UNCHANGED <<charged, refunded, baselines, queue, retries, orphaned,
                       rpc, rjob, free, wjob>>
    BY <1>15 DEF ClaimFailed, Return
  <2>2. CASE MayFail(wjob[w])
    <3>1. /\ status' = [status EXCEPT ![wjob[w]] = "failed"]
          /\ wpc' = [wpc EXCEPT ![w] = "refund"]
          /\ status[wjob[w]] = "processing"
          /\ UNCHANGED record
      BY <1>15, <2>2 DEF ClaimFailed, GoWorker, MayFail, Processing
    <3> QED
      BY <2>1, <3>1
  <2>3. CASE ~MayFail(wjob[w])
    <3>1. /\ UNCHANGED status
          /\ wpc' = [wpc EXCEPT ![w] = "idle"]
          /\ \A k \in Jobs : record'[k] \in {record[k], "finished"}
      BY <1>15, <2>1, <2>3 DEF ClaimFailed, Return, GoWorker
    <3>2. \A k \in Jobs : status[k] = "absent" => record'[k] = "none"
      BY <1>15, <2>1, <2>3 DEF ClaimFailed, Return, WorkedIsCharged, AbsentIsUntouched
    <3> QED
      BY <2>1, <3>1, <3>2
  <2> QED
    BY <2>2, <2>3
<1>16. ASSUME NEW w \in Workers, RefundCoins(w) PROVE UploadInv'
  BY <1>16, CostIsNat DEF RefundCoins, GoWorker, Repaid
<1>17. ASSUME NEW w \in Workers, SettleFailed(w) PROVE UploadInv'
  BY <1>17, CostIsNat DEF SettleFailed, GoWorker, Return
<1>18. ASSUME NEW w \in Workers, CallRaises(w) PROVE UploadInv'
  BY <1>18, CostIsNat DEF CallRaises, Fault, GoWorker, Return, Raise, Assign
<1>19. ASSUME NEW w \in Workers, WorkerDies(w) PROVE UploadInv'
  BY <1>19, CostIsNat DEF WorkerDies, Fault, GoWorker
<1>20. ASSUME NEW w \in Workers, ReleaseInflightLeases(w) PROVE UploadInv'
  BY <1>20, CostIsNat DEF ReleaseInflightLeases
<1>21. ASSUME NEW w \in Workers, NEW k \in Jobs, Deliver(w, k) PROVE UploadInv'
  <2>1. /\ charged[k] = Cost(k) /\ status[k] # "absent"
        /\ UNCHANGED <<status, ledger, baselines, orphaned, web>>
        /\ queue' = [queue EXCEPT ![k] = @ - 1]
    BY <1>21 DEF Deliver
  <2>2. \A j \in Jobs : j # k => record'[j] = record[j]
    BY <1>21 DEF Deliver
  <2>3. CASE UNCHANGED runners
    BY <2>1, <2>2, <2>3
  <2>4. CASE Assign(w, k, "parse", "handler")
    <3>1. wpc' = [wpc EXCEPT ![w] = "parse"] /\ wjob' = [wjob EXCEPT ![w] = k]
      BY <2>4 DEF Assign, GoWorker
    <3>2. WorkedIsCharged' /\ FinishHoldsBaseline' /\ RefundInHand'
      BY <2>1, <3>1
    <3> QED
      BY <2>1, <2>2, <3>2
  <2> QED
    BY <1>21, <2>3, <2>4 DEF Deliver
<1>22. ASSUME NEW w \in Workers, NEW k \in Jobs, Abandon(w, k) PROVE UploadInv'
  BY <1>22, CostIsNat DEF Abandon, Assign, GoWorker
<1>23. ASSUME NEW p \in Pollers, ClaimStalled(p) PROVE UploadInv'
  BY <1>23, CostIsNat DEF ClaimStalled, GoPoll
<1>24. ASSUME NEW p \in Pollers, RequeueAbandoned(p) PROVE UploadInv'
  BY <1>24, CostIsNat DEF RequeueAbandoned, GoPoll
<1>25. ASSUME NEW p \in Pollers, RecordStallRequeue(p) PROVE UploadInv'
  BY <1>25, CostIsNat DEF RecordStallRequeue, GoPoll
<1>26. ASSUME NEW p \in Pollers, PollSweep(p) PROVE UploadInv'
  BY <1>26, SweepUpload DEF PollSweep
<1>27. ASSUME NEW p \in Pollers, PollDies(p) PROVE UploadInv'
  BY <1>27, CostIsNat DEF PollDies, GoPoll
<1>28. ASSUME NEW p \in Pollers, NEW k \in Jobs, FetchStale(p, k) PROVE UploadInv'
  BY <1>28, CostIsNat DEF FetchStale, GoPoll
<1>29. ASSUME BootSweep PROVE UploadInv'
  BY <1>29, SweepUpload DEF BootSweep
<1>30. ASSUME NEW k \in Jobs, LeaseExpires(k) PROVE UploadInv'
  BY <1>30, CostIsNat DEF LeaseExpires
<1>31. CASE UNCHANGED vars
  BY <1>31 DEF vars
<1> QED
  BY <1>1, <1>2, <1>3, <1>4, <1>5, <1>6, <1>7, <1>8, <1>9, <1>10, <1>11, <1>12, <1>13, <1>14, <1>15, <1>16, <1>17, <1>18, <1>19, <1>20, <1>21, <1>22, <1>23, <1>24, <1>25, <1>26, <1>27, <1>28, <1>29, <1>30, <1>31
     DEF Next, RequestStep, WorkerStep, PollStep

LEMMA InitUpload == Init => UploadInv
  BY JobsAssumption, CostIsNat
     DEF Init, UploadInv, Intake, OneIntake, IntakeCharges, QueuedIsCharged,
         WorkedIsCharged, FinishHoldsBaseline, RefundInHand, RefundedHasFailed,
         AbsentIsUntouched, ChargedAtMostOnce, DoneIsPaidFor

-----------------------------------------------------------------------------
(***************************************************************************)
(* The theorems.                                                           *)
(***************************************************************************)

\* Every reachable state is well typed.
THEOREM TypeCorrect == Spec => []TypeOK
  BY InitType, NextType, PTL DEF Spec

\* The order insert, charge, enqueue and the two compare-and-set statements
\* carry the whole accounting of a job (UploadInv).
THEOREM UploadInvariant == Spec => []UploadInv
<1>1. Init => TypeOK /\ UploadInv
  BY InitType, InitUpload
<1>2. TypeOK /\ UploadInv /\ [Next]_vars => TypeOK' /\ UploadInv'
  BY NextType, NextUpload
<1> QED
  BY <1>1, <1>2, PTL DEF Spec

\* A finished job was charged exactly its cost, keeps its baseline and is never
\* refunded: no interleaving of a late callback, a sweep or a second delivery
\* pays back an analysis that was delivered.
THEOREM DoneJobsArePaidFor == Spec => []DoneIsPaidFor
<1>1. UploadInv => DoneIsPaidFor
  BY DEF UploadInv
<1> QED
  BY <1>1, UploadInvariant, PTL

\* However many requests carry one idempotency key, the key is charged once.
THEOREM KeysAreChargedOnce == Spec => []ChargedAtMostOnce
<1>1. UploadInv => ChargedAtMostOnce
  BY DEF UploadInv
<1> QED
  BY <1>1, UploadInvariant, PTL

-----------------------------------------------------------------------------
(***************************************************************************)
(* done and failed are final.                                              *)
(***************************************************************************)
LEMMA TerminalStep ==
  TypeOK /\ [Next]_vars =>
    \A k \in Jobs : status[k] \in {"done", "failed"} => status'[k] = status[k]
<1> SUFFICES ASSUME TypeOK, [Next]_vars, NEW j \in Jobs, status[j] \in {"done", "failed"}
             PROVE  status'[j] = status[j]
  OBVIOUS
<1> USE DEF TypeOK, Processing
<1>1. ASSUME NEW r \in Requests, RequestStep(r) \/ RequestDies(r)
      PROVE  status'[j] = status[j]
  BY <1>1 DEF RequestStep, LookUp, CreateProcessingJob, MayInsert, ChargeCoins,
              RejectInsufficient, MayFail, MarkCharged, Enqueue, RequestDies
<1>2. ASSUME NEW w \in Workers, WorkerStep(w) PROVE status'[j] = status[j]
  BY <1>2 DEF WorkerStep, Deliver, Abandon, ParseSucceeds, ParseFailsTransient,
              ParseFailsPermanent, ClaimForCompletion, PersistBaseline, MarkDone,
              MayFinish, FollowUp, ClaimFailed, MayFail, RefundCoins, SettleFailed
<1>3. ASSUME NEW w \in Workers,
             CallRaises(w) \/ WorkerDies(w) \/ ReleaseInflightLeases(w)
      PROVE  status'[j] = status[j]
  BY <1>3 DEF CallRaises, WorkerDies, ReleaseInflightLeases
<1>4. ASSUME NEW p \in Pollers, PollStep(p) \/ PollDies(p)
      PROVE  status'[j] = status[j]
  BY <1>4 DEF PollStep, FetchStale, ClaimStalled, RequeueAbandoned,
              RecordStallRequeue, PollSweep, SweepStaleJobs, Stale, PollDies
<1>5. CASE BootSweep
  BY <1>5 DEF BootSweep, SweepStaleJobs, Stale
<1>6. ASSUME NEW k \in Jobs, LeaseExpires(k) PROVE status'[j] = status[j]
  BY <1>6 DEF LeaseExpires
<1>7. CASE UNCHANGED vars
  BY <1>7 DEF vars
<1> QED
  BY <1>1, <1>2, <1>3, <1>4, <1>5, <1>6, <1>7 DEF Next

\* mark_done, claim_failed and the sweep are the only writers of a status, and
\* none of them moves a job that has ended.
THEOREM EndedJobsStayEnded == Spec => TerminalIsFinal
  BY TypeCorrect, TerminalStep, PTL DEF Spec, TerminalIsFinal

-----------------------------------------------------------------------------
(***************************************************************************)
(* The upload implements its contract.                                     *)
(***************************************************************************)
LEMMA ContractInit == Init => Contract!Init
  BY DEF Init, Contract!Init, Cost

LEMMA ContractSweep ==
  ASSUME TypeOK, UploadInv, SweepStaleJobs, UNCHANGED web
  PROVE  Contract!FailAndReturn({k \in Jobs : Stale(k)})
<1> USE DEF TypeOK, UploadInv, RefundedHasFailed
<1>1. \A k \in Jobs : Stale(k) => status[k] = "processing" /\ refunded[k] = 0
  BY DEF Stale, Processing
<1>2. refunded' = [k \in Jobs |-> IF k \in {j \in Jobs : Stale(j)} THEN charged[k] ELSE refunded[k]]
  BY <1>1 DEF SweepStaleJobs, Repaid, SweepRefund
<1>3. status' = [k \in Jobs |-> IF k \in {j \in Jobs : Stale(j)} THEN "failed" ELSE status[k]]
  BY DEF SweepStaleJobs
<1>4. [k \in Jobs |-> Cost(k)]' = [k \in Jobs |-> Cost(k)]
  BY DEF Cost
<1> QED
  BY <1>1, <1>2, <1>3, <1>4 DEF Contract!FailAndReturn, SweepStaleJobs

LEMMA ContractStep == TypeOK /\ UploadInv /\ [Next]_vars => [Contract!Next]_(Contract!contract)
<1> SUFFICES ASSUME TypeOK, UploadInv, [Next]_vars
             PROVE  Contract!Next \/ UNCHANGED Contract!contract
  OBVIOUS
<1> USE DEF TypeOK, UploadInv, Processing, Intake, Contract!contract
<1>cost. \A k \in Jobs : Cost(k) = 0 \/ (Cost(k) = Price /\ Cost(k) > 0)
  BY NumbersAssumption DEF Cost
<1>fee. ASSUME UNCHANGED free PROVE [k \in Jobs |-> Cost(k)]' = [k \in Jobs |-> Cost(k)]
  BY <1>fee DEF Cost
<1>1. ASSUME NEW r \in Requests, RequestStep(r) PROVE Contract!Next \/ UNCHANGED Contract!contract
  <2>1. CASE CreateProcessingJob(r)
    <3>1. CASE MayInsert(rjob[r])
      <4>1. rjob[r] \in Jobs /\ status[rjob[r]] = "absent"
        BY <2>1, <3>1 DEF CreateProcessingJob, MayInsert
      <4>2. /\ status' = [status EXCEPT ![rjob[r]] = "processing"]
            /\ free' \in {free, free \cup {rjob[r]}}
            /\ UNCHANGED ledger
        BY <2>1, <3>1 DEF CreateProcessingJob
      <4>3. \/ [k \in Jobs |-> Cost(k)]' = [k \in Jobs |-> Cost(k)]
            \/ [k \in Jobs |-> Cost(k)]' = [[k \in Jobs |-> Cost(k)] EXCEPT ![rjob[r]] = 0]
        BY <4>1, <4>2 DEF Cost
      <4> QED
        BY <4>1, <4>2, <4>3 DEF Contract!Open, Contract!Next
    <3>2. CASE ~MayInsert(rjob[r])
      BY <2>1, <3>2, <1>fee DEF CreateProcessingJob
    <3> QED
      BY <3>1, <3>2
  <2>2. CASE ChargeCoins(r)
    <3>1. /\ rjob[r] \in Jobs /\ charged[rjob[r]] = 0 /\ status[rjob[r]] # "absent"
          /\ charged' = [charged EXCEPT ![rjob[r]] = @ + Cost(rjob[r])]
          /\ UNCHANGED <<status, refunded, free>>
      BY <2>2 DEF ChargeCoins, IntakeCharges
    <3>2. CASE Cost(rjob[r]) = 0
      BY <3>1, <3>2, <1>fee
    <3>3. CASE Cost(rjob[r]) = Price /\ Cost(rjob[r]) > 0
      <4>1. charged' = [charged EXCEPT ![rjob[r]] = Cost(rjob[r])]
        BY <3>1, <3>3, NumbersAssumption
      <4>2. status[rjob[r]] # "done"
        BY <3>1, <3>3 DEF DoneIsPaidFor
      <4>fee. /\ [k \in Jobs |-> Cost(k)][rjob[r]] = Cost(rjob[r])
              /\ [k \in Jobs |-> Cost(k)]' = [k \in Jobs |-> Cost(k)]
        BY <3>1, <1>fee
      <4>out. status[rjob[r]] \in {"processing", "failed"}
        BY <3>1, <4>2
      <4>3. Contract!Take(rjob[r])
        <5> HIDE DEF TypeOK, UploadInv
        <5> QED
          BY <3>1, <4>1, <4>out, <4>fee DEF Contract!Take
      <4> QED
        BY <3>1, <4>3 DEF Contract!Next
    <3> QED
      BY <3>1, <3>2, <3>3, <1>cost
  <2>3. CASE RejectInsufficient(r)
    <3>1. Contract!Fail(rjob[r]) \/ UNCHANGED Contract!contract
      BY <2>3, <1>fee DEF RejectInsufficient, MayFail, Contract!Fail
    <3> QED
      BY <2>3, <3>1 DEF RejectInsufficient, Contract!Next
  <2>4. CASE LookUp(r) \/ MarkCharged(r) \/ Enqueue(r)
    BY <2>4, <1>fee DEF LookUp, MarkCharged, Enqueue
  <2> QED
    BY <1>1, <2>1, <2>2, <2>3, <2>4 DEF RequestStep
<1>2. ASSUME NEW w \in Workers, WorkerStep(w) PROVE Contract!Next \/ UNCHANGED Contract!contract
  <2>1. CASE MarkDone(w)
    <3>1. wjob[w] \in Jobs /\ charged[wjob[w]] = Cost(wjob[w])
      BY <2>1 DEF MarkDone, WorkedIsCharged
    <3>2. Contract!Finish(wjob[w]) \/ UNCHANGED Contract!contract
      BY <2>1, <3>1, <1>fee DEF MarkDone, MayFinish, Contract!Finish
    <3> QED
      BY <3>1, <3>2 DEF Contract!Next
  <2>2. CASE ClaimFailed(w)
    <3>1. Contract!Fail(wjob[w]) \/ UNCHANGED Contract!contract
      BY <2>2, <1>fee DEF ClaimFailed, MayFail, Contract!Fail
    <3> QED
      BY <2>2, <3>1 DEF ClaimFailed, Contract!Next
  <2>3. CASE RefundCoins(w)
    <3>1. /\ wjob[w] \in Jobs
          /\ charged[wjob[w]] = Cost(wjob[w])
          /\ status[wjob[w]] = "failed"
          /\ refunded' = [refunded EXCEPT ![wjob[w]] = Repaid(wjob[w], Price)]
          /\ UNCHANGED <<status, charged, free>>
      BY <2>3 DEF RefundCoins, WorkedIsCharged, RefundInHand
    <3>2. CASE refunded[wjob[w]] > 0
      BY <3>1, <3>2, <1>fee DEF Repaid
    <3>3. CASE refunded[wjob[w]] = 0
      <4>1. refunded' = [refunded EXCEPT ![wjob[w]] = Price]
        BY <3>1, <3>3, NumbersAssumption DEF Repaid
      <4>2. Contract!Return(wjob[w])
        BY <3>1, <3>3, <4>1, <1>cost, <1>fee DEF Contract!Return
      <4> QED
        BY <3>1, <4>2 DEF Contract!Next
    <3> QED
      BY <3>1, <3>2, <3>3
  <2>4. CASE ~(MarkDone(w) \/ ClaimFailed(w) \/ RefundCoins(w))
    BY <1>2, <2>4, <1>fee DEF WorkerStep, Deliver, Abandon, ParseSucceeds,
       ParseFailsTransient, ParseFailsPermanent, ClaimForCompletion,
       PersistBaseline, FollowUp, SettleFailed
  <2> QED
    BY <2>1, <2>2, <2>3, <2>4
<1>3. ASSUME NEW w \in Workers,
             CallRaises(w) \/ WorkerDies(w) \/ ReleaseInflightLeases(w)
      PROVE  UNCHANGED Contract!contract
  BY <1>3, <1>fee DEF CallRaises, WorkerDies, ReleaseInflightLeases
<1>4. ASSUME NEW p \in Pollers, PollStep(p) \/ PollDies(p)
      PROVE  Contract!Next \/ UNCHANGED Contract!contract
  <2>1. CASE PollSweep(p)
    <3>1. Contract!FailAndReturn({k \in Jobs : Stale(k)})
      BY <2>1, ContractSweep DEF PollSweep
    <3> QED
      BY <3>1 DEF Contract!Next
  <2> QED
    BY <1>4, <2>1, <1>fee DEF PollStep, FetchStale, ClaimStalled, RequeueAbandoned,
       RecordStallRequeue, PollDies
<1>5. CASE BootSweep
  <2>1. Contract!FailAndReturn({k \in Jobs : Stale(k)})
    BY <1>5, ContractSweep DEF BootSweep
  <2> QED
    BY <2>1 DEF Contract!Next
<1>6. ASSUME NEW k \in Jobs, LeaseExpires(k) PROVE UNCHANGED Contract!contract
  BY <1>6, <1>fee DEF LeaseExpires
<1>7. CASE UNCHANGED vars
  BY <1>7, <1>fee DEF vars
<1>8. ASSUME NEW r \in Requests, RequestDies(r) PROVE UNCHANGED Contract!contract
  BY <1>8, <1>fee DEF RequestDies
<1> QED
  BY <1>1, <1>2, <1>3, <1>4, <1>5, <1>6, <1>7, <1>8 DEF Next

\* Behind all its leases, retries, duplicate deliveries and sweeps, an upload
\* takes its fee once, ends once, and gives back once: what it took, or the flat
\* price for a job that was free.
THEOREM UploadImplementsContract == Spec => ImplementsContract
<1>1. Init => Contract!Init
  BY ContractInit
<1>2. TypeOK /\ UploadInv /\ [Next]_vars => [Contract!Next]_(Contract!contract)
  BY ContractStep
<1> QED
  BY <1>1, <1>2, TypeCorrect, UploadInvariant, PTL
     DEF Spec, ImplementsContract, Contract!Spec

\* What a job costs tells whether it is free.
LEMMA FeeTellsFree ==
  ASSUME NEW k \in Jobs, [j \in Jobs |-> Cost(j)]'[k] = [j \in Jobs |-> Cost(j)][k]
  PROVE  k \in free' <=> k \in free
BY NumbersAssumption DEF Cost

LEMMA ContractKeepsBound ==
  ASSUME TypeOK, TypeOK', UploadInv, RefundWithinCharge, [Contract!Next]_(Contract!contract)
  PROVE  RefundWithinCharge'
<1> DEFINE Fee(k) == [j \in Jobs |-> Cost(j)][k]
<1> SUFFICES ASSUME NEW k \in Jobs
             PROVE  refunded'[k] <= IF k \in free' THEN Price ELSE charged'[k]
  BY DEF RefundWithinCharge
<1>1. /\ refunded[k] <= IF k \in free THEN Price ELSE charged[k]
      /\ k \in free => charged[k] = 0
      /\ refunded[k] > 0 => status[k] = "failed"
      /\ refunded[k] \in Nat /\ charged[k] \in Nat /\ Price \in Nat
      /\ Fee(k) = IF k \in free THEN 0 ELSE Price
  BY NumbersAssumption DEF TypeOK, UploadInv, ChargedAtMostOnce, RefundedHasFailed,
     RefundWithinCharge, Cost
<1>2. ASSUME NEW j \in Jobs, Contract!Open(j) PROVE refunded'[k] <= IF k \in free' THEN Price ELSE charged'[k]
  <2>1. CASE k = j
    BY <1>1, <1>2, <2>1, NumbersAssumption DEF Contract!Open, TypeOK
  <2>2. CASE k # j
    <3>1. Fee(k)' = Fee(k)
      BY <1>2, <2>2 DEF Contract!Open
    <3> QED
      BY <1>1, <1>2, <3>1, FeeTellsFree DEF Contract!Open
  <2> QED
    BY <2>1, <2>2
<1>3. ASSUME Fee(k)' = Fee(k) PROVE k \in free' <=> k \in free
  BY <1>3, FeeTellsFree
<1>4. ASSUME NEW j \in Jobs, Contract!Finish(j) \/ Contract!Fail(j)
      PROVE  refunded'[k] <= IF k \in free' THEN Price ELSE charged'[k]
  BY <1>1, <1>3, <1>4 DEF Contract!Finish, Contract!Fail
<1>5. ASSUME NEW j \in Jobs, Contract!Take(j)
      PROVE  refunded'[k] <= IF k \in free' THEN Price ELSE charged'[k]
  BY <1>1, <1>3, <1>5 DEF Contract!Take, TypeOK
<1>6. ASSUME NEW j \in Jobs, Contract!Return(j)
      PROVE  refunded'[k] <= IF k \in free' THEN Price ELSE charged'[k]
  <2>1. Fee(k)' = Fee(k) /\ UNCHANGED charged
    BY <1>6 DEF Contract!Return
  <2>2. \/ refunded'[k] = refunded[k]
        \/ refunded'[k] = charged[k]
        \/ Fee(k) = 0 /\ refunded'[k] = Price
    BY <1>6 DEF Contract!Return, TypeOK
  <2> QED
    BY <1>1, <1>3, <2>1, <2>2, NumbersAssumption
<1>7. ASSUME NEW S \in SUBSET Jobs, Contract!FailAndReturn(S)
      PROVE  refunded'[k] <= IF k \in free' THEN Price ELSE charged'[k]
  BY <1>1, <1>3, <1>7 DEF Contract!FailAndReturn
<1>8. CASE UNCHANGED Contract!contract
  BY <1>1, <1>3, <1>8 DEF Contract!contract
<1> QED
  BY <1>2, <1>4, <1>5, <1>6, <1>7, <1>8 DEF Contract!Next

\* No failure path returns more than the ledger took, the flat refund of
\* _fail_and_refund included, but to a job that was free: that one may be given
\* the price it never paid, and no more than that.
THEOREM RefundsStayWithinCharges == Spec => []RefundWithinCharge
<1>1. Init => RefundWithinCharge
  BY NumbersAssumption DEF Init, RefundWithinCharge
<1>2. TypeOK /\ UploadInv /\ RefundWithinCharge /\ [Next]_vars => RefundWithinCharge'
  BY NextType, ContractStep, ContractKeepsBound
<1> QED
  BY <1>1, <1>2, TypeCorrect, UploadInvariant, PTL DEF Spec

-----------------------------------------------------------------------------
(***************************************************************************)
(* The requeue budget.                                                     *)
(***************************************************************************)
LEMMA OwingIsFinite ==
  ASSUME NEW k \in Jobs
  PROVE  /\ IsFiniteSet(Owing(k))
         /\ Cardinality(Owing(k)) \in Nat
         /\ Cardinality(Owing(k)) <= Cardinality(Pollers)
<1>1. Owing(k) \subseteq Pollers
  BY DEF Owing
<1> QED
  BY <1>1, PollersAssumption, FS_Subset, FS_CardinalityType

LEMMA InitOwing == Init => OwingInv
<1> SUFFICES ASSUME Init, NEW k \in Jobs
             PROVE  stalls[k] + Cardinality(Owing(k)) <= (MaxStalls + Cardinality(Pollers)) - 1
  BY DEF OwingInv
<1>1. Owing(k) = {} /\ stalls[k] = 0
  BY DEF Init, Owing
<1>2. Cardinality(Owing(k)) = 0 /\ Cardinality(Pollers) \in Nat
  BY <1>1, FS_EmptySet, FS_CardinalityType, PollersAssumption
<1> QED
  BY <1>1, <1>2, NumbersAssumption

\* A step that changes no count and starts no requeue only shrinks Owing.
LEMMA OwingShrinks ==
  ASSUME TypeOK, OwingInv, NEW k \in Jobs,
         stalls'[k] = stalls[k], Owing(k)' \subseteq Owing(k)
  PROVE  stalls'[k] + Cardinality(Owing(k)') <= (MaxStalls + Cardinality(Pollers)) - 1
<1>1. IsFiniteSet(Owing(k)) /\ Cardinality(Owing(k)) \in Nat
  BY OwingIsFinite
<1>2. Cardinality(Owing(k)') \in Nat /\ Cardinality(Owing(k)') <= Cardinality(Owing(k))
  BY <1>1, FS_Subset, FS_CardinalityType
<1>3. Cardinality(Pollers) \in Nat /\ stalls[k] \in Nat
  BY PollersAssumption, FS_CardinalityType DEF TypeOK
<1> QED
  BY <1>1, <1>2, <1>3, NumbersAssumption DEF OwingInv

LEMMA NextOwing == TypeOK /\ OwingInv /\ [Next]_vars => OwingInv'
<1> SUFFICES ASSUME TypeOK, OwingInv, [Next]_vars, NEW j \in Jobs
             PROVE  stalls'[j] + Cardinality(Owing(j)') <= (MaxStalls + Cardinality(Pollers)) - 1
  BY DEF OwingInv
<1> DEFINE Goal == stalls'[j] + Cardinality(Owing(j)') <= (MaxStalls + Cardinality(Pollers)) - 1
<1>1. ASSUME UNCHANGED <<stalls, polls>> PROVE Goal
  BY <1>1, OwingShrinks DEF Owing
<1>2. ASSUME NEW p \in Pollers, NEW k \in Jobs, FetchStale(p, k) PROVE Goal
  <2>1. stalls' = stalls
    BY <1>2 DEF FetchStale
  <2>2. CASE j = k /\ WithinBudget(k)
    <3>1. stalls[j] < MaxStalls
      BY <2>2 DEF WithinBudget
    <3>2. Owing(j)' \subseteq Pollers
      BY DEF Owing
    <3>3. /\ Cardinality(Owing(j)') \in Nat
          /\ Cardinality(Owing(j)') <= Cardinality(Pollers)
          /\ Cardinality(Pollers) \in Nat
      BY <3>2, PollersAssumption, FS_Subset, FS_CardinalityType
    <3> QED
      BY <2>1, <3>1, <3>3, NumbersAssumption DEF TypeOK
  <2>3. CASE ~(j = k /\ WithinBudget(k))
    <3>1. Owing(j)' \subseteq Owing(j)
      BY <1>2, <2>3 DEF FetchStale, GoPoll, Owing, TypeOK
    <3> QED
      BY <2>1, <3>1, OwingShrinks
  <2> QED
    BY <2>2, <2>3
<1>3. ASSUME NEW p \in Pollers,
             ClaimStalled(p) \/ RequeueAbandoned(p) \/ PollSweep(p) \/ PollDies(p)
      PROVE  Goal
  <2>1. stalls' = stalls
    BY <1>3 DEF ClaimStalled, RequeueAbandoned, PollSweep, SweepStaleJobs, PollDies
  <2>2. Owing(j)' \subseteq Owing(j)
    BY <1>3 DEF ClaimStalled, RequeueAbandoned, PollSweep, PollDies, GoPoll, Owing, TypeOK
  <2> QED
    BY <2>1, <2>2, OwingShrinks
<1>4. ASSUME NEW p \in Pollers, RecordStallRequeue(p) PROVE Goal
  <2>1. CASE pjob[p] = j
    <3>1. stalls'[j] = stalls[j] + 1 /\ stalls[j] \in Nat
      BY <1>4, <2>1 DEF RecordStallRequeue, TypeOK
    <3>2. p \in Owing(j) /\ Owing(j)' = Owing(j) \ {p}
      BY <1>4, <2>1 DEF RecordStallRequeue, GoPoll, Owing, TypeOK
    <3>3. Cardinality(Owing(j)') = Cardinality(Owing(j)) - 1
      BY <3>2, OwingIsFinite, FS_RemoveElement
    <3>4. Cardinality(Owing(j)) \in Nat /\ Cardinality(Pollers) \in Nat
      BY OwingIsFinite, PollersAssumption, FS_CardinalityType
    <3> QED
      BY <3>1, <3>3, <3>4, NumbersAssumption DEF OwingInv
  <2>2. CASE pjob[p] # j
    <3>1. stalls'[j] = stalls[j]
      BY <1>4, <2>2 DEF RecordStallRequeue, TypeOK
    <3>2. Owing(j)' \subseteq Owing(j)
      BY <1>4 DEF RecordStallRequeue, GoPoll, Owing, TypeOK
    <3> QED
      BY <3>1, <3>2, OwingShrinks
  <2> QED
    BY <2>1, <2>2
<1>5. ASSUME NEW r \in Requests, RequestStep(r) \/ RequestDies(r)
      PROVE  UNCHANGED <<stalls, polls>>
  BY <1>5 DEF RequestStep, LookUp, CreateProcessingJob, ChargeCoins,
              RejectInsufficient, MarkCharged, Enqueue, RequestDies
<1>6. ASSUME NEW w \in Workers,
             \/ WorkerStep(w) \/ CallRaises(w)
             \/ WorkerDies(w) \/ ReleaseInflightLeases(w)
      PROVE  UNCHANGED <<stalls, polls>>
  BY <1>6 DEF WorkerStep, Deliver, Abandon, ParseSucceeds, ParseFailsTransient,
              ParseFailsPermanent, ClaimForCompletion, PersistBaseline, MarkDone,
              FollowUp, ClaimFailed, RefundCoins, SettleFailed, CallRaises,
              WorkerDies, ReleaseInflightLeases
<1>7. ASSUME \/ BootSweep
             \/ \E k \in Jobs : LeaseExpires(k)
             \/ UNCHANGED vars
      PROVE  UNCHANGED <<stalls, polls>>
  BY <1>7 DEF BootSweep, SweepStaleJobs, LeaseExpires, vars
<1> QED
  BY <1>1, <1>2, <1>3, <1>4, <1>5, <1>6, <1>7 DEF Next, PollStep

LEMMA CountingIsFinite ==
  ASSUME NEW k \in Jobs
  PROVE  /\ IsFiniteSet(Counting(k)) /\ Cardinality(Counting(k)) \in Nat
         /\ Cardinality(Counting(k)) <= Cardinality(Owing(k))
<1>1. Counting(k) \subseteq Owing(k)
  BY DEF Counting, Owing
<1> QED
  BY <1>1, OwingIsFinite, FS_Subset, FS_CardinalityType

LEMMA InitCount == Init => CountInv
<1> SUFFICES ASSUME Init, NEW k \in Jobs
             PROVE  requeued[k] <= stalls[k] + Cardinality(Counting(k)) + faults
  BY DEF CountInv
<1>1. Counting(k) = {} /\ stalls[k] = 0 /\ requeued[k] = 0 /\ faults = 0
  BY DEF Init, Counting
<1> QED
  BY <1>1, FS_EmptySet

\* A requeue is in the poll's hands until it counts it, or is lost with the poll.
LEMMA NextCount == TypeOK /\ CountInv /\ [Next]_vars => CountInv'
<1> SUFFICES ASSUME TypeOK, CountInv, [Next]_vars, NEW j \in Jobs
             PROVE  requeued'[j] <= stalls'[j] + Cardinality(Counting(j)') + faults'
  BY DEF CountInv
<1> DEFINE Goal == requeued'[j] <= stalls'[j] + Cardinality(Counting(j)') + faults'
<1>0. /\ requeued[j] \in Nat /\ stalls[j] \in Nat /\ faults \in Nat
      /\ IsFiniteSet(Counting(j)) /\ Cardinality(Counting(j)) \in Nat
      /\ requeued[j] <= stalls[j] + Cardinality(Counting(j)) + faults
  BY CountingIsFinite DEF TypeOK, CountInv
<1>1. ASSUME requeued'[j] = requeued[j], stalls'[j] = stalls[j], Counting(j)' = Counting(j),
             faults' = faults \/ faults' = faults + 1
      PROVE  Goal
  BY <1>0, <1>1
<1>2. ASSUME NEW p \in Pollers,
             ClaimStalled(p) \/ PollSweep(p) \/ (\E k \in Jobs : FetchStale(p, k))
      PROVE  Goal
  <2>1. UNCHANGED <<requeued, stalls, faults>>
    BY <1>2 DEF ClaimStalled, PollSweep, SweepStaleJobs, FetchStale
  <2>2. Counting(j)' = Counting(j)
    BY <1>2 DEF ClaimStalled, PollSweep, FetchStale, GoPoll, Counting, TypeOK
  <2> QED
    BY <2>1, <2>2, <1>1
<1>3. ASSUME NEW p \in Pollers, RequeueAbandoned(p) PROVE Goal
  <2>1. /\ ppc[p] = "requeue" /\ p \notin Counting(j) /\ UNCHANGED <<stalls, faults>>
    BY <1>3 DEF RequeueAbandoned, Counting
  <2>2. CASE requeued' = requeued /\ ppc' = [ppc EXCEPT ![p] = "sweep"] /\ pjob' = pjob
    <3>1. Counting(j)' = Counting(j)
      BY <2>1, <2>2 DEF Counting, TypeOK
    <3> QED
      BY <2>1, <2>2, <3>1, <1>1
  <2>3. CASE /\ requeued' = [requeued EXCEPT ![pjob[p]] = @ + 1]
             /\ ppc' = [ppc EXCEPT ![p] = "count"] /\ pjob' = pjob
    <3>1. CASE pjob[p] = j
      <4>1. Counting(j)' = Counting(j) \cup {p} /\ requeued'[j] = requeued[j] + 1
        BY <2>1, <2>3, <3>1 DEF Counting, TypeOK
      <4>2. Cardinality(Counting(j)') = Cardinality(Counting(j)) + 1
        BY <1>0, <2>1, <4>1, FS_AddElement
      <4> QED
        BY <1>0, <2>1, <4>1, <4>2
    <3>2. CASE pjob[p] # j
      <4>1. Counting(j)' = Counting(j) /\ requeued'[j] = requeued[j]
        BY <2>1, <2>3, <3>2 DEF Counting, TypeOK
      <4> QED
        BY <2>1, <4>1, <1>1
    <3> QED
      BY <3>1, <3>2
  <2> QED
    BY <1>3, <2>2, <2>3 DEF RequeueAbandoned, GoPoll
<1>4. ASSUME NEW p \in Pollers, RecordStallRequeue(p) PROVE Goal
  <2>1. /\ ppc[p] = "count" /\ UNCHANGED <<requeued, faults>>
        /\ stalls' = [stalls EXCEPT ![pjob[p]] = @ + 1]
        /\ Counting(j)' = Counting(j) \ {p} /\ (p \in Counting(j) <=> pjob[p] = j)
    BY <1>4 DEF RecordStallRequeue, GoPoll, Counting, TypeOK
  <2>2. Cardinality(Counting(j)') = IF pjob[p] = j THEN Cardinality(Counting(j)) - 1
                                                  ELSE Cardinality(Counting(j))
    BY <1>0, <2>1, FS_RemoveElement
  <2>3. stalls'[j] = IF pjob[p] = j THEN stalls[j] + 1 ELSE stalls[j]
    BY <2>1 DEF TypeOK
  <2> QED
    BY <1>0, <2>1, <2>2, <2>3
<1>5. ASSUME NEW p \in Pollers, PollDies(p) PROVE Goal
  <2>1. /\ UNCHANGED <<requeued, stalls>> /\ faults' = faults + 1
        /\ Counting(j)' = Counting(j) \ {p}
    BY <1>5 DEF PollDies, GoPoll, Counting, TypeOK
  <2>2. Cardinality(Counting(j)') \in {Cardinality(Counting(j)), Cardinality(Counting(j)) - 1}
    BY <1>0, <2>1, FS_RemoveElement
  <2> QED
    BY <1>0, <2>1, <2>2
<1>6. ASSUME UNCHANGED <<stalls, polls>>, faults' = faults \/ faults' = faults + 1 PROVE Goal
  BY <1>1, <1>6 DEF Counting
<1>7. ASSUME NEW r \in Requests, RequestStep(r) \/ RequestDies(r)
      PROVE  UNCHANGED <<stalls, polls>> /\ (faults' = faults \/ faults' = faults + 1)
  BY <1>7 DEF RequestStep, LookUp, CreateProcessingJob, ChargeCoins,
              RejectInsufficient, MarkCharged, Enqueue, RequestDies
<1>8. ASSUME NEW w \in Workers,
             \/ WorkerStep(w) \/ CallRaises(w)
             \/ WorkerDies(w) \/ ReleaseInflightLeases(w)
      PROVE  UNCHANGED <<stalls, polls>> /\ (faults' = faults \/ faults' = faults + 1)
  BY <1>8 DEF WorkerStep, Deliver, Abandon, ParseSucceeds, ParseFailsTransient,
              ParseFailsPermanent, ClaimForCompletion, PersistBaseline, MarkDone,
              FollowUp, ClaimFailed, RefundCoins, SettleFailed, CallRaises, Fault,
              WorkerDies, ReleaseInflightLeases
<1>9. ASSUME \/ BootSweep
             \/ \E k \in Jobs : LeaseExpires(k)
             \/ UNCHANGED vars
      PROVE  UNCHANGED <<stalls, polls, faults>>
  BY <1>9 DEF BootSweep, SweepStaleJobs, LeaseExpires, vars
<1> QED
  BY <1>2, <1>3, <1>4, <1>5, <1>6, <1>7, <1>8, <1>9 DEF Next, PollStep

\* A poll decides on the row it read and counts its requeue after it, so polls
\* put a job back more often than the budget says, but only once more for each
\* other poll and for each failure.
THEOREM StallBudget == Spec => []StallBudgetHolds
<1>1. TypeOK /\ BudgetInv => StallBudgetHolds
  <2> SUFFICES ASSUME TypeOK, BudgetInv, NEW k \in Jobs
               PROVE  requeued[k] <= MaxStalls + (Cardinality(Pollers) - 1) + faults
    BY DEF StallBudgetHolds
  <2>1. /\ stalls[k] + Cardinality(Owing(k)) <= (MaxStalls + Cardinality(Pollers)) - 1
        /\ requeued[k] <= stalls[k] + Cardinality(Counting(k)) + faults
    BY DEF BudgetInv, OwingInv, CountInv
  <2>2. /\ Cardinality(Owing(k)) \in Nat /\ Cardinality(Counting(k)) \in Nat
        /\ Cardinality(Counting(k)) <= Cardinality(Owing(k))
        /\ Cardinality(Pollers) \in Nat
    BY OwingIsFinite, CountingIsFinite, PollersAssumption, FS_CardinalityType
  <2>3. requeued[k] \in Nat /\ stalls[k] \in Nat /\ faults \in Nat /\ MaxStalls \in Nat
    BY NumbersAssumption DEF TypeOK
  <2> QED
    BY <2>1, <2>2, <2>3
<1>2. Init => BudgetInv
  BY InitOwing, InitCount DEF BudgetInv
<1>3. TypeOK /\ BudgetInv /\ [Next]_vars => BudgetInv'
  BY NextOwing, NextCount DEF BudgetInv
<1> QED
  BY <1>1, <1>2, <1>3, TypeCorrect, PTL DEF Spec

-----------------------------------------------------------------------------
(***************************************************************************)
(* What the user is told of a refund.                                      *)
(***************************************************************************)

\* Nobody but its own request handles a job before its charge is taken.
LEMMA UnpaidIsUnworked ==
  ASSUME TypeOK, UploadInv, NEW k \in Jobs, Unpaid(k)
  PROVE  /\ charged[k] = 0 /\ queue[k] = 0 /\ ~orphaned[k]
         /\ \A w \in Workers : wpc[w] # "idle" => wjob[w] # k
<1> PICK r \in Requests : rpc[r] = "charge" /\ rjob[r] = k
  BY DEF Unpaid
<1>1. charged[k] = 0 /\ Cost(k) > 0 /\ charged[k] # Cost(k)
  BY CostIsNat DEF UploadInv, IntakeCharges, Unpaid
<1> QED
  BY <1>1 DEF UploadInv, QueuedIsCharged, WorkedIsCharged, TypeOK

\* A step that takes no charge, reaches no unpaid row and sets no flag.
LEMMA FlagKept ==
  ASSUME TypeOK, TypeOK', FlagInv,
         \A k \in Jobs : Unpaid(k)' => Unpaid(k) /\ status'[k] = status[k] /\ lease'[k] = lease[k],
         \A k \in Jobs : status'[k] = "absent" => status[k] = "absent",
         UNCHANGED <<flagged, ledger>>,
         \A w \in Workers : wpc'[w] = "settle" => wpc[w] = "settle" /\ wjob'[w] = wjob[w],
         \A p \in Pollers : ppc'[p] # "idle" => ppc[p] # "idle" /\ pjob'[p] = pjob[p]
  PROVE  FlagInv'
<1>1. UnpaidIsOutOfReach'
  BY DEF FlagInv, UnpaidIsOutOfReach
<1>2. AbsentIsUnseen'
  BY DEF FlagInv, AbsentIsUnseen, TypeOK
<1>3. RefundedInFull'
  BY DEF FlagInv, RefundedInFull
<1> QED
  BY <1>1, <1>2, <1>3 DEF FlagInv

\* The sweep gives back the whole charge of each row it flags.
LEMMA SweepFlags ==
  ASSUME TypeOK, UploadInv, FlagInv, SweepStaleJobs,
         UNCHANGED <<web, wpc, wjob, pjob>>,
         \A p \in Pollers : ppc'[p] # "idle" => ppc[p] # "idle"
  PROVE  FlagInv'
<1> USE DEF TypeOK, FlagInv, Processing, Stale
<1>1. UNCHANGED charged /\ \A k \in Jobs : Unpaid(k)' <=> Unpaid(k)
  BY DEF SweepStaleJobs, Unpaid, Cost
<1>2. \A k \in Jobs : Unpaid(k) => ~Stale(k)
  BY DEF UnpaidIsOutOfReach
<1>3. UnpaidIsOutOfReach'
  BY <1>1, <1>2 DEF UnpaidIsOutOfReach, SweepStaleJobs
<1>4. AbsentIsUnseen'
  BY DEF AbsentIsUnseen, SweepStaleJobs
<1>5. \A k \in Jobs : Stale(k) => refunded[k] = 0
  BY DEF UploadInv, RefundedHasFailed
<1>6. \A k \in Jobs : refunded'[k] = IF Stale(k) THEN charged[k] ELSE refunded[k]
  BY <1>5 DEF SweepStaleJobs, Repaid, SweepRefund
<1>7. \A w \in Workers : wpc[w] = "settle" => ~Stale(wjob[w])
  BY DEF UploadInv, RefundInHand
<1>8. RefundedInFull'
  BY <1>1, <1>6, <1>7 DEF RefundedInFull, SweepStaleJobs
<1> QED
  BY <1>3, <1>4, <1>8

LEMMA NextFlag ==
  ASSUME PromptIntake
  PROVE  TypeOK /\ TypeOK' /\ UploadInv /\ FlagInv /\ [Next]_vars => FlagInv'
<1> SUFFICES ASSUME TypeOK, TypeOK', UploadInv, FlagInv, [Next]_vars PROVE FlagInv'
  OBVIOUS
<1> USE DEF Processing
<1>unworked. \A k \in Jobs : Unpaid(k) =>
               /\ queue[k] = 0 /\ ~orphaned[k]
               /\ \A w \in Workers : wpc[w] # "idle" => wjob[w] # k
  BY UnpaidIsUnworked
<1>out. \A k \in Jobs : Unpaid(k) =>
          /\ status[k] = "processing" /\ lease[k] = "live" /\ ~flagged[k]
          /\ \A p \in Pollers : ppc[p] # "idle" => pjob[p] # k
  BY DEF FlagInv, UnpaidIsOutOfReach
<1>1. ASSUME NEW r \in Requests, LookUp(r) \/ MarkCharged(r) \/ Enqueue(r) \/ RequestDies(r)
      PROVE  FlagInv'
  <2>1. \A k \in Jobs : Unpaid(k)' => Unpaid(k)
    BY <1>1 DEF LookUp, MarkCharged, Enqueue, RequestDies, GoRequest, Unpaid, Cost, TypeOK
  <2> QED
    BY <1>1, <2>1, FlagKept DEF LookUp, MarkCharged, Enqueue, RequestDies
<1>2. ASSUME NEW r \in Requests, CreateProcessingJob(r) PROVE FlagInv'
  <2> DEFINE k == rjob[r]
  <2>0. k \in Jobs
    BY <1>2 DEF CreateProcessingJob, TypeOK
  <2>1. CASE MayInsert(k)
    <3>1. /\ status[k] = "absent" /\ ~flagged[k]
          /\ \A p \in Pollers : ppc[p] # "idle" => pjob[p] # k
      BY <2>0, <2>1 DEF MayInsert, FlagInv, AbsentIsUnseen
    <3>2. /\ status' = [status EXCEPT ![k] = "processing"]
          /\ lease' = [lease EXCEPT ![k] = "live"]
          /\ rpc' = [rpc EXCEPT ![r] = "charge"]
          /\ free' \in {free, free \cup {k}}
          /\ UNCHANGED <<flagged, ledger, rjob, wpc, wjob, polls>>
      BY <1>2, <2>1 DEF CreateProcessingJob, GoRequest
    <3>3. \A j \in Jobs : Unpaid(j)' => j = k \/ Unpaid(j)
      BY <3>2 DEF Unpaid, Cost, TypeOK
    <3>4. UnpaidIsOutOfReach'
      BY <2>0, <1>out, <3>1, <3>2, <3>3 DEF UnpaidIsOutOfReach, TypeOK
    <3>5. AbsentIsUnseen' /\ RefundedInFull'
      BY <2>0, <3>2 DEF FlagInv, AbsentIsUnseen, RefundedInFull, TypeOK
    <3> QED
      BY <3>4, <3>5 DEF FlagInv
  <2>2. CASE ~MayInsert(k)
    <3>1. \A j \in Jobs : Unpaid(j)' => Unpaid(j)
      BY <1>2, <2>2 DEF CreateProcessingJob, GoRequest, Unpaid, Cost, TypeOK
    <3> QED
      BY <1>2, <2>2, <3>1, FlagKept DEF CreateProcessingJob
  <2> QED
    BY <2>1, <2>2
<1>3. ASSUME NEW r \in Requests, ChargeCoins(r) PROVE FlagInv'
  <2> DEFINE k == rjob[r]
  <2>0. /\ k \in Jobs /\ charged[k] = 0 /\ rpc[r] = "charge" /\ Cost(k) \in Nat
        /\ charged' = [charged EXCEPT ![k] = charged[k] + Cost(k)]
        /\ rpc' = [rpc EXCEPT ![r] = "stamp"]
        /\ UNCHANGED <<row, refunded, rjob, free, wpc, wjob, polls>>
    BY <1>3, CostIsNat DEF ChargeCoins, GoRequest, TypeOK, UploadInv, IntakeCharges
  <2>1. charged[k] + Cost(k) = Cost(k)
    BY <2>0
  <2>2. \A j \in Jobs : Unpaid(j)' => Unpaid(j)
    BY <2>0, <2>1 DEF Unpaid, Cost, TypeOK
  <2>3. UnpaidIsOutOfReach' /\ AbsentIsUnseen'
    BY <1>out, <2>0, <2>1, <2>2 DEF FlagInv, UnpaidIsOutOfReach, AbsentIsUnseen
  <2>4. CASE Cost(k) = 0
    <3>1. charged' = charged
      BY <2>0, <2>1, <2>4 DEF TypeOK
    <3> QED
      BY <2>0, <2>1, <2>3, <3>1 DEF FlagInv, RefundedInFull
  <2>5. CASE Cost(k) > 0
    <3>1. Unpaid(k)
      BY <2>0, <2>1, <2>5 DEF Unpaid
    <3>2. /\ ~flagged[k] /\ refunded[k] = 0
          /\ \A w \in Workers : wpc[w] # "idle" => wjob[w] # k
      BY <2>0, <2>1, <3>1, <1>out, <1>unworked DEF UploadInv, RefundedHasFailed, TypeOK
    <3>3. RefundedInFull'
      BY <2>0, <2>1, <3>2 DEF FlagInv, RefundedInFull, TypeOK
    <3> QED
      BY <2>3, <3>3 DEF FlagInv
  <2> QED
    BY <2>0, <2>1, <2>4, <2>5
<1>4. ASSUME NEW r \in Requests, RejectInsufficient(r) PROVE FlagInv'
  <2> DEFINE k == rjob[r]
  <2>1. /\ k \in Jobs /\ rpc[r] = "charge" /\ Unpaid(k)
        /\ status' = [status EXCEPT ![k] = "failed"]
        /\ flagged' = [flagged EXCEPT ![k] = FALSE]
        /\ lease' = [lease EXCEPT ![k] = "null"]
        /\ rpc' = [rpc EXCEPT ![r] = "over"]
        /\ UNCHANGED <<ledger, rjob, free, wpc, wjob, polls>>
    BY <1>4, <1>out DEF RejectInsufficient, MayFail, GoRequest, TypeOK, Unpaid
  <2>2. flagged' = flagged
    BY <1>out, <2>1 DEF TypeOK
  <2>3. \A j \in Jobs : Unpaid(j)' => Unpaid(j) /\ j # k
    BY <2>1 DEF Unpaid, Cost, TypeOK, UploadInv, OneIntake, Intake
  <2> QED
    BY <2>1, <2>2, <2>3, FlagKept DEF TypeOK
<1>5. ASSUME NEW w \in Workers,
             \/ \E k \in Jobs : Deliver(w, k) \/ Abandon(w, k)
             \/ ParseSucceeds(w) \/ ParseFailsTransient(w) \/ ParseFailsPermanent(w)
             \/ ClaimForCompletion(w) \/ PersistBaseline(w) \/ FollowUp(w)
             \/ CallRaises(w) \/ WorkerDies(w) \/ ReleaseInflightLeases(w)
      PROVE  FlagInv'
  <2>1. UNCHANGED <<status, flagged, ledger, web, polls>>
    BY <1>5 DEF Deliver, Abandon, ParseSucceeds, ParseFailsTransient, ParseFailsPermanent,
       ClaimForCompletion, PersistBaseline, FollowUp, CallRaises, WorkerDies,
       ReleaseInflightLeases
  <2>2. \A k \in Jobs : Unpaid(k)' <=> Unpaid(k)
    BY <2>1 DEF Unpaid, Cost
  <2>3. \A v \in Workers : wpc'[v] = "settle" => wpc[v] = "settle" /\ wjob'[v] = wjob[v]
    BY <1>5 DEF Deliver, Abandon, ParseSucceeds, ParseFailsTransient, ParseFailsPermanent,
       ClaimForCompletion, PersistBaseline, FollowUp, CallRaises, WorkerDies,
       ReleaseInflightLeases, GoWorker, Assign, Raise, Return, TypeOK
  <2>4. \A k \in Jobs : Unpaid(k) => lease'[k] = lease[k]
    <3>1. SUFFICES ASSUME NEW k \in Jobs, Unpaid(k) PROVE lease'[k] = lease[k]
      OBVIOUS
    <3>2. CASE UNCHANGED lease
      BY <3>2
    <3>3. CASE ParseSucceeds(w) \/ ClaimForCompletion(w) \/ ReleaseInflightLeases(w)
      BY <1>unworked, <3>1, <3>3 DEF ParseSucceeds, ClaimForCompletion,
         ReleaseInflightLeases, Heartbeat, TypeOK
    <3>4. ASSUME NEW j \in Jobs, Deliver(w, j) PROVE lease'[k] = lease[k]
      BY <1>unworked, <3>1, <3>4 DEF Deliver, Heartbeat, TypeOK
    <3> QED
      BY <1>5, <3>2, <3>3, <3>4 DEF Abandon, ParseFailsTransient, ParseFailsPermanent,
         PersistBaseline, FollowUp, CallRaises, WorkerDies
  <2> QED
    BY <2>1, <2>2, <2>3, <2>4, FlagKept
<1>6. ASSUME NEW w \in Workers, MarkDone(w) PROVE FlagInv'
  <2>1. /\ wjob[w] \in Jobs /\ wpc[w] = "finish" /\ ~Unpaid(wjob[w])
        /\ UNCHANGED <<flagged, ledger, web, wjob, polls>>
    BY <1>6, <1>unworked DEF MarkDone, TypeOK
  <2>2. \A k \in Jobs : Unpaid(k)' <=> Unpaid(k)
    BY <2>1 DEF Unpaid, Cost
  <2>3. \A v \in Workers : wpc'[v] = "settle" => wpc[v] = "settle"
    BY <1>6 DEF MarkDone, GoWorker, TypeOK
  <2>4. \A k \in Jobs : Unpaid(k) \/ status'[k] = "absent" => status'[k] = status[k] /\ lease'[k] = lease[k]
    BY <1>6, <2>1 DEF MarkDone, TypeOK
  <2> QED
    BY <2>1, <2>2, <2>3, <2>4, FlagKept
<1>7. ASSUME NEW w \in Workers, ClaimFailed(w) PROVE FlagInv'
  <2> DEFINE k == wjob[w]
  <2>1. /\ k \in Jobs /\ wpc[w] = "fail" /\ ~Unpaid(k)
        /\ UNCHANGED <<ledger, web, wjob, polls>>
        /\ \A v \in Workers : wpc'[v] = "settle" => wpc[v] = "settle"
        /\ \A j \in Jobs : j # k => /\ status'[j] = status[j] /\ lease'[j] = lease[j]
                                    /\ flagged'[j] = flagged[j]
        /\ flagged'[k] => flagged[k]
        /\ status'[k] = "absent" => status[k] = "absent"
    BY <1>7, <1>unworked DEF ClaimFailed, Return, GoWorker, TypeOK
  <2>2. \A j \in Jobs : Unpaid(j)' <=> Unpaid(j)
    BY <2>1 DEF Unpaid, Cost
  <2>3. UnpaidIsOutOfReach'
    BY <1>out, <2>1, <2>2 DEF UnpaidIsOutOfReach
  <2>4. AbsentIsUnseen'
    BY <2>1 DEF FlagInv, AbsentIsUnseen, TypeOK
  <2>5. RefundedInFull'
    BY <2>1 DEF FlagInv, RefundedInFull, TypeOK
  <2> QED
    BY <2>3, <2>4, <2>5 DEF FlagInv
<1>8. ASSUME NEW w \in Workers, RefundCoins(w) PROVE FlagInv'
  <2> DEFINE k == wjob[w]
  <2>1. /\ k \in Jobs /\ wpc[w] = "refund" /\ charged[k] = Cost(k) /\ Cost(k) <= Price
        /\ refunded' = [refunded EXCEPT ![k] = Repaid(k, Price)]
        /\ wpc' = [wpc EXCEPT ![w] = "settle"]
        /\ UNCHANGED <<row, charged, web, wjob, polls>>
    BY <1>8, NumbersAssumption
       DEF RefundCoins, GoWorker, TypeOK, UploadInv, WorkedIsCharged, Cost
  <2>2. refunded'[k] >= charged[k] /\ refunded'[k] >= refunded[k]
    BY <2>1, CostIsNat, NumbersAssumption DEF Repaid, FlagInv, RefundedInFull, TypeOK
  <2>3. UnpaidIsOutOfReach' /\ AbsentIsUnseen'
    BY <2>1 DEF FlagInv, UnpaidIsOutOfReach, AbsentIsUnseen, Unpaid, Cost
  <2>4. RefundedInFull'
    BY <2>1, <2>2 DEF FlagInv, RefundedInFull, TypeOK
  <2> QED
    BY <2>3, <2>4 DEF FlagInv
<1>9. ASSUME NEW w \in Workers, SettleFailed(w) PROVE FlagInv'
  <2> DEFINE k == wjob[w]
  <2>1. /\ k \in Jobs /\ refunded[k] >= charged[k] /\ status[k] = "failed" /\ ~Unpaid(k)
        /\ flagged' = [flagged EXCEPT ![k] = TRUE]
        /\ wpc' = [wpc EXCEPT ![w] = "idle"]
        /\ UNCHANGED <<status, lease, ledger, web, wjob, polls>>
    BY <1>9, <1>unworked DEF SettleFailed, Return, GoWorker, TypeOK, UploadInv,
       RefundInHand, FlagInv, RefundedInFull
  <2>2. \A j \in Jobs : Unpaid(j)' <=> Unpaid(j)
    BY <2>1 DEF Unpaid, Cost
  <2>3. UnpaidIsOutOfReach' /\ AbsentIsUnseen'
    BY <2>1, <2>2 DEF FlagInv, UnpaidIsOutOfReach, AbsentIsUnseen, TypeOK
  <2>4. RefundedInFull'
    BY <2>1 DEF FlagInv, RefundedInFull, TypeOK
  <2> QED
    BY <2>3, <2>4 DEF FlagInv
<1>10. ASSUME NEW p \in Pollers, NEW k \in Jobs, FetchStale(p, k) PROVE FlagInv'
  <2>1. /\ status[k] = "processing" /\ lease[k] = "expired"
        /\ pjob' = [pjob EXCEPT ![p] = k]
        /\ \A q \in Pollers : q # p => ppc'[q] = ppc[q]
        /\ UNCHANGED <<row, ledger, web, wpc, wjob>>
    BY <1>10 DEF FetchStale, Stale, GoPoll, TypeOK
  <2>2. \A j \in Jobs : Unpaid(j)' <=> Unpaid(j)
    BY <2>1 DEF Unpaid, Cost
  <2>3. UnpaidIsOutOfReach'
    BY <1>out, <2>1, <2>2 DEF UnpaidIsOutOfReach, TypeOK
  <2>4. AbsentIsUnseen' /\ RefundedInFull'
    BY <2>1 DEF FlagInv, AbsentIsUnseen, RefundedInFull, TypeOK
  <2> QED
    BY <2>3, <2>4 DEF FlagInv
<1>11. ASSUME NEW p \in Pollers,
              \/ ClaimStalled(p) \/ RequeueAbandoned(p)
              \/ RecordStallRequeue(p) \/ PollDies(p)
       PROVE  FlagInv'
  <2>1. /\ UNCHANGED <<status, flagged, ledger, web, wpc, wjob, pjob>>
        /\ \A q \in Pollers : ppc'[q] # "idle" => ppc[q] # "idle"
    BY <1>11 DEF ClaimStalled, RequeueAbandoned, RecordStallRequeue, PollDies, GoPoll, TypeOK
  <2>2. \A k \in Jobs : Unpaid(k)' <=> Unpaid(k)
    BY <2>1 DEF Unpaid, Cost
  <2>3. \A k \in Jobs : Unpaid(k) => lease'[k] = lease[k]
    BY <1>11, <1>out DEF ClaimStalled, RequeueAbandoned, RecordStallRequeue, PollDies, TypeOK
  <2> QED
    BY <2>1, <2>2, <2>3, FlagKept
<1>12. ASSUME NEW p \in Pollers, PollSweep(p) PROVE FlagInv'
  BY <1>12, SweepFlags DEF PollSweep, GoPoll, TypeOK
<1>13. CASE BootSweep
  BY <1>13, SweepFlags DEF BootSweep
<1>14. ASSUME NEW k \in Jobs, LeaseExpires(k) PROVE FlagInv'
  <2>1. /\ ~Unpaid(k)
        /\ lease' = [lease EXCEPT ![k] = "expired"]
        /\ UNCHANGED <<status, flagged, ledger, web, wpc, wjob, polls>>
    BY <1>14 DEF LeaseExpires, InIntake, Unpaid
  <2>2. \A j \in Jobs : Unpaid(j)' <=> Unpaid(j)
    BY <2>1 DEF Unpaid, Cost
  <2> QED
    BY <2>1, <2>2, FlagKept DEF TypeOK
<1>15. CASE UNCHANGED vars
  <2>1. \A k \in Jobs : Unpaid(k)' <=> Unpaid(k)
    BY <1>15 DEF vars, Unpaid, Cost
  <2> QED
    BY <1>15, <2>1, FlagKept DEF vars
<1> QED
  BY <1>1, <1>2, <1>3, <1>4, <1>5, <1>6, <1>7, <1>8, <1>9, <1>10, <1>11, <1>12,
     <1>13, <1>14, <1>15 DEF Next, RequestStep, WorkerStep, PollStep

LEMMA InitFlag == Init => FlagInv
  BY DEF Init, FlagInv, Unpaid, UnpaidIsOutOfReach, AbsentIsUnseen, RefundedInFull

\* While an intake outruns the lease of its row, the row never says "your tokens
\* have been refunded" of coins the ledger has not given back, whichever of the
\* failing worker, its callback, a poll's sweep and the boot sweep set the flag.
THEOREM FlagsAreTrue ==
  ASSUME PromptIntake PROVE Spec => []RefundFlagIsTrue
<1>1. FlagInv => RefundFlagIsTrue
  BY DEF FlagInv, RefundedInFull, RefundFlagIsTrue
<1>2. TypeOK /\ TypeOK' /\ UploadInv /\ FlagInv /\ [Next]_vars => FlagInv'
  BY NextFlag
<1> QED
  BY <1>1, <1>2, InitFlag, TypeCorrect, UploadInvariant, PTL DEF Spec

=============================================================================
