------------------------------ MODULE CvUpload ------------------------------
(***************************************************************************)
(* The two-phase CV upload: a web request inserts a job row, charges for   *)
(* it and enqueues it; a Job Runner worker analyses the CV and either      *)
(* completes the job or fails and refunds it; status polls and the boot    *)
(* sweep recover the jobs whose worker went silent.                        *)
(*                                                                         *)
(*   backend/app/services/cv_workflow.py        the handlers               *)
(*   backend/app/repositories/cv_upload_jobs.py the guarded statements     *)
(*   backend/app/services/background/dispatch.py the lane, over RQ         *)
(*   database/migrations/...                    the sweep and the ledger   *)
(*                                                                         *)
(* A step is one database or queue call, since every one of them commits   *)
(* on its own; the sweep and the ledger functions are single transactions. *)
(* A job is named by its (user, idempotency key) pair.  Left out of the    *)
(* state: phases and notifications (display only), the hourly upload cap   *)
(* and the content-hash lookup, which only decide whether a job is         *)
(* started and what it costs.                                              *)
(***************************************************************************)
EXTENDS Naturals, FiniteSets

CONSTANTS
    Jobs,          \* (user, idempotency key) pairs
    Requests,      \* concurrent POST /cv/upload requests, retries included
    Workers,       \* Job Runner processes
    Pollers,       \* concurrent GET /cv/upload/status requests
    Price,         \* CV_UPLOAD_XP_COST
    RetryMax,      \* _RETRY_MAX
    MaxStalls,     \* _MAX_STALL_REQUEUES
    Durable,       \* REDIS_URL is set: jobs ride RQ, else the web process
    PromptIntake,  \* a request outruns the lease of the row it inserted
    CrashPoints,   \* the steps at which a process may die
    MaxFaults      \* bound: crashes and failed calls in one behaviour

NoJob == "no_job"

ASSUME JobsAssumption    == NoJob \notin Jobs
ASSUME PollersAssumption == IsFiniteSet(Pollers)
ASSUME NumbersAssumption ==
    /\ Price \in Nat \ {0}
    /\ RetryMax \in Nat
    /\ MaxStalls \in Nat \ {0}
    /\ MaxFaults \in Nat
ASSUME ModesAssumption   == Durable \in BOOLEAN /\ PromptIntake \in BOOLEAN

VARIABLES
    status,     \* the row's status, "absent" before the insert
    lease,      \* lease_expires_at: in the future, in the past, or NULL
    flagged,    \* xp_refunded, what the user is told
    stamped,    \* xp_charged, the row's copy of the charge
    stalls,     \* stall_requeue_count
    charged,    \* coin_ledger: coins taken for this job
    refunded,   \* coin_ledger: coins given back for this job
    baselines,  \* cv_versions rows this job wrote
    queue,      \* deliveries of the job waiting on the fast lane
    record,     \* the RQ job record: "none", "live" or "finished"
    retries,    \* retries RQ still owes the job
    orphaned,   \* a started delivery whose worker is gone
    rpc, rjob,          \* requests: next step and job
    free,               \* jobs of a text whose hash matched an earlier baseline
    wpc, wjob, wvia,    \* workers: next step, job, handler or failure callback
    ppc, pjob,          \* polls: next step and job
    requeued,           \* history: how often polls put the job back on the lane
    faults      \* faults so far

row     == <<status, lease, flagged, stamped, stalls>>
ledger  == <<charged, refunded>>
lane    == <<queue, record, retries, orphaned>>
web     == <<rpc, rjob, free>>
runners == <<wpc, wjob, wvia>>
polls   == <<ppc, pjob, requeued>>
vars    == <<row, ledger, baselines, lane, web, runners, polls, faults>>

RequestSteps == {"lookup", "insert", "charge", "stamp", "enqueue", "over"}
WorkerSteps  == {"idle", "parse", "claim", "persist", "finish", "follow",
                 "fail", "refund", "settle"}
PollSteps    == {"idle", "restamp", "requeue", "count", "sweep"}

TypeOK ==
    /\ status \in [Jobs -> {"absent", "processing", "done", "failed"}]
    /\ lease \in [Jobs -> {"live", "expired", "null"}]
    /\ flagged \in [Jobs -> BOOLEAN]
    /\ stamped \in [Jobs -> Nat]
    /\ stalls \in [Jobs -> Nat]
    /\ charged \in [Jobs -> Nat]
    /\ refunded \in [Jobs -> Nat]
    /\ baselines \in [Jobs -> Nat]
    /\ queue \in [Jobs -> Nat]
    /\ record \in [Jobs -> {"none", "live", "finished"}]
    /\ retries \in [Jobs -> Nat]
    /\ orphaned \in [Jobs -> BOOLEAN]
    /\ rpc \in [Requests -> RequestSteps]
    /\ rjob \in [Requests -> Jobs \cup {NoJob}]
    /\ free \subseteq Jobs
    /\ wpc \in [Workers -> WorkerSteps]
    /\ wjob \in [Workers -> Jobs \cup {NoJob}]
    /\ wvia \in [Workers -> {"handler", "callback"}]
    /\ ppc \in [Pollers -> PollSteps]
    /\ pjob \in [Pollers -> Jobs \cup {NoJob}]
    /\ requeued \in [Jobs -> Nat]
    /\ faults \in Nat
    /\ \A r \in Requests : rpc[r] \notin {"lookup", "over"} => rjob[r] \in Jobs
    /\ \A w \in Workers : wpc[w] # "idle" => wjob[w] \in Jobs
    /\ \A p \in Pollers : ppc[p] # "idle" => pjob[p] \in Jobs

Init ==
    /\ status = [k \in Jobs |-> "absent"]
    /\ lease = [k \in Jobs |-> "null"]
    /\ flagged = [k \in Jobs |-> FALSE]
    /\ stamped = [k \in Jobs |-> 0]
    /\ stalls = [k \in Jobs |-> 0]
    /\ charged = [k \in Jobs |-> 0]
    /\ refunded = [k \in Jobs |-> 0]
    /\ baselines = [k \in Jobs |-> 0]
    /\ queue = [k \in Jobs |-> 0]
    /\ record = [k \in Jobs |-> "none"]
    /\ retries = [k \in Jobs |-> 0]
    /\ orphaned = [k \in Jobs |-> FALSE]
    /\ rpc = [r \in Requests |-> "lookup"]
    /\ rjob = [r \in Requests |-> NoJob]
    /\ free = {}
    /\ wpc = [w \in Workers |-> "idle"]
    /\ wjob = [w \in Workers |-> NoJob]
    /\ wvia = [w \in Workers |-> "handler"]
    /\ ppc = [p \in Pollers |-> "idle"]
    /\ pjob = [p \in Pollers |-> NoJob]
    /\ requeued = [k \in Jobs |-> 0]
    /\ faults = 0

-----------------------------------------------------------------------------
(***************************************************************************)
(* The guarded statements of the repository module, and the two ledger     *)
(* functions a job uses.                                                   *)
(***************************************************************************)
Cost(k) == IF k \in free THEN 0 ELSE Price

\* .eq("status", "processing"), the guard of every later write of the row.
Processing(k) == status[k] = "processing"

\* set_phase: re-stamps the lease, only while the job is processing.
Heartbeat(k) ==
    lease' = IF Processing(k) THEN [lease EXCEPT ![k] = "live"] ELSE lease

\* Faulty variants of the definitions below, one per way a property can fail.
Always(k) == TRUE
SumOfDeltas(k) == 0 - charged[k]
SweepTheStamp(k) == stamped[k]
SweepThePrice(k) == Price
BudgetOffByOne(k) == stalls[k] <= MaxStalls
StaleAndStamped(k) == Processing(k) /\ lease[k] = "expired" /\ stamped[k] > 0

\* claim_for_completion's test: it asks for the status, never for an owner.
MayComplete(k) == Processing(k)

\* mark_done's test.
MayFinish(k) == Processing(k)

\* claim_failed's test, the one guard a refund stands behind.
MayFail(k) == Processing(k)

\* A row the sweep's cursor selects.
Stale(k) == Processing(k) /\ lease[k] = "expired"

\* What the sweep gives back for a row: minus the sum of the negative deltas.
SweepRefund(k) == charged[k]

\* refund_coins pays unless a refund row with this reference exists.
Repaid(k, amount) == IF refunded[k] > 0 THEN refunded[k] ELSE refunded[k] + amount

\* sweep_stale_cv_upload_jobs, one transaction over every stale row.
SweepStaleJobs ==
    /\ status' = [k \in Jobs |-> IF Stale(k) THEN "failed" ELSE status[k]]
    /\ lease' = [k \in Jobs |-> IF Stale(k) THEN "null" ELSE lease[k]]
    /\ flagged' = [k \in Jobs |-> flagged[k] \/ Stale(k)]
    /\ refunded' = [k \in Jobs |->
           IF Stale(k) THEN Repaid(k, SweepRefund(k)) ELSE refunded[k]]
    /\ UNCHANGED <<stamped, stalls, charged>>

-----------------------------------------------------------------------------
(***************************************************************************)
(* Phase 1: the POST request.                                              *)
(***************************************************************************)
GoRequest(r, step) == rpc' = [rpc EXCEPT ![r] = step]

\* find_by_idempotency_key: a row of that key ends the request.
LookUp(r) ==
    /\ rpc[r] = "lookup"
    /\ \E k \in Jobs :
        /\ rjob' = [rjob EXCEPT ![r] = k]
        /\ GoRequest(r, IF status[k] = "absent" THEN "insert" ELSE "over")
    /\ UNCHANGED <<row, ledger, baselines, lane, free, runners, polls, faults>>

\* The unique index on (user_id, idempotency_key) lets one insert through.
MayInsert(k) == status[k] = "absent"

CreateProcessingJob(r) ==
    LET k == rjob[r] IN
    /\ rpc[r] = "insert"
    /\ IF MayInsert(k)
         THEN /\ status' = [status EXCEPT ![k] = "processing"]
              /\ lease' = [lease EXCEPT ![k] = "live"]
              /\ free' \in {free, free \cup {k}}
              /\ GoRequest(r, "charge")
         ELSE /\ GoRequest(r, "over")
              /\ UNCHANGED <<status, lease, free>>
    /\ UNCHANGED <<flagged, stamped, stalls, ledger, baselines, lane, rjob,
                   runners, polls, faults>>

\* charge_or_raise: the wallet covers the cost, and the ledger row is written.
ChargeCoins(r) ==
    LET k == rjob[r] IN
    /\ rpc[r] = "charge"
    /\ charged' = [charged EXCEPT ![k] = @ + Cost(k)]
    /\ GoRequest(r, "stamp")
    /\ UNCHANGED <<row, refunded, baselines, lane, rjob, free, runners, polls,
                   faults>>

\* InsufficientXPError: the job is failed and nothing was taken.
RejectInsufficient(r) ==
    LET k == rjob[r] IN
    /\ rpc[r] = "charge"
    /\ Cost(k) > 0
    /\ IF MayFail(k)
         THEN /\ status' = [status EXCEPT ![k] = "failed"]
              /\ lease' = [lease EXCEPT ![k] = "null"]
              /\ flagged' = [flagged EXCEPT ![k] = FALSE]
         ELSE UNCHANGED <<status, lease, flagged>>
    /\ GoRequest(r, "over")
    /\ UNCHANGED <<stamped, stalls, ledger, baselines, lane, rjob, free, runners,
                   polls, faults>>

\* mark_charged, which no status guards.
MarkCharged(r) ==
    LET k == rjob[r] IN
    /\ rpc[r] = "stamp"
    /\ stamped' = [stamped EXCEPT ![k] = Cost(k)]
    /\ GoRequest(r, "enqueue")
    /\ UNCHANGED <<status, lease, flagged, stalls, ledger, baselines, lane,
                   rjob, free, runners, polls, faults>>

\* background.enqueue under the job's own RQ id, or create_task in process.
Enqueue(r) ==
    LET k == rjob[r] IN
    /\ rpc[r] = "enqueue"
    /\ queue' = [queue EXCEPT ![k] = @ + 1]
    /\ record' = [record EXCEPT ![k] = IF Durable THEN "live" ELSE "none"]
    /\ retries' = [retries EXCEPT ![k] = IF Durable THEN RetryMax ELSE 0]
    /\ GoRequest(r, "over")
    /\ UNCHANGED <<row, ledger, baselines, orphaned, rjob, free, runners, polls,
                   faults>>

\* The web process dies, or the call the request is in raises.
RequestDies(r) ==
    /\ rpc[r] \in CrashPoints
    /\ faults < MaxFaults
    /\ faults' = faults + 1
    /\ GoRequest(r, "over")
    /\ UNCHANGED <<row, ledger, baselines, lane, rjob, free, runners, polls>>

-----------------------------------------------------------------------------
(***************************************************************************)
(* Phase 2: a worker runs the job, or its failure callback.                *)
(***************************************************************************)
GoWorker(w, step) == wpc' = [wpc EXCEPT ![w] = step]

Assign(w, k, step, via) ==
    /\ GoWorker(w, step)
    /\ wjob' = [wjob EXCEPT ![w] = k]
    /\ wvia' = [wvia EXCEPT ![w] = via]

\* The handler returned: RQ files the job as finished.
Return(w) ==
    /\ GoWorker(w, "idle")
    /\ record' = IF Durable /\ wvia[w] = "handler"
                   THEN [record EXCEPT ![wjob[w]] = "finished"]
                   ELSE record
    /\ UNCHANGED <<queue, retries, orphaned, wjob, wvia>>

\* The handler raised: RQ retries it, and out of retries runs the failure
\* callback on the same worker.  In process, and in the callback itself, the
\* exception is swallowed.
Raise(w) ==
    LET k == wjob[w] IN
    IF ~Durable \/ wvia[w] = "callback" THEN
        /\ GoWorker(w, "idle")
        /\ UNCHANGED <<lane, wjob, wvia>>
    ELSE IF retries[k] > 0 THEN
        /\ retries' = [retries EXCEPT ![k] = @ - 1]
        /\ queue' = [queue EXCEPT ![k] = @ + 1]
        /\ GoWorker(w, "idle")
        /\ UNCHANGED <<record, orphaned, wjob, wvia>>
    ELSE
        /\ Assign(w, k, "fail", "callback")
        /\ UNCHANGED lane

\* _run_cv_upload_job's entry: a terminal job is skipped, unless reading its
\* status failed (the pre-check is fail-open); then set_phase(finding_skills).
Deliver(w, k) ==
    /\ wpc[w] = "idle"
    /\ queue[k] > 0
    /\ queue' = [queue EXCEPT ![k] = @ - 1]
    /\ \/ /\ status[k] \in {"done", "failed"}
          /\ record' = [record EXCEPT ![k] = IF Durable THEN "finished" ELSE @]
          /\ UNCHANGED <<lease, runners>>
       \/ /\ Assign(w, k, "parse", "handler")
          /\ record' = [record EXCEPT ![k] = IF Durable THEN "live" ELSE @]
          /\ Heartbeat(k)
    /\ UNCHANGED <<status, flagged, stamped, stalls, ledger, baselines,
                   retries, orphaned, web, polls, faults>>

\* parse_cv_skills found skills; set_phase(saving).
ParseSucceeds(w) ==
    /\ wpc[w] = "parse"
    /\ GoWorker(w, "claim")
    /\ Heartbeat(wjob[w])
    /\ UNCHANGED <<status, flagged, stamped, stalls, ledger, baselines, lane,
                   web, wjob, wvia, polls, faults>>

\* The provider failed: RQ's retry when there is one, else fail and refund.
ParseFailsTransient(w) ==
    /\ wpc[w] = "parse"
    /\ IF Durable THEN Raise(w)
                  ELSE GoWorker(w, "fail") /\ UNCHANGED <<lane, wjob, wvia>>
    /\ UNCHANGED <<row, ledger, baselines, web, polls, faults>>

\* No skills in the CV: retrying gives the same nothing.
ParseFailsPermanent(w) ==
    /\ wpc[w] = "parse"
    /\ GoWorker(w, "fail")
    /\ UNCHANGED <<row, ledger, baselines, lane, web, wjob, wvia, polls, faults>>

ClaimForCompletion(w) ==
    LET k == wjob[w] IN
    /\ wpc[w] = "claim"
    /\ IF MayComplete(k)
         THEN /\ lease' = [lease EXCEPT ![k] = "live"]
              /\ GoWorker(w, "persist")
              /\ UNCHANGED <<lane, wjob, wvia>>
         ELSE /\ Return(w)
              /\ UNCHANGED lease
    /\ UNCHANGED <<status, flagged, stamped, stalls, ledger, baselines, web,
                   polls, faults>>

\* _persist_baseline_cv: a cv_versions row of its own, tied to no job row.
PersistBaseline(w) ==
    /\ wpc[w] = "persist"
    /\ baselines' = [baselines EXCEPT ![wjob[w]] = @ + 1]
    /\ GoWorker(w, "finish")
    /\ UNCHANGED <<row, ledger, lane, web, wjob, wvia, polls, faults>>

\* mark_done; its answer is not looked at.
MarkDone(w) ==
    LET k == wjob[w] IN
    /\ wpc[w] = "finish"
    /\ IF MayFinish(k)
         THEN /\ status' = [status EXCEPT ![k] = "done"]
              /\ lease' = [lease EXCEPT ![k] = "null"]
         ELSE UNCHANGED <<status, lease>>
    /\ GoWorker(w, "follow")
    /\ UNCHANGED <<flagged, stamped, stalls, ledger, baselines, lane, web,
                   wjob, wvia, polls, faults>>

\* Layout, provisional score and reservoir jobs are enqueued; none of them
\* touches this job again.
FollowUp(w) ==
    /\ wpc[w] = "follow"
    /\ Return(w)
    /\ UNCHANGED <<row, ledger, baselines, web, polls, faults>>

\* Faulty variant: the refund is paid whether or not this call failed the job.
RefundRegardless(w) ==
    LET k == wjob[w] IN
    /\ wpc[w] = "fail"
    /\ status' = [status EXCEPT ![k] = IF Processing(k) THEN "failed" ELSE @]
    /\ lease' = [lease EXCEPT ![k] = IF Processing(k) THEN "null" ELSE @]
    /\ GoWorker(w, "refund")
    /\ UNCHANGED <<flagged, stamped, stalls, ledger, baselines, lane, web,
                   wjob, wvia, polls, faults>>

\* _fail_and_refund, first statement: claim_failed.
ClaimFailed(w) ==
    LET k == wjob[w] IN
    /\ wpc[w] = "fail"
    /\ IF MayFail(k)
         THEN /\ status' = [status EXCEPT ![k] = "failed"]
              /\ lease' = [lease EXCEPT ![k] = "null"]
              /\ flagged' = [flagged EXCEPT ![k] = FALSE]
              /\ GoWorker(w, "refund")
              /\ UNCHANGED <<lane, wjob, wvia>>
         ELSE /\ Return(w)
              /\ UNCHANGED <<status, lease, flagged>>
    /\ UNCHANGED <<stamped, stalls, ledger, baselines, web, polls, faults>>

\* Then the flat upload price, whatever the job was charged.
RefundCoins(w) ==
    LET k == wjob[w] IN
    /\ wpc[w] = "refund"
    /\ refunded' = [refunded EXCEPT ![k] = Repaid(k, Price)]
    /\ GoWorker(w, "settle")
    /\ UNCHANGED <<row, charged, baselines, lane, web, wjob, wvia, polls, faults>>

SettleFailed(w) ==
    /\ wpc[w] = "settle"
    /\ flagged' = [flagged EXCEPT ![wjob[w]] = TRUE]
    /\ Return(w)
    /\ UNCHANGED <<status, lease, stamped, stalls, ledger, baselines, web,
                   polls, faults>>

Fault(w) ==
    /\ wpc[w] \in CrashPoints
    /\ faults < MaxFaults
    /\ faults' = faults + 1

\* A call of the worker raises, to the database or, for the follow-up jobs, to
\* the lane.  _fail_and_refund catches it on the refund, and settles the job as
\* not refunded.
CallRaises(w) ==
    /\ Fault(w)
    /\ wpc[w] \notin {"idle", "parse"}
    /\ IF wpc[w] = "refund" THEN Return(w) ELSE Raise(w)
    /\ UNCHANGED <<row, ledger, baselines, web, polls>>

\* SIGKILL, or the end of a drain: RQ is left with a started job.
WorkerDies(w) ==
    /\ Fault(w)
    /\ wpc[w] # "idle"
    /\ GoWorker(w, "idle")
    /\ orphaned' = [orphaned EXCEPT ![wjob[w]] = Durable]
    /\ UNCHANGED <<row, ledger, baselines, queue, record, retries, web, wjob,
                   wvia, polls>>

\* SIGTERM: release_inflight_leases expires the lease of the job in hand, and
\* the worker carries on until it finishes or is killed.
ReleaseInflightLeases(w) ==
    /\ Durable
    /\ wpc[w] # "idle" /\ wvia[w] = "handler"
    /\ Processing(wjob[w])
    /\ lease' = [lease EXCEPT ![wjob[w]] = "expired"]
    /\ UNCHANGED <<status, flagged, stamped, stalls, ledger, baselines, lane,
                   web, runners, polls, faults>>

\* RQ's registry clean-up, on another worker, after the job timeout: the
\* failure callback runs, and the job is retried if it still has retries.
Abandon(w, k) ==
    /\ wpc[w] = "idle"
    /\ orphaned[k]
    /\ orphaned' = [orphaned EXCEPT ![k] = FALSE]
    /\ Assign(w, k, "fail", "callback")
    /\ IF retries[k] > 0
         THEN /\ retries' = [retries EXCEPT ![k] = @ - 1]
              /\ queue' = [queue EXCEPT ![k] = @ + 1]
         ELSE UNCHANGED <<retries, queue>>
    /\ UNCHANGED <<row, ledger, baselines, record, web, polls, faults>>

-----------------------------------------------------------------------------
(***************************************************************************)
(* Recovery: the status poll, the boot sweep, the clock.                   *)
(***************************************************************************)
GoPoll(p, step) == ppc' = [ppc EXCEPT ![p] = step]

\* The requeue budget, tested against the row the poll read.
WithinBudget(k) == stalls[k] < MaxStalls

\* get_cv_upload_status reads a stale row.  A poll that reads any other row
\* changes nothing and is not a step.
FetchStale(p, k) ==
    /\ ppc[p] = "idle"
    /\ Stale(k)
    /\ pjob' = [pjob EXCEPT ![p] = k]
    /\ GoPoll(p, IF Durable /\ WithinBudget(k) THEN "restamp" ELSE "sweep")
    /\ UNCHANGED <<row, ledger, baselines, lane, web, runners, requeued, faults>>

\* The claim before a requeue is claim_for_completion again.
ClaimStalled(p) ==
    LET k == pjob[p] IN
    /\ ppc[p] = "restamp"
    /\ IF MayComplete(k)
         THEN /\ lease' = [lease EXCEPT ![k] = "live"]
              /\ GoPoll(p, "requeue")
         ELSE /\ GoPoll(p, "sweep")
              /\ UNCHANGED lease
    /\ UNCHANGED <<status, flagged, stamped, stalls, ledger, baselines, lane,
                   web, runners, pjob, requeued, faults>>

\* requeue_abandoned puts the stored job back; without a record, on a finished
\* one or with Redis away the poll expires the lease it took and sweeps.
RequeueAbandoned(p) ==
    LET k == pjob[p] IN
    /\ ppc[p] = "requeue"
    /\ \/ /\ record[k] = "live"
          /\ queue' = [queue EXCEPT ![k] = @ + 1]
          /\ requeued' = [requeued EXCEPT ![k] = @ + 1]
          /\ GoPoll(p, "count")
          /\ UNCHANGED lease
       \/ /\ lease' = IF Processing(k) THEN [lease EXCEPT ![k] = "expired"] ELSE lease
          /\ GoPoll(p, "sweep")
          /\ UNCHANGED <<queue, requeued>>
    /\ UNCHANGED <<status, flagged, stamped, stalls, ledger, baselines, record,
                   retries, orphaned, web, runners, pjob, faults>>

\* increment_cv_upload_stall_requeue, atomic in SQL.
RecordStallRequeue(p) ==
    /\ ppc[p] = "count"
    /\ stalls' = [stalls EXCEPT ![pjob[p]] = @ + 1]
    /\ GoPoll(p, "idle")
    /\ UNCHANGED <<status, lease, flagged, stamped, ledger, baselines, lane,
                   web, runners, pjob, requeued, faults>>

PollSweep(p) ==
    /\ ppc[p] = "sweep"
    /\ SweepStaleJobs
    /\ GoPoll(p, "idle")
    /\ UNCHANGED <<baselines, lane, web, runners, pjob, requeued, faults>>

\* The web process serving the poll dies, or its call fails: so a requeue may
\* go uncounted, as record_stall_requeue swallows its error.
PollDies(p) ==
    /\ ppc[p] \in CrashPoints
    /\ faults < MaxFaults
    /\ faults' = faults + 1
    /\ GoPoll(p, "idle")
    /\ UNCHANGED <<row, ledger, baselines, lane, web, runners, pjob, requeued>>

\* _sweep_orphaned_cv_upload_jobs, on every boot of a web process.
BootSweep ==
    /\ \E k \in Jobs : Stale(k)
    /\ SweepStaleJobs
    /\ UNCHANGED <<baselines, lane, web, runners, polls, faults>>

InIntake(k) == \E r \in Requests : rjob[r] = k /\ rpc[r] \in {"charge", "stamp", "enqueue"}

\* The lease's deadline passes, under a slow worker as under a dead one.
LeaseExpires(k) ==
    /\ Processing(k)
    /\ lease[k] = "live"
    /\ PromptIntake => ~InIntake(k)
    /\ lease' = [lease EXCEPT ![k] = "expired"]
    /\ UNCHANGED <<status, flagged, stamped, stalls, ledger, baselines, lane,
                   web, runners, polls, faults>>

-----------------------------------------------------------------------------
RequestStep(r) ==
    \/ LookUp(r) \/ CreateProcessingJob(r) \/ ChargeCoins(r)
    \/ RejectInsufficient(r) \/ MarkCharged(r) \/ Enqueue(r)

WorkerStep(w) ==
    \/ \E k \in Jobs : Deliver(w, k) \/ Abandon(w, k)
    \/ ParseSucceeds(w) \/ ParseFailsTransient(w) \/ ParseFailsPermanent(w)
    \/ ClaimForCompletion(w) \/ PersistBaseline(w) \/ MarkDone(w) \/ FollowUp(w)
    \/ ClaimFailed(w) \/ RefundCoins(w) \/ SettleFailed(w)

PollStep(p) ==
    \/ \E k \in Jobs : FetchStale(p, k)
    \/ ClaimStalled(p) \/ RequeueAbandoned(p) \/ RecordStallRequeue(p)
    \/ PollSweep(p)

Next ==
    \/ \E r \in Requests : RequestStep(r) \/ RequestDies(r)
    \/ \E w \in Workers : WorkerStep(w) \/ CallRaises(w) \/ WorkerDies(w)
                          \/ ReleaseInflightLeases(w)
    \/ \E p \in Pollers : PollStep(p) \/ PollDies(p)
    \/ \E k \in Jobs : LeaseExpires(k)
    \/ BootSweep

Spec == Init /\ [][Next]_vars

\* Requests and polls that were accepted are served, workers drain the lane,
\* the client keeps polling and clocks advance.  Crashes, drains and boots owe
\* nothing.
Fairness ==
    /\ \A r \in Requests : WF_vars(RequestStep(r))
    /\ \A w \in Workers : WF_vars(WorkerStep(w))
    /\ \A p \in Pollers : WF_vars(PollStep(p))
    /\ \A k \in Jobs : WF_vars(LeaseExpires(k))

FairSpec == Spec /\ Fairness

-----------------------------------------------------------------------------
(***************************************************************************)
(* What the upload promises.                                               *)
(***************************************************************************)

\* No worker, callback, poll or sweep ever takes a job out of done or failed,
\* whatever the number of deliveries (mark_done and claim_failed are
\* compare-and-set on status).
TerminalIsFinal ==
    [][\A k \in Jobs : status[k] \in {"done", "failed"} => status'[k] = status[k]]_vars

\* A finished job was charged its cost once, was never refunded and left a
\* baseline, also when a dead delivery's callback or a sweep comes late (the
\* incident of 2026-09-17 told in _fail_and_refund).
DoneIsPaidFor ==
    \A k \in Jobs : status[k] = "done" =>
        charged[k] = Cost(k) /\ refunded[k] = 0 /\ baselines[k] > 0

\* Concurrent POSTs with one idempotency key charge once.
ChargedAtMostOnce == \A k \in Jobs : charged[k] <= Cost(k)

\* However the polls interleave, they put a job back on the lane at most
\* MaxStalls times, plus once for each other poll that read the budget before
\* it was spent, plus once for each failure: a poll that dies, or whose
\* record_stall_requeue fails silently, leaves its requeue uncounted.
StallBudgetHolds ==
    \A k \in Jobs :
        requeued[k] <= MaxStalls + (Cardinality(Pollers) - 1) + faults

\* A refund returns at most what the ledger took for the job.  Not so for a
\* free job: _fail_and_refund gives the flat price whatever was charged, so one
\* that fails in a worker's hands is given coins it never paid, once.
RefundWithinCharge ==
    \A k \in Jobs : refunded[k] <= IF k \in free THEN Price ELSE charged[k]

\* A row that tells its owner "your tokens have been refunded" is right.
RefundFlagIsTrue == \A k \in Jobs : flagged[k] => refunded[k] >= charged[k]

\* The Upload Guarantee: every charge ends with a finished job or its refund.
ChargeReconciled ==
    \A k \in Jobs : charged[k] > 0 ~> (status[k] = "done" \/ refunded[k] = charged[k])

\* No job stays on the loading screen for ever.
JobSettles ==
    \A k \in Jobs : status[k] = "processing" ~> status[k] \in {"done", "failed"}

\* The upload implements UploadContract: the row's status, what the ledger
\* took and what it gave back move only as the contract lets them.
Contract == INSTANCE UploadContract
    WITH fee <- [k \in Jobs |-> Cost(k)],
         outcome <- status, taken <- charged, returned <- refunded

ImplementsContract == Contract!Spec

(***************************************************************************)
(* The inductive invariant behind DoneIsPaidFor, ChargedAtMostOnce and the *)
(* contract.  Money moves in the order insert, charge, enqueue, and only   *)
(* the request that inserted a row charges it; so whatever was ever queued *)
(* has been charged.  A refund is only in the hands of a worker whose      *)
(* claim_failed won.                                                       *)
(***************************************************************************)
Intake == {"charge", "stamp", "enqueue"}

OneIntake ==
    \A r, s \in Requests :
        rpc[r] \in Intake /\ rpc[s] \in Intake /\ rjob[r] = rjob[s] => r = s

IntakeCharges ==
    \A r \in Requests :
        /\ rpc[r] = "charge" => charged[rjob[r]] = 0
        /\ rpc[r] \in {"stamp", "enqueue"} => charged[rjob[r]] = Cost(rjob[r])
        /\ rpc[r] \in Intake => status[rjob[r]] # "absent"

QueuedIsCharged ==
    \A k \in Jobs :
        queue[k] > 0 \/ record[k] = "live" \/ orphaned[k] => charged[k] = Cost(k)

WorkedIsCharged ==
    \A w \in Workers : wpc[w] # "idle" =>
        charged[wjob[w]] = Cost(wjob[w]) /\ status[wjob[w]] # "absent"

FinishHoldsBaseline ==
    \A w \in Workers : wpc[w] = "finish" => baselines[wjob[w]] > 0

RefundInHand ==
    \A w \in Workers :
        wpc[w] \in {"refund", "settle"} => status[wjob[w]] = "failed"

RefundedHasFailed == \A k \in Jobs : refunded[k] > 0 => status[k] = "failed"

AbsentIsUntouched ==
    \A k \in Jobs : status[k] = "absent" =>
        charged[k] = 0 /\ queue[k] = 0 /\ record[k] = "none" /\ ~orphaned[k]

UploadInv ==
    /\ OneIntake /\ IntakeCharges /\ QueuedIsCharged /\ WorkedIsCharged
    /\ FinishHoldsBaseline /\ RefundInHand /\ RefundedHasFailed
    /\ AbsentIsUntouched /\ ChargedAtMostOnce /\ DoneIsPaidFor

\* Why the budget holds: a poll past the test owes at most one count, and a
\* requeue is counted, about to be, or lost to a failure.
Owing(k) == {p \in Pollers : ppc[p] \in {"restamp", "requeue", "count"} /\ pjob[p] = k}
Counting(k) == {p \in Pollers : ppc[p] = "count" /\ pjob[p] = k}

OwingInv ==
    \A k \in Jobs :
        stalls[k] + Cardinality(Owing(k)) <= (MaxStalls + Cardinality(Pollers)) - 1

CountInv ==
    \A k \in Jobs : requeued[k] <= stalls[k] + Cardinality(Counting(k)) + faults

BudgetInv == OwingInv /\ CountInv

(***************************************************************************)
(* Why the flag is true, for an intake that outruns its lease.  A row is   *)
(* out of everybody's reach until its charge is in the ledger; from then   *)
(* on, whoever gives back gives back all of it, before the flag is set.    *)
(***************************************************************************)
Unpaid(k) == Cost(k) > 0 /\ \E r \in Requests : rpc[r] = "charge" /\ rjob[r] = k

UnpaidIsOutOfReach ==
    \A k \in Jobs : Unpaid(k) =>
        /\ status[k] = "processing" /\ lease[k] = "live" /\ ~flagged[k]
        /\ \A p \in Pollers : ppc[p] # "idle" => pjob[p] # k

AbsentIsUnseen ==
    /\ \A k \in Jobs : status[k] = "absent" => ~flagged[k]
    /\ \A p \in Pollers : ppc[p] # "idle" => status[pjob[p]] # "absent"

RefundedInFull ==
    /\ \A k \in Jobs : flagged[k] \/ refunded[k] > 0 => refunded[k] >= charged[k]
    /\ \A w \in Workers : wpc[w] = "settle" => refunded[wjob[w]] >= charged[wjob[w]]

FlagInv == UnpaidIsOutOfReach /\ AbsentIsUnseen /\ RefundedInFull
=============================================================================
