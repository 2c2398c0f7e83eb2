# Verification of Myro

TLA+ modules, TLC configurations and TLAPS proofs for the parts of this repository in which
concurrent processes, partial failure and money meet: on the server the CV upload, the coin wallet,
payments, the paid runs and streams, and Job Refresh; in the browser the session and the upload's
client. Paths below are relative to the repository; `app/` stands for
`backend/app/`, `lib/`, `components/` and the pages for those under `frontend/`.

## 1. Inventory

The system is a FastAPI backend (one web process per tier, two while a deploy rolls over), two Job
Runner replicas (RQ workers on Redis), Postgres behind PostgREST (Supabase), a Next.js client, and
imports run from the command line. Every Postgres statement issued through PostgREST commits by
itself; only the SQL functions are transactions of several statements. The async handlers call
PostgREST synchronously, so what interleaves within one process is the code between true awaits and
the threads of the pool; between processes everything does.

| Part | State it keeps | Operations | Talks to | Correct when |
|---|---|---|---|---|
| CV upload (`services/cv_workflow.py`, `repositories/cv_upload_jobs.py`, `services/background/dispatch.py`, the sweep's SQL) | a `cv_upload_jobs` row with status and lease, the RQ lane, `coin_ledger` rows, `cv_versions` baselines | POST, handler with retries, failure callback, status poll with sweep and requeue, boot sweep, shutdown | wallet, RQ, the model | a job ends once; done was paid once and delivered; failed is paid back; nothing hangs |
| Coin wallet (`services/xp_service.py`, `20260622_coins_rename_contract.sql`) | `user_profiles.coin_balance`, `coin_ledger` | charge, refund, reward, welcome grant; read-then-write helpers | every paid route | no overdraft, one refund per ref, one reward per signup, the ledger explains the balance |
| Paid runs (`services/paid_run.py`, `services/background/debounce.py`; weave, outreach pack, brief) | a Redis claim per person, job and artifact; the cached artifact | POST under the claim | wallet, the model | one artifact is paid for once; the claim is freed |
| Paid streams (`routers/jobs/analyse.py`, `routers/jobs/deepen.py`, `services/text_stream.py`) | the cached text, `deepening_sampled` | POST that replays, or streams, charges and saves | wallet, the model | a saved text is not charged again; one free sample |
| Job Refresh (`services/job_refresh/`) | a ticket and a live index in Redis, an RQ job | start, run with one retry, progress, stream with abandonment | wallet helpers, RQ | a debited search lands or is given back, once |
| Payments (`routers/payments.py`, `services/job_switch_plan_service.py`, `services/ai_workflow_audit.py`, the checkouts) | `billing_payments`, `job_switch_plans` and its reviews, audits, flags | order, checkout, verify, webhook, renewal, stop | Razorpay, wallet helpers | a charge is granted once; an answered webhook was granted; a stopped plan stays stopped; one pass a month |
| Browser session (`lib/session.ts`, `lib/api.ts`, `lib/hooks/use-auth.ts`) | tokens and a refresh lock in localStorage, one exchange per tab, the token a page renders with | request with one refresh and a second try, forced logout, sign-in, sign-out, reload | `/auth/refresh`, the other tabs | a refresh token is presented once; nobody is signed out of a login that stands; requests end |
| Upload client (`lib/api.ts`, `lib/cv-upload-*.ts`, the CV page, the lifecycle observer) | one idempotency key, one job id and one held file per browser; a poll per tab | pick, hold, transfer, finalize or POST, resume, poll | CV upload, session | a pick becomes one job of its owner's; it is held until answered; an accepted job is polled |
| CV versions and restructure (`routers/cv/versions.py`) | `cv_versions` | restructure, keep, edit | wallet | no version unpaid, no charge without a version |
| Partner webhooks (`services/partner_webhooks.py`, `repositories/partner_delivery.py`) | deliveries, endpoint health | enqueue, one attempt, sweep | RQ, partner's endpoint | delivered at least once, ladder ends, dead endpoint paused |
| Provider Budget (`services/llm_budget.py`, `services/llm_provider.py`) | slots in a Redis sorted set | acquire, release, expiry; provider ladder | model providers | calls in flight within the limit |
| Shared cache (`services/shared_cache.py`) | entries with two ages, fill lease | read, refresh, cold fill, invalidate | Redis | no answer older than its bound |
| Skill floor heartbeat, notice board | incident state, notices | check, alert, close | Redis, mail | one alert per incident |
| Account deletion, onboarding, matching, feeds, partner SSO, other routers | rows of their own | mostly single-row writes and reads | | |
| Browser extension (`Chrome_extension/src`) | the walk over a job form, a token | fill, next, capture | the API, foreign pages | a field is filled once |
| The rest of the web client, TWA, tools | drafts, caches | UI | the API | |

`PROJECT.json` lists each with its status, and under `hazards` what is hard to test in it, at its line.

## 2. Modules

Each component has a module that holds its state, actions, fairness and properties; an `MC` module
with the small instances; `.cfg` files, one per question; and a `...Proofs` module.
All follow one convention: a process is a program counter, an action is one call that commits (a
statement, an SQL function, a Redis or queue call) with what the code does around it up to the next
such call. Failures are actions of their own, bounded by `MaxFaults`. Next to the real definitions
each module keeps *faulty variants*, never used by the specification: each is a plausible mistake in
the definition it varies, and shows that the properties would notice it.

### CvUpload

One action per database or queue call, so that every pair of calls of requests, workers and polls can
interleave.

| Code | Model |
|---|---|
| `start_cv_upload_job`, `_start_async_upload_job` | `LookUp`, `CreateProcessingJob`, `ChargeCoins`, `RejectInsufficient`, `MarkCharged`, `Enqueue`; `RequestDies` between any two |
| `_run_cv_upload_job` and its stages | `Deliver`, `ParseSucceeds`, `ParseFailsTransient`, `ParseFailsPermanent`, `ClaimForCompletion`, `PersistBaseline`, `MarkDone`, `FollowUp` |
| `_fail_and_refund` | `ClaimFailed`, `RefundCoins`, `SettleFailed`; `CallRaises` |
| RQ's retries, lost workers, failure callback | `Raise`, `WorkerDies`, `Abandon` |
| shutdown | `ReleaseInflightLeases` |
| `get_cv_upload_status` with `_requeue_stalled_job_if_possible` and the sweep | `FetchStale`, `ClaimStalled`, `RequeueAbandoned`, `RecordStallRequeue`, `PollSweep`, `PollDies` |
| `_sweep_orphaned_cv_upload_jobs` at boot | `BootSweep` |
| the clock | `LeaseExpires` |

`status`, `lease`, `flagged`, `stamped`, `stalls` are the columns of the row; `charged` and `refunded`
are sums over its ledger rows; `queue`, `record`, `retries`, `orphaned` are what RQ knows. `lease` has
the three values the guards tell apart. `UploadContract` is the abstract promise: a job is absent,
processing, done or failed; it may be charged its fee while it processes, end done if charged, or
fail and be given back what it was charged, and a free one may be given the price. `ImplementsContract`
is the refinement. `free` holds the jobs whose text matched one that was paid for before: the insert
chooses. `requeued` is history: how often polls put a job back on the lane, counted where it happens and
not where the code counts it (`stalls`), which a failure may skip.

Left out: phases, notifications, the hourly limit, the content-hash lookup (only its effect on the
price, `free`), what the follow-up jobs do.

### CoinWallet

`ChargeCoins`, `RewardCoins` and `Provision` (the profile trigger's welcome grant) are single steps, as
their row or advisory locks make them. `refund_coins` counts before it locks, so it is two
(`CountRefunds`, `PayRefund`), with the unique index in between. The Python helpers are a read and a
write (`ReadBalance`, `WriteBalance`). A call's data are its user, action, ref and amount; a set `Calls`
fixes which are made. A refused call changes nothing and is no step.

`WalletContract` is the abstract promise: a wallet opens once with its grant, a charge is one covered step
on the balance as it is then, a credit is one step and pays its key (a refund's ref, a reward's or
signup's reference) once, and nothing else moves the balance but a helper, and that of its own user only.
CoinWallet implements it with `paid` read off the ledger's rows; refund_coins, which counts and then pays,
is one abstract credit at the second step or none at all.

### PaidRun

The three claimed routes have one shape, which the module keeps once: `ReadPaper` (the weave),
`AcquireLease` or `Refuse`, `ReadCache`, `Preflight`, `Work`, `Charge` or `ChargeRefused`, `Save`,
`ReleaseLease`. `Refreshers` are the weave's refreshes; the pack and the brief are the instance with
none and one paper. `lease` holds a run's token as `SET NX` and the compare-and-delete script see it.
Each call may fail after or before it took effect (`AcquireFails`, `ChargeFails`, `SaveFails`,
`ReleaseFails`), and the process may die (`Dies`). `LeaseExpires` is the key's TTL: `RUN_SECONDS` bounds
the work and the claim outlives it by a minute, in which the few remaining PostgREST calls (8 s each)
return; `Overrun` drops that argument. A job that is gone ends the run like a run without funds.

Left out: deciding on and applying a weave, an unparsable cache entry, the GET's `in_flight`.

### PaidStream

The same without a claim: `LookUp`, `ReadSampled`, `Stream`, `TakeSample` or `Charge` or
`ChargeRefused`, `Save`, `Fails`. `before[p]` records which POSTs had ended when `p` began; it is
history, read by the properties only, and lets them say what overlapping POSTs may do and what later
ones may not.

### JobRefresh

| Code | Model |
|---|---|
| `JobRefresh.start`, `dispatch` | `CheckRunner`, `Price`, `Charge`, `DispatchChecks`, `RefuseWithoutRunner`, `WriteQueued`, `Enqueue`, `EnqueueRaises`, `UndoCharge`, `WriteUnqueued`, `StartDies` |
| `run_pipeline_worker`, `_run_pipeline`, `_finish_success` | `Dequeue`, `Begin`, `Reveal`, `RunLands`, `RunIsEmpty`, `RunRaises`, `RunAgain`, `Repay`, `Finish`, `GiveUp`, `Fail`, `WriteRaises`, `RunKilled` |
| the stream's `abandon_stranded` | `AbandonChecks`, `CancelPipeline`, `ReadState`, `AbandonRefunds`, `AbandonWrites`, `AbandonDies` |
| the Job Runner's registration | `RunnerLeaves`, `RunnerBoots` |

`state` is the ticket in Redis, `said` whether it reports a refund, `job` RQ's job; `charged` and
`refunds` count what `_xp_charge` moved. `Faults` names which failures a configuration allows:
a boot during an abandonment, a liveness check that raises (read as "no runner"), a killed run, a
Redis write that raises, a credit that raises (swallowed), an enqueue that raises with or without
effect, a POST that dies, a cancel that raises (swallowed too: `cancel_pipeline` logs it and the
abandonment credits), an abandonment that dies or whose own Redis call raises.

Nothing in the code keeps two processes from settling one ticket, and the module says which ones can. A
ticket becomes `crossed` at the step at which its run and another process both come to settle it: its
cancel failed silently, an abandonment read it between the run's pick-up and its first write, its enqueue
raised with the job on the queue, or the write that finishes its run raised and the settled search is run
again. It becomes `doubled` when two API processes abandon it at once, or one does after another died
between credit and write. Up to that step everything the properties say holds, whatever fails, and of a
crossed or doubled ticket `CreditsAreBounded` remains. Left out: the live index (`_sync_live`), inline mode (no Redis: tests and
local), the matches a run writes. The wallet is counted here and modelled in CoinWallet.

`TicketContract` is the abstract promise about a charge, with no runner, queue or abandonment in it: it is
taken once, settled once (kept, returned, or lost to a credit that raised), and settled before the ticket
ends; a ticket that two processes have come to settle is `loose` from then on, and only that nothing is
made of a charge never taken remains. `Deal` reads it off the detailed state, `loose` is
`crossed \cup doubled`.

### Payments

| Code | Model |
|---|---|
| `create_order`, the checkouts, Razorpay | `CreateOrder`, `Checkout`, `Recurs`, `StopsAtRazorpay`, `MonthTurns` |
| `verify_payment` | `VerifyUnpaid`, then `Marks` or `MarksInVain` and the grant |
| `razorpay_webhook`, `_reconcile_subscription_event` | `WebhookUnpaid`, `WebhookRenewal`, `WebhookDone`, `WebhookStop` |
| `_apply_fulfilment` by product | `ReadsBalance`, `WritesBalance`; `Unlocks`; `OpensAudit`, `SwallowsAudit`; `ReadsPlan`, `InsertsPlan`, `PatchesPlan` |
| a renewal | `RecordsRenewal`, `RenewsPeriod`, `RenewsNothing` |
| `_ensure_period_pass`, `_open_review` | `NeedsPass`, `HasPass`, `OpensPass` |
| a unique column that refuses, a call that raises, a process that dies | `Raises`, `Dies` |

A handler is a request in flight, an action one database call. `row[o]` is the order's row: product,
status, and the charge whose payment id it carries; `renewals` are the charges with a row of their own.
A request that only reads and answers is `WebhookDone`; two reads in a row are one step where nothing
that changes between them is used. `served` counts grants; `lost`, `passedOver`, `lapsed`, `early` and
`overlapped` record which of the cases the code drops has happened, and only properties read them.
All orders are one user's: plans and wallets of two users never meet in a row.

Left out: orders Razorpay refuses to make, signatures and amounts (a webhook with neither is turned
away before any state), refunds by hand, the capacity of passes (`require_sale`), what fills a pass or an
audit later.

### Session

A request is `Send`, `Answer` (200, 401 or another error), then `Joins` its tab's exchange, `Exchanges`,
`WaitsForTab` or finds `NothingToExchange`; it is sent once more and `RefusedTwice` ends it. `Rotates`,
`Refuses` and `ExchangeLost` are what becomes of POST `/auth/refresh`; `ExchangeEnds` and `ExchangeFails`
run the `finally` of `tryRefreshToken` with everything that awaited it, since no other task of the page
runs in between. `TokenChanged` and `WaitsInVain` end `waitForAccessTokenChange`. `LockExpires` is the
lock's age passing `_LOCK_TTL`; a waiting request's timer cannot fire before it (`overdue`), as it was
set later with the same length. The tokens of one exchange are a number; `rotated`, `ended` and `stale`
are what the server knows of it. A `Guarded` request is one the server denies for a reason of its own
(an admin's route), which the client cannot tell from an expired session before the second answer.
`lapses` counts what the code does not exclude but its lock is sized against: an exchange lost or
cut by a reload or slower than the lock, and two tabs that both read a free lock.

Left out: Supabase's own client beside it, the streaming requests' copy of the same path.

### UploadClient

| Code | Model |
|---|---|
| `handleUpload`, `beginCVUpload` | `Pick`, `Begin`, `Stash`, `Hear` |
| `_transferCV`, `uploadCVToStorage`, `_finalizeFailure` | `Put`, `Finalize` |
| `_postCVUpload` | `Post`, `PostRefreshes`, `PostLogsOut`, `TriesAgain` |
| `resumeDeferredUpload`, `resumePendingCVUpload`, `uploadCV` | `Resume`, `ReadPending`, `DropForeign`, `Poll` |
| `CVUploadLifecycleObserver` | `Tracked`, `TrackEnds`, `NewToken` (in `TokenChanges` and `PostRefreshes`), `Mounts` |
| what happens to a page | `Reload`, `SwitchAccount` |

The server is what CvUpload is to its client: a job per account and key, from which a second request
with that key is answered (`Serves`), and an end (`JobEnds`). `object` is the stored file that finalize
turns into a job and deletes. `Faults` names what a configuration lets go wrong. `misled`, `crossed`,
`fatal` and `strayed` record, for the properties, which exception a pick has met, and `unheard` which job's
poll nobody will hear: a page of another account polls it and gets a 404, which counts as transient and is
asked again for ever (`Meets`), or the token it is polled with is not the page's any more; a page of its own
account that comes upon it takes it out.

Left out: tabs that are closed (the next page to open takes up the job, as `Mounts` does), pasted text, the onboarding page's and the anonymous visitor's upload, the age limit of a held
file, telemetry.

## 3. Runs

A *pass* run explores every behaviour within its bounds; a *violation* run shows that the code does
not do what a comment or a record of the repository says, which is quoted under `findings`.

| Run | Bounds | What it shows |
|---|---|---|
| `upload_races` | 1 job, 2 requests, 2 workers, 2 polls, 1 retry, 1 stall, 1 fault anywhere, any lease timing | types; done is paid for; requeues within the budget, one per further poll and one per failure; refunds within charges, or within the price of a free job; refines the contract |
| `upload_settles` | 1 request, 2 workers, 1 poll, 2 faults outside the refund window, fair | every charge ends done or refunded, no job hangs, the refund flag is true |
| `wallet` | 2 users, 2 callers, any 5 of 11 calls, helpers included | never overdrawn; one refund per ref; one referral per signup; the ledger explains the balance no helper moves; refines WalletContract |
| `paid_weave` | 3 POSTs (1 refresh), 2 papers, 2 funds, 1 failure, calls that may outlast the claim | one payment per artifact under the claim; payment means delivery; pays for new; a lapsed run frees nobody else's claim |
| `stream_sampling` | 3 POSTs, 2 texts, sample and funds, 1 failure | later POSTs replay and pay; double charges need an overlap |
| `refresh_faults` | 1 ticket, 2 APIs, 10 kinds of failure, 4 in a behaviour, 2 departures of the last runner | a landed search is kept, an ended ticket settled, its report true and the contract refined, for all but crossed and doubled tickets; those are credited at most once per failure and API process |
| `refresh_settles` | 2 tickets, 1 API, 2 departures of the last runner, 1 of 6 kinds of failure, fair | tickets end; charges land or are given back |
| `payments` | 2 orders of any product, 2 requests, 1 renewal, 2 months, 1 failure | granted once; an answered charge is granted or in hand; a stop sticks; one pass a month; packs add up |
| `session_tabs` | 2 tabs, 3 requests (1 guarded), 3 pairs of tokens, 2 moves of the user or server, 1 lapse, fair | a refresh token is presented once; no false logout; requests end |
| `client_tabs` | 2 tabs, 2 accounts, 2 picks, 2 keys, 2 attempts, 8 kinds of fault, 3 events of which 2 faults | types; one job per pick; the owner's; held until answered; polled by its own account's page when accepted |
| `refund_window`, `client_kept` | the smallest instance that shows each | violations, section 5 |

Two processes of each kind are enough for every race in the code: each guard compares the state with
what *one* other process may have done, and each resource (row, key, claim, ticket) is looked at by
itself. A third POST is there where a property speaks of a run between two others. One job or key
suffices where the code never relates two; two users, texts or tickets where a shared key could be
mistaken (ledger refs, runner registration). Two orders are needed for a plan bought again while the
first one's charges still arrive, and one renewal to have a charge after the first; two months
separate the two, and the second one's pass from the first's. A third request to two tabs gives one
tab two that share an exchange; three pairs allow two exchanges, or one and a new login. Two picks and
two keys are what one slot each can confuse. One fault reaches every recovery path and two
reach a fault during recovery (Job Refresh has four, as two are needed to cross or double a ticket and
two more to see what follows); the theorems remove these bounds for safety. All upload runs are with
Redis (`Durable`), as deployed; the safety theorems hold without it too. Deadlock is not
checked: requests end and nothing need follow, and the bounded counters run out.

### Fairness

`FairSpec` of CvUpload: accepted requests are served, workers drain the lane, the client polls every
2 s while it shows the loading screen, and clocks advance. With two polls and a job RQ has lost, the
claim of one can postpone the other's sweep for as long as both are as unlucky as possible; the run
uses one poll. JobRefresh: POSTs and runs go on, a Job Runner comes back (the platform restarts it), and an
abandonment that began is finished; nothing assumes that anybody watches the ticket. Its liveness run
leaves out `start`, `kill`, `write` and `abandon`: a POST or a run that dies, or whose write raises, leaves
its ticket where it is and nothing in the code takes it up (section 5), and an abandonment that dies is
taken up only if a client still watches. Session: pages run
their tasks and timers, the network answers or the fetch rejects, `withTimeout` aborts a request, a
page whose location was set unloads, and a lock grows old; a tab may stay open for ever, so nothing is
assumed of reloads, sign-ins or expiry. No fairness on failures, on credits of users, or on `Reveal`.

## 4. Proofs

TLAPS proves these for every value of the constants (any number of jobs, requests, workers, polls,
users, POSTs, tickets and faults).

* **CvUploadProofs** `UploadInv` is the argument: only the request that inserted a row charges it, and
  it enqueues after the charge, so whatever was ever queued has been charged (`QueuedIsCharged`,
  `WorkedIsCharged`); a refund is in the hands of a worker whose `claim_failed` won (`RefundInHand`); and a
  finished job has a baseline because the finisher wrote one. From it follow `DoneIsPaidFor`,
  `ChargedAtMostOnce`, `TerminalIsFinal`, the refinement of `UploadContract` and `RefundWithinCharge`, free
  jobs included. `BudgetInv` counts the polls past the test (`OwingInv`) and the requeues not yet, or never,
  counted (`CountInv`), and gives the bound on what polls put back on the lane. `FlagInv`
  gives `RefundFlagIsTrue`, under `PromptIntake`: a row not yet charged is out of every poll's and sweep's
  reach (`UnpaidIsOutOfReach`), and who gives back afterwards gives back all of it before the flag is set
  (`RefundedInFull`). Without `PromptIntake` it fails, see section 5.
* **CoinWalletProofs** `FundsInv` (a caller between its two steps holds a value it may write) gives
  `NeverOverdrawn` even for the helpers that lose updates. `CreditsInv` gives one refund per ref: all
  refunds of a ref name one user and action, so the unique index refuses the second whatever was counted
  first. `LedgerInv` gives `LedgerExplainsBalance` for the users whose calls are all the SQL functions':
  a helper only writes the row of its own user. It leans on `FundsInv`, which says that nobody pays into
  a row that is not there. On both rests the refinement of `WalletContract`: each step is one contract
  step or a stutter (`ContractStep`), because a payment appends a row whose key is new (`PostPays`,
  `UnpaidKey`), which the unique index, the lock and `AlreadyRewarded` see to.
* **PaidRunProofs** `RunInv`: a run past its cache miss still holds the claim, so nobody has filled the
  cache since (`MissIsCurrent`) and nobody paid before it (`NobodyPaidBefore`). `PaidOnce`, `PaidIsDelivered`
  and the action property `PaysForNew` follow; `RunsHoldTheirClaim` needs nothing but the compare-and-delete.
* **PaidStreamProofs** types, and that a POST which begins after a save is not charged, from which two
  charges of one text overlapped or failed. `SampleInv` (a free POST that saves has set the flag every
  later one reads) gives `LaterPostsPay`.
* **JobRefreshProofs** All of it with every failure and any number of tickets and API processes. Types, and
  `RefreshInv`: an abandonment meets no runner and a cancelled job, so its ticket stays queued until it writes
  (`AbandonInv`); each of POST, run and abandonment finds no credit when it credits (`CreditInv`); what is due
  is paid before the ticket says so (`DueInv`). Each part speaks of the tickets that are not crossed, or
  neither crossed nor doubled, so what must be shown of a failure is that it records the ticket at the very
  step. It gives `RefundsWithinCharge`, `NeverLandsRefunded`, `SettledFairly`, `EndedStays` and
  `TicketTellsTheRefund`. With `LostInv` (a credit that raised is the last that is tried) it gives the
  refinement of `TicketContract`: the step that lands or credits finds the charge held, the write that ends
  the ticket finds it settled, and a ticket is loose only from the step that crosses or doubles it. What holds
  of those tickets, too, is `CreditsAreBounded`, from `BoundInv`: it counts
  the credits given together with those still in somebody's hands (`CreditsInHand`), a process that takes one
  up finds the ticket queued, so credited only by processes that have yet to write it, and a run meets an
  abandonment only by a fault (`MeetInv`).
* **PaymentsProofs** types, and `Settlement`: the row carries a charge of its own once it is verified and
  nothing before (`RowsCarryACharge`), a renewal's row is another charge's (`RenewalsAreLater`), so a charge
  is taken by one row or the other, by one request (`OneServes`) and before it is granted
  (`ServedIsTaken`): `ChargesServeOnce`. A taken charge is granted, in hand or among the dropped
  (`TakenIsServed`) and an answered one is taken (`AnsweredIsTaken`): `AnsweredIsServed`. `StopsSettle`: a stop
  that found its plan is never undone, as a plan is activated by its first charge alone: `StopSticks`.
  `OnePassAMonth` counts: a request opens the review after the last it saw, and the number is unique.
  `CoinsAddUp` needs `WalletIsCurrent`: a request alone between the wallet's read and write saw what is there,
  and each grant adds an order that was not among the granted (`GrantsItsProduct`).
* **SessionProofs** types, and `OneExchange`: while nothing lapsed a token in use is of the tab whose stamp
  is in the lock (`ExchangeHasLock`), what is stored has not been used (`TokensAreUnspent`), and a token was
  presented only if it is rotated or its login over (`PresentedIsRotated`); hence `PresentedOnce`. `HonestInv`
  follows a stale token to the logout it may end in: the login of a stored stale token is that of the exchange
  under way (`ExchangeIsOfTheLogin`), what an exchange brings was in nobody's storage (`GrantIsNew`), so a
  second try is fresh (`SecondTokenIsFresh`), and a refusal or a wait in vain has its cause at the server
  (`RefusalHasCause`, `VainWaitHasCause`); hence `NoFalseLogout`.
* **UploadClientProofs** follows a pick through the upload, the slot, the stored bytes and the job. It has
  one account there (`OwnersKept`: `FilesStayWithOwner`) and one key (`OneKey`; before its first key it is
  nowhere, `Fresh`), so at most one job: `OneJobPerPick`. `SlotIsMine`: what an upload finds in the slot when it
  empties it is its own pick, or recorded as crossed: `KeptUntilAnswered`. `ActiveIsTracked`: the job a tab
  takes for the one it polls is polled, so skipping it is right: `AcceptedIsWatched`, as every step that ends
  such a poll lets the job go or puts it among the `unheard`.

Assumptions are the named `ASSUME`s of the modules, which TLC evaluates in each run. Only model-checked:
liveness (`JobSettles`, `ChargeReconciled`, `ChargesSettle`, `TicketsEnd`, `RequestsEnd`), because
the prover does not reason about `ENABLED` and fairness. Every safety property a passing run checks is a
theorem. The invariants of types of CoinWallet, JobRefresh, PaidRun, PaidStream, Payments and Session are
theorems and in no run's list, which has the deeper ones. Nothing here needs induction over data.

## 5. Where the code and its records differ

Two differences have a run of their own:

| Run | The code | The record |
|---|---|---|
| `refund_window` | a crash between `claim_failed` and the refund is never made good | dispatch.py:275 |
| `client_kept` | the key of a refused upload is used for the next pick, which is answered from the old refusal and dropped | cv-upload-queue.ts:1 |

The others are why a configuration or a property is as narrow as it is. Each comes back when the
narrowing is undone:

| Undo | The code then | The record |
|---|---|---|
| `PromptIntake = FALSE` under `RefundFlagIsTrue` | a sweep between insert and charge marks the job refunded, then it is charged | cv_workflow.py:557 |
| ask `baselines[k] <= 1` | two deliveries both pass `claim_for_completion` and both write a baseline | ADR-0008 |
| ask that no refunded job has a baseline | a drained worker's job is refunded with its baseline kept | cv_upload_jobs.py:129 |
| ask `stalls[k] <= MaxStalls` | two polls of one stale row spend one budget twice | cv_workflow.py:273 |
| ask that a charged job fails only after a delivery | waiting on the lane uses up the lease | ADR-0008 |
| `LedgerExplainsBalance` of every user | the helpers write no ledger row | DECISIONS XP-DB3 |
| ask that a balance moves by one call's amount | `spend_xp` erases a credit that commits in between | DECISIONS XP-DB2 |
| `PaidOnce` without `faulted` | charged, save fails, charged again | paid_run.py:1 |
| `DoubleChargesOverlap` without the overlap | overlapping POSTs both pay | analyse.py:131 |
| `LaterPostsPay` for any two POSTs | overlapping POSTs are both free | deepen.py:83 |
| `RefundWithinCharge` without the clause for `free` jobs | a job that was charged nothing is refunded the price when it fails | cv_workflow.py:928 |
| `NeverLandsRefunded` without `crossed` | an abandonment whose cancel failed silently, or that reads the ticket between a new runner's pick-up and its first write, refunds a search that lands | _redis_state.py:91 |
| `StallBudgetHolds` without `faults` | a requeue whose count fails silently, or whose poll dies, is not counted | cv_upload_jobs.py:169 |
| `AnsweredIsServed` without `lost` | a grant that fails after the row is verified is never made again | payments.py:666 |
| `AnsweredIsServed` without `passedOver` | a charge that loses the row to a later one is answered and not recorded | payments.py:666 |
| `StopSticks` without `early` | a stop that comes before its plan is forgotten, and the plan then starts live | job_switch_plan_service.py:162 |
| `CoinsAddUp` without `overlapped` | two packs granted together add one | DECISIONS XP-DB2 |
| `NoFalseLogout` or `PresentedOnce` without `lapses` | an exchange slower than the lock, or a race for it, signs the user out | api.ts:129 |
| `KeptUntilAnswered` without `fatal` | a cut finalize call drops the held file | cv-upload-queue.ts:1 |
| `FilesStayWithOwner` without `strayed` | a refresh during the POST takes the account that is signed in by then | cv-upload-queue.ts:97 |
| `AcceptedIsWatched` without `unheard` (a new token) | a token change leaves the job to a poll that no longer reports its end | cv-upload-lifecycle-observer.tsx:49 |
| `AcceptedIsWatched` without `unheard` (another account) | signing out keeps the job id, so the next account's page polls a job that is a 404 to it, every 5 s for ever, and takes no upload | cv/page.tsx:264 |
| `SettledFairly` without `doubled` | two processes refund one ticket, or one does after another died before its write | DECISIONS XP-DB3 |
| `SettledFairly` without `crossed` | an attempt that credited is attempted again; a POST refunds an enqueued search that runs | _xp_charge.py:5 |
| fault `kill`, `write` or `start` under `ChargesSettle` | the charge of a killed run, of one whose write raised or of a POST that died is kept | CONTEXT.md:1007 |
| fault `refund` under `TicketTellsTheRefund` | the ticket reports a credit that raised | types.py:52 |

## 6. Plan

Done, in the order of what a mistake costs: CvUpload with its contract, CoinWallet, PaidRun,
PaidStream, JobRefresh, Payments, Session, UploadClient; all their safety properties are proved, and
CvUpload, CoinWallet and JobRefresh are proved to implement their contracts.

Next, extending the model:

1. **Restructure**: charge, write, refund of one proposal, composed with the wallet's one refund per ref.
2. **PartnerDelivery**: the database's retry ladder under concurrent sweeps and duplicate deliveries.
   `attempts` is read before the HTTP call and written after it.
3. **ProviderBudget**: the leased semaphore, as an implementation of a bounded counter; a call that
   outlasts its lease.
4. **SharedCache**: fresh, stale, fill lease and invalidation; a fill that stores what it read before one.
5. **UploadClient** over CvUpload's detail in place of its replies; the onboarding page's upload.
6. **JobRefresh**: the live index (`_sync_live`); **CvUpload**: content hash and rate limit at intake.
7. The client's autosave of drafts.

Then, proofs: the paid modules and JobRefresh over `WalletContract` in place of their own counts, and an
abstract grant that Payments implements.

### Not modelled

Matching, scoring, ranking and the feeds compute over model output and market data: arithmetic, no
protocol. The importers upsert each row on its own key. Partner SSO, account deletion, onboarding and
the remaining routers are single writes. The skill floor heartbeat and the notice board have one writer
and no money. Of the browser extension, the walk over a job form (`form-walk.js`) depends on what a
foreign page does between two of its steps, and nothing in this repository says; what could go wrong
there: `filled` ids outlive the screen they were found on, the results of `attach` and of a write are not
looked at, two walks on one page both press Next, and its `refreshSession` has no lock, so that
a late refusal wipes newer tokens. TWA, operator tools, schema and data hold no state of their own.

## 7. Checking it

`tlc -config <run>.cfg MC<Module>` for a run, `tlapm <Module>Proofs.tla` for a component's proofs. The
two largest runs, `client_tabs` and `payments`, have 2.1 and 1.7 million states and take a minute or two; the
others have fewer than 650,000. All proofs together take several minutes.
