----------------------------- MODULE JobRefresh -----------------------------
(***************************************************************************)
(* Job Refresh (backend/app/services/job_refresh): a paid search that the  *)
(* API debits and hands to a Job Runner over a Redis queue.  A ticket in   *)
(* Redis tells the client where it is: queued, computing, done or failed.  *)
(* The debit is given back when the search cannot be enqueued, fails       *)
(* twice, finds nothing worth its price, or is still queued when no Job    *)
(* Runner is left.                                                         *)
(*                                                                         *)
(* The processes are the POSTs that start a ticket (facade.py, dispatch),  *)
(* the Job Runner's run of a ticket (_run_pipeline) and the streams of the *)
(* API processes, which abandon a stranded ticket (abandon_stranded).      *)
(* Debits and credits are counted; CoinWallet models the balance.          *)
(***************************************************************************)
EXTENDS Naturals, FiniteSets

CONSTANTS
    Tickets,
    Apis,       \* API processes, each abandoning one ticket at a time
    Faults,     \* what may go wrong in a behaviour
    MaxFaults,  \* bound: how often
    MaxLeaves,  \* bound: how often the last Job Runner leaves
    NoTicket

AllFaults == {
    "boot",     \* a Job Runner boots while a ticket is being abandoned
    "check",    \* the check for Job Runners raises, which reads as none
    "kill",     \* the run's process is killed
    "write",    \* a ticket's write raises in the run
    "refund",   \* a credit raises, which is swallowed
    "enqueue",  \* the enqueue raises
    "lost",     \* the enqueue raises and the job is on the queue
    "start",    \* the starting process dies
    "cancel",   \* cancelling the RQ job raises, which is swallowed
    "abandon"}  \* an abandonment's process dies, or its Redis call raises

ASSUME RefreshAssumption ==
    /\ Faults \subseteq AllFaults
    /\ MaxFaults \in Nat /\ MaxLeaves \in Nat
    /\ NoTicket \notin Tickets
ASSUME ApisAssumption == IsFiniteSet(Apis) /\ Apis # {}

VARIABLES
    runner,   \* is a Job Runner registered
    state,    \* the ticket's state in Redis
    said,     \* tickets whose state reports a refund
    job,      \* the RQ job
    priced,   \* tickets that are not free
    charged,  \* tickets that were debited
    refunds,  \* credits per ticket
    landed,   \* tickets whose search was worth its price
    unpaid,   \* tickets whose credit raised
    spc,      \* POSTs: next step
    wpc, tries,  \* runs: next step, attempt
    apc, task,   \* API processes: next step, the ticket they abandon
    faults, leaves,
    crossed,  \* history: tickets that two of POST, run and abandonment settle
    doubled   \* history: tickets that two abandonments settle

ticket == <<state, said>>
money  == <<charged, refunds, unpaid>>
start  == <<priced, spc>>
run    == <<landed, wpc, tries>>
api    == <<apc, task>>
history == <<faults, leaves, crossed, doubled>>
vars   == <<runner, ticket, job, money, start, run, api, history>>

TypeOK ==
    /\ runner \in BOOLEAN
    /\ state \in [Tickets -> {"none", "queued", "computing", "done", "failed"}]
    /\ said \subseteq Tickets
    /\ job \in [Tickets -> {"none", "queued", "started", "ended", "canceled"}]
    /\ priced \subseteq Tickets
    /\ charged \subseteq Tickets
    /\ refunds \in [Tickets -> Nat]
    /\ landed \subseteq Tickets
    /\ unpaid \subseteq Tickets
    /\ spc \in [Tickets -> {"idle", "price", "charge", "check", "refuse", "ticket",
                            "enqueue", "undo", "undone", "returned", "over"}]
    /\ wpc \in [Tickets -> {"off", "begin", "run", "again", "repay", "finish",
                            "giveup", "fail"}]
    /\ tries \in [Tickets -> 1..2]
    /\ \A t \in Tickets : wpc[t] = "again" => tries[t] = 1
    /\ apc \in [Apis -> {"idle", "cancel", "read", "refund", "write"}]
    /\ task \in [Apis -> Tickets \cup {NoTicket}]
    /\ \A a \in Apis : apc[a] # "idle" => task[a] \in Tickets
    /\ faults \in Nat
    /\ leaves \in Nat
    /\ crossed \subseteq Tickets
    /\ doubled \subseteq Tickets

Init ==
    /\ runner \in BOOLEAN
    /\ state = [t \in Tickets |-> "none"]
    /\ said = {}
    /\ job = [t \in Tickets |-> "none"]
    /\ priced = {}
    /\ charged = {}
    /\ refunds = [t \in Tickets |-> 0]
    /\ landed = {}
    /\ unpaid = {}
    /\ spc = [t \in Tickets |-> "idle"]
    /\ wpc = [t \in Tickets |-> "off"]
    /\ tries = [t \in Tickets |-> 1]
    /\ apc = [a \in Apis |-> "idle"]
    /\ task = [a \in Apis |-> NoTicket]
    /\ faults = 0
    /\ leaves = 0
    /\ crossed = {}
    /\ doubled = {}

Fails(f) ==
    /\ f \in Faults
    /\ faults < MaxFaults
    /\ faults' = faults + 1
    /\ UNCHANGED leaves
Fault(f) == Fails(f) /\ UNCHANGED <<crossed, doubled>>

Crosses(t) == crossed' = crossed \cup {t} /\ UNCHANGED doubled

Write(t, s) == state' = [state EXCEPT ![t] = s]
Says(t)     == said' = said \cup ({t} \cap priced)
Posts(t, from, to) == spc[t] = from /\ spc' = [spc EXCEPT ![t] = to]
Works(t, from, to) == wpc[t] = from /\ wpc' = [wpc EXCEPT ![t] = to]
Abandoning(t, step) == {a \in Apis : apc[a] = step /\ task[a] = t}
Abandons(a, from, to) == apc[a] = from /\ apc' = [apc EXCEPT ![a] = to]

-----------------------------------------------------------------------------
\* Faulty variants of the definitions below.
RefundsAnything(t) == refunds' = [refunds EXCEPT ![t] = @ + 1] /\ UNCHANGED unpaid
RefundsNothing(t) == UNCHANGED <<refunds, unpaid>>
KeepsTheJob(t) == job[t]
QueuedOrRunning(t) == state[t] \in {"queued", "computing"}
UndoesNothing(t) ==
    /\ Posts(t, "undo", "undone")
    /\ UNCHANGED <<runner, ticket, job, money, priced, run, api, history>>
FailsUnwritten(t) ==
    /\ Works(t, "fail", "off")
    /\ job' = [job EXCEPT ![t] = "ended"]
    /\ UNCHANGED <<runner, ticket, money, start, landed, tries, api, history>>

\* _xp_charge.refund: nothing for a free ticket; an error is swallowed.
Credit(t) ==
    /\ refunds' = [refunds EXCEPT ![t] = IF t \in priced THEN @ + 1 ELSE @]
    /\ UNCHANGED unpaid
CreditRaises(t) ==
    /\ t \in priced
    /\ unpaid' = unpaid \cup {t}
    /\ Fault("refund")
    /\ UNCHANGED refunds
Refund(t) ==
    /\ UNCHANGED charged
    /\ \/ Credit(t) /\ UNCHANGED history
       \/ CreditRaises(t)

\* abandon_stranded leaves a ticket alone that a run has picked up.
Stranded(t) == state[t] = "queued"

\* cancel_pipeline drops a job that is on the queue, and no other.
Canceled(t) == IF job[t] = "queued" THEN "canceled" ELSE job[t]

-----------------------------------------------------------------------------
(* The POST: JobRefresh.start and dispatch. *)

\* cannot_run, before the debit.
CheckRunner(t) ==
    /\ \/ runner /\ Posts(t, "idle", "price")
       \/ ~runner /\ Posts(t, "idle", "over")
    /\ UNCHANGED <<runner, ticket, job, money, priced, run, api, history>>

\* Free for new inventory, MATCH_RUN_COST else.
Price(t) ==
    /\ \/ Posts(t, "price", "charge") /\ priced' = priced \cup {t}
       \/ Posts(t, "price", "check") /\ UNCHANGED priced
    /\ UNCHANGED <<runner, ticket, job, money, run, api, history>>

\* spend_xp's debit, or its 400.
Charge(t) ==
    /\ \/ Posts(t, "charge", "check") /\ charged' = charged \cup {t}
       \/ Posts(t, "charge", "over") /\ UNCHANGED charged
    /\ UNCHANGED <<runner, ticket, job, refunds, unpaid, priced, run, api, history>>

\* cannot_run once more, in dispatch.
DispatchChecks(t) ==
    /\ \/ runner /\ Posts(t, "check", "ticket")
       \/ ~runner /\ Posts(t, "check", "refuse")
    /\ UNCHANGED <<runner, ticket, job, money, priced, run, api, history>>

\* _refuse_without_runner.
RefuseWithoutRunner(t) ==
    /\ Posts(t, "refuse", "over")
    /\ Refund(t)
    /\ UNCHANGED <<runner, ticket, job, priced, run, api>>

WriteQueued(t) ==
    /\ Posts(t, "ticket", "enqueue")
    /\ Write(t, "queued")
    /\ UNCHANGED <<runner, said, job, money, priced, run, api, history>>

Enqueue(t) ==
    /\ Posts(t, "enqueue", "returned")
    /\ job' = [job EXCEPT ![t] = "queued"]
    /\ UNCHANGED <<runner, ticket, money, priced, run, api, history>>

EnqueueRaises(t) ==
    /\ Posts(t, "enqueue", "undo")
    /\ \/ Fault("enqueue") /\ UNCHANGED job
       \/ Fails("lost") /\ Crosses(t) /\ job' = [job EXCEPT ![t] = "queued"]
    /\ UNCHANGED <<runner, ticket, money, priced, run, api>>

UndoCharge(t) ==
    /\ Posts(t, "undo", "undone")
    /\ Refund(t)
    /\ UNCHANGED <<runner, ticket, job, priced, run, api>>

WriteUnqueued(t) ==
    /\ Posts(t, "undone", "returned")
    /\ Write(t, "failed")
    /\ Says(t)
    /\ UNCHANGED <<runner, job, money, priced, run, api, history>>

StartDies(t) ==
    /\ spc[t] \notin {"idle", "returned", "over"}
    /\ spc' = [spc EXCEPT ![t] = "over"]
    /\ Fault("start")
    /\ UNCHANGED <<runner, ticket, job, money, priced, run, api>>

-----------------------------------------------------------------------------
(* The Job Runner: run_pipeline_worker. *)

Dequeue(t) ==
    /\ runner
    /\ job[t] = "queued"
    /\ Works(t, "off", "begin")
    /\ job' = [job EXCEPT ![t] = "started"]
    /\ UNCHANGED <<runner, ticket, money, start, landed, tries, api, history>>

Begin(t) ==
    /\ Works(t, "begin", "run")
    /\ Write(t, "computing")
    /\ UNCHANGED <<runner, said, job, money, start, landed, tries, api, history>>

\* The ranker's progress callback rewrites the ticket.
Reveal(t) ==
    /\ wpc[t] = "run"
    /\ Write(t, "computing")
    /\ said' = said \ {t}
    /\ UNCHANGED <<runner, job, money, start, run, api, history>>

\* The pipeline returns an outcome worth its price, or one that is not.
RunLands(t) ==
    /\ Works(t, "run", "finish")
    /\ landed' = landed \cup {t}
    /\ UNCHANGED <<runner, ticket, job, money, start, tries, api, history>>

RunIsEmpty(t) ==
    /\ Works(t, "run", "repay")
    /\ UNCHANGED <<runner, ticket, job, money, start, landed, tries, api, history>>

\* An attempt raises: the first is tried again.
AttemptRaises(t, from) ==
    \/ tries[t] = 1 /\ Works(t, from, "again")
    \/ tries[t] = 2 /\ Works(t, from, "giveup")

RunRaises(t) ==
    /\ AttemptRaises(t, "run")
    /\ UNCHANGED <<runner, ticket, job, money, start, landed, tries, api, history>>

RunAgain(t) ==
    /\ Works(t, "again", "run")
    /\ tries' = [tries EXCEPT ![t] = @ + 1]
    /\ Write(t, "computing")
    /\ UNCHANGED <<runner, said, job, money, start, landed, api, history>>

\* _finish_success gives back what an empty search cost.
Repay(t) ==
    /\ Works(t, "repay", "finish")
    /\ Refund(t)
    /\ UNCHANGED <<runner, ticket, job, start, landed, tries, api>>

Finish(t) ==
    /\ Works(t, "finish", "off")
    /\ Write(t, "done")
    /\ IF t \in landed THEN UNCHANGED said ELSE Says(t)
    /\ job' = [job EXCEPT ![t] = "ended"]
    /\ UNCHANGED <<runner, money, start, landed, tries, api, history>>

\* The second failure: the charge is given back and the ticket failed.
GiveUp(t) ==
    /\ Works(t, "giveup", "fail")
    /\ Refund(t)
    /\ UNCHANGED <<runner, ticket, job, start, landed, tries, api>>

Fail(t) ==
    /\ Works(t, "fail", "off")
    /\ Write(t, "failed")
    /\ Says(t)
    /\ job' = [job EXCEPT ![t] = "ended"]
    /\ UNCHANGED <<runner, money, start, landed, tries, api, history>>

\* Redis fails a write of the run: within an attempt that is one more failure
\* of the attempt, whose search is settled; elsewhere it ends the RQ job.
WriteRaises(t) ==
    /\ \/ Fails("write") /\ Crosses(t) /\ AttemptRaises(t, "finish") /\ UNCHANGED job
       \/ Fault("write") /\ \E from \in {"begin", "again", "fail"} :
              Works(t, from, "off") /\ job' = [job EXCEPT ![t] = "ended"]
    /\ UNCHANGED <<runner, ticket, money, start, landed, tries, api>>

\* RQ marks the job of a killed run failed and calls nobody.
RunKilled(t) ==
    /\ wpc[t] # "off"
    /\ wpc' = [wpc EXCEPT ![t] = "off"]
    /\ job' = [job EXCEPT ![t] = "ended"]
    /\ Fault("kill")
    /\ UNCHANGED <<runner, ticket, money, start, landed, tries, api>>

\* The last Job Runner leaves between runs; another boots.
RunnerLeaves ==
    /\ runner
    /\ \A t \in Tickets : wpc[t] = "off"
    /\ leaves < MaxLeaves
    /\ runner' = FALSE
    /\ leaves' = leaves + 1
    /\ UNCHANGED <<ticket, job, money, start, run, api, faults, crossed, doubled>>

RunnerBoots ==
    /\ ~runner
    /\ runner' = TRUE
    /\ \/ (\A a \in Apis : apc[a] = "idle") /\ UNCHANGED history
       \/ Fault("boot")
    /\ UNCHANGED <<ticket, job, money, start, run, api>>

-----------------------------------------------------------------------------
(* The stream of a ticket: abandon_stranded, after QUEUED_STRANDED_SECONDS. *)

AbandonChecks(a, t) ==
    /\ spc[t] = "returned"
    /\ Stranded(t)
    /\ Abandons(a, "idle", "cancel")
    /\ \/ ~runner /\ UNCHANGED history
       \/ runner /\ Fault("check")
    /\ task' = [task EXCEPT ![a] = t]
    /\ UNCHANGED <<runner, ticket, job, money, start, run>>

\* An error of the fetch or the cancel is logged, and the abandonment goes on.
CancelPipeline(a) ==
    /\ Abandons(a, "cancel", "read")
    /\ \/ job' = [job EXCEPT ![task[a]] = Canceled(task[a])] /\ UNCHANGED history
       \/ /\ job[task[a]] = "queued"
          /\ Fails("cancel") /\ Crosses(task[a])
          /\ UNCHANGED job
    /\ UNCHANGED <<runner, ticket, money, start, run, task>>

\* A run that has yet to write its ticket is not seen, nor is another API
\* process that is about to credit it or to write it.
ReadState(a) ==
    /\ \/ /\ Abandons(a, "read", "refund") /\ Stranded(task[a])
          /\ crossed' = crossed \cup {t \in {task[a]} : wpc[t] = "begin"}
          /\ doubled' = doubled \cup {t \in {task[a]} : Abandoning(t, "refund") \cup Abandoning(t, "write") # {}}
          /\ UNCHANGED <<faults, leaves>>
       \/ Abandons(a, "read", "idle") /\ ~Stranded(task[a]) /\ UNCHANGED history
    /\ UNCHANGED <<runner, ticket, job, money, start, run, task>>

AbandonRefunds(a) ==
    /\ Abandons(a, "refund", "write")
    /\ Refund(task[a])
    /\ UNCHANGED <<runner, ticket, job, start, run, task>>

AbandonWrites(a) ==
    /\ Abandons(a, "write", "idle")
    /\ Write(task[a], "failed")
    /\ Says(task[a])
    /\ UNCHANGED <<runner, job, money, start, run, task, history>>

\* The next stream of the ticket finds it still queued.
AbandonDies(a) ==
    /\ apc[a] # "idle"
    /\ apc' = [apc EXCEPT ![a] = "idle"]
    /\ Fails("abandon")
    /\ doubled' = doubled \cup {t \in {task[a]} : apc[a] = "write"}
    /\ UNCHANGED <<runner, ticket, job, money, start, run, task, crossed>>

StartStep(t) ==
    \/ CheckRunner(t) \/ Price(t) \/ Charge(t) \/ DispatchChecks(t)
    \/ RefuseWithoutRunner(t) \/ WriteQueued(t) \/ Enqueue(t)
    \/ UndoCharge(t) \/ WriteUnqueued(t)

\* Every step of a run but Reveal, which it may take any number of times.
WorkStep(t) ==
    \/ Dequeue(t) \/ Begin(t) \/ RunLands(t) \/ RunIsEmpty(t) \/ RunRaises(t)
    \/ RunAgain(t) \/ Repay(t) \/ Finish(t) \/ GiveUp(t) \/ Fail(t)

ApiStep(a) ==
    \/ \E t \in Tickets : AbandonChecks(a, t)
    \/ CancelPipeline(a) \/ ReadState(a) \/ AbandonRefunds(a) \/ AbandonWrites(a)

Next ==
    \/ \E t \in Tickets : StartStep(t) \/ EnqueueRaises(t) \/ StartDies(t)
    \/ \E t \in Tickets : WorkStep(t) \/ Reveal(t) \/ WriteRaises(t) \/ RunKilled(t)
    \/ \E a \in Apis : ApiStep(a) \/ AbandonDies(a)
    \/ RunnerLeaves
    \/ RunnerBoots

Spec == Init /\ [][Next]_vars

\* A POST runs to its end, a Job Runner works and comes back, and an abandonment
\* begun is finished; that a client watches the ticket is not assumed.
FairSpec ==
    /\ Spec
    /\ \A t \in Tickets : WF_vars(StartStep(t) /\ spc[t] # "idle") /\ WF_vars(WorkStep(t))
    /\ \A a \in Apis : WF_vars(ApiStep(a) /\ apc[a] # "idle")
    /\ WF_vars(RunnerBoots)

-----------------------------------------------------------------------------
(***************************************************************************)
(* What a ticket promises.  The code does not keep two processes from      *)
(* settling one ticket, and the promises say so by what happened to it:    *)
(*   - crossed: cancelling its RQ job failed silently; an abandonment read *)
(*     it as queued between a run's pick-up and the run's first write; its *)
(*     enqueue raised with the job on the queue; or the write that         *)
(*     finishes its run raised, so that a settled search is run again;     *)
(*   - doubled: two API processes abandoned it at once, or one did after   *)
(*     another had credited it and failed to write it.                     *)
(* Every other order of POST, run, kill, retry, abandonment, departure and *)
(* arrival of Job Runners keeps them all.                                  *)
(***************************************************************************)
Contested == crossed \cup doubled

\* No ticket is given back more than it cost, unless it was crossed or doubled.
RefundsWithinCharge ==
    \A t \in Tickets \ Contested : refunds[t] <= (IF t \in charged THEN 1 ELSE 0)

\* Whatever fails, crossed and doubled tickets included, only a debited ticket
\* is credited, and each failure and each further API process costs at most one
\* credit too many.
CreditsAreBounded ==
    \A t \in Tickets :
        refunds[t] > 0 => t \in charged /\ refunds[t] <= Cardinality(Apis) + faults

\* A search that lands is not refunded, unless it was crossed: a Job Runner
\* that boots under an abandonment finds the job cancelled, or has written the
\* ticket before the abandonment reads it.
NeverLandsRefunded == \A t \in landed \ crossed : refunds[t] = 0

\* An ended ticket is settled: kept when the search was worth its price, given
\* back when not, unless the credit itself raised or the ticket was crossed or
\* doubled.
SettledFairly ==
    \A t \in charged \ (unpaid \cup Contested) : state[t] \in {"done", "failed"} =>
        refunds[t] = IF t \in landed THEN 0 ELSE 1

\* An ended ticket stays as it ended, unless it was crossed.
EndedStays ==
    [][\A t \in Tickets \ crossed :
           state[t] \in {"done", "failed"} => state'[t] = state[t]]_vars

\* The ticket's refund is the wallet's: what it reports was credited, once,
\* unless the credit itself raised or the ticket was crossed or doubled.
TicketTellsTheRefund == \A t \in said \ (unpaid \cup Contested) : refunds[t] = 1

\* What has become of a ticket's charge.
Deal(t) ==
    IF t \notin charged THEN "none"
    ELSE IF t \in landed THEN "kept"
    ELSE IF refunds[t] > 0 THEN "returned"
    ELSE IF t \in unpaid THEN "lost"
    ELSE "held"

\* POST, run and abandonment together settle a charge once, in one way and
\* before the ticket ends, and leave an ended ticket's charge alone; a ticket
\* that was crossed or doubled is loose from that step on and not before.
Contract == INSTANCE TicketContract WITH
    deal  <- [t \in Tickets |-> Deal(t)],
    ended <- {t \in Tickets : state[t] \in {"done", "failed"}},
    loose <- Contested
ImplementsContract == Contract!Spec

\* A debited search lands or is given back, unless the credit itself failed.
ChargesSettle ==
    \A t \in Tickets : t \in charged ~> (t \in landed \cup unpaid \/ refunds[t] > 0)

\* A ticket comes to an end.
TicketsEnd == \A t \in Tickets : state[t] = "queued" ~> state[t] \in {"done", "failed"}

-----------------------------------------------------------------------------
(***************************************************************************)
(* The inductive invariant behind the settlement, whatever fails and with  *)
(* any number of API processes.                                            *)
(***************************************************************************)
\* Where the POST is, where the job is and what the ticket says.
PhaseInv ==
    /\ \A t \in Tickets :
        /\ t \in priced => spc[t] \notin {"idle", "price"}
        /\ spc[t] = "charge" => t \in priced
        /\ t \in charged => t \in priced /\ spc[t] # "charge"
        /\ t \in priced /\ spc[t] \notin {"charge", "over"} => t \in charged
        /\ spc[t] \notin {"undo", "undone", "returned", "over"} => t \notin Contested
        /\ wpc[t] # "off" <=> job[t] = "started"
    /\ \A t \in Tickets \ crossed :
        /\ spc[t] # "returned" => job[t] = "none"
        /\ spc[t] \in {"enqueue", "undo", "undone"} => state[t] = "queued"
        /\ state[t] \in {"done", "failed"} => spc[t] = "returned"
        /\ job[t] = "queued" \/ wpc[t] = "begin" => state[t] = "queued"
        /\ wpc[t] \notin {"off", "begin"} => state[t] = "computing"

\* An abandonment that read its ticket as queued meets no run, and no other
\* abandonment of the ticket that did.
AbandonInv ==
    /\ ~runner => \A t \in Tickets : wpc[t] = "off"
    /\ \A a \in Apis : apc[a] # "idle" => spc[task[a]] = "returned"
    /\ \A a \in Apis : task[a] \notin crossed =>
        /\ apc[a] \in {"read", "refund", "write"} => job[task[a]] # "queued"
        /\ apc[a] \in {"refund", "write"} =>
               wpc[task[a]] = "off" /\ state[task[a]] \in {"queued", "failed"}
    /\ \A a \in Apis : apc[a] \in {"refund", "write"} /\ task[a] \notin Contested =>
        /\ state[task[a]] = "queued"
        /\ \A b \in Apis : apc[b] \in {"refund", "write"} /\ task[b] = task[a] => b = a

\* A ticket is credited by one process, just before it says so.
CreditInv ==
    /\ \A t \in Tickets \ crossed :
        /\ refunds[t] > 0 => t \in charged
        /\ spc[t] \notin {"undone", "returned", "over"} => refunds[t] = 0
        /\ wpc[t] \in {"begin", "run", "again", "repay", "giveup"} => refunds[t] = 0
        /\ job[t] = "queued" => refunds[t] = 0
    /\ \A t \in Tickets \ Contested :
        /\ refunds[t] <= 1
        /\ state[t] = "queued" /\ spc[t] = "returned"
               /\ (\A a \in Apis : apc[a] = "write" => task[a] # t) => refunds[t] = 0

\* A search that landed is out of reach of every credit.
LandedInv ==
    \A t \in landed \ crossed :
        /\ refunds[t] = 0
        /\ spc[t] = "returned"
        /\ state[t] \in {"computing", "done"}
        /\ job[t] \in {"started", "ended"}
        /\ wpc[t] \in {"off", "finish"}

\* What is due before the ticket is written.
DueInv ==
    \A t \in charged \ (unpaid \cup Contested) :
        /\ spc[t] = "undone" => refunds[t] = 1
        /\ wpc[t] = "fail" => refunds[t] = 1
        /\ wpc[t] = "finish" => refunds[t] = IF t \in landed THEN 0 ELSE 1
        /\ \A a \in Apis : apc[a] = "write" /\ task[a] = t => refunds[t] = 1

RefreshInv ==
    PhaseInv /\ AbandonInv /\ CreditInv /\ LandedInv /\ DueInv /\ SettledFairly

\* A credit that raised is not tried again, nor is its search's charge kept.
LostInv ==
    \A t \in unpaid \ Contested :
        /\ t \in charged \ landed
        /\ refunds[t] = 0
        /\ spc[t] \in {"undone", "returned", "over"}
        /\ wpc[t] \in {"off", "finish", "fail"}
        /\ job[t] # "queued"
        /\ state[t] = "queued" /\ spc[t] = "returned" =>
               \E a \in Apis : apc[a] = "write" /\ task[a] = t

(***************************************************************************)
(* Why the credits are bounded, whatever fails.  A ticket's credits are    *)
(* those given and those still in somebody's hands: its run's, its POST's  *)
(* and one for each API process about to credit it.  A process takes one   *)
(* up only from a ticket nobody else has credited but processes that have  *)
(* yet to write it, or died before; a run and an abandonment meet only by  *)
(* a fault.                                                                *)
(***************************************************************************)
RunMayCredit(t)  == job[t] = "queued" \/ wpc[t] \in {"begin", "run", "again", "repay", "giveup"}
PostMayCredit(t) == spc[t] \in {"refuse", "undo"}
One(held) == IF held THEN 1 ELSE 0

CreditsInHand(t) ==
    Cardinality(Abandoning(t, "refund")) + One(RunMayCredit(t)) + One(PostMayCredit(t))

\* A run that may still credit the ticket, and an abandonment of it.
Meet(t) ==
    /\ RunMayCredit(t)
    /\ \E a \in Apis : /\ task[a] = t
                       /\ \/ apc[a] \in {"read", "refund", "write"}
                          \/ apc[a] = "cancel" /\ runner

\* Where a ticket is, whatever fails.
LooseInv ==
    \A t \in Tickets :
        /\ t \in priced => spc[t] \notin {"idle", "price"}
        /\ t \in priced /\ (spc[t] \notin {"charge", "over"} \/ job[t] # "none") => t \in charged
        /\ spc[t] \notin {"undo", "undone", "returned", "over"} => job[t] = "none" /\ refunds[t] = 0
        /\ wpc[t] # "off" => job[t] = "started"
        /\ wpc[t] \notin {"off", "begin"} => state[t] # "queued"
        /\ refunds[t] > 0 => t \in charged

MeetInv ==
    /\ ~runner => \A t \in Tickets : wpc[t] = "off"
    /\ \A a \in Apis : apc[a] # "idle" => spc[task[a]] = "returned"

Bounded(t) ==
    /\ refunds[t] + CreditsInHand(t) <= Cardinality(Apis) + faults
    /\ state[t] = "queued" /\ spc[t] = "returned" =>
           refunds[t] + One(Meet(t)) <= Cardinality(Abandoning(t, "write")) + faults

BoundInv == LooseInv /\ MeetInv /\ \A t \in Tickets : Bounded(t)
=============================================================================
