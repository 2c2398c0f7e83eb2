------------------------------- MODULE Payments -------------------------------
(***************************************************************************)
(* Payments (backend/app/routers/payments.py, with services                *)
(* job_switch_plan_service.py, ai_workflow_audit.py and xp_service.earn_xp,*)
(* and the browser's checkouts).                                           *)
(*                                                                         *)
(* An order is recorded, paid at Razorpay, and granted by whoever moves    *)
(* its row from created to verified: the browser's POST /verify-payment or *)
(* a webhook.  A webhook is delivered until it is answered 2xx, and may be *)
(* delivered again and out of order.  A subscription's later charges are   *)
(* rows of their own, each of which opens that month's pass.               *)
(*                                                                         *)
(* The handlers are requests in flight; an action is one database call.    *)
(* The orders are one user's, so the wallet and the plan are one row each. *)
(***************************************************************************)
EXTENDS Integers, FiniteSets, Sequences

CONSTANTS
    Orders,
    Handlers,       \* bound: requests in flight at once
    MaxCharges,     \* bound: charges of a subscription
    MaxRenewals,    \* bound: charges after the first, all subscriptions together
    MaxMonths,      \* bound: months
    MaxOpenAudits,  \* MAX_OPEN_AUDITS
    MaxFaults,      \* bound: requests that fail midway
    NoOrder

ASSUME PaymentsAssumption ==
    /\ MaxCharges \in Nat \ {0} /\ MaxMonths \in Nat \ {0}
    /\ MaxRenewals \in Nat /\ MaxOpenAudits \in Nat /\ MaxFaults \in Nat
    /\ NoOrder \notin Orders

\* "unlock" stands for the two products whose grant sets a flag.
Products == {"coins", "unlock", "audit", "plan"}

\* <<o, n>> is the n-th charge of order o, and its webhook;
\* <<o, 0>> is the webhook that says the subscription o has stopped.
Charges == Orders \X (1..MaxCharges)
StopOf(o) == <<o, 0>>

NoEvent == <<NoOrder, 0>>
Events  == Charges \cup {StopOf(o) : o \in Orders}

VARIABLES
    row,       \* row[o]: the order's product, its status, and the charge it carries
    renewals,  \* charges with a row of their own
    captured,  \* captured[c]: the month Razorpay took c in, or 0
    stopped,   \* subscriptions Razorpay has stopped
    acked,     \* webhooks that were answered 2xx
    balance,   \* the wallet, in packs
    audits,    \* audits that are open
    plan,      \* the job_switch_plans row: its subscription and whether it is live
    passes,    \* passes[n]: the month of the plan's review number n
    month,
    pc,        \* pc[h]: the next call of request h
    task,      \* task[h]: the charge or the stop it is about
    hook,      \* requests that are webhooks
    seen,      \* seen[h]: the number it read
    served,    \* served[c]: how often charge c was granted
    lost,      \* charges whose request failed after it won the row
    passedOver,\* charges whose request lost the order's row to another charge
    lapsed,    \* charges that found no live plan
    early,     \* stops that found no plan of their subscription
    overlapped,\* two requests credited the wallet at once
    faults

rows    == <<row, renewals>>
gateway == <<captured, stopped>>
goods   == <<balance, audits, plan, passes>>
request == <<pc, task, hook, seen>>
ghosts  == <<served, lost, passedOver, lapsed, early, overlapped>>
vars    == <<rows, gateway, acked, goods, month, request, ghosts, faults>>

NoRow  == [product |-> "unlock", status |-> "none", charge |-> NoEvent]
NoPlan == [sub |-> NoOrder, live |-> FALSE]

Init ==
    /\ row = [o \in Orders |-> NoRow] /\ renewals = {}
    /\ captured = [c \in Charges |-> 0] /\ stopped = {} /\ acked = {}
    /\ balance = 0 /\ audits = 0 /\ plan = NoPlan /\ passes = <<>> /\ month = 1
    /\ pc = [h \in Handlers |-> "idle"] /\ task = [h \in Handlers |-> NoEvent]
    /\ hook = {} /\ seen = [h \in Handlers |-> 0]
    /\ served = [c \in Charges |-> 0] /\ lost = {} /\ passedOver = {} /\ lapsed = {}
    /\ early = {} /\ overlapped = FALSE /\ faults = 0

-----------------------------------------------------------------------------
(* create_order, the checkout, and what the gateway does. *)

\* What is looked up before the order is made, and not again.
Available(p) ==
    /\ p = "audit" => audits < MaxOpenAudits
    /\ p = "plan" => ~plan.live

CreateOrder(o, p) ==
    /\ row[o].status = "none" /\ Available(p)
    /\ row' = [row EXCEPT ![o] = [product |-> p, status |-> "created", charge |-> NoEvent]]
    /\ UNCHANGED <<renewals, gateway, acked, goods, month, request, ghosts, faults>>

\* The checkout takes the first charge of an order.
Checkout(o) ==
    /\ row[o].status # "none"
    /\ captured[<<o, 1>>] = 0
    /\ captured' = [captured EXCEPT ![<<o, 1>>] = month]
    /\ UNCHANGED <<rows, stopped, acked, goods, month, request, ghosts, faults>>

\* A subscription charges once a month until it stops.
Recurs(o, n) ==
    /\ n > 1 /\ row[o].product = "plan" /\ o \notin stopped
    /\ captured[<<o, n>>] = 0 /\ captured[<<o, n - 1>>] > 0
    /\ month > captured[<<o, n - 1>>]
    /\ Cardinality({c \in Charges : c[2] > 1 /\ captured[c] > 0}) < MaxRenewals
    /\ captured' = [captured EXCEPT ![<<o, n>>] = month]
    /\ UNCHANGED <<rows, stopped, acked, goods, month, request, ghosts, faults>>

StopsAtRazorpay(o) ==
    /\ row[o].product = "plan" /\ o \notin stopped /\ captured[<<o, 1>>] > 0
    /\ stopped' = stopped \cup {o}
    /\ UNCHANGED <<rows, captured, acked, goods, month, request, ghosts, faults>>

MonthTurns ==
    /\ month < MaxMonths
    /\ month' = month + 1
    /\ UNCHANGED <<rows, gateway, acked, goods, request, ghosts, faults>>

-----------------------------------------------------------------------------
(* A request, from its first read: nothing is decided before it. *)

\* What Razorpay may deliver, for the first time or again.
IsSent(e) == IF e \in Charges THEN captured[e] > 0 ELSE e[1] \in stopped

RowOf(e) == row[e[1]]

\* Faulty variant: a verified row answers for every charge.
IsNoRenewal(e) == FALSE

\* A webhook about a charge its subscription's row does not carry.
IsRenewal(e) == RowOf(e).product = "plan" /\ RowOf(e).charge # e

Begins(h, e, to) ==
    /\ pc[h] = "idle"
    /\ pc' = [pc EXCEPT ![h] = to] /\ task' = [task EXCEPT ![h] = e]
    /\ UNCHANGED <<seen, rows, gateway, acked, goods, month, ghosts, faults>>

WebhookUnpaid(h, c) ==
    /\ IsSent(c) /\ RowOf(c).status = "created"
    /\ hook' = hook \cup {h}
    /\ Begins(h, c, "mark")

\* The checkout's handler sends what Razorpay signed.
VerifyUnpaid(h, o) ==
    /\ IsSent(<<o, 1>>) /\ row[o].status = "created"
    /\ UNCHANGED hook
    /\ Begins(h, <<o, 1>>, "mark")

\* Two reads in the code; a row that is verified never changes.
WebhookRenewal(h, c) ==
    /\ IsSent(c) /\ RowOf(c).status = "verified"
    /\ IsRenewal(c) /\ c \notin renewals
    /\ hook' = hook \cup {h}
    /\ Begins(h, c, "record")

\* A verified row of this charge: nothing but the answer.
WebhookDone(c) ==
    /\ IsSent(c) /\ RowOf(c).status = "verified"
    /\ IsRenewal(c) => c \in renewals
    /\ acked' = acked \cup {c}
    /\ UNCHANGED <<rows, gateway, goods, month, request, ghosts, faults>>

\* mark_subscription_stopped updates the plan of that subscription, if there is one.
WebhookStop(o) ==
    /\ IsSent(StopOf(o))
    /\ acked' = acked \cup {StopOf(o)}
    /\ plan' = IF plan.sub = o THEN [plan EXCEPT !.live = FALSE] ELSE plan
    /\ early' = IF plan.sub = o THEN early ELSE early \cup {o}
    /\ UNCHANGED <<rows, gateway, balance, audits, passes, month, request,
                   served, lost, passedOver, lapsed, overlapped, faults>>

Goes(h, from, to) ==
    /\ pc[h] = from
    /\ pc' = [pc EXCEPT ![h] = to]
    /\ UNCHANGED <<task, hook>>

Ends(h) ==
    /\ pc' = [pc EXCEPT ![h] = "idle"] /\ task' = [task EXCEPT ![h] = NoEvent]
    /\ hook' = hook \ {h} /\ seen' = [seen EXCEPT ![h] = 0]

\* The request returns: Razorpay takes a webhook's answer for done.
Answers(h) ==
    /\ Ends(h)
    /\ acked' = IF h \in hook THEN acked \cup {task[h]} ELSE acked

Serves(h) == served' = [served EXCEPT ![task[h]] = @ + 1]

-----------------------------------------------------------------------------
(* The verdict: one request moves the row from created to verified. *)

\* Faulty variant: the update does not ask for the row's status.
WinsAnyway(h) ==
    /\ pc[h] = "mark"

\* The UPDATE is filtered on status = 'created'.
Wins(h) ==
    /\ pc[h] = "mark"
    /\ RowOf(task[h]).status = "created"

Marks(h) ==
    /\ Wins(h)
    /\ Goes(h, "mark", "grant")
    /\ row' = [row EXCEPT ![task[h][1]] =
                            [@ EXCEPT !.status = "verified", !.charge = task[h]]]
    /\ UNCHANGED <<renewals, seen, gateway, acked, goods, month, ghosts, faults>>

MarksInVain(h) ==
    /\ pc[h] = "mark" /\ ~Wins(h)
    /\ Answers(h)
    /\ passedOver' = IF h \in hook /\ IsRenewal(task[h]) THEN passedOver \cup {task[h]} ELSE passedOver
    /\ UNCHANGED <<rows, gateway, goods, month, served, lost, lapsed, early,
                   overlapped, faults>>

-----------------------------------------------------------------------------
(* _apply_fulfilment, by product. *)

\* earn_xp reads the balance and then writes it.
ReadsBalance(h) ==
    /\ Goes(h, "grant", "credit") /\ RowOf(task[h]).product = "coins"
    /\ seen' = [seen EXCEPT ![h] = balance]
    /\ overlapped' = (overlapped \/ \E g \in Handlers : pc[g] = "credit")
    /\ UNCHANGED <<rows, gateway, acked, goods, month, served, lost, passedOver,
                   lapsed, early, faults>>

\* Faulty variant: the pack replaces the balance.
SetsBalance(h) ==
    /\ pc[h] = "credit"
    /\ balance' = 1
    /\ Answers(h) /\ Serves(h)
    /\ UNCHANGED <<rows, gateway, audits, plan, passes, month, lost, passedOver,
                   lapsed, early, overlapped, faults>>

WritesBalance(h) ==
    /\ pc[h] = "credit"
    /\ balance' = seen[h] + 1
    /\ Answers(h) /\ Serves(h)
    /\ UNCHANGED <<rows, gateway, audits, plan, passes, month, lost, passedOver,
                   lapsed, early, overlapped, faults>>

Unlocks(h) ==
    /\ pc[h] = "grant" /\ RowOf(task[h]).product = "unlock"
    /\ Answers(h) /\ Serves(h)
    /\ UNCHANGED <<rows, gateway, goods, month, lost, passedOver, lapsed, early,
                   overlapped, faults>>

OpensAudit(h) ==
    /\ pc[h] = "grant" /\ RowOf(task[h]).product = "audit"
    /\ audits' = audits + 1
    /\ Answers(h) /\ Serves(h)
    /\ UNCHANGED <<rows, gateway, balance, plan, passes, month, lost, passedOver,
                   lapsed, early, overlapped, faults>>

\* activate_audit swallows what its insert raises.
SwallowsAudit(h) ==
    /\ faults < MaxFaults /\ faults' = faults + 1
    /\ pc[h] = "grant" /\ RowOf(task[h]).product = "audit"
    /\ Answers(h)
    /\ lost' = lost \cup {task[h]}
    /\ UNCHANGED <<rows, gateway, goods, month, served, passedOver, lapsed, early,
                   overlapped>>

ReadsPlan(h) ==
    /\ Goes(h, "grant", IF plan = NoPlan THEN "insert" ELSE "patch")
    /\ RowOf(task[h]).product = "plan"
    /\ UNCHANGED <<seen, rows, gateway, acked, goods, month, ghosts, faults>>

\* The plan of a new user; its first pass is number 1.
InsertsPlan(h) ==
    /\ plan = NoPlan
    /\ Goes(h, "insert", "open")
    /\ plan' = [sub |-> task[h][1], live |-> TRUE]
    /\ UNCHANGED <<seen, rows, gateway, acked, balance, audits, passes, month, ghosts,
                   faults>>

PatchesPlan(h) ==
    /\ Goes(h, "patch", "passes")
    /\ plan' = [sub |-> task[h][1], live |-> TRUE]
    /\ UNCHANGED <<seen, rows, gateway, acked, balance, audits, passes, month, ghosts,
                   faults>>

-----------------------------------------------------------------------------
(* A renewal, and the month's pass. *)

\* The payment id is unique: a second insert raises.
RecordsRenewal(h) ==
    /\ task[h] \notin renewals
    /\ Goes(h, "record", "renew")
    /\ renewals' = renewals \cup {task[h]}
    /\ UNCHANGED <<row, seen, gateway, acked, goods, month, ghosts, faults>>

\* Faulty variant: a charge brings a stopped plan back.
RevivesPlan(h) ==
    /\ Goes(h, "renew", "passes")
    /\ plan' = [plan EXCEPT !.live = plan # NoPlan]
    /\ UNCHANGED <<seen, rows, gateway, acked, balance, audits, passes, month, ghosts,
                   faults>>

\* renew_period finds a live plan and moves its window.
RenewsPeriod(h) ==
    /\ Goes(h, "renew", "passes")
    /\ plan.live
    /\ UNCHANGED <<seen, rows, gateway, acked, goods, month, ghosts, faults>>

RenewsNothing(h) ==
    /\ pc[h] = "renew" /\ ~plan.live
    /\ Answers(h)
    /\ lapsed' = lapsed \cup {task[h]}
    /\ UNCHANGED <<rows, gateway, goods, month, served, lost, passedOver, early,
                   overlapped, faults>>

\* _ensure_period_pass
NeedsPass(h) ==
    /\ \A n \in DOMAIN passes : passes[n] # month
    /\ Goes(h, "passes", "open")
    /\ seen' = [seen EXCEPT ![h] = Len(passes)]
    /\ UNCHANGED <<rows, gateway, acked, goods, month, ghosts, faults>>

HasPass(h) ==
    /\ pc[h] = "passes"
    /\ \E n \in DOMAIN passes : passes[n] = month
    /\ Answers(h) /\ Serves(h)
    /\ UNCHANGED <<rows, gateway, goods, month, lost, passedOver, lapsed, early,
                   overlapped, faults>>

\* Faulty variant: a plan may have two reviews of one number.
IsFreeAnyway(n) == TRUE

\* (plan, review_no) is unique.
IsFree(n) == n > Len(passes)

OpensPass(h) ==
    /\ pc[h] = "open" /\ IsFree(seen[h] + 1)
    /\ passes' = Append(passes, month)
    /\ Answers(h) /\ Serves(h)
    /\ UNCHANGED <<rows, gateway, balance, audits, plan, month, lost, passedOver,
                   lapsed, early, overlapped, faults>>

-----------------------------------------------------------------------------
(* A request that raises, or whose process dies: no 2xx. *)

\* Between winning the order's row, or recording the charge, and the grant.
InHand == {"grant", "credit", "insert", "patch", "renew", "passes", "open"}

\* A unique column refuses its insert.
Conflicts(h) ==
    \/ pc[h] = "insert" /\ plan # NoPlan
    \/ pc[h] = "record" /\ task[h] \in renewals
    \/ pc[h] = "open" /\ ~IsFree(seen[h] + 1)

Fails(h) ==
    /\ Ends(h)
    /\ lost' = IF pc[h] \in InHand THEN lost \cup {task[h]} ELSE lost
    /\ UNCHANGED <<rows, gateway, acked, goods, month, served, passedOver, lapsed, early,
                   overlapped>>

Raises(h) == Conflicts(h) /\ Fails(h) /\ UNCHANGED faults

Dies(h) ==
    /\ pc[h] # "idle"
    /\ faults < MaxFaults /\ faults' = faults + 1
    /\ Fails(h)

-----------------------------------------------------------------------------
Handle(h) ==
    \/ \E c \in Charges : WebhookUnpaid(h, c) \/ WebhookRenewal(h, c)
    \/ \E o \in Orders : VerifyUnpaid(h, o)
    \/ Marks(h) \/ MarksInVain(h)
    \/ ReadsBalance(h) \/ WritesBalance(h) \/ Unlocks(h)
    \/ OpensAudit(h) \/ SwallowsAudit(h)
    \/ ReadsPlan(h) \/ InsertsPlan(h) \/ PatchesPlan(h)
    \/ RecordsRenewal(h) \/ RenewsPeriod(h) \/ RenewsNothing(h)
    \/ NeedsPass(h) \/ HasPass(h) \/ OpensPass(h)
    \/ Raises(h) \/ Dies(h)

Next ==
    \/ \E o \in Orders : \/ \E p \in Products : CreateOrder(o, p)
                         \/ Checkout(o) \/ StopsAtRazorpay(o)
                         \/ \E n \in 1..MaxCharges : Recurs(o, n)
    \/ MonthTurns
    \/ \E c \in Charges : WebhookDone(c)
    \/ \E o \in Orders : WebhookStop(o)
    \/ \E h \in Handlers : Handle(h)

Spec == Init /\ [][Next]_vars

-----------------------------------------------------------------------------
(* Properties. *)

Pcs == {"idle", "mark", "record"} \cup InHand

RowTypes ==
    /\ row \in [Orders -> [product : Products, status : {"none", "created", "verified"},
                           charge : Charges \cup {NoEvent}]]
    /\ renewals \subseteq Charges
    /\ captured \in [Charges -> 0..MaxMonths] /\ stopped \subseteq Orders
    /\ acked \subseteq Events

GoodsTypes ==
    /\ balance \in Nat /\ audits \in Nat
    /\ plan \in [sub : Orders \cup {NoOrder}, live : BOOLEAN]
    /\ passes \in Seq(1..MaxMonths) /\ month \in 1..MaxMonths

RequestTypes ==
    /\ pc \in [Handlers -> Pcs] /\ task \in [Handlers -> Charges \cup {NoEvent}]
    /\ \A h \in Handlers : pc[h] # "idle" => task[h] \in Charges
    /\ hook \subseteq Handlers /\ seen \in [Handlers -> Nat]

GhostTypes ==
    /\ served \in [Charges -> Nat]
    /\ lost \subseteq Charges /\ passedOver \subseteq Charges /\ lapsed \subseteq Charges
    /\ early \subseteq Orders /\ overlapped \in BOOLEAN /\ faults \in 0..MaxFaults

TypeOK == RowTypes /\ GoodsTypes /\ RequestTypes /\ GhostTypes

\* A charge is granted at most once, however often and in whatever order its webhooks
\* and the browser's verdict arrive (payments.py: the update filtered on 'created',
\* the unique payment id).
ChargesServeOnce == \A c \in Charges : served[c] <= 1

\* The request that has c in hand.
Serving(c) == {h \in Handlers : task[h] = c /\ pc[h] \in InHand}

\* A charge whose webhook was answered is granted, or another request is granting it.
\* What is left out is what the code drops: a request that failed after it had won the
\* row, a charge that lost the row to another charge, one that found no live plan.
AnsweredIsServed ==
    \A c \in (acked \cap Charges) \ (lost \cup passedOver \cup lapsed) :
        served[c] > 0 \/ Serving(c) # {}

\* A subscription that was stopped stays stopped on the plan, whatever charges arrive
\* after it; unless the stop came before the plan had the subscription.
StopSticks ==
    \A o \in Orders \ early : StopOf(o) \in acked => ~(plan.sub = o /\ plan.live)

\* A plan has one pass a month, with two requests opening it at once.
OnePassAMonth ==
    \A m, n \in DOMAIN passes : passes[m] = passes[n] => m = n

\* The wallet holds every pack that was granted, unless two requests credited it at
\* once: earn_xp reads the balance and writes it back.
CoinsAddUp ==
    overlapped \/ balance = Cardinality({o \in Orders :
                                /\ row[o].product = "coins" /\ served[<<o, 1>>] > 0})
=============================================================================
