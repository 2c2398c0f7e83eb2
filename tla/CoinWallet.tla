----------------------------- MODULE CoinWallet -----------------------------
(***************************************************************************)
(* The Myro Coins wallet: user_profiles.coin_balance and the append-only   *)
(* coin_ledger beside it, moved by                                         *)
(*                                                                         *)
(*   - the SQL functions charge_coins, refund_coins and reward_coins       *)
(*     (database/migrations/20260622_coins_rename_contract.sql), each one  *)
(*     READ COMMITTED transaction;                                         *)
(*   - the older Python helpers earn_xp, spend_xp, spend_xp_to_floor and   *)
(*     grant_linkedin_profile_xp (backend/app/services/xp_service.py),     *)
(*     each a read and, in a second request, a write.                      *)
(*                                                                         *)
(* A ref stands for the pair (ref_table, ref_id).  Every caller passes the *)
(* floor 0.  A call that is refused (no funds, no such profile, already    *)
(* paid) changes nothing and is not a step.                                *)
(***************************************************************************)
EXTENDS Integers, Sequences, FiniteSets

CONSTANTS
    Users,
    Callers,   \* concurrent requests and workers
    Calls,     \* the calls they make
    Welcome,   \* WELCOME_XP
    NoRef,
    MaxCalls   \* bound: calls begun in one behaviour

\* Calls of the SQL functions, and of the helpers that read and then write.
RpcKinds    == {"charge", "refund", "reward", "referral"}
HelperKinds == {"earn", "linkedin", "spend", "credit"}

ASSUME CallsAssumption ==
    \A x \in Calls :
        /\ x.kind \in RpcKinds \cup HelperKinds
        /\ x.user \in Users
        /\ x.amount \in Nat \ {0}
        /\ x.kind \in RpcKinds => x.ref # NoRef

\* Every refund of one ref names the same user and the same action: the ref is
\* the id of the row that was charged for.
ASSUME RefundsAssumption ==
    \A x, y \in Calls : x.kind = "refund" /\ y.kind = "refund" /\ x.ref = y.ref =>
        x.user = y.user /\ x.action = y.action

ASSUME WalletNumbers == Welcome \in Nat \ {0} /\ MaxCalls \in Nat

VARIABLES
    profile,    \* does the user_profiles row exist
    balance,    \* coin_balance
    linkedin,   \* linkedin_coins_granted
    ledger,     \* coin_ledger, per user in commit order
    pc, call,   \* callers: next step, and the call they are in
    seen,       \* the balance a caller read
    begun       \* calls begun

account == <<profile, balance, linkedin, ledger>>
vars    == <<account, pc, call, seen, begun>>

NoCall == [kind |-> "none"]
Rows   == [kind : RpcKinds \cup {"welcome"}, action : {x.action : x \in Calls} \cup {"welcome"},
           ref : {x.ref : x \in Calls} \cup {NoRef}, delta : Int, after : Int]

TypeOK ==
    /\ profile \in [Users -> BOOLEAN]
    /\ balance \in [Users -> Int]
    /\ linkedin \in [Users -> BOOLEAN]
    /\ ledger \in [Users -> Seq(Rows)]
    /\ pc \in [Callers -> {"idle", "pay", "write"}]
    /\ call \in [Callers -> Calls \cup {NoCall}]
    /\ seen \in [Callers -> Int]
    /\ begun \in Nat
    /\ \A c \in Callers : pc[c] = "pay" => call[c] \in Calls /\ call[c].kind = "refund"
    /\ \A c \in Callers : pc[c] = "write" => call[c] \in Calls /\ call[c].kind \in HelperKinds

Init ==
    /\ profile = [u \in Users |-> FALSE]
    /\ balance = [u \in Users |-> 0]
    /\ linkedin = [u \in Users |-> FALSE]
    /\ ledger = [u \in Users |-> <<>>]
    /\ pc = [c \in Callers |-> "idle"]
    /\ call = [c \in Callers |-> NoCall]
    /\ seen = [c \in Callers |-> 0]
    /\ begun = 0

-----------------------------------------------------------------------------
\* Positive rows of the ledger.
Credited(u, kind, action, ref) ==
    \E i \in DOMAIN ledger[u] :
        LET e == ledger[u][i] IN
        e.kind = kind /\ e.action = action /\ e.ref = ref /\ e.delta > 0

\* Faulty variants of the definitions below.
NeverTaken(u, kind, action, ref) == FALSE
RewardedOnlyByUser(x) == Credited(x.user, x.kind, x.action, x.ref)
AnyFunds(x) == TRUE
BalanceBefore(x, delta) ==
    LET u == x.user IN
    /\ balance' = [balance EXCEPT ![u] = @ + delta]
    /\ ledger' = [ledger EXCEPT ![u] = Append(@,
           [kind |-> x.kind, action |-> x.action, ref |-> x.ref,
            delta |-> delta, after |-> balance[u]])]

\* refund_coins' count: any refund row with this ref, whoever holds it.
RefundSeen(ref) ==
    \E u \in Users : \E i \in DOMAIN ledger[u] :
        ledger[u][i].kind = "refund" /\ ledger[u][i].ref = ref

\* uq_coin_ledger_user_reward_ref would be violated by a second such credit.
IndexTaken(u, kind, action, ref) == Credited(u, kind, action, ref)

\* reward_coins' count, under the advisory lock of its key: the user's own
\* rewards, or for a referral everybody's.
AlreadyRewarded(x) ==
    \E u \in Users : (x.kind = "referral" \/ u = x.user) /\ Credited(u, x.kind, x.action, x.ref)

\* Faulty variant: the index refuses the ledger row, and the balance stays moved.
PostKeepsBalance(x, delta) ==
    LET u == x.user IN
    /\ balance' = [balance EXCEPT ![u] = @ + delta]
    /\ ledger' = IF delta > 0 /\ IndexTaken(u, x.kind, x.action, x.ref) THEN ledger
                 ELSE [ledger EXCEPT ![u] = Append(@,
                     [kind |-> x.kind, action |-> x.action, ref |-> x.ref,
                      delta |-> delta, after |-> balance[u] + delta])]

\* One committed transaction: the row's balance and its ledger row, undone as a
\* whole when the unique index refuses a second credit of one key.
Post(x, delta) ==
    LET u == x.user IN
    IF delta > 0 /\ IndexTaken(u, x.kind, x.action, x.ref)
      THEN UNCHANGED <<balance, ledger>>
      ELSE /\ balance' = [balance EXCEPT ![u] = @ + delta]
           /\ ledger' = [ledger EXCEPT ![u] = Append(@,
                  [kind |-> x.kind, action |-> x.action, ref |-> x.ref,
                   delta |-> delta, after |-> balance[u] + delta])]

\* A caller begins call x.
Begin(c, x) ==
    /\ pc[c] = "idle"
    /\ profile[x.user]
    /\ begun < MaxCalls
    /\ begun' = begun + 1

-----------------------------------------------------------------------------
\* charge_coins' and spend_xp's test.
Covers(x) == balance[x.user] >= x.amount

\* The insert of a profile: its BEFORE trigger grants the welcome coins, its
\* AFTER trigger logs them.
Provision(u) ==
    /\ ~profile[u]
    /\ profile' = [profile EXCEPT ![u] = TRUE]
    /\ Post([user |-> u, kind |-> "welcome", action |-> "welcome", ref |-> NoRef], Welcome)
    /\ UNCHANGED <<linkedin, pc, call, seen, begun>>

\* UPDATE ... WHERE coin_balance - p_amount >= p_floor, and its ledger row.
ChargeCoins(c, x) ==
    /\ x.kind = "charge"
    /\ Begin(c, x)
    /\ Covers(x)
    /\ Post(x, 0 - x.amount)
    /\ UNCHANGED <<profile, linkedin, pc, call, seen>>

\* Faulty variant: the call is not kept for the payment.

\* refund_coins takes no lock before it counts, so a second refund of the ref
\* may commit between the count and the credit.
CountRefunds(c, x) ==
    /\ x.kind = "refund"
    /\ Begin(c, x)
    /\ ~RefundSeen(x.ref)
    /\ pc' = [pc EXCEPT ![c] = "pay"]
    /\ call' = [call EXCEPT ![c] = x]
    /\ UNCHANGED <<account, seen>>

\* The credit; the index refuses it when another refund came first.
PayRefund(c) ==
    LET x == call[c] IN
    /\ pc[c] = "pay"
    /\ Post(x, x.amount)
    /\ pc' = [pc EXCEPT ![c] = "idle"]
    /\ UNCHANGED <<profile, linkedin, call, seen, begun>>

\* reward_coins: the advisory lock makes its count and its credit one step.
RewardCoins(c, x) ==
    /\ x.kind \in {"reward", "referral"}
    /\ Begin(c, x)
    /\ ~AlreadyRewarded(x)
    /\ Post(x, x.amount)
    /\ UNCHANGED <<profile, linkedin, pc, call, seen>>

\* The helpers' read: spend_xp asks for the funds, the LinkedIn grant for its
\* flag.
ReadBalance(c, x) ==
    /\ x.kind \in HelperKinds
    /\ Begin(c, x)
    /\ x.kind = "spend" => Covers(x)
    /\ x.kind = "linkedin" => ~linkedin[x.user]
    /\ seen' = [seen EXCEPT ![c] = balance[x.user]]
    /\ pc' = [pc EXCEPT ![c] = "write"]
    /\ call' = [call EXCEPT ![c] = x]
    /\ UNCHANGED account

\* The helpers' write: the value computed from the read, and no ledger row.
WriteBalance(c) ==
    LET x == call[c] IN
    /\ pc[c] = "write"
    /\ balance' = [balance EXCEPT ![x.user] =
           IF x.kind = "spend" THEN seen[c] - x.amount ELSE seen[c] + x.amount]
    /\ linkedin' = [linkedin EXCEPT ![x.user] = @ \/ x.kind = "linkedin"]
    /\ pc' = [pc EXCEPT ![c] = "idle"]
    /\ UNCHANGED <<profile, ledger, call, seen, begun>>

CallerStep(c) ==
    \/ \E x \in Calls : ChargeCoins(c, x) \/ CountRefunds(c, x) \/ RewardCoins(c, x)
                        \/ ReadBalance(c, x)
    \/ PayRefund(c)
    \/ WriteBalance(c)

Next ==
    \/ \E u \in Users : Provision(u)
    \/ \E c \in Callers : CallerStep(c)

Spec == Init /\ [][Next]_vars

-----------------------------------------------------------------------------
(***************************************************************************)
(* What the wallet promises.                                               *)
(***************************************************************************)

\* Users whose every call is one of the SQL functions'.
Ledgered == {u \in Users : \A x \in Calls : x.user = u => x.kind \in RpcKinds}

\* For these the ledger is the whole story of the balance, whatever helpers run
\* for other users: each row's balance_after is the one before it moved by the
\* row's delta, from the welcome grant on, and the last one is coin_balance
\* (DECISIONS XP-DB3).  A helper leaves a balance that no row explains.
LedgerExplainsBalance ==
    \A u \in Ledgered :
        LET l == ledger[u] IN
        /\ profile[u] => Len(l) > 0 /\ l[1].after = Welcome /\ balance[u] = l[Len(l)].after
        /\ \A i \in 2..Len(l) : l[i].after = l[i - 1].after + l[i].delta

\* No interleaving of charges, spends and credits takes a wallet below the
\* floor.
NeverOverdrawn == \A u \in Users : balance[u] >= 0

\* One ref is refunded at most once, though refund_coins counts before it
\* locks anything.
RefundedOnce ==
    \A u, v \in Users : \A i \in DOMAIN ledger[u], j \in DOMAIN ledger[v] :
        /\ ledger[u][i].kind = "refund" /\ ledger[v][j].kind = "refund"
        /\ ledger[u][i].ref = ledger[v][j].ref
        => u = v /\ i = j

\* A signup pays one referrer, whoever else claims it at the same time.
ReferralPaidOnce ==
    \A u, v \in Users : \A i \in DOMAIN ledger[u], j \in DOMAIN ledger[v] :
        /\ ledger[u][i].kind = "referral" /\ ledger[v][j].kind = "referral"
        /\ ledger[u][i].action = ledger[v][j].action
        /\ ledger[u][i].ref = ledger[v][j].ref
        => u = v /\ i = j

\* What a credit is paid for: a refund for its ref, a referral for the signup,
\* a reward to its own user.
Key(u, e) ==
    [kind |-> e.kind, ref |-> e.ref,
     action |-> IF e.kind = "refund" THEN "any" ELSE e.action,
     user   |-> IF e.kind = "reward" THEN {u} ELSE Users]

CreditKinds == {"refund", "reward", "referral"}
Keys        == {Key(x.user, x) : x \in {y \in Calls : y.kind \in CreditKinds}}

PaidKeys ==
    {k \in Keys : \E u \in Users : \E i \in DOMAIN ledger[u] :
                     ledger[u][i].kind \in CreditKinds /\ k = Key(u, ledger[u][i])}

\* Seen from outside, every call of the SQL functions takes effect at once or
\* not at all, though a refund counts in one step and pays in another: no two
\* interleave, a key is paid once, and a helper touches its own user alone.
Contract == INSTANCE WalletContract WITH
    Helped  <- Users \ Ledgered,
    Amounts <- {x.amount : x \in Calls},
    Opening <- Welcome,
    open    <- {u \in Users : profile[u]},
    funds   <- balance,
    paid    <- PaidKeys
ImplementsContract == Contract!Spec

(***************************************************************************)
(* The inductive invariants behind these: what a caller holds between its  *)
(* two steps, and what a row of the ledger tells about its call.           *)
(***************************************************************************)
\* A caller in the middle of a call holds a profile and a value it may write.
CallersHoldFunds ==
    \A c \in Callers :
        /\ pc[c] # "idle" => profile[call[c].user]
        /\ pc[c] = "write" =>
               seen[c] >= (IF call[c].kind = "spend" THEN call[c].amount ELSE 0)

\* A refund row comes from a call that named its user, action and ref; refund,
\* reward and referral rows are credits.
CreditsAreCalls ==
    \A u \in Users : \A i \in DOMAIN ledger[u] :
        LET e == ledger[u][i] IN
        /\ e.kind \in CreditKinds => e.delta > 0
        /\ e.kind = "refund" => \E x \in Calls :
               x.kind = "refund" /\ x.user = u /\ x.action = e.action /\ x.ref = e.ref

\* Nothing is on record of a user without a profile.
AbsentIsEmpty ==
    \A u \in Users : ~profile[u] => ledger[u] = <<>> /\ balance[u] = 0

FundsInv   == NeverOverdrawn /\ CallersHoldFunds
CreditsInv == CreditsAreCalls /\ RefundedOnce /\ ReferralPaidOnce
LedgerInv  == AbsentIsEmpty /\ LedgerExplainsBalance
WalletInv  == FundsInv /\ CreditsInv /\ LedgerInv

=============================================================================
