-------------------------- MODULE CoinWalletProofs --------------------------
(***************************************************************************)
(* CoinWallet's theorems.  Both kinds of call keep the wallet above its    *)
(* floor and pay a refund and a referral once; the ledger explains the     *)
(* balance as long as every call is one of the SQL functions.              *)
(***************************************************************************)
EXTENDS CoinWallet, SequenceTheorems, TLAPS

\* What a committed transaction does to a ledger.
LEMMA AppendRow ==
    ASSUME NEW S, NEW l \in Seq(S), NEW e \in S
    PROVE  /\ Append(l, e) \in Seq(S)
           /\ Len(Append(l, e)) = Len(l) + 1
           /\ Append(l, e)[Len(l) + 1] = e
           /\ \A i \in 1..Len(l) : Append(l, e)[i] = l[i]
           /\ DOMAIN Append(l, e) = 1..(Len(l) + 1)
           /\ DOMAIN l = 1..Len(l)
BY AppendProperties, LenProperties

\* The types a transaction of call x keeps.
LEMMA PostTypes ==
    ASSUME TypeOK, NEW x, x.user \in Users, NEW delta \in Int, Post(x, delta),
           x.kind \in RpcKinds \cup {"welcome"},
           x.action \in {y.action : y \in Calls} \cup {"welcome"},
           x.ref \in {y.ref : y \in Calls} \cup {NoRef}
    PROVE  balance' \in [Users -> Int] /\ ledger' \in [Users -> Seq(Rows)]
<1> DEFINE e == [kind |-> x.kind, action |-> x.action, ref |-> x.ref,
                 delta |-> delta, after |-> balance[x.user] + delta]
<1>1. CASE delta > 0 /\ IndexTaken(x.user, x.kind, x.action, x.ref)
  BY <1>1 DEF Post, TypeOK
<1>2. CASE ~(delta > 0 /\ IndexTaken(x.user, x.kind, x.action, x.ref))
  <2>1. balance[x.user] + delta \in Int
    BY DEF TypeOK
  <2>2. e \in Rows
    BY <2>1 DEF Rows
  <2>3. Append(ledger[x.user], e) \in Seq(Rows)
    BY <2>2, AppendRow DEF TypeOK
  <2> QED BY <1>2, <2>1, <2>3 DEF Post, TypeOK
<1> QED BY <1>1, <1>2

\* Every reachable wallet is well typed.
THEOREM WalletTypes == Spec => []TypeOK
<1>1. Init => TypeOK
  <2> SUFFICES ASSUME Init PROVE TypeOK
    OBVIOUS
  <2>1. <<>> \in Seq(Rows)
    BY EmptySeq
  <2> QED BY <2>1 DEF Init, TypeOK
<1>2. TypeOK /\ [Next]_vars => TypeOK'
  <2> SUFFICES ASSUME TypeOK, [Next]_vars PROVE TypeOK'
    OBVIOUS
  <2>1. ASSUME NEW u \in Users, Provision(u) PROVE TypeOK'
    <3> DEFINE x == [user |-> u, kind |-> "welcome", action |-> "welcome", ref |-> NoRef]
    <3>1. Welcome \in Int
      BY WalletNumbers
    <3>2. balance' \in [Users -> Int] /\ ledger' \in [Users -> Seq(Rows)]
      BY <2>1, <3>1, PostTypes DEF Provision
    <3> QED BY <2>1, <3>2 DEF Provision, TypeOK
  <2>2. ASSUME NEW c \in Callers, NEW x \in Calls, ChargeCoins(c, x) PROVE TypeOK'
    <3>1. 0 - x.amount \in Int /\ x.user \in Users
      BY CallsAssumption
    <3>2. balance' \in [Users -> Int] /\ ledger' \in [Users -> Seq(Rows)]
      BY <2>2, <3>1, PostTypes DEF ChargeCoins, RpcKinds
    <3> QED BY <2>2, <3>2 DEF ChargeCoins, Begin, TypeOK
  <2>3. ASSUME NEW c \in Callers, NEW x \in Calls, CountRefunds(c, x) PROVE TypeOK'
    BY <2>3 DEF CountRefunds, Begin, TypeOK, account
  <2>4. ASSUME NEW c \in Callers, NEW x \in Calls, RewardCoins(c, x) PROVE TypeOK'
    <3>1. x.amount \in Int /\ x.user \in Users
      BY CallsAssumption
    <3>2. balance' \in [Users -> Int] /\ ledger' \in [Users -> Seq(Rows)]
      BY <2>4, <3>1, PostTypes DEF RewardCoins, RpcKinds
    <3> QED BY <2>4, <3>2 DEF RewardCoins, Begin, TypeOK
  <2>5. ASSUME NEW c \in Callers, NEW x \in Calls, ReadBalance(c, x) PROVE TypeOK'
    <3>1. x.user \in Users
      BY CallsAssumption
    <3> QED BY <2>5, <3>1 DEF ReadBalance, Begin, TypeOK, account
  <2>6. ASSUME NEW c \in Callers, PayRefund(c) PROVE TypeOK'
    <3>1. call[c] \in Calls /\ call[c].kind = "refund"
      BY <2>6 DEF PayRefund, TypeOK
    <3>2. call[c].amount \in Int /\ call[c].user \in Users
      BY <3>1, CallsAssumption
    <3>3. balance' \in [Users -> Int] /\ ledger' \in [Users -> Seq(Rows)]
      BY <2>6, <3>1, <3>2, PostTypes DEF PayRefund, RpcKinds
    <3> QED BY <2>6, <3>3 DEF PayRefund, TypeOK
  <2>7. ASSUME NEW c \in Callers, WriteBalance(c) PROVE TypeOK'
    <3>1. call[c] \in Calls
      BY <2>7 DEF WriteBalance, TypeOK
    <3>2. call[c].amount \in Int /\ call[c].user \in Users
      BY <3>1, CallsAssumption
    <3>3. balance' \in [Users -> Int]
      BY <2>7, <3>2 DEF WriteBalance, TypeOK
    <3>4. linkedin' \in [Users -> BOOLEAN]
      BY <2>7, <3>2, Zenon DEF WriteBalance, TypeOK
    <3> QED BY <2>7, <3>3, <3>4 DEF WriteBalance, TypeOK
  <2>8. CASE UNCHANGED vars
    BY <2>8 DEF TypeOK, vars, account
  <2> QED BY <2>1, <2>2, <2>3, <2>4, <2>5, <2>6, <2>7, <2>8 DEF Next, CallerStep
<1> QED BY <1>1, <1>2, PTL DEF Spec

-----------------------------------------------------------------------------
\* A transaction the wallet can bear leaves it above the floor.
LEMMA PostFunds ==
    ASSUME TypeOK, NeverOverdrawn, NEW x, x.user \in Users, NEW delta \in Int,
           Post(x, delta), balance[x.user] + delta >= 0
    PROVE  NeverOverdrawn'
<1> SUFFICES ASSUME NEW u \in Users PROVE balance'[u] >= 0
  BY DEF NeverOverdrawn
<1>1. balance \in [Users -> Int] /\ balance[u] \in Int /\ balance[u] >= 0
  BY DEF TypeOK, NeverOverdrawn
<1>2. \/ balance' = balance
      \/ balance' = [balance EXCEPT ![x.user] = balance[x.user] + delta]
  BY DEF Post
<1> QED BY <1>1, <1>2

\* No interleaving of charges, spends and credits overdraws a wallet: every
\* write puts back what was read and found sufficient, or adds to it.
THEOREM FundsInvariant == Spec => []FundsInv
<1>1. Init => FundsInv
  BY DEF Init, FundsInv, NeverOverdrawn, CallersHoldFunds
<1>2. TypeOK /\ FundsInv /\ [Next]_vars => FundsInv'
  <2> SUFFICES ASSUME TypeOK, FundsInv, [Next]_vars PROVE FundsInv'
    OBVIOUS
  <2>0. NeverOverdrawn /\ CallersHoldFunds
    BY DEF FundsInv
  <2>1. ASSUME NEW u \in Users, Provision(u) PROVE FundsInv'
    <3>1. Welcome \in Int /\ balance[u] \in Int /\ balance[u] + Welcome >= 0
      BY <2>0, WalletNumbers DEF TypeOK, NeverOverdrawn
    <3>3. NeverOverdrawn'
      BY <2>0, <2>1, <3>1, PostFunds DEF Provision
    <3> QED BY <2>0, <2>1, <3>3 DEF Provision, TypeOK, FundsInv, CallersHoldFunds
  <2>2. ASSUME NEW c \in Callers, NEW x \in Calls, ChargeCoins(c, x) PROVE FundsInv'
    <3>1. x.user \in Users /\ x.amount \in Nat
      BY CallsAssumption
    <3>2. balance[x.user] \in Int /\ 0 - x.amount \in Int
      BY <3>1 DEF TypeOK
    <3>3. balance[x.user] + (0 - x.amount) >= 0
      BY <2>2, <3>1, <3>2 DEF ChargeCoins, Covers
    <3>4. NeverOverdrawn'
      BY <2>0, <2>2, <3>1, <3>2, <3>3, PostFunds DEF ChargeCoins
    <3> QED BY <2>0, <2>2, <3>4 DEF ChargeCoins, Begin, FundsInv, CallersHoldFunds
  <2>3. ASSUME NEW c \in Callers, NEW x \in Calls, CountRefunds(c, x) PROVE FundsInv'
    BY <2>0, <2>3 DEF CountRefunds, Begin, TypeOK, account, FundsInv, NeverOverdrawn, CallersHoldFunds
  <2>4. ASSUME NEW c \in Callers, NEW x \in Calls, RewardCoins(c, x) PROVE FundsInv'
    <3>1. x.user \in Users /\ x.amount \in Nat
      BY CallsAssumption
    <3>2. balance[x.user] + x.amount >= 0 /\ x.amount \in Int
      BY <2>0, <3>1 DEF TypeOK, NeverOverdrawn
    <3>3. NeverOverdrawn'
      BY <2>0, <2>4, <3>1, <3>2, PostFunds DEF RewardCoins
    <3> QED BY <2>0, <2>4, <3>3 DEF RewardCoins, Begin, FundsInv, CallersHoldFunds
  <2>5. ASSUME NEW c \in Callers, NEW x \in Calls, ReadBalance(c, x) PROVE FundsInv'
    <3>1. x.user \in Users
      BY CallsAssumption
    <3> QED BY <2>0, <2>5, <3>1, CallsAssumption
           DEF ReadBalance, Begin, Covers, TypeOK, account, FundsInv, NeverOverdrawn, CallersHoldFunds
  <2>6. ASSUME NEW c \in Callers, PayRefund(c) PROVE FundsInv'
    <3>1. call[c] \in Calls
      BY <2>6 DEF PayRefund, TypeOK
    <3>2. call[c].user \in Users /\ call[c].amount \in Nat
      BY <3>1, CallsAssumption
    <3>3. balance[call[c].user] + call[c].amount >= 0 /\ call[c].amount \in Int
      BY <2>0, <3>2 DEF TypeOK, NeverOverdrawn
    <3>4. NeverOverdrawn'
      BY <2>0, <2>6, <3>2, <3>3, PostFunds DEF PayRefund
    <3> QED BY <2>0, <2>6, <3>4 DEF PayRefund, TypeOK, FundsInv, CallersHoldFunds
  <2>7. ASSUME NEW c \in Callers, WriteBalance(c) PROVE FundsInv'
    <3>1. call[c] \in Calls
      BY <2>7 DEF WriteBalance, TypeOK
    <3>2. call[c].amount \in Nat \ {0} /\ call[c].user \in Users
      BY <3>1, CallsAssumption
    <3> QED BY <2>0, <2>7, <3>2
           DEF WriteBalance, TypeOK, FundsInv, NeverOverdrawn, CallersHoldFunds
  <2>8. CASE UNCHANGED vars
    BY <2>0, <2>8 DEF vars, account, FundsInv, NeverOverdrawn, CallersHoldFunds
  <2> QED BY <2>1, <2>2, <2>3, <2>4, <2>5, <2>6, <2>7, <2>8 DEF Next, CallerStep
<1> QED BY <1>1, <1>2, WalletTypes, PTL DEF Spec

\* No wallet goes below the floor of charge_coins and spend_xp.
THEOREM WalletHoldsFunds == Spec => []NeverOverdrawn
<1>1. FundsInv => NeverOverdrawn
  BY DEF FundsInv
<1> QED BY <1>1, FundsInvariant, PTL

-----------------------------------------------------------------------------
\* A transaction that posts a refund or a referral nobody was credited for
\* keeps each of them single, and one that posts anything else adds neither.
LEMMA PostCredits ==
    ASSUME TypeOK, CreditsInv, NEW x, x.user \in Users, NEW delta \in Int, Post(x, delta),
           x.kind = "refund" => x \in Calls /\ delta > 0,
           x.kind = "reward" => delta > 0,
           x.kind = "referral" => delta > 0 /\ ~AlreadyRewarded(x)
    PROVE  CreditsInv'
<1> DEFINE w == x.user
           l == ledger[w]
           e == [kind |-> x.kind, action |-> x.action, ref |-> x.ref,
                 delta |-> delta, after |-> balance[w] + delta]
<1>1. CASE delta > 0 /\ IndexTaken(w, x.kind, x.action, x.ref)
  BY <1>1 DEF Post, CreditsInv, CreditsAreCalls, CreditKinds, RefundedOnce, ReferralPaidOnce
<1>2. CASE ~(delta > 0 /\ IndexTaken(w, x.kind, x.action, x.ref))
  <2>1. ledger' = [ledger EXCEPT ![w] = Append(l, e)]
    BY <1>2 DEF Post
  <2>2. l \in Seq(Rows)
    BY DEF TypeOK
  <2>3. /\ \A u \in Users : u # w => ledger'[u] = ledger[u]
        /\ ledger'[w] = Append(l, e)
    BY <2>1 DEF TypeOK
  <2>4. /\ DOMAIN l = 1..Len(l) /\ Len(l) \in Nat
        /\ DOMAIN ledger'[w] = 1..(Len(l) + 1)
        /\ \A i \in 1..Len(l) : ledger'[w][i] = l[i]
        /\ ledger'[w][Len(l) + 1] = e
    <3>1. l \in Seq(Rows \cup {e}) /\ e \in Rows \cup {e}
      BY <2>2
    <3> HIDE DEF e
    <3> QED BY <3>1, <2>3, AppendRow, LenProperties
  \* A row of the new ledger is a row of the old one, or the new one.
  <2>5. \A u \in Users : \A i \in DOMAIN ledger'[u] :
          \/ i \in DOMAIN ledger[u] /\ ledger'[u][i] = ledger[u][i]
          \/ u = w /\ i = Len(l) + 1 /\ ledger'[u][i] = e
    BY <2>3, <2>4
  <2>6. CreditsAreCalls'
    BY <2>5 DEF CreditsInv, CreditsAreCalls, CreditKinds
  <2>7. x.kind = "refund" => \A u \in Users : \A i \in DOMAIN ledger[u] :
          ~(ledger[u][i].kind = "refund" /\ ledger[u][i].ref = x.ref)
    <3> SUFFICES ASSUME x.kind = "refund", NEW u \in Users, NEW i \in DOMAIN ledger[u],
                        ledger[u][i].kind = "refund", ledger[u][i].ref = x.ref
                 PROVE  FALSE
      OBVIOUS
    <3>1. PICK y \in Calls : /\ y.kind = "refund" /\ y.user = u
                            /\ y.action = ledger[u][i].action /\ y.ref = ledger[u][i].ref
      BY DEF CreditsInv, CreditsAreCalls
    <3>2. u = w /\ ledger[u][i].action = x.action
      BY <3>1, RefundsAssumption
    <3>3. ledger[u][i].delta > 0
      BY DEF CreditsInv, CreditsAreCalls, CreditKinds
    <3> QED BY <1>2, <3>2, <3>3 DEF IndexTaken, Credited
  <2>8. RefundedOnce'
    BY <2>4, <2>5, <2>7 DEF CreditsInv, RefundedOnce
  <2>9. x.kind = "referral" => \A u \in Users : \A i \in DOMAIN ledger[u] :
          ~(/\ ledger[u][i].kind = "referral" /\ ledger[u][i].action = x.action
            /\ ledger[u][i].ref = x.ref)
    BY DEF AlreadyRewarded, Credited, CreditsInv, CreditsAreCalls, CreditKinds
  <2>10. ReferralPaidOnce'
    BY <2>4, <2>5, <2>9 DEF CreditsInv, ReferralPaidOnce
  <2> QED BY <2>6, <2>8, <2>10 DEF CreditsInv
<1> QED BY <1>1, <1>2

\* The credits of a ledger that did not move are as they were.
LEMMA CreditsKept == ASSUME CreditsInv, UNCHANGED ledger PROVE CreditsInv'
BY DEF CreditsInv, CreditsAreCalls, CreditKinds, RefundedOnce, ReferralPaidOnce

\* The inductive invariant of the credits.
THEOREM CreditsInvariant == Spec => []CreditsInv
<1>1. Init => CreditsInv
  BY DEF Init, CreditsInv, CreditsAreCalls, CreditKinds, RefundedOnce, ReferralPaidOnce
<1>2. TypeOK /\ CreditsInv /\ [Next]_vars => CreditsInv'
  <2> SUFFICES ASSUME TypeOK, CreditsInv, [Next]_vars PROVE CreditsInv'
    OBVIOUS
  <2>1. ASSUME NEW u \in Users, Provision(u) PROVE CreditsInv'
    <3>1. Welcome \in Int
      BY WalletNumbers
    <3> QED BY <2>1, <3>1, PostCredits DEF Provision
  <2>2. ASSUME NEW c \in Callers, NEW x \in Calls, ChargeCoins(c, x) PROVE CreditsInv'
    <3>1. 0 - x.amount \in Int /\ x.user \in Users
      BY CallsAssumption
    <3> QED BY <2>2, <3>1, PostCredits DEF ChargeCoins
  <2>3. ASSUME NEW c \in Callers, NEW x \in Calls, CountRefunds(c, x) PROVE CreditsInv'
    BY <2>3, CreditsKept DEF CountRefunds, account
  <2>4. ASSUME NEW c \in Callers, NEW x \in Calls, RewardCoins(c, x) PROVE CreditsInv'
    <3>1. x.amount \in Nat \ {0} /\ x.user \in Users
      BY CallsAssumption
    <3>2. x.amount \in Int /\ x.amount > 0
      BY <3>1
    <3> QED BY <2>4, <3>1, <3>2, PostCredits DEF RewardCoins
  <2>5. ASSUME NEW c \in Callers, NEW x \in Calls, ReadBalance(c, x) PROVE CreditsInv'
    BY <2>5, CreditsKept DEF ReadBalance, account
  <2>6. ASSUME NEW c \in Callers, PayRefund(c) PROVE CreditsInv'
    <3>1. call[c] \in Calls /\ call[c].kind = "refund"
      BY <2>6 DEF PayRefund, TypeOK
    <3>2. call[c].amount \in Nat \ {0} /\ call[c].user \in Users
      BY <3>1, CallsAssumption
    <3>3. call[c].amount \in Int /\ call[c].amount > 0
      BY <3>2
    <3> QED BY <2>6, <3>1, <3>2, <3>3, PostCredits DEF PayRefund
  <2>7. ASSUME NEW c \in Callers, WriteBalance(c) PROVE CreditsInv'
    BY <2>7, CreditsKept DEF WriteBalance
  <2>8. CASE UNCHANGED vars
    BY <2>8, CreditsKept DEF vars, account
  <2> QED BY <2>1, <2>2, <2>3, <2>4, <2>5, <2>6, <2>7, <2>8 DEF Next, CallerStep
<1> QED BY <1>1, <1>2, WalletTypes, PTL DEF Spec

\* One ref is refunded at most once, for any number of concurrent refunds.
THEOREM RefundsArePaidOnce == Spec => []RefundedOnce
<1>1. CreditsInv => RefundedOnce
  BY DEF CreditsInv
<1> QED BY <1>1, CreditsInvariant, PTL

\* One signup is credited to one referrer, for any number of claims.
THEOREM ReferralsArePaidOnce == Spec => []ReferralPaidOnce
<1>1. CreditsInv => ReferralPaidOnce
  BY DEF CreditsInv
<1> QED BY <1>1, CreditsInvariant, PTL

-----------------------------------------------------------------------------
\* A transaction carries the chain of balances one row further.
LEMMA PostExplains ==
    ASSUME TypeOK, LedgerExplainsBalance, AbsentIsEmpty, NEW x, x.user \in Users,
           NEW delta \in Int, Post(x, delta),
           profile' = [profile EXCEPT ![x.user] = TRUE],
           profile[x.user] \/ delta = Welcome
    PROVE  LedgerExplainsBalance' /\ AbsentIsEmpty'
<1> DEFINE w == x.user
           l == ledger[w]
           e == [kind |-> x.kind, action |-> x.action, ref |-> x.ref,
                 delta |-> delta, after |-> balance[w] + delta]
<1>a. profile'[w] /\ \A u \in Users : u # w => profile'[u] = profile[u]
  BY DEF TypeOK
<1>0. l \in Seq(Rows) /\ Len(l) \in Nat /\ DOMAIN l = 1..Len(l) /\ balance[w] \in Int
  BY LenProperties DEF TypeOK
<1>1. CASE delta > 0 /\ IndexTaken(w, x.kind, x.action, x.ref)
  <2>1. profile[w]
    BY <1>0, <1>1 DEF IndexTaken, Credited, AbsentIsEmpty
  <2>2. UNCHANGED <<balance, ledger>>
    BY <1>1 DEF Post
  <2>3. \A u \in Users : profile'[u] = profile[u]
    BY <1>a, <2>1 DEF TypeOK
  <2> QED BY <2>2, <2>3 DEF LedgerExplainsBalance, AbsentIsEmpty, Ledgered
<1>2. CASE ~(delta > 0 /\ IndexTaken(w, x.kind, x.action, x.ref))
  <2>1. /\ ledger' = [ledger EXCEPT ![w] = Append(l, e)]
        /\ balance' = [balance EXCEPT ![w] = balance[w] + delta]
    BY <1>2 DEF Post
  <2>2. /\ \A u \in Users : u # w => ledger'[u] = ledger[u] /\ balance'[u] = balance[u]
        /\ ledger'[w] = Append(l, e) /\ balance'[w] = balance[w] + delta
    BY <2>1 DEF TypeOK
  <2>3. /\ Len(ledger'[w]) = Len(l) + 1
        /\ \A i \in 1..Len(l) : ledger'[w][i] = l[i]
        /\ ledger'[w][Len(l) + 1] = e
    <3>1. l \in Seq(Rows \cup {e}) /\ e \in Rows \cup {e}
      BY <1>0
    <3> HIDE DEF e
    <3> QED BY <3>1, <2>2, AppendRow
  <2>4. AbsentIsEmpty'
    BY <1>a, <2>2 DEF AbsentIsEmpty
  <2>5. e.after = balance[w] + delta /\ e.delta = delta
    OBVIOUS
  <2> HIDE DEF e
  <2>6. w \in Ledgered => ledger'[w][1].after = Welcome
    <3> HAVE w \in Ledgered
    <3>1. CASE profile[w]
      BY <3>1, <1>0, <2>3 DEF LedgerExplainsBalance
    <3>2. CASE ~profile[w]
      <4>1. l = <<>> /\ balance[w] = 0 /\ delta = Welcome
        BY <3>2 DEF AbsentIsEmpty
      <4>2. Len(l) = 0
        BY <4>1
      <4> QED BY <4>1, <4>2, <2>3, <2>5
    <3> QED BY <3>1, <3>2
  <2>7. w \in Ledgered => \A i \in 2..Len(ledger'[w]) :
           ledger'[w][i].after = ledger'[w][i - 1].after + ledger'[w][i].delta
    <3> SUFFICES ASSUME w \in Ledgered, NEW i \in 2..(Len(l) + 1)
                 PROVE  ledger'[w][i].after = ledger'[w][i - 1].after + ledger'[w][i].delta
      BY <2>3
    <3>1. CASE i \in 2..Len(l)
      <4>1. i \in 1..Len(l) /\ i - 1 \in 1..Len(l)
        BY <3>1, <1>0
      <4>2. l[i].after = l[i - 1].after + l[i].delta
        BY <3>1 DEF LedgerExplainsBalance
      <4> QED BY <4>1, <4>2, <2>3
    <3>2. CASE i = Len(l) + 1
      <4>1. Len(l) > 0 /\ i - 1 = Len(l) /\ Len(l) \in 1..Len(l)
        BY <3>2, <1>0
      <4>2. profile[w]
        <5>1. l # <<>>
          BY <4>1
        <5> QED BY <5>1 DEF AbsentIsEmpty
      <4>3. balance[w] = l[Len(l)].after
        BY <4>2 DEF LedgerExplainsBalance
      <4> QED BY <3>2, <4>1, <4>3, <2>3, <2>5
    <3> QED BY <1>0, <3>1, <3>2
  <2>8. Len(ledger'[w]) > 0 /\ balance'[w] = ledger'[w][Len(ledger'[w])].after
    BY <1>0, <2>2, <2>3, <2>5
  <2>9. LedgerExplainsBalance'
    <3> DEFINE Told(u) ==
           LET k == ledger'[u] IN
           /\ profile'[u] => Len(k) > 0 /\ k[1].after = Welcome /\ balance'[u] = k[Len(k)].after
           /\ \A i \in 2..Len(k) : k[i].after = k[i - 1].after + k[i].delta
    <3>1. ASSUME NEW u \in Ledgered PROVE Told(u)
      <4>0. u \in Users
        BY DEF Ledgered
      <4>1. CASE u = w
        BY <4>1, <2>6, <2>7, <2>8
      <4>2. CASE u # w
        BY <4>0, <4>2, <1>a, <2>2 DEF LedgerExplainsBalance
      <4> QED BY <4>1, <4>2
    <3> QED BY <3>1 DEF LedgerExplainsBalance
  <2> QED BY <2>4, <2>9
<1> QED BY <1>1, <1>2

\* The inductive invariant of the ledger: a helper writes the row of its own
\* user alone, and nobody pays into a row that is not there.
THEOREM LedgerInvariant == Spec => []LedgerInv
<1>1. Init => LedgerInv
  BY DEF Init, LedgerInv, AbsentIsEmpty, LedgerExplainsBalance, Ledgered
<1>2. TypeOK /\ FundsInv /\ LedgerInv /\ [Next]_vars => LedgerInv'
  <2> SUFFICES ASSUME TypeOK, FundsInv, LedgerInv, [Next]_vars PROVE LedgerInv'
    OBVIOUS
  <2>0. CallersHoldFunds
    BY DEF FundsInv
  <2> USE DEF LedgerInv
  <2>1. ASSUME NEW u \in Users, Provision(u) PROVE LedgerInv'
    <3>1. Welcome \in Int
      BY WalletNumbers
    <3> QED BY <2>1, <3>1, PostExplains DEF Provision
  <2>2. ASSUME NEW c \in Callers, NEW x \in Calls, ChargeCoins(c, x) PROVE LedgerInv'
    <3>1. x.user \in Users /\ 0 - x.amount \in Int
      BY CallsAssumption
    <3>2. profile' = [profile EXCEPT ![x.user] = TRUE] /\ profile[x.user]
      BY <2>2 DEF ChargeCoins, Begin, TypeOK
    <3> QED BY <2>2, <3>1, <3>2, PostExplains DEF ChargeCoins
  <2>3. ASSUME NEW c \in Callers, NEW x \in Calls, CountRefunds(c, x) PROVE LedgerInv'
    BY <2>3 DEF CountRefunds, account, LedgerExplainsBalance, AbsentIsEmpty, Ledgered
  <2>4. ASSUME NEW c \in Callers, NEW x \in Calls, RewardCoins(c, x) PROVE LedgerInv'
    <3>1. x.user \in Users /\ x.amount \in Int
      BY CallsAssumption
    <3>2. profile' = [profile EXCEPT ![x.user] = TRUE] /\ profile[x.user]
      BY <2>4 DEF RewardCoins, Begin, TypeOK
    <3> QED BY <2>4, <3>1, <3>2, PostExplains DEF RewardCoins
  <2>5. ASSUME NEW c \in Callers, NEW x \in Calls, ReadBalance(c, x) PROVE LedgerInv'
    BY <2>5 DEF ReadBalance, account, LedgerExplainsBalance, AbsentIsEmpty, Ledgered
  <2>6. ASSUME NEW c \in Callers, PayRefund(c) PROVE LedgerInv'
    <3>1. call[c] \in Calls
      BY <2>6 DEF PayRefund, TypeOK
    <3>2. call[c].user \in Users /\ call[c].amount \in Int
      BY <3>1, CallsAssumption
    <3>3. profile' = [profile EXCEPT ![call[c].user] = TRUE] /\ profile[call[c].user]
      BY <2>0, <2>6 DEF PayRefund, CallersHoldFunds, TypeOK
    <3> QED BY <2>6, <3>2, <3>3, PostExplains DEF PayRefund
  <2>7. ASSUME NEW c \in Callers, WriteBalance(c) PROVE LedgerInv'
    <3>1. call[c] \in Calls /\ call[c].kind \in HelperKinds
      BY <2>7 DEF WriteBalance, TypeOK
    <3>2. call[c].user \notin Ledgered
      BY <3>1 DEF Ledgered, RpcKinds, HelperKinds
    <3>3. profile[call[c].user]
      BY <2>0, <2>7 DEF WriteBalance, CallersHoldFunds
    <3>4. /\ UNCHANGED <<profile, ledger>>
          /\ \A u \in Users : u # call[c].user => balance'[u] = balance[u]
      BY <2>7 DEF WriteBalance, TypeOK
    <3>5. AbsentIsEmpty'
      BY <3>3, <3>4 DEF AbsentIsEmpty
    <3>6. Ledgered \subseteq Users
      BY DEF Ledgered
    <3> QED BY <3>2, <3>4, <3>5, <3>6 DEF LedgerExplainsBalance
  <2>8. CASE UNCHANGED vars
    BY <2>8 DEF vars, account, LedgerExplainsBalance, AbsentIsEmpty, Ledgered
  <2> QED BY <2>1, <2>2, <2>3, <2>4, <2>5, <2>6, <2>7, <2>8 DEF Next, CallerStep
<1> QED BY <1>1, <1>2, WalletTypes, FundsInvariant, PTL DEF Spec

\* The ledger explains the balance of every user whose calls are the SQL
\* functions', whatever their interleaving and whatever helpers run for others:
\* a helper writes the row of its own user alone.
THEOREM LedgerTellsTheBalance == Spec => []LedgerExplainsBalance
<1>1. LedgerInv => LedgerExplainsBalance
  BY DEF LedgerInv
<1> QED BY <1>1, LedgerInvariant, PTL

-----------------------------------------------------------------------------
(***************************************************************************)
(* The wallet implements WalletContract: each committed transaction is one *)
(* of its steps, and what comes before it changes nothing that is seen.    *)
(***************************************************************************)

\* The rows of the ledger after a transaction: those before it, and its own.
LEMMA PostRows ==
    ASSUME TypeOK, NEW x, x.user \in Users, NEW delta \in Int, Post(x, delta),
           ~(delta > 0 /\ IndexTaken(x.user, x.kind, x.action, x.ref))
    PROVE  /\ balance' = [balance EXCEPT ![x.user] = @ + delta]
           /\ \A u \in Users : \A i \in DOMAIN ledger[u] :
                 i \in DOMAIN ledger'[u] /\ ledger'[u][i] = ledger[u][i]
           /\ \E j \in DOMAIN ledger'[x.user] :
                 /\ ledger'[x.user][j].kind = x.kind /\ ledger'[x.user][j].action = x.action
                 /\ ledger'[x.user][j].ref = x.ref
                 /\ \A u \in Users : \A i \in DOMAIN ledger'[u] :
                       \/ u = x.user /\ i = j
                       \/ i \in DOMAIN ledger[u] /\ ledger'[u][i] = ledger[u][i]
<1> DEFINE w == x.user
           l == ledger[w]
           e == [kind |-> x.kind, action |-> x.action, ref |-> x.ref,
                 delta |-> delta, after |-> balance[w] + delta]
<1>1. /\ balance' = [balance EXCEPT ![w] = @ + delta]
      /\ ledger' = [ledger EXCEPT ![w] = Append(l, e)]
  BY DEF Post
<1>2. /\ \A u \in Users : u # w => ledger'[u] = ledger[u]
      /\ ledger'[w] = Append(l, e)
  BY <1>1 DEF TypeOK
<1>3. /\ DOMAIN l = 1..Len(l) /\ Len(l) \in Nat
      /\ DOMAIN ledger'[w] = 1..(Len(l) + 1)
      /\ \A i \in 1..Len(l) : ledger'[w][i] = l[i]
      /\ ledger'[w][Len(l) + 1] = e
  <2>1. l \in Seq(Rows \cup {e}) /\ e \in Rows \cup {e}
    BY DEF TypeOK
  <2> HIDE DEF e
  <2> QED BY <2>1, <1>2, AppendRow, LenProperties
<1>4. e.kind = x.kind /\ e.action = x.action /\ e.ref = x.ref
  OBVIOUS
<1> HIDE DEF e
<1>5. Len(l) + 1 \in DOMAIN ledger'[w]
  BY <1>3
<1>6. \A u \in Users : \A i \in DOMAIN ledger'[u] :
         \/ u = w /\ i = Len(l) + 1
         \/ i \in DOMAIN ledger[u] /\ ledger'[u][i] = ledger[u][i]
  BY <1>2, <1>3
<1>7. \A u \in Users : \A i \in DOMAIN ledger[u] :
         i \in DOMAIN ledger'[u] /\ ledger'[u][i] = ledger[u][i]
  BY <1>2, <1>3
<1> QED BY <1>1, <1>3, <1>4, <1>5, <1>6, <1>7

\* A charge or a welcome pays no key, a credit that is posted pays its own.
LEMMA PostPays ==
    ASSUME TypeOK, NEW x, x.user \in Users, NEW delta \in Int, Post(x, delta),
           ~(delta > 0 /\ IndexTaken(x.user, x.kind, x.action, x.ref)),
           x.kind \in CreditKinds => x \in Calls
    PROVE  PaidKeys' = IF x.kind \in CreditKinds THEN PaidKeys \cup {Key(x.user, x)} ELSE PaidKeys
<1> DEFINE Pays(u, e, k) == e.kind \in CreditKinds /\ k = Key(u, e)
<1>1. PICK j \in DOMAIN ledger'[x.user] :
         /\ ledger'[x.user][j].kind = x.kind /\ ledger'[x.user][j].action = x.action
         /\ ledger'[x.user][j].ref = x.ref
         /\ \A u \in Users : \A i \in DOMAIN ledger'[u] :
               \/ u = x.user /\ i = j
               \/ i \in DOMAIN ledger[u] /\ ledger'[u][i] = ledger[u][i]
  BY PostRows
<1>2. Key(x.user, ledger'[x.user][j]) = Key(x.user, x)
  BY <1>1 DEF Key
<1>3. x.kind \in CreditKinds => Key(x.user, x) \in Keys
  BY DEF Keys
<1>4. \A k \in Keys :
         (\E u \in Users : \E i \in DOMAIN ledger'[u] : Pays(u, ledger'[u][i], k))
         <=> \/ \E u \in Users : \E i \in DOMAIN ledger[u] : Pays(u, ledger[u][i], k)
             \/ x.kind \in CreditKinds /\ k = Key(x.user, x)
  <2> TAKE k \in Keys
  <2>1. ASSUME NEW u \in Users, NEW i \in DOMAIN ledger'[u], Pays(u, ledger'[u][i], k)
        PROVE  \/ \E v \in Users : \E m \in DOMAIN ledger[v] : Pays(v, ledger[v][m], k)
               \/ x.kind \in CreditKinds /\ k = Key(x.user, x)
    <3>1. CASE u = x.user /\ i = j
      BY <1>1, <1>2, <2>1, <3>1
    <3>2. CASE i \in DOMAIN ledger[u] /\ ledger'[u][i] = ledger[u][i]
      BY <2>1, <3>2
    <3> QED BY <1>1, <3>1, <3>2
  <2>2. ASSUME NEW u \in Users, NEW i \in DOMAIN ledger[u], Pays(u, ledger[u][i], k)
        PROVE  \E v \in Users : \E m \in DOMAIN ledger'[v] : Pays(v, ledger'[v][m], k)
    <3>1. i \in DOMAIN ledger'[u] /\ ledger'[u][i] = ledger[u][i]
      BY PostRows
    <3> QED BY <2>2, <3>1
  <2>3. ASSUME x.kind \in CreditKinds, k = Key(x.user, x)
        PROVE  \E v \in Users : \E m \in DOMAIN ledger'[v] : Pays(v, ledger'[v][m], k)
    BY <1>1, <1>2, <2>3
  <2> QED BY <2>1, <2>2, <2>3
<1> QED BY <1>3, <1>4 DEF PaidKeys

\* A key that a refund, a reward or a referral would be posted for is not paid.
LEMMA UnpaidKey ==
    ASSUME TypeOK, CreditsInv, NEW x \in Calls, x.kind \in CreditKinds,
           x.kind = "refund" => ~IndexTaken(x.user, x.kind, x.action, x.ref),
           x.kind # "refund" => ~AlreadyRewarded(x)
    PROVE  Key(x.user, x) \notin PaidKeys
<1> SUFFICES ASSUME NEW u \in Users, NEW i \in DOMAIN ledger[u],
                    ledger[u][i].kind \in CreditKinds,
                    Key(x.user, x) = Key(u, ledger[u][i])
             PROVE  FALSE
  BY DEF PaidKeys
<1> DEFINE e == ledger[u][i]
<1>1. x.user \in Users
  BY CallsAssumption
<1>2. /\ e.kind = x.kind /\ e.ref = x.ref
      /\ x.kind # "refund" => e.action = x.action
      /\ x.kind = "reward" => u = x.user
  BY DEF Key
<1>3. e.delta > 0
  BY <1>2 DEF CreditsInv, CreditsAreCalls, CreditKinds
<1>4. CASE x.kind = "refund"
  <2>1. PICK y \in Calls : /\ y.kind = "refund" /\ y.user = u
                          /\ y.action = e.action /\ y.ref = e.ref
    BY <1>2, <1>4 DEF CreditsInv, CreditsAreCalls
  <2>2. u = x.user /\ e.action = x.action
    BY <1>2, <1>4, <2>1, RefundsAssumption
  <2> QED BY <1>2, <1>3, <1>4, <2>2 DEF IndexTaken, Credited
<1>5. CASE x.kind # "refund"
  BY <1>2, <1>3, <1>5 DEF AlreadyRewarded, Credited, CreditKinds
<1> QED BY <1>4, <1>5

\* What a committed transaction is to the contract.
LEMMA PostRefines ==
    ASSUME TypeOK, CreditsInv, NEW x \in Calls, NEW delta \in Int, Post(x, delta),
           profile[x.user], UNCHANGED profile,
           \/ x.kind = "charge" /\ delta = 0 - x.amount /\ balance[x.user] >= x.amount
           \/ x.kind = "refund" /\ delta = x.amount
           \/ x.kind \in {"reward", "referral"} /\ delta = x.amount /\ ~AlreadyRewarded(x)
    PROVE  [Contract!Next]_(Contract!contract)
<1> DEFINE taken == delta > 0 /\ IndexTaken(x.user, x.kind, x.action, x.ref)
<1>1. x.user \in Users /\ x.amount \in Nat \ {0} /\ x.amount \in {y.amount : y \in Calls}
  BY CallsAssumption
<1>2. CASE taken
  <2>1. UNCHANGED <<balance, ledger, profile>>
    BY <1>2 DEF Post
  <2>2. PaidKeys' = PaidKeys
    BY <2>1 DEF PaidKeys
  <2> QED BY <2>1, <2>2 DEF Contract!contract
<1>3. CASE ~taken
  <2>1. balance' = [balance EXCEPT ![x.user] = @ + delta]
    BY <1>1, <1>3, PostRows
  <2>2. balance[x.user] \in Int
    BY <1>1 DEF TypeOK
  <2>3. PaidKeys' = IF x.kind \in CreditKinds THEN PaidKeys \cup {Key(x.user, x)} ELSE PaidKeys
    BY <1>1, <1>3, PostPays
  <2>4. CASE x.kind = "charge" /\ delta = 0 - x.amount /\ balance[x.user] >= x.amount
    <3>0. balance[x.user] + delta = balance[x.user] - x.amount
      BY <1>1, <2>2, <2>4
    <3>1. balance' = [balance EXCEPT ![x.user] = @ - x.amount]
      BY <2>1, <3>0
    <3>2. Contract!Charge(x.user, x.amount)
      BY <1>1, <2>3, <2>4, <3>1 DEF Contract!Charge, CreditKinds
    <3> QED BY <1>1, <3>2 DEF Contract!Next
  <2>5. CASE x.kind \in CreditKinds /\ delta = x.amount
             /\ (x.kind # "refund" => ~AlreadyRewarded(x))
    <3>1. delta > 0
      BY <1>1, <2>5
    <3>2. Key(x.user, x) \notin PaidKeys /\ Key(x.user, x) \in Keys
      BY <1>3, <2>5, <3>1, UnpaidKey DEF Keys
    <3>3. Contract!Credit(x.user, Key(x.user, x), x.amount)
      BY <1>1, <2>1, <2>3, <2>5, <3>2 DEF Contract!Credit
    <3> QED BY <1>1, <3>2, <3>3 DEF Contract!Next
  <2> QED BY <2>4, <2>5 DEF CreditKinds
<1> QED BY <1>2, <1>3

LEMMA ContractStep ==
    ASSUME TypeOK, FundsInv, CreditsInv, LedgerInv, [Next]_vars
    PROVE  [Contract!Next]_(Contract!contract)
<1>0. CallersHoldFunds /\ AbsentIsEmpty /\ NeverOverdrawn
  BY DEF FundsInv, LedgerInv
<1>1. ASSUME NEW u \in Users, Provision(u) PROVE Contract!Open(u)
  <2> DEFINE x == [user |-> u, kind |-> "welcome", action |-> "welcome", ref |-> NoRef]
  <2>1. Welcome \in Int /\ Post(x, Welcome)
    BY <1>1, WalletNumbers DEF Provision
  <2>2. ledger[u] = <<>> /\ balance[u] = 0
    BY <1>0, <1>1 DEF Provision, AbsentIsEmpty
  <2>3. ~IndexTaken(u, "welcome", "welcome", NoRef)
    BY <2>2 DEF IndexTaken, Credited
  <2>4. balance' = [balance EXCEPT ![u] = @ + Welcome] /\ PaidKeys' = PaidKeys
    BY <2>1, <2>3, PostRows, PostPays DEF CreditKinds
  <2>5. balance' = [balance EXCEPT ![u] = Welcome]
    BY <2>1, <2>2, <2>4 DEF TypeOK
  <2>6. {v \in Users : profile'[v]} = {v \in Users : profile[v]} \cup {u} /\ ~profile[u]
    BY <1>1 DEF Provision, TypeOK
  <2> QED BY <2>4, <2>5, <2>6 DEF Contract!Open
<1>2. ASSUME NEW c \in Callers, NEW x \in Calls, ChargeCoins(c, x) \/ RewardCoins(c, x)
      PROVE  [Contract!Next]_(Contract!contract)
  <2>1. 0 - x.amount \in Int /\ x.amount \in Int /\ profile[x.user] /\ UNCHANGED profile
    BY <1>2, CallsAssumption DEF ChargeCoins, RewardCoins, Begin
  <2>2. CASE ChargeCoins(c, x)
    <3>1. x.kind = "charge" /\ balance[x.user] >= x.amount /\ Post(x, 0 - x.amount)
      BY <2>2 DEF ChargeCoins, Covers
    <3> QED BY <2>1, <3>1, PostRefines
  <2>3. CASE RewardCoins(c, x)
    <3>1. x.kind \in {"reward", "referral"} /\ ~AlreadyRewarded(x) /\ Post(x, x.amount)
      BY <2>3 DEF RewardCoins
    <3> QED BY <2>1, <3>1, PostRefines
  <2> QED BY <1>2, <2>2, <2>3
<1>3. ASSUME NEW c \in Callers, PayRefund(c)
      PROVE  [Contract!Next]_(Contract!contract)
  <2>1. call[c] \in Calls /\ call[c].kind = "refund" /\ profile[call[c].user]
    BY <1>0, <1>3 DEF PayRefund, TypeOK, CallersHoldFunds
  <2>2. call[c].amount \in Int
    BY <2>1, CallsAssumption
  <2>3. Post(call[c], call[c].amount) /\ UNCHANGED profile
    BY <1>3 DEF PayRefund
  <2> QED BY <2>1, <2>2, <2>3, PostRefines
<1>4. ASSUME NEW c \in Callers, WriteBalance(c) PROVE Contract!Overwrite(call[c].user)
  <2> DEFINE u == call[c].user
  <2>1. call[c] \in Calls /\ call[c].kind \in HelperKinds /\ profile[u]
    BY <1>0, <1>4 DEF WriteBalance, TypeOK, CallersHoldFunds
  <2>2. u \in Users \ Ledgered /\ call[c].amount \in Nat \ {0}
    BY <2>1, CallsAssumption DEF Ledgered, RpcKinds, HelperKinds
  <2>3. seen[c] \in Int /\ seen[c] >= (IF call[c].kind = "spend" THEN call[c].amount ELSE 0)
    BY <1>0, <1>4 DEF WriteBalance, CallersHoldFunds, TypeOK
  <2>4. (IF call[c].kind = "spend" THEN seen[c] - call[c].amount ELSE seen[c] + call[c].amount) \in Nat
    BY <2>2, <2>3
  <2>5. balance \in [Users -> Nat]
    BY <1>0 DEF NeverOverdrawn, TypeOK
  <2>6. balance' \in [Users -> Nat] /\ \A v \in Users \ {u} : balance'[v] = balance[v]
    BY <1>4, <2>4, <2>5 DEF WriteBalance
  <2>7. profile' = profile /\ PaidKeys' = PaidKeys
    BY <1>4 DEF WriteBalance, PaidKeys
  <2> QED BY <2>1, <2>2, <2>6, <2>7 DEF Contract!Overwrite
<1>5. ASSUME UNCHANGED account PROVE UNCHANGED Contract!contract
  BY <1>5 DEF account, PaidKeys, Contract!contract
<1>6. ASSUME NEW c \in Callers, NEW x \in Calls, CountRefunds(c, x) \/ ReadBalance(c, x)
      PROVE  UNCHANGED account
  BY <1>6 DEF CountRefunds, ReadBalance
<1>7. \A u \in Users : Contract!Open(u) \/ Contract!Overwrite(u) => Contract!Next
  BY DEF Contract!Next
<1>8. ASSUME NEW c \in Callers, WriteBalance(c) PROVE call[c].user \in Users
  BY <1>8, CallsAssumption DEF WriteBalance, TypeOK
<1> QED BY <1>1, <1>2, <1>3, <1>4, <1>5, <1>6, <1>7, <1>8 DEF Next, CallerStep, vars

\* Whatever calls interleave, each of the SQL functions takes effect on the
\* balance at once or not at all and pays its key once, though refund_coins
\* counts before it locks, and a helper disturbs nobody but its own user.
THEOREM WalletImplementsContract == Spec => ImplementsContract
<1>1. Init => Contract!Init
  BY DEF Init, Contract!Init, PaidKeys
<1>2. TypeOK /\ FundsInv /\ CreditsInv /\ LedgerInv /\ [Next]_vars
        => [Contract!Next]_(Contract!contract)
  BY ContractStep
<1> QED BY <1>1, <1>2, WalletTypes, FundsInvariant, CreditsInvariant, LedgerInvariant, PTL
        DEF Spec, ImplementsContract, Contract!Spec
=============================================================================
