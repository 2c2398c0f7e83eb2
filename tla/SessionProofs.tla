---------------------------- MODULE SessionProofs ----------------------------
(***************************************************************************)
(* Proofs about Session, for any number of tabs, requests and token pairs. *)
(***************************************************************************)
EXTENDS Session, FiniteSetTheorems, TLAPS

USE DEF storage, tab, request, server, bounds, vars

Pcs == Over \cup {"new", "sent", "denied", "joined", "waiting", "overdue", "again", "refused"}

\* PairsLeft leaves a pair.
LEMMA OneMorePair ==
    ASSUME ServerTypes, PairsLeft
    PROVE  minted + 1 \in Pairs
<1> DEFINE asking == {r \in Requests : pc[r] \in {"denied", "joined", "waiting", "overdue"}}
<1>1. IsFiniteSet(asking)
  BY SessionAssumption, FS_Subset
<1>2. Cardinality(asking) \in Nat
  BY <1>1, FS_CardinalityType
<1>3. minted + Cardinality(asking) < MaxPairs
  BY DEF PairsLeft
<1> QED
  BY <1>2, <1>3, SessionAssumption DEF ServerTypes, Pairs

LEMMA GivesUpTypes ==
    ASSUME StorageTypes, TabTypes, NEW S, NEW t \in Tabs, NEW p \in [Requests -> Pcs],
           GivesUp(S, t, p)
    PROVE  /\ pc' \in [Requests -> Pcs] /\ stored' \in 0..MaxPairs
           /\ view' \in [Tabs -> 0..MaxPairs] /\ leaving' \in [Tabs -> BOOLEAN]
<1>1. pc' \in [Requests -> Pcs]
  BY DEF GivesUp, Pcs, Over
<1>2. 0 \in 0..MaxPairs
  BY SessionAssumption
<1>3. CASE UNCHANGED <<stored, view, leaving>>
  BY <1>1, <1>3 DEF StorageTypes, TabTypes
<1>4. CASE clearSessionTokens(t) /\ leaving' = [leaving EXCEPT ![t] = TRUE]
  BY <1>1, <1>2, <1>4 DEF clearSessionTokens, setSessionTokens, TabTypes
<1> QED
  BY <1>3, <1>4 DEF GivesUp

LEMMA OverdueTypes ==
    ASSUME RequestTypes
    PROVE  pc \in [Requests -> Pcs] /\ Overdue(pc) \in [Requests -> Pcs]
BY DEF RequestTypes, Overdue, Pcs

LEMMA GoneTypes ==
    ASSUME TabTypes, RequestTypes, NEW t \in Tabs, Gone(t), view' \in [Tabs -> 0..MaxPairs]
    PROVE  TabTypes' /\ RequestTypes'
<1>1. 0 \in 0..MaxPairs
  BY SessionAssumption
<1> QED
  BY <1>1 DEF TabTypes, RequestTypes, Gone, Forgotten, Over

\* Every step keeps the types.
LEMMA TypeStep ==
    ASSUME TypeOK, [Next]_vars
    PROVE  TypeOK'
<1> USE SessionAssumption DEF TypeOK
<1>1. ASSUME NEW r \in Requests, Send(r) PROVE TypeOK'
  BY <1>1 DEF Send, StorageTypes, TabTypes, RequestTypes, ServerTypes
<1>2. ASSUME NEW r \in Requests, Answer(r) PROVE TypeOK'
  BY <1>2 DEF Answer, Over, StorageTypes, TabTypes, RequestTypes, ServerTypes
<1>3. ASSUME NEW r \in Requests, TimesOut(r) \/ Joins(r) \/ WaitsForTab(r) PROVE TypeOK'
  BY <1>3 DEF TimesOut, Joins, WaitsForTab, Over, StorageTypes, TabTypes, RequestTypes, ServerTypes
<1>4. ASSUME NEW r \in Requests, RefusedTwice(r) \/ NothingToExchange(r) \/ WaitsInVain(r) PROVE TypeOK'
  <2>1. GivesUp({r}, Of[r], pc) /\ pc \in [Requests -> Pcs]
    BY <1>4, OverdueTypes DEF RefusedTwice, NothingToExchange, WaitsInVain
  <2>2. /\ pc' \in [Requests -> Pcs] /\ stored' \in 0..MaxPairs
        /\ view' \in [Tabs -> 0..MaxPairs] /\ leaving' \in [Tabs -> BOOLEAN]
    BY <2>1, GivesUpTypes
  <2> QED
    BY <1>4, <2>2 DEF RefusedTwice, NothingToExchange, WaitsInVain, Pcs,
       StorageTypes, TabTypes, RequestTypes, ServerTypes
<1>5. ASSUME NEW r \in Requests, Exchanges(r) PROVE TypeOK'
  <2>1. Overdue(pc) \in [Requests -> Pcs]
    BY OverdueTypes
  <2>2. pc' \in [Requests -> Pcs]
    BY <1>5, <2>1 DEF Exchanges, Pcs
  <2>3. lapses' \in Nat
    BY <1>5 DEF Exchanges, MayTake, Lapse, ServerTypes
  <2> QED
    BY <1>5, <2>2, <2>3 DEF Exchanges, Pcs, StorageTypes, TabTypes, RequestTypes, ServerTypes
<1>6. ASSUME NEW r \in Requests, TokenChanged(r) PROVE TypeOK'
  BY <1>6 DEF TokenChanged, StorageTypes, TabTypes, RequestTypes, ServerTypes
<1>7. ASSUME NEW t \in Tabs, Rotates(t) PROVE TypeOK'
  <2>1. using[t] \in Pairs
    BY <1>7 DEF Rotates, TabTypes, Pairs
  <2>2. minted + 1 \in Pairs /\ minted + 1 \in 0..MaxPairs /\ minted + 1 # 0
    BY <1>7 DEF Rotates, ServerTypes, Pairs
  <2>3. ServerTypes'
    BY <1>7, <2>1, <2>2 DEF Rotates, ServerTypes
  <2> QED
    BY <1>7, <2>2, <2>3 DEF Rotates, StorageTypes, TabTypes, RequestTypes
<1>8. ASSUME NEW t \in Tabs, Refuses(t) PROVE TypeOK'
  <2>1. using[t] \in Pairs
    BY <1>8 DEF Refuses, TabTypes, Pairs
  <2>2. ServerTypes'
    BY <1>8, <2>1 DEF Refuses, ServerTypes
  <2> QED
    BY <1>8, <2>1, <2>2 DEF Refuses, StorageTypes, TabTypes, RequestTypes
<1>9. ASSUME NEW t \in Tabs, ExchangeLost(t) PROVE TypeOK'
  BY <1>9 DEF ExchangeLost, Lapse, StorageTypes, TabTypes, RequestTypes, ServerTypes
<1>10. ASSUME NEW t \in Tabs, ExchangeEnds(t) PROVE TypeOK'
  <2>1. Overdue(pc) \in [Requests -> Pcs]
    BY OverdueTypes
  <2>2. RequestTypes'
    BY <1>10, <2>1 DEF ExchangeEnds, RequestTypes, TabTypes, Pcs
  <2>3. /\ stored' = got[t] /\ view' = [view EXCEPT ![t] = got[t]] /\ lock' = NoTab
        /\ exch' = [exch EXCEPT ![t] = "none"] /\ leaving' = leaving
        /\ using' = [using EXCEPT ![t] = 0] /\ got' = [got EXCEPT ![t] = 0]
    BY <1>10 DEF ExchangeEnds, setSessionTokens, releaseRefreshLock, Forgotten
  <2>4. expired' \in BOOLEAN
    BY <1>10 DEF ExchangeEnds, releaseRefreshLock
  <2>5. TabTypes' /\ stored' \in 0..MaxPairs
    BY <2>3 DEF TabTypes
  <2> QED
    BY <1>10, <2>2, <2>3, <2>4, <2>5 DEF ExchangeEnds, StorageTypes, ServerTypes
<1>11. ASSUME NEW t \in Tabs, ExchangeFails(t) PROVE TypeOK'
  <2>1. Overdue(pc) \in [Requests -> Pcs]
    BY OverdueTypes
  <2>2. /\ pc' \in [Requests -> Pcs] /\ stored' \in 0..MaxPairs
        /\ view' \in [Tabs -> 0..MaxPairs] /\ leaving' \in [Tabs -> BOOLEAN]
    BY <1>11, <2>1, GivesUpTypes DEF ExchangeFails
  <2>3. /\ lock' = NoTab /\ exch' = [exch EXCEPT ![t] = "none"]
        /\ using' = [using EXCEPT ![t] = 0] /\ got' = [got EXCEPT ![t] = 0]
        /\ UNCHANGED <<tok, original, server, bounds>>
    BY <1>11 DEF ExchangeFails, releaseRefreshLock, Forgotten
  <2>4. expired' \in BOOLEAN
    BY <1>11 DEF ExchangeFails, releaseRefreshLock
  <2>5. TabTypes'
    BY <2>2, <2>3 DEF TabTypes
  <2> QED
    BY <2>2, <2>3, <2>4, <2>5 DEF StorageTypes, RequestTypes, ServerTypes, Pcs
<1>12. CASE LockExpires
  <2>1. pc' \in [Requests -> Pcs] /\ lapses' \in Nat
    BY <1>12, OverdueTypes DEF LockExpires, Lapse, ServerTypes
  <2>2. expired' \in BOOLEAN
    BY <1>12 DEF LockExpires
  <2> QED
    BY <1>12, <2>1, <2>2 DEF LockExpires, Pcs, StorageTypes, TabTypes, RequestTypes, ServerTypes
<1>13. ASSUME NEW t \in Tabs, Unloads(t) \/ Reloads(t) PROVE TypeOK'
  <2>1. Gone(t) /\ view' \in [Tabs -> 0..MaxPairs]
    BY <1>13 DEF Unloads, Reloads, TabTypes, StorageTypes
  <2>2. TabTypes' /\ RequestTypes'
    BY <2>1, GoneTypes
  <2>3. ServerTypes' /\ StorageTypes'
    BY <1>13 DEF Unloads, Reloads, Lapse, Move, ServerTypes, StorageTypes
  <2> QED
    BY <2>2, <2>3
<1>14. ASSUME NEW t \in Tabs, SignsOut(t) PROVE TypeOK'
  BY <1>14 DEF SignsOut, clearSessionTokens, setSessionTokens, Move, StorageTypes, TabTypes, RequestTypes, ServerTypes
<1>15. ASSUME NEW t \in Tabs, SignsIn(t) PROVE TypeOK'
  <2>1. minted + 1 \in Pairs
    BY <1>15, OneMorePair DEF SignsIn
  <2>2. minted + 1 \in 0..MaxPairs
    BY <2>1 DEF Pairs
  <2> QED
    BY <1>15, <2>1, <2>2 DEF SignsIn, setSessionTokens, Move, StorageTypes, TabTypes, RequestTypes, ServerTypes
<1>16. ASSUME NEW n \in Pairs, Expires(n) PROVE TypeOK'
  BY <1>16 DEF Expires, StorageTypes, TabTypes, RequestTypes, ServerTypes
<1>17. ASSUME NEW n \in Pairs, Ends(n) PROVE TypeOK'
  <2>1. ended' \subseteq Pairs /\ moves' \in Nat
    BY <1>17 DEF Ends, Move, ServerTypes
  <2> QED
    BY <1>17, <2>1 DEF Ends, StorageTypes, TabTypes, RequestTypes, ServerTypes
<1>18. CASE UNCHANGED vars
  BY <1>18 DEF Pairs, StorageTypes, TabTypes, RequestTypes, ServerTypes
<1> QED
  BY <1>1, <1>2, <1>3, <1>4, <1>5, <1>6, <1>7, <1>8, <1>9,
     <1>10, <1>11, <1>12, <1>13, <1>14, <1>15, <1>16, <1>17, <1>18
     DEF Next, Progress, Exchange

\* Every reachable state is well typed.
THEOREM SessionTypes == Spec => []TypeOK
<1>1. Init => TypeOK
  <2> SUFFICES ASSUME Init PROVE TypeOK
    OBVIOUS
  <2>1. 0 \in 0..MaxPairs /\ 1 \in 0..MaxPairs /\ 1 \in Pairs
    BY SessionAssumption DEF Pairs
  <2>2. StorageTypes
    BY <2>1 DEF Init, StorageTypes
  <2>3. TabTypes
    BY <2>1 DEF Init, TabTypes
  <2>4. RequestTypes
    BY <2>1 DEF Init, RequestTypes
  <2>5. ServerTypes
    BY <2>1 DEF Init, ServerTypes
  <2> QED
    BY <2>2, <2>3, <2>4, <2>5 DEF TypeOK
<1> QED
  BY <1>1, TypeStep, PTL DEF Spec

-----------------------------------------------------------------------------
(* One exchange at a time, as long as no exchange is slower than its lock. *)

\* What is spent was handed out.
SpentIsMinted ==
    /\ stored <= minted /\ \A t \in Tabs : using[t] <= minted /\ got[t] <= minted
    /\ \A n \in Pairs : n \in rotated \/ presented[n] > 0 => n <= minted

\* An exchange has the lock; the stamp is its own.
ExchangeHasLock == \A t \in Tabs : exch[t] # "none" => lock = t /\ ~expired

Spent(n) == n \in rotated /\ login[n] \notin ended

\* The refresh token an exchange finds was not used, nor was the one it brings.
TokensAreUnspent ==
    /\ Spent(stored) => \E t \in Tabs : exch[t] = "granted" /\ using[t] = stored
    /\ \A t \in Tabs : exch[t] = "posting" => ~Spent(using[t])
    /\ \A t \in Tabs : exch[t] = "granted" => got[t] \notin rotated

PresentedIsRotated ==
    \A n \in Pairs : login[n] \notin ended
        => presented[n] <= 1 /\ (presented[n] > 0 => n \in rotated)

OneExchange ==
    /\ SpentIsMinted
    /\ lapses = 0 => ExchangeHasLock /\ TokensAreUnspent /\ PresentedIsRotated

\* Nothing is exchanged; the tokens stay or go.
Quiet ==
    /\ stored' \in {stored, 0} /\ ended \subseteq ended'
    /\ UNCHANGED <<lock, expired, exch, using, got, minted, login, rotated, presented, lapses>>

LEMMA QuietSteps ==
    ASSUME TypeOK, [Next]_vars
    PROVE  \/ \E r \in Requests : Exchanges(r)
           \/ \E t \in Tabs : Exchange(t) \/ ExchangeLost(t) \/ Unloads(t) \/ Reloads(t)
                               \/ SignsIn(t)
           \/ LockExpires
           \/ Quiet
<1> USE DEF Quiet
<1>1. ASSUME NEW r \in Requests, Send(r) \/ Answer(r) \/ TimesOut(r) PROVE Quiet
  BY <1>1 DEF Send, Answer, TimesOut
<1>2. ASSUME NEW r \in Requests, Joins(r) \/ WaitsForTab(r) \/ TokenChanged(r) PROVE Quiet
  BY <1>2 DEF Joins, WaitsForTab, TokenChanged
<1>3. ASSUME NEW r \in Requests, RefusedTwice(r) \/ NothingToExchange(r) \/ WaitsInVain(r)
      PROVE  Quiet
  BY <1>3 DEF RefusedTwice, NothingToExchange, WaitsInVain, GivesUp, clearSessionTokens,
     setSessionTokens
<1>4. ASSUME NEW t \in Tabs, SignsOut(t) PROVE Quiet
  BY <1>4 DEF SignsOut, clearSessionTokens, setSessionTokens
<1>5. ASSUME NEW n \in Pairs, Expires(n) \/ Ends(n) PROVE Quiet
  BY <1>5 DEF Expires, Ends
<1>6. CASE UNCHANGED vars
  BY <1>6
<1> QED
  BY <1>1, <1>2, <1>3, <1>4, <1>5, <1>6 DEF Next, Progress

\* The lock's tab is the only one that exchanges.
LEMMA ExchangesAlone ==
    ASSUME ExchangeHasLock, NEW t \in Tabs, exch[t] # "none"
    PROVE  \A u \in Tabs \ {t} : exch[u] = "none"
BY DEF ExchangeHasLock

\* Steps by which no token is spent, and stored becomes nothing or an unspent pair.
LEMMA NothingSpent ==
    ASSUME TypeOK, OneExchange, SpentIsMinted', ended \subseteq ended',
           UNCHANGED <<rotated, presented>>, lapses' = 0 => lapses = 0,
           \A n \in 0..minted : login'[n] = login[n],
           lapses' = 0 => ExchangeHasLock' /\ TokensAreUnspent'
    PROVE  OneExchange'
<1>1. \A n \in Pairs : n <= minted => login'[n] = login[n]
  BY DEF TypeOK, ServerTypes, Pairs
<1>2. lapses' = 0 => PresentedIsRotated'
  <2>1. ASSUME lapses' = 0, NEW n \in Pairs, login'[n] \notin ended'
        PROVE  presented[n] <= 1 /\ (presented[n] > 0 => n \in rotated)
    <3>1. presented[n] \in Nat
      BY DEF TypeOK, ServerTypes
    <3>2. CASE presented[n] > 0
      BY <1>1, <2>1, <3>2 DEF OneExchange, SpentIsMinted, PresentedIsRotated
    <3> QED
      BY <3>1, <3>2
  <2> QED
    BY <2>1 DEF PresentedIsRotated
<1> QED
  BY <1>2 DEF OneExchange

LEMMA OneExchangeStep ==
    ASSUME TypeOK, OneExchange, [Next]_vars
    PROVE  OneExchange'
<1>0. /\ minted \in Pairs /\ minted \in Nat /\ stored \in 0..MaxPairs /\ MaxPairs \in Nat
      /\ exch \in [Tabs -> {"none", "posting", "granted", "refused"}]
      /\ using \in [Tabs -> 0..MaxPairs] /\ got \in [Tabs -> 0..MaxPairs]
      /\ login \in [Pairs -> Pairs] /\ rotated \subseteq Pairs
      /\ presented \in [Pairs -> Nat] /\ lapses \in Nat
      /\ \A t \in Tabs : exch[t] # "none" => using[t] \in Pairs
  <2>1. minted \in Nat /\ MaxPairs \in Nat /\ lapses \in Nat
    BY SessionAssumption DEF TypeOK, ServerTypes, Pairs
  <2>2. \A t \in Tabs : exch[t] # "none" => using[t] \in Pairs
    BY SessionAssumption DEF TypeOK, TabTypes, Pairs
  <2> QED
    BY <2>1, <2>2 DEF TypeOK, StorageTypes, TabTypes, ServerTypes
<1>1. SpentIsMinted /\ (lapses = 0 => ExchangeHasLock /\ TokensAreUnspent /\ PresentedIsRotated)
  BY DEF OneExchange
<1>2. ASSUME NEW r \in Requests, Exchanges(r) PROVE OneExchange'
  BY <1>2, SessionAssumption DEF Exchanges, MayTake, LockIsFree, Lapse, TypeOK, StorageTypes,
     TabTypes, ServerTypes, OneExchange, SpentIsMinted, ExchangeHasLock, TokensAreUnspent,
     PresentedIsRotated, Spent
<1>3. ASSUME NEW t \in Tabs, Rotates(t) PROVE OneExchange'
  <2> DEFINE u == using[t]
  <2>1. /\ exch[t] = "posting" /\ u \notin rotated /\ login[u] \notin ended
        /\ minted' = minted + 1 /\ rotated' = rotated \cup {u}
        /\ login' = [login EXCEPT ![minted + 1] = login[u]]
        /\ presented' = [presented EXCEPT ![u] = @ + 1]
        /\ exch' = [exch EXCEPT ![t] = "granted"]
        /\ got' = [got EXCEPT ![t] = minted + 1]
        /\ UNCHANGED <<stored, lock, expired, using, ended, lapses>>
    BY <1>3 DEF Rotates
  <2>2. u \in Pairs /\ u <= minted /\ stored <= minted
    BY <1>0, <1>1, <2>1 DEF SpentIsMinted
  <2>3. SpentIsMinted'
    BY <1>0, <1>1, <2>1, <2>2 DEF SpentIsMinted
  <2>4. \A n \in Pairs : n <= minted => login'[n] = login[n]
    BY <1>0, <2>1
  <2>5. ASSUME lapses' = 0 PROVE ExchangeHasLock'
    BY <1>0, <1>1, <2>1, <2>5 DEF ExchangeHasLock
  <2>6. ASSUME lapses' = 0 PROVE TokensAreUnspent'
    <3>1. \A v \in Tabs \ {t} : exch'[v] = "none"
      BY <1>0, <1>1, <2>1, <2>6, ExchangesAlone
    <3>2. Spent(stored)' => stored' = u
      BY <1>0, <1>1, <2>1, <2>2, <2>4, <2>6, <3>1 DEF Spent, TokensAreUnspent
    <3>3. minted + 1 \notin rotated'
      BY <1>0, <1>1, <2>1, <2>2 DEF SpentIsMinted
    <3> QED
      BY <1>0, <2>1, <3>1, <3>2, <3>3 DEF TokensAreUnspent
  <2>7. ASSUME lapses' = 0 PROVE PresentedIsRotated'
    <3>1. ASSUME NEW n \in Pairs, login'[n] \notin ended'
          PROVE  presented'[n] <= 1 /\ (presented'[n] > 0 => n \in rotated')
      <4>1. CASE n = u
        BY <1>0, <1>1, <2>1, <2>2, <2>7, <4>1 DEF PresentedIsRotated
      <4>2. CASE n # u
        BY <1>0, <1>1, <2>1, <2>2, <2>4, <2>7, <3>1, <4>2 DEF PresentedIsRotated, SpentIsMinted
      <4> QED
        BY <4>1, <4>2
    <3> QED
      BY <3>1 DEF PresentedIsRotated
  <2> QED
    BY <2>3, <2>5, <2>6, <2>7 DEF OneExchange
<1>4. ASSUME NEW t \in Tabs, Refuses(t) PROVE OneExchange'
  <2> DEFINE u == using[t]
  <2>1. /\ exch[t] = "posting" /\ (u \in rotated \/ login[u] \in ended)
        /\ presented' = [presented EXCEPT ![u] = @ + 1] /\ ended \subseteq ended'
        /\ exch' = [exch EXCEPT ![t] = "refused"]
        /\ UNCHANGED <<stored, lock, expired, using, got, minted, login, rotated, lapses>>
    BY <1>4 DEF Refuses
  <2>2. u \in Pairs /\ u <= minted
    BY <1>0, <1>1, <2>1 DEF SpentIsMinted
  <2>3. SpentIsMinted'
    BY <1>0, <1>1, <2>1, <2>2 DEF SpentIsMinted
  <2>4. ASSUME lapses' = 0 PROVE ExchangeHasLock' /\ TokensAreUnspent'
    <3>1. \A v \in Tabs \ {t} : exch[v] = "none"
      BY <1>1, <2>1, <2>4, ExchangesAlone
    <3> QED
      BY <1>0, <1>1, <2>1, <2>4, <3>1 DEF ExchangeHasLock, TokensAreUnspent, Spent
  <2>5. ASSUME lapses' = 0 PROVE login[u] \in ended
    BY <1>1, <2>1, <2>5 DEF TokensAreUnspent, Spent
  <2>6. ASSUME lapses' = 0 PROVE PresentedIsRotated'
    <3>1. ASSUME NEW n \in Pairs, login'[n] \notin ended'
          PROVE  n # u /\ presented[n] <= 1 /\ (presented[n] > 0 => n \in rotated)
      BY <1>1, <2>1, <2>5, <2>6, <3>1 DEF PresentedIsRotated
    <3>2. \A n \in Pairs \ {u} : presented'[n] = presented[n]
      BY <1>0, <2>1
    <3> QED
      BY <2>1, <3>1, <3>2 DEF PresentedIsRotated
  <2> QED
    BY <2>3, <2>4, <2>6 DEF OneExchange
<1>5. ASSUME NEW t \in Tabs, ExchangeEnds(t) PROVE OneExchange'
  <2>1. /\ exch[t] = "granted" /\ stored' = got[t] /\ exch' = [exch EXCEPT ![t] = "none"]
        /\ using' = [using EXCEPT ![t] = 0] /\ got' = [got EXCEPT ![t] = 0]
        /\ UNCHANGED <<server, bounds>>
    BY <1>5 DEF ExchangeEnds, setSessionTokens, Forgotten
  <2>2. SpentIsMinted'
    BY <1>0, <1>1, <2>1 DEF SpentIsMinted
  <2>3. ASSUME lapses' = 0 PROVE ExchangeHasLock' /\ TokensAreUnspent'
    <3>1. \A v \in Tabs : exch'[v] = "none"
      BY <1>0, <1>1, <2>1, <2>3, ExchangesAlone
    <3>2. stored' \notin rotated'
      BY <1>1, <2>1, <2>3 DEF TokensAreUnspent
    <3> QED
      BY <3>1, <3>2 DEF ExchangeHasLock, TokensAreUnspent, Spent
  <2> QED
    BY <2>1, <2>2, <2>3, NothingSpent
<1>6. ASSUME NEW t \in Tabs, ExchangeFails(t) PROVE OneExchange'
  <2>1. /\ exch[t] = "refused" /\ stored' \in {stored, 0} /\ exch' = [exch EXCEPT ![t] = "none"]
        /\ using' = [using EXCEPT ![t] = 0] /\ got' = [got EXCEPT ![t] = 0]
        /\ UNCHANGED <<server, bounds>>
    BY <1>6 DEF ExchangeFails, GivesUp, clearSessionTokens, setSessionTokens, Forgotten
  <2>2. SpentIsMinted'
    BY <1>0, <1>1, <2>1 DEF SpentIsMinted
  <2>3. ASSUME lapses' = 0 PROVE ExchangeHasLock' /\ TokensAreUnspent'
    <3>1. \A v \in Tabs \ {t} : exch[v] = "none"
      BY <1>1, <2>1, <2>3, ExchangesAlone
    <3>2. \A v \in Tabs : exch'[v] = "none"
      BY <1>0, <2>1, <3>1
    <3>3. ~Spent(stored)
      BY <1>1, <2>1, <2>3, <3>1 DEF TokensAreUnspent
    <3>4. ~Spent(0)
      BY <1>0 DEF Spent, Pairs
    <3>5. ~Spent(stored)'
      BY <2>1, <3>3, <3>4 DEF Spent
    <3> QED
      BY <3>2, <3>5 DEF ExchangeHasLock, TokensAreUnspent
  <2> QED
    BY <2>1, <2>2, <2>3, NothingSpent
<1>7. ASSUME NEW t \in Tabs, ExchangeLost(t) PROVE OneExchange'
  BY <1>0, <1>1, <1>7 DEF ExchangeLost, Lapse, OneExchange, SpentIsMinted
<1>8. ASSUME NEW t \in Tabs, Unloads(t) \/ Reloads(t) PROVE OneExchange'
  <2>1. /\ exch' = [exch EXCEPT ![t] = "none"] /\ UNCHANGED <<storage, server>>
        /\ using' = [using EXCEPT ![t] = 0] /\ got' = [got EXCEPT ![t] = 0]
        /\ lapses' = 0 => lapses = 0 /\ exch[t] = "none"
    BY <1>0, <1>8 DEF Unloads, Reloads, Gone, Forgotten, Lapse
  <2>2. SpentIsMinted'
    BY <1>0, <1>1, <2>1 DEF SpentIsMinted
  <2>3. ASSUME lapses' = 0 PROVE ExchangeHasLock' /\ TokensAreUnspent'
    BY <1>0, <1>1, <2>1, <2>3 DEF ExchangeHasLock, TokensAreUnspent, Spent
  <2> QED
    BY <2>1, <2>2, <2>3, NothingSpent
<1>9. ASSUME NEW t \in Tabs, SignsIn(t) PROVE OneExchange'
  <2>1. /\ stored' = minted + 1 /\ minted' = minted + 1
        /\ login' = [login EXCEPT ![minted + 1] = minted + 1]
        /\ UNCHANGED <<lock, expired, exch, using, got, rotated, presented, ended, lapses>>
    BY <1>9 DEF SignsIn, setSessionTokens
  <2>2. SpentIsMinted'
    BY <1>0, <1>1, <2>1 DEF SpentIsMinted
  <2>3. \A n \in 0..minted : login'[n] = login[n]
    BY <1>0, <2>1
  <2>4. ASSUME lapses' = 0 PROVE ExchangeHasLock' /\ TokensAreUnspent'
    <3>1. stored' \notin rotated'
      BY <1>0, <1>1, <2>1 DEF SpentIsMinted
    <3>2. \A v \in Tabs : using[v] \in 0..minted
      BY <1>0, <1>1 DEF SpentIsMinted
    <3> QED
      BY <1>1, <2>1, <2>3, <2>4, <3>1, <3>2 DEF ExchangeHasLock, TokensAreUnspent, Spent
  <2> QED
    BY <2>1, <2>2, <2>3, <2>4, NothingSpent
<1>10. CASE LockExpires
  <2>1. /\ lapses' = 0 => lapses = 0 /\ exch[lock] = "none"
        /\ UNCHANGED <<stored, lock, exch, using, got, server>>
    BY <1>0, <1>10 DEF LockExpires, Lapse
  <2>2. SpentIsMinted'
    BY <1>1, <2>1 DEF SpentIsMinted
  <2>3. ASSUME lapses' = 0 PROVE ExchangeHasLock' /\ TokensAreUnspent'
    BY <1>1, <2>1, <2>3 DEF ExchangeHasLock, TokensAreUnspent, Spent
  <2> QED
    BY <2>1, <2>2, <2>3, NothingSpent
<1>11. CASE Quiet
  <2>1. SpentIsMinted'
    BY <1>0, <1>1, <1>11 DEF Quiet, SpentIsMinted
  <2>2. ASSUME lapses' = 0 PROVE ExchangeHasLock' /\ TokensAreUnspent'
    <3>1. ~Spent(0)
      BY <1>0 DEF Spent, Pairs
    <3> QED
      BY <1>1, <1>11, <2>2, <3>1 DEF Quiet, ExchangeHasLock, TokensAreUnspent, Spent
  <2> QED
    BY <1>11, <2>1, <2>2, NothingSpent DEF Quiet
<1> QED
  BY QuietSteps, <1>2, <1>3, <1>4, <1>5, <1>6, <1>7, <1>8, <1>9, <1>10, <1>11 DEF Exchange

\* Whatever 401s arrive in whatever tabs, a refresh token reaches the server once while its
\* login lasts, if no exchange is lost, killed, raced at the lock or slower than it.
THEOREM TokensArePresentedOnce == Spec => []PresentedOnce
<1>1. Init => OneExchange
  BY SessionAssumption DEF Init, OneExchange, SpentIsMinted, ExchangeHasLock,
     TokensAreUnspent, PresentedIsRotated, Spent
<1>2. OneExchange => PresentedOnce
  BY DEF OneExchange, PresentedIsRotated, PresentedOnce
<1> QED
  BY <1>1, <1>2, OneExchangeStep, SessionTypes, PTL DEF Spec

-----------------------------------------------------------------------------
(***************************************************************************)
(* Nobody is signed out of a login the server honours.  A request signs    *)
(* its user out after a second 401, with the exchange it shares, or after  *)
(* waiting for another tab's; each time the login of its token was over,   *)
(* or the login in storage is another one.                                 *)
(***************************************************************************)
Waits(r) == pc[r] \in {"waiting", "overdue"}

\* What anybody carries was handed out, and a login is named by its first pair.
CarriedIsMinted ==
    /\ \A t \in Tabs : view[t] <= minted
    /\ \A r \in Requests :
           /\ tok[r] <= minted /\ original[r] <= minted
           /\ pc[r] \notin Over \cup {"new"} => tok[r] # 0
    /\ \A n \in stale : n <= minted
    /\ \A n \in Pairs : login[n] <= n

\* The request that began an exchange is there until it ends.
ExchangeIsAwaited ==
    \A t \in Tabs : exch[t] # "none" => \E r \in Mine(t) : pc[r] = "joined"

\* A token that is sent again was fresh when it came.
SecondTokenIsFresh ==
    /\ \A t \in Tabs : exch[t] = "granted" => got[t] \notin stale
    /\ \A r \in Requests :
           /\ Waits(r) /\ stored \notin {0, original[r]} => stored \notin stale
           /\ pc[r] = "again" => tok[r] \notin stale

\* Why the server answered 401.
DenialHasCause ==
    \A r \in Requests \ Guarded :
        /\ pc[r] \in {"denied", "joined", "waiting", "overdue"} =>
               tok[r] \in stale \/ login[tok[r]] \in ended
        /\ pc[r] = "refused" => login[tok[r]] \in ended

\* A stamp is its exchange's, and who waits finds it there.
StampIsLive ==
    /\ ~expired
    /\ lock # NoTab => exch[lock] # "none"
    /\ \A r \in Requests : pc[r] = "waiting" => lock # NoTab

\* The pair an exchange brings was in nobody's storage.
GrantIsNew ==
    \A t \in Tabs : exch[t] = "granted" =>
        /\ stored # got[t]
        /\ \A r \in Requests : Waits(r) => original[r] # got[t]

\* While an exchange is on, a stale token's login is its own or not stored.
ExchangeIsOfTheLogin ==
    \A t \in Tabs : exch[t] # "none" /\ stored # 0 =>
        \A n \in stale : login[n] = login[stored] => login[n] = login[using[t]]

RefusalHasCause == \A t \in Tabs : exch[t] = "refused" => login[using[t]] \in ended

\* Who waited in vain waited for an exchange that was refused.
VainWaitHasCause ==
    \A r \in Requests \ Guarded :
        pc[r] = "overdue" /\ stored # 0 /\ stored = original[r] /\ login[stored] = login[tok[r]]
            => login[stored] \in ended

HonestInv ==
    /\ CarriedIsMinted /\ ExchangeIsAwaited /\ SecondTokenIsFresh /\ DenialHasCause
    /\ lapses = 0 => StampIsLive /\ GrantIsNew /\ ExchangeIsOfTheLogin
                       /\ RefusalHasCause /\ VainWaitHasCause

\* What the leaves below need of the types.
LEMMA SessionFacts ==
    ASSUME TypeOK, OneExchange, HonestInv
    PROVE  /\ minted \in Nat /\ MaxPairs \in Nat /\ lapses \in Nat /\ stored \in 0..MaxPairs
           /\ exch \in [Tabs -> {"none", "posting", "granted", "refused"}]
           /\ using \in [Tabs -> 0..MaxPairs] /\ got \in [Tabs -> 0..MaxPairs]
           /\ view \in [Tabs -> 0..MaxPairs] /\ Of \in [Requests -> Tabs]
           /\ pc \in [Requests -> Pcs] /\ tok \in [Requests -> 0..MaxPairs]
           /\ original \in [Requests -> 0..MaxPairs] /\ login \in [Pairs -> Pairs]
           /\ stale \subseteq Pairs /\ ended \subseteq Pairs
           /\ \A n \in 0..MaxPairs : n # 0 => n \in Pairs
           /\ \A n \in Pairs : n \in 1..MaxPairs /\ n \in Nat
           /\ \A t \in Tabs : exch[t] # "none" => using[t] \in Pairs
           /\ \A t \in Tabs : exch[t] = "granted" => got[t] \in Pairs
           /\ stored <= minted /\ \A t \in Tabs : using[t] <= minted /\ got[t] <= minted
<1>1. minted \in Nat /\ MaxPairs \in Nat /\ \A n \in Pairs : n \in 1..MaxPairs /\ n \in Nat
  BY SessionAssumption DEF TypeOK, ServerTypes, Pairs
<1>2. \A n \in 0..MaxPairs : n # 0 => n \in Pairs
  BY SessionAssumption DEF Pairs
<1>3. pc \in [Requests -> Pcs]
  BY OverdueTypes DEF TypeOK
<1> QED
  BY <1>1, <1>2, <1>3, SessionAssumption DEF TypeOK, StorageTypes, TabTypes, RequestTypes,
     ServerTypes, OneExchange, SpentIsMinted

LEMMA NobodyAwaitsStaleness ==
    ASSUME TypeOK, HonestInv, NEW n, Expires(n)
    PROVE  \A t \in Tabs : exch[t] = "none"
BY DEF HonestInv, ExchangeIsAwaited, Mine, Expires, Over

\* Some requests end, some tokens are forgotten, and that is all.
LEMMA HonestQuits ==
    ASSUME TypeOK, OneExchange, HonestInv,
           \A q \in Requests : pc'[q] = pc[q] \/ (pc[q] # "joined" /\ pc'[q] \in Over),
           stored' \in {stored, 0}, \A t \in Tabs : view'[t] \in {view[t], 0},
           UNCHANGED <<tok, original, lock, expired, exch, using, got, server, lapses>>
    PROVE  HonestInv'
<1>1. CarriedIsMinted'
  BY SessionFacts DEF HonestInv, CarriedIsMinted, Over
<1>2. ExchangeIsAwaited'
  BY DEF HonestInv, ExchangeIsAwaited, Mine
<1>3. SecondTokenIsFresh'
  BY DEF HonestInv, SecondTokenIsFresh, Waits, Over
<1>4. DenialHasCause'
  BY DEF HonestInv, DenialHasCause, Over
<1>5. ASSUME lapses' = 0
      PROVE  StampIsLive' /\ RefusalHasCause' /\ VainWaitHasCause'
  BY <1>5 DEF HonestInv, StampIsLive, RefusalHasCause, VainWaitHasCause, Over
<1>6. ASSUME lapses' = 0 PROVE GrantIsNew'
  <2>1. \A t \in Tabs : exch[t] = "granted" => got[t] # 0
    BY DEF TypeOK, TabTypes
  <2>2. \A q \in Requests : Waits(q)' => Waits(q)
    BY DEF Waits, Over
  <2> QED
    BY <1>6, <2>1, <2>2 DEF HonestInv, GrantIsNew
<1>7. ASSUME lapses' = 0 PROVE ExchangeIsOfTheLogin'
  BY <1>7 DEF HonestInv, ExchangeIsOfTheLogin
<1> QED
  BY <1>1, <1>2, <1>3, <1>4, <1>5, <1>6, <1>7 DEF HonestInv

\* A request moves on; nothing else does.
LEMMA HonestRequest ==
    ASSUME TypeOK, OneExchange, HonestInv, NEW r \in Requests,
           Send(r) \/ Answer(r) \/ Joins(r) \/ WaitsForTab(r) \/ TokenChanged(r)
    PROVE  HonestInv'
<1>0. /\ \A q \in Requests \ {r} :
             pc'[q] = pc[q] /\ tok'[q] = tok[q] /\ original'[q] = original[q]
      /\ pc[r] # "joined" /\ UNCHANGED <<storage, tab, server, bounds>>
      /\ \/ pc[r] = "new" /\ pc'[r] = "sent" /\ tok'[r] = view[Of[r]] /\ tok'[r] # 0
            /\ original'[r] = original[r]
         \/ pc'[r] = "over" /\ tok'[r] = tok[r] /\ original'[r] = original[r]
         \/ pc[r] = "sent" /\ pc'[r] = "denied" /\ Denied(r)
            /\ tok'[r] = tok[r] /\ original'[r] = original[r]
         \/ pc[r] = "again" /\ pc'[r] = "refused" /\ Denied(r)
            /\ tok'[r] = tok[r] /\ original'[r] = original[r]
         \/ pc[r] = "denied" /\ pc'[r] = "joined"
            /\ tok'[r] = tok[r] /\ original'[r] = original[r]
         \/ pc[r] = "denied" /\ pc'[r] = "waiting" /\ lock # NoTab
            /\ tok'[r] = tok[r] /\ original'[r] = stored
         \/ Waits(r) /\ pc'[r] = "again" /\ stored \notin {0, original[r]}
            /\ tok'[r] = stored /\ original'[r] = 0
  BY SessionFacts DEF Send, Answer, Joins, WaitsForTab, TokenChanged, LockIsFree, Waits
<1>1. CarriedIsMinted'
  BY <1>0, SessionFacts DEF HonestInv, CarriedIsMinted, Over, Waits
<1>2. ExchangeIsAwaited'
  BY <1>0 DEF HonestInv, ExchangeIsAwaited, Mine
<1>3. SecondTokenIsFresh'
  BY <1>0 DEF HonestInv, SecondTokenIsFresh, Waits
<1>4. DenialHasCause'
  <2>1. ASSUME NEW q \in Requests \ Guarded
        PROVE  /\ pc'[q] \in {"denied", "joined", "waiting", "overdue"} =>
                      tok'[q] \in stale' \/ login'[tok'[q]] \in ended'
               /\ pc'[q] = "refused" => login'[tok'[q]] \in ended'
    <3>1. CASE q # r
      BY <1>0, <3>1 DEF HonestInv, DenialHasCause
    <3>2. CASE q = r
      BY <1>0, <3>2 DEF HonestInv, DenialHasCause, SecondTokenIsFresh, Denied, Waits
    <3> QED
      BY <3>1, <3>2
  <2> QED
    BY <2>1 DEF DenialHasCause
<1>5. ASSUME lapses' = 0
      PROVE  StampIsLive' /\ RefusalHasCause' /\ VainWaitHasCause'
  BY <1>0, <1>5 DEF HonestInv, StampIsLive, RefusalHasCause, VainWaitHasCause, Waits
<1>6. ASSUME lapses' = 0 PROVE GrantIsNew' /\ ExchangeIsOfTheLogin'
  BY <1>0, <1>6, SessionFacts DEF HonestInv, GrantIsNew, ExchangeIsOfTheLogin, Waits
<1> QED
  BY <1>1, <1>2, <1>3, <1>4, <1>5, <1>6 DEF HonestInv

LEMMA HonestExchanges ==
    ASSUME TypeOK, OneExchange, HonestInv, NEW r \in Requests, Exchanges(r)
    PROVE  HonestInv'
<1>0. /\ pc[r] = "denied" /\ exch[Of[r]] = "none" /\ stored # 0
      /\ lock' = Of[r] /\ expired' = FALSE /\ Of[r] \in Tabs
      /\ exch' = [exch EXCEPT ![Of[r]] = "posting"]
      /\ using' = [using EXCEPT ![Of[r]] = stored]
      /\ pc'[r] = "joined"
      /\ \A q \in Requests \ {r} :
             pc'[q] = pc[q] \/ (pc[q] = "waiting" /\ pc'[q] = "overdue")
      /\ UNCHANGED <<stored, view, leaving, got, tok, original, server, moves>>
  BY SessionFacts DEF Exchanges, Overdue
<1>1. CarriedIsMinted'
  BY <1>0, SessionFacts DEF HonestInv, CarriedIsMinted, Over
<1>2. ExchangeIsAwaited'
  BY <1>0, SessionFacts DEF HonestInv, ExchangeIsAwaited, Mine
<1>3. SecondTokenIsFresh'
  BY <1>0, SessionFacts DEF HonestInv, SecondTokenIsFresh, Waits
<1>4. DenialHasCause'
  BY <1>0 DEF HonestInv, DenialHasCause
<1>5. ASSUME lapses' = 0
      PROVE  StampIsLive' /\ GrantIsNew' /\ ExchangeIsOfTheLogin' /\ RefusalHasCause'
             /\ VainWaitHasCause'
  <2>1. lapses = 0 /\ LockIsFree
    BY <1>5, SessionFacts DEF Exchanges, MayTake, Lapse
  <2>2. lock = NoTab /\ \A q \in Requests : pc[q] # "waiting"
    BY <2>1 DEF HonestInv, StampIsLive, LockIsFree
  <2>3. \A t \in Tabs : exch[t] = "none"
    BY <2>1, <2>2, SessionAssumption DEF OneExchange, ExchangeHasLock
  <2>4. \A q \in Requests \ {r} : pc'[q] = pc[q]
    BY <1>0, <2>2
  <2>5. StampIsLive' /\ GrantIsNew' /\ RefusalHasCause'
    BY <1>0, <2>2, <2>3, <2>4, SessionFacts DEF StampIsLive, GrantIsNew, RefusalHasCause
  <2>6. ExchangeIsOfTheLogin'
    BY <1>0, <2>3, SessionFacts DEF ExchangeIsOfTheLogin
  <2>7. VainWaitHasCause'
    BY <1>0, <2>1, <2>4 DEF HonestInv, VainWaitHasCause
  <2> QED
    BY <2>5, <2>6, <2>7
<1> QED
  BY <1>1, <1>2, <1>3, <1>4, <1>5 DEF HonestInv

LEMMA HonestRotates ==
    ASSUME TypeOK, OneExchange, HonestInv, NEW t \in Tabs, Rotates(t)
    PROVE  HonestInv'
<1> DEFINE u == using[t]
<1>0. /\ exch[t] = "posting" /\ login[u] \notin ended /\ minted' = minted + 1
      /\ login' = [login EXCEPT ![minted + 1] = login[u]]
      /\ exch' = [exch EXCEPT ![t] = "granted"] /\ got' = [got EXCEPT ![t] = minted + 1]
      /\ minted + 1 \in Pairs /\ u \in Pairs /\ u <= minted
      /\ UNCHANGED <<ended, stale, storage, view, leaving, using, request, bounds>>
  BY SessionFacts DEF Rotates
<1>1. \A n \in 1..MaxPairs : n <= minted => login'[n] = login[n]
  BY <1>0, SessionFacts
<1>2. \A r \in Requests : tok[r] <= minted /\ original[r] <= minted
                          /\ (pc[r] \notin Over \cup {"new"} => tok[r] \in 1..MaxPairs)
  BY SessionFacts DEF HonestInv, CarriedIsMinted
<1>3. \A n \in stale : n \in 1..MaxPairs /\ n <= minted
  BY SessionFacts DEF HonestInv, CarriedIsMinted
<1>4. CarriedIsMinted'
  <2>1. \A n \in Pairs : login'[n] <= n
    BY <1>0, SessionFacts DEF HonestInv, CarriedIsMinted
  <2> QED
    BY <1>0, <2>1, SessionFacts DEF HonestInv, CarriedIsMinted, Over
<1>5. ExchangeIsAwaited'
  BY <1>0, SessionFacts DEF HonestInv, ExchangeIsAwaited, Mine
<1>6. SecondTokenIsFresh'
  <2>1. minted + 1 \notin stale
    BY <1>3, SessionFacts
  <2> QED
    BY <1>0, <2>1, SessionFacts DEF HonestInv, SecondTokenIsFresh, Waits
<1>7. DenialHasCause'
  BY <1>0, <1>1, <1>2 DEF HonestInv, DenialHasCause, Over
<1>8. ASSUME lapses' = 0
      PROVE  StampIsLive' /\ GrantIsNew' /\ ExchangeIsOfTheLogin' /\ RefusalHasCause'
             /\ VainWaitHasCause'
  <2>1. \A v \in Tabs \ {t} : exch[v] = "none"
    BY <1>0, <1>8, ExchangesAlone DEF OneExchange
  <2>2. StampIsLive'
    BY <1>0, <1>8, SessionFacts DEF HonestInv, StampIsLive
  <2>3. GrantIsNew'
    BY <1>0, <1>2, <2>1, SessionFacts DEF GrantIsNew
  <2>4. RefusalHasCause'
    BY <1>0, <2>1, SessionFacts DEF RefusalHasCause
  <2>5. ExchangeIsOfTheLogin'
    <3>1. stored # 0 => stored \in 1..MaxPairs /\ stored <= minted
      BY SessionFacts
    <3>2. u \in 1..MaxPairs
      BY <1>0, SessionFacts
    <3> QED
      BY <1>0, <1>1, <1>3, <1>8, <2>1, <3>1, <3>2, SessionFacts DEF HonestInv, ExchangeIsOfTheLogin
  <2>6. VainWaitHasCause'
    <3>1. stored # 0 => stored \in 1..MaxPairs /\ stored <= minted
      BY SessionFacts
    <3> QED
      BY <1>0, <1>1, <1>2, <1>8, <3>1 DEF HonestInv, VainWaitHasCause, Over
  <2> QED
    BY <2>2, <2>3, <2>4, <2>5, <2>6
<1> QED
  BY <1>4, <1>5, <1>6, <1>7, <1>8 DEF HonestInv

LEMMA HonestRefuses ==
    ASSUME TypeOK, OneExchange, HonestInv, NEW t \in Tabs, Refuses(t) \/ ExchangeLost(t)
    PROVE  HonestInv'
<1>0. /\ exch[t] \in {"posting", "granted"} /\ exch' = [exch EXCEPT ![t] = "refused"]
      /\ ended \subseteq ended'
      /\ UNCHANGED <<minted, login, stale, storage, view, leaving, using, got, request, moves>>
      /\ lapses' = 0 => lapses = 0 /\ Refuses(t)
  BY SessionFacts DEF Refuses, ExchangeLost, Lapse
<1>1. CarriedIsMinted'
  BY <1>0 DEF HonestInv, CarriedIsMinted
<1>2. ExchangeIsAwaited'
  BY <1>0, SessionFacts DEF HonestInv, ExchangeIsAwaited, Mine
<1>3. SecondTokenIsFresh' /\ DenialHasCause'
  BY <1>0, SessionFacts DEF HonestInv, SecondTokenIsFresh, DenialHasCause, Waits
<1>4. ASSUME lapses' = 0
      PROVE  StampIsLive' /\ GrantIsNew' /\ ExchangeIsOfTheLogin' /\ RefusalHasCause'
             /\ VainWaitHasCause'
  <2>1. login[using[t]] \in ended
    BY <1>0, <1>4 DEF Refuses, OneExchange, TokensAreUnspent, Spent
  <2>2. StampIsLive' /\ GrantIsNew' /\ ExchangeIsOfTheLogin' /\ VainWaitHasCause'
    BY <1>0, <1>4, SessionFacts DEF HonestInv, StampIsLive, GrantIsNew, ExchangeIsOfTheLogin,
       VainWaitHasCause, Waits
  <2>3. RefusalHasCause'
    BY <1>0, <1>4, <2>1, SessionFacts DEF HonestInv, RefusalHasCause
  <2> QED
    BY <2>2, <2>3
<1> QED
  BY <1>1, <1>2, <1>3, <1>4 DEF HonestInv

LEMMA HonestEnds ==
    ASSUME TypeOK, OneExchange, HonestInv, NEW t \in Tabs, ExchangeEnds(t)
    PROVE  HonestInv'
<1>0. /\ exch[t] = "granted" /\ stored' = got[t] /\ view' = [view EXCEPT ![t] = got[t]]
      /\ \A q \in Requests :
             IF q \in Mine(t) /\ pc[q] = "joined"
             THEN pc'[q] = "again" /\ tok'[q] = got[t]
             ELSE /\ tok'[q] = tok[q]
                  /\ pc'[q] = IF pc[q] = "waiting" THEN "overdue" ELSE pc[q]
      /\ exch' = [exch EXCEPT ![t] = "none"] /\ lock' = NoTab /\ expired' = FALSE
      /\ using' = [using EXCEPT ![t] = 0] /\ got' = [got EXCEPT ![t] = 0]
      /\ UNCHANGED <<leaving, original, server, bounds>>
  BY DEF ExchangeEnds, setSessionTokens, releaseRefreshLock, Forgotten, Overdue
<1>1. got[t] \in Pairs /\ got[t] # 0 /\ got[t] <= minted /\ got[t] \notin stale
  BY <1>0, SessionFacts DEF HonestInv, SecondTokenIsFresh, TypeOK, TabTypes
<1>2. CarriedIsMinted'
  <2>1. \A v \in Tabs : view'[v] <= minted
    BY <1>0, <1>1, SessionFacts DEF HonestInv, CarriedIsMinted
  <2>2. \A q \in Requests : tok'[q] <= minted /\ (pc'[q] \notin Over \cup {"new"} => tok'[q] # 0)
    BY <1>0, <1>1 DEF HonestInv, CarriedIsMinted, Over
  <2> QED
    BY <1>0, <2>1, <2>2 DEF HonestInv, CarriedIsMinted
<1>3. ExchangeIsAwaited'
  BY <1>0, SessionFacts DEF HonestInv, ExchangeIsAwaited, Mine
<1>4. SecondTokenIsFresh'
  <2>1. \A v \in Tabs : exch'[v] = "granted" => got'[v] \notin stale'
    BY <1>0, SessionFacts DEF HonestInv, SecondTokenIsFresh
  <2>2. \A q \in Requests : pc'[q] = "again" => tok'[q] \notin stale'
    BY <1>0, <1>1 DEF HonestInv, SecondTokenIsFresh
  <2> QED
    BY <1>0, <1>1, <2>1, <2>2 DEF SecondTokenIsFresh
<1>5. DenialHasCause'
  BY <1>0 DEF HonestInv, DenialHasCause
<1>6. ASSUME lapses' = 0
      PROVE  StampIsLive' /\ GrantIsNew' /\ ExchangeIsOfTheLogin' /\ RefusalHasCause'
             /\ VainWaitHasCause'
  <2>1. \A v \in Tabs : exch'[v] = "none"
    BY <1>0, <1>6, ExchangesAlone, SessionFacts DEF OneExchange
  <2>2. StampIsLive'
    BY <1>0 DEF StampIsLive
  <2>3. VainWaitHasCause'
    <3>1. \A q \in Requests : pc'[q] = "overdue" => Waits(q)
      BY <1>0 DEF Waits
    <3>2. \A q \in Requests : pc'[q] = "overdue" => original'[q] # stored'
      BY <1>0, <1>6, <3>1 DEF HonestInv, GrantIsNew
    <3> QED
      BY <3>2 DEF VainWaitHasCause
  <2> QED
    BY <2>1, <2>2, <2>3 DEF GrantIsNew, ExchangeIsOfTheLogin, RefusalHasCause
<1> QED
  BY <1>2, <1>3, <1>4, <1>5, <1>6 DEF HonestInv

LEMMA HonestFails ==
    ASSUME TypeOK, OneExchange, HonestInv, NEW t \in Tabs, ExchangeFails(t)
    PROVE  HonestInv'
<1>0. /\ exch[t] = "refused" /\ stored' \in {stored, 0}
      /\ \A v \in Tabs : view'[v] \in {view[v], 0}
      /\ \A q \in Requests :
             IF q \in Mine(t) /\ pc[q] = "joined"
             THEN pc'[q] \in Over
             ELSE pc'[q] = IF pc[q] = "waiting" THEN "overdue" ELSE pc[q]
      /\ exch' = [exch EXCEPT ![t] = "none"] /\ lock' = NoTab /\ expired' = FALSE
      /\ using' = [using EXCEPT ![t] = 0] /\ got' = [got EXCEPT ![t] = 0]
      /\ UNCHANGED <<tok, original, server, bounds>>
  BY SessionFacts DEF ExchangeFails, GivesUp, clearSessionTokens, setSessionTokens,
     releaseRefreshLock, Forgotten, Overdue, Over
<1>1. CarriedIsMinted'
  BY <1>0, SessionFacts DEF HonestInv, CarriedIsMinted, Over
<1>2. ExchangeIsAwaited'
  BY <1>0, SessionFacts DEF HonestInv, ExchangeIsAwaited, Mine
<1>3. SecondTokenIsFresh'
  BY <1>0, SessionFacts DEF HonestInv, SecondTokenIsFresh, Waits, Over
<1>4. DenialHasCause'
  BY <1>0 DEF HonestInv, DenialHasCause, Over
<1>5. ASSUME lapses' = 0
      PROVE  StampIsLive' /\ GrantIsNew' /\ ExchangeIsOfTheLogin' /\ RefusalHasCause'
             /\ VainWaitHasCause'
  <2>1. \A v \in Tabs : exch'[v] = "none"
    BY <1>0, <1>5, ExchangesAlone, SessionFacts DEF OneExchange
  <2>2. StampIsLive'
    BY <1>0 DEF StampIsLive, Over
  <2>3. VainWaitHasCause'
    <3>1. ASSUME NEW q \in Requests \ Guarded, pc'[q] = "overdue", stored' # 0,
                 stored' = original'[q], login'[stored'] = login'[tok'[q]]
          PROVE  login'[stored'] \in ended'
      <4>1. Waits(q) /\ stored' = stored
        BY <1>0, <3>1 DEF Waits, Over
      <4>2. tok[q] \in stale \/ login[tok[q]] \in ended
        BY <4>1 DEF HonestInv, DenialHasCause, Waits
      <4>3. tok[q] \in stale => login[tok[q]] = login[using[t]]
        BY <1>0, <1>5, <3>1, <4>1 DEF HonestInv, ExchangeIsOfTheLogin
      <4>4. login[using[t]] \in ended
        BY <1>0, <1>5 DEF HonestInv, RefusalHasCause
      <4> QED
        BY <1>0, <3>1, <4>1, <4>2, <4>3, <4>4
    <3> QED
      BY <3>1 DEF VainWaitHasCause
  <2> QED
    BY <2>1, <2>2, <2>3 DEF GrantIsNew, ExchangeIsOfTheLogin, RefusalHasCause
<1> QED
  BY <1>1, <1>2, <1>3, <1>4, <1>5 DEF HonestInv

LEMMA HonestLockExpires ==
    ASSUME TypeOK, OneExchange, HonestInv, LockExpires
    PROVE  HonestInv'
<1>0. /\ lock # NoTab
      /\ \A q \in Requests : pc'[q] = IF pc[q] = "waiting" THEN "overdue" ELSE pc[q]
      /\ lapses' = 0 => lapses = 0 /\ exch[lock] = "none"
      /\ UNCHANGED <<stored, lock, tok, original, tab, server, moves>>
  BY SessionFacts DEF LockExpires, Lapse, Overdue
<1>1. lapses' # 0
  BY <1>0 DEF HonestInv, StampIsLive
<1>2. CarriedIsMinted' /\ ExchangeIsAwaited'
  BY <1>0 DEF HonestInv, CarriedIsMinted, ExchangeIsAwaited, Mine, Over
<1>3. SecondTokenIsFresh' /\ DenialHasCause'
  BY <1>0 DEF HonestInv, SecondTokenIsFresh, DenialHasCause, Waits
<1> QED
  BY <1>1, <1>2, <1>3 DEF HonestInv

LEMMA HonestGone ==
    ASSUME TypeOK, OneExchange, HonestInv, NEW t \in Tabs, Unloads(t) \/ Reloads(t)
    PROVE  HonestInv'
<1>0. /\ \A q \in Requests :
             IF q \in Mine(t) /\ pc[q] \notin Over \cup {"new"}
             THEN pc'[q] = "over" ELSE pc'[q] = pc[q]
      /\ exch' = [exch EXCEPT ![t] = "none"] /\ view' = [view EXCEPT ![t] = stored]
      /\ using' = [using EXCEPT ![t] = 0] /\ got' = [got EXCEPT ![t] = 0]
      /\ UNCHANGED <<tok, original, storage, server>>
      /\ lapses' = 0 => lapses = 0 /\ exch[t] = "none"
  BY SessionFacts DEF Unloads, Reloads, Gone, Forgotten, Lapse
<1>1. CarriedIsMinted'
  BY <1>0, SessionFacts DEF HonestInv, CarriedIsMinted, Over
<1>2. ExchangeIsAwaited'
  BY <1>0, SessionFacts DEF HonestInv, ExchangeIsAwaited, Mine, Over
<1>3. SecondTokenIsFresh'
  BY <1>0, SessionFacts DEF HonestInv, SecondTokenIsFresh, Waits
<1>4. DenialHasCause'
  BY <1>0 DEF HonestInv, DenialHasCause
<1>5. ASSUME lapses' = 0
      PROVE  StampIsLive' /\ GrantIsNew' /\ ExchangeIsOfTheLogin' /\ RefusalHasCause'
             /\ VainWaitHasCause'
  <2>1. exch' = exch /\ \A v \in Tabs : exch[v] # "none" => using'[v] = using[v] /\ got'[v] = got[v]
    BY <1>0, <1>5, SessionFacts
  <2>2. \A q \in Requests : (pc'[q] = "waiting" => pc[q] = "waiting")
                            /\ (pc'[q] = "overdue" => pc[q] = "overdue")
    BY <1>0
  <2>3. StampIsLive' /\ GrantIsNew' /\ VainWaitHasCause'
    BY <1>0, <1>5, <2>1, <2>2 DEF HonestInv, StampIsLive, GrantIsNew, VainWaitHasCause, Waits
  <2>4. ExchangeIsOfTheLogin' /\ RefusalHasCause'
    BY <1>0, <1>5, <2>1 DEF HonestInv, ExchangeIsOfTheLogin, RefusalHasCause
  <2> QED
    BY <2>3, <2>4
<1> QED
  BY <1>1, <1>2, <1>3, <1>4, <1>5 DEF HonestInv

LEMMA HonestSignsIn ==
    ASSUME TypeOK, OneExchange, HonestInv, NEW t \in Tabs, SignsIn(t)
    PROVE  HonestInv'
<1>0. /\ minted' = minted + 1 /\ login' = [login EXCEPT ![minted + 1] = minted + 1]
      /\ stored' = minted + 1 /\ view' = [view EXCEPT ![t] = minted + 1]
      /\ minted + 1 \in Pairs
      /\ UNCHANGED <<lock, expired, leaving, exch, using, got, request, rotated,
                     ended, stale, presented, lapses>>
  BY OneMorePair DEF SignsIn, setSessionTokens, TypeOK
<1>1. \A n \in 1..MaxPairs : n <= minted => login'[n] = login[n]
  BY <1>0, SessionFacts
<1>2. \A r \in Requests : tok[r] <= minted /\ original[r] <= minted
                          /\ (pc[r] \notin Over \cup {"new"} => tok[r] \in 1..MaxPairs)
  BY SessionFacts DEF HonestInv, CarriedIsMinted
<1>3. \A n \in stale : n \in 1..MaxPairs /\ n <= minted
  BY SessionFacts DEF HonestInv, CarriedIsMinted
<1>4. \A n \in Pairs : login'[n] <= n
  BY <1>0, SessionFacts DEF HonestInv, CarriedIsMinted
<1>5. CarriedIsMinted'
  BY <1>0, <1>4, SessionFacts DEF HonestInv, CarriedIsMinted, Over
<1>6. ExchangeIsAwaited'
  BY <1>0 DEF HonestInv, ExchangeIsAwaited, Mine
<1>7. SecondTokenIsFresh'
  <2>1. minted + 1 \notin stale
    BY <1>3, SessionFacts
  <2> QED
    BY <1>0, <2>1 DEF HonestInv, SecondTokenIsFresh, Waits
<1>8. DenialHasCause'
  BY <1>0, <1>1, <1>2 DEF HonestInv, DenialHasCause, Over
<1>9. ASSUME lapses' = 0
      PROVE  StampIsLive' /\ GrantIsNew' /\ ExchangeIsOfTheLogin' /\ RefusalHasCause'
             /\ VainWaitHasCause'
  <2>1. StampIsLive'
    BY <1>0, <1>9 DEF HonestInv, StampIsLive
  <2>2. GrantIsNew'
    BY <1>0, <1>9, SessionFacts DEF HonestInv, GrantIsNew, Waits
  <2>3. ExchangeIsOfTheLogin'
    <3>1. \A n \in stale : login'[n] <= minted
      BY <1>1, <1>3, SessionFacts DEF HonestInv, CarriedIsMinted
    <3>2. login'[stored'] = minted + 1
      BY <1>0, SessionFacts
    <3> QED
      BY <1>0, <1>3, <3>1, <3>2, SessionFacts DEF ExchangeIsOfTheLogin
  <2>4. RefusalHasCause'
    <3>1. \A v \in Tabs : exch[v] # "none" => using[v] \in 1..MaxPairs /\ using[v] <= minted
      BY SessionFacts
    <3> QED
      BY <1>0, <1>1, <1>9, <3>1 DEF HonestInv, RefusalHasCause
  <2>5. VainWaitHasCause'
    BY <1>0, <1>2, SessionFacts DEF VainWaitHasCause
  <2> QED
    BY <2>1, <2>2, <2>3, <2>4, <2>5
<1> QED
  BY <1>5, <1>6, <1>7, <1>8, <1>9 DEF HonestInv

\* An access token expires, or the server ends a login.
LEMMA HonestServer ==
    ASSUME TypeOK, OneExchange, HonestInv, NEW n \in Pairs, Expires(n) \/ Ends(n)
    PROVE  HonestInv'
<1>0. /\ stale \subseteq stale' /\ ended \subseteq ended'
      /\ UNCHANGED <<minted, login, storage, tab, request, lapses>>
  BY DEF Expires, Ends
<1>1. CarriedIsMinted'
  BY SessionFacts DEF HonestInv, CarriedIsMinted, Expires, Ends
<1>2. ExchangeIsAwaited' /\ DenialHasCause'
  BY <1>0 DEF HonestInv, ExchangeIsAwaited, Mine, DenialHasCause
<1>3. CASE Expires(n)
  <2>1. \A t \in Tabs : exch[t] = "none"
    BY <1>3, NobodyAwaitsStaleness
  <2>2. \A r \in Requests : ~Waits(r) /\ pc[r] # "again"
    BY <1>3 DEF Expires, Waits, Over
  <2>3. SecondTokenIsFresh'
    BY <1>0, <2>1, <2>2 DEF SecondTokenIsFresh, Waits
  <2>4. lapses' = 0 => StampIsLive' /\ GrantIsNew' /\ ExchangeIsOfTheLogin' /\ RefusalHasCause'
                       /\ VainWaitHasCause'
    BY <1>0, <2>1, <2>2 DEF HonestInv, StampIsLive, GrantIsNew, ExchangeIsOfTheLogin,
       RefusalHasCause, VainWaitHasCause, Waits
  <2> QED
    BY <1>1, <1>2, <2>3, <2>4 DEF HonestInv
<1>4. CASE Ends(n)
  <2>1. stale' = stale
    BY <1>4 DEF Ends
  <2>2. SecondTokenIsFresh'
    BY <1>0, <2>1 DEF HonestInv, SecondTokenIsFresh, Waits
  <2>3. lapses' = 0 => StampIsLive' /\ GrantIsNew' /\ ExchangeIsOfTheLogin' /\ RefusalHasCause'
                       /\ VainWaitHasCause'
    BY <1>0, <2>1 DEF HonestInv, StampIsLive, GrantIsNew, ExchangeIsOfTheLogin,
       RefusalHasCause, VainWaitHasCause, Waits
  <2> QED
    BY <1>1, <1>2, <2>2, <2>3 DEF HonestInv
<1> QED
  BY <1>3, <1>4

LEMMA HonestStep ==
    ASSUME TypeOK, OneExchange, HonestInv, [Next]_vars
    PROVE  HonestInv'
<1>1. ASSUME NEW r \in Requests, TimesOut(r) \/ RefusedTwice(r) \/ NothingToExchange(r) \/ WaitsInVain(r)
      PROVE  HonestInv'
  <2>1. /\ \A q \in Requests : pc'[q] = pc[q] \/ (pc[q] # "joined" /\ pc'[q] \in Over)
        /\ stored' \in {stored, 0} /\ \A t \in Tabs : view'[t] \in {view[t], 0}
        /\ UNCHANGED <<tok, original, lock, expired, exch, using, got, server, lapses>>
    BY <1>1, SessionFacts DEF TimesOut, RefusedTwice, NothingToExchange, WaitsInVain, GivesUp,
       clearSessionTokens, setSessionTokens, Over
  <2> QED
    BY <2>1, HonestQuits
<1>2. ASSUME NEW t \in Tabs, SignsOut(t) PROVE HonestInv'
  <2>1. /\ stored' \in {stored, 0} /\ \A v \in Tabs : view'[v] \in {view[v], 0}
        /\ UNCHANGED <<request, lock, expired, exch, using, got, server, lapses>>
    BY <1>2, SessionFacts DEF SignsOut, clearSessionTokens, setSessionTokens
  <2> QED
    BY <2>1, HonestQuits
<1>3. CASE UNCHANGED vars
  BY <1>3, HonestQuits
<1> QED
  BY <1>1, <1>2, <1>3, HonestRequest, HonestExchanges, HonestRotates, HonestRefuses, HonestEnds,
     HonestFails, HonestLockExpires, HonestGone, HonestSignsIn, HonestServer
     DEF Next, Progress, Exchange

\* The step that signs its user out.
LEMMA LogoutHasCause ==
    ASSUME TypeOK, OneExchange, HonestInv, [Next]_vars, NEW r \in Requests,
           pc[r] # "out", pc'[r] = "out", stored # 0, lapses = 0, login[stored] = login[tok[r]]
    PROVE  login[stored] \in ended
<1>0. \A q \in Requests : pc[q] # "out" => Overdue(pc)[q] # "out"
  BY DEF Overdue
<1>1. ASSUME NEW q \in Requests, RefusedTwice(q) \/ NothingToExchange(q) \/ WaitsInVain(q)
      PROVE  login[stored] \in ended
  <2>1. q = r /\ r \notin Guarded
    BY <1>1 DEF RefusedTwice, NothingToExchange, WaitsInVain, GivesUp
  <2> QED
    BY <1>1, <2>1 DEF RefusedTwice, NothingToExchange, WaitsInVain, HonestInv, DenialHasCause,
       VainWaitHasCause
<1>2. ASSUME NEW t \in Tabs, ExchangeFails(t) PROVE login[stored] \in ended
  <2>1. exch[t] = "refused" /\ pc[r] = "joined" /\ r \notin Guarded
    BY <1>0, <1>2 DEF ExchangeFails, GivesUp
  <2>2. tok[r] \in stale \/ login[tok[r]] \in ended
    BY <2>1 DEF HonestInv, DenialHasCause
  <2>3. tok[r] \in stale => login[tok[r]] = login[using[t]]
    BY <2>1 DEF HonestInv, ExchangeIsOfTheLogin
  <2>4. login[using[t]] \in ended
    BY <2>1 DEF HonestInv, RefusalHasCause
  <2> QED
    BY <2>2, <2>3, <2>4
<1>3. ASSUME NEW q \in Requests,
             Send(q) \/ Answer(q) \/ Joins(q) \/ WaitsForTab(q) \/ Exchanges(q) \/ TokenChanged(q)
             \/ TimesOut(q)
      PROVE  FALSE
  BY <1>0, <1>3, SessionFacts DEF Send, Answer, Joins, WaitsForTab, Exchanges, TokenChanged,
     TimesOut, Overdue
<1>4. ASSUME NEW t \in Tabs,
             Rotates(t) \/ Refuses(t) \/ ExchangeEnds(t) \/ ExchangeLost(t) \/ Unloads(t)
             \/ Reloads(t) \/ SignsOut(t) \/ SignsIn(t)
      PROVE  FALSE
  BY <1>0, <1>4 DEF Rotates, Refuses, ExchangeEnds, ExchangeLost, Unloads, Reloads, Gone,
     SignsOut, SignsIn
<1>5. ASSUME NEW n \in Pairs, Expires(n) \/ Ends(n) PROVE FALSE
  BY <1>5 DEF Expires, Ends
<1>6. CASE LockExpires
  BY <1>0, <1>6 DEF LockExpires
<1>7. CASE UNCHANGED vars
  BY <1>7
<1> QED
  BY <1>1, <1>2, <1>3, <1>4, <1>5, <1>6, <1>7 DEF Next, Progress, Exchange

LEMMA HonestInit == ASSUME Init PROVE HonestInv
<1>1. minted = 1 /\ stored = 1 /\ \A n \in Pairs : login[n] = 1 /\ n \in Nat /\ n >= 1
  BY SessionAssumption DEF Init, Pairs
<1>2. CarriedIsMinted
  BY <1>1 DEF Init, CarriedIsMinted, Over
<1> QED
  BY <1>2 DEF Init, HonestInv, ExchangeIsAwaited, SecondTokenIsFresh, DenialHasCause,
     StampIsLive, GrantIsNew, ExchangeIsOfTheLogin, RefusalHasCause, VainWaitHasCause, Waits

\* No forced logout takes a login the server still honours, whatever 401s, sign-ins and
\* sign-outs meet in whatever tabs, if no exchange is lost, killed, raced at the lock or slower
\* than it: neither a shared exchange, nor a wait for another tab, nor a second try.
THEOREM NobodyIsWronglySignedOut == Spec => NoFalseLogout
<1>1. Init => OneExchange
  BY SessionAssumption DEF Init, OneExchange, SpentIsMinted, ExchangeHasLock,
     TokensAreUnspent, PresentedIsRotated, Spent
<1>2. TypeOK /\ OneExchange /\ HonestInv /\ [Next]_vars =>
          [\A r \in Requests :
              pc[r] # "out" /\ pc'[r] = "out" /\ stored # 0 /\ lapses = 0
                  => (login[stored] = login[tok[r]] => login[stored] \in ended)]_vars
  BY LogoutHasCause
<1> QED
  BY <1>1, <1>2, HonestInit, HonestStep, OneExchangeStep, SessionTypes, PTL
     DEF Spec, NoFalseLogout
=============================================================================
