--------------------------- MODULE PaidRunProofs ---------------------------
(***************************************************************************)
(* Proofs about PaidRun for any number of POSTs and failures.  RunInv is   *)
(* the inductive invariant; its heart is that a run which missed the cache *)
(* holds the claim, so that nobody else fills the cache before it is over. *)
(***************************************************************************)
EXTENDS PaidRun, TLAPS

USE DEF shared, vars, Goes, Claimed, Missed

\* Every reachable state is well typed.
THEOREM RunTypes == Spec => []TypeOK
<1>1. Init => TypeOK
  BY RunNumbers DEF Init, TypeOK
<1>2. TypeOK /\ [Next]_vars => TypeOK'
  <2> SUFFICES ASSUME TypeOK, [Next]_vars PROVE TypeOK'
    OBVIOUS
  <2> USE DEF TypeOK
  <2>1. ASSUME NEW r \in Runs, ReadPaper(r) PROVE TypeOK'
    BY <2>1 DEF ReadPaper
  <2>2. ASSUME NEW r \in Runs, RunStep(r) PROVE TypeOK'
    <3>1. CASE AcquireLease(r)
      BY <3>1 DEF AcquireLease
    <3>2. CASE Refuse(r)
      BY <3>2 DEF Refuse
    <3>3. CASE ReadCache(r)
      BY <3>3 DEF ReadCache
    <3>4. CASE Preflight(r)
      BY <3>4 DEF Preflight
    <3>5. CASE Work(r)
      BY <3>5 DEF Work
    <3>6. CASE Charge(r)
      BY <3>6 DEF Charge, Debited, Covers
    <3>7. CASE ChargeRefused(r)
      BY <3>7 DEF ChargeRefused
    <3>8. CASE Save(r)
      BY <3>8 DEF Save, Saved
    <3>9. CASE ReleaseLease(r)
      BY <3>9 DEF ReleaseLease, Freed
    <3> QED
      BY <2>2, <3>1, <3>2, <3>3, <3>4, <3>5, <3>6, <3>7, <3>8, <3>9 DEF RunStep
  <2>3. ASSUME NEW r \in Runs, RunFails(r) PROVE TypeOK'
    <3>1. CASE AcquireFails(r)
      BY <3>1 DEF AcquireFails, Fault
    <3>2. CASE ChargeFails(r)
      BY <3>2 DEF ChargeFails, Fault, Debited, Covers
    <3>3. CASE SaveFails(r)
      BY <3>3 DEF SaveFails, Fault, Saved
    <3>4. CASE ReleaseFails(r)
      BY <3>4 DEF ReleaseFails, Fault, Freed
    <3>5. CASE Dies(r)
      BY <3>5 DEF Dies, Fault
    <3> QED
      BY <2>3, <3>1, <3>2, <3>3, <3>4, <3>5 DEF RunFails
  <2>4. CASE LeaseExpires
    BY <2>4 DEF LeaseExpires
  <2>5. CASE EditPaper
    BY <2>5 DEF EditPaper
  <2>6. CASE SpendElsewhere
    BY <2>6 DEF SpendElsewhere, Covers
  <2>7. CASE UNCHANGED vars
    BY <2>7
  <2> QED
    BY <2>1, <2>2, <2>3, <2>4, <2>5, <2>6, <2>7 DEF Next
<1> QED
  BY <1>1, <1>2, PTL DEF Spec

-----------------------------------------------------------------------------
\* Two runs under unexpired claims are one run.
LEMMA OneRunAtATime ==
    ASSUME RunsHoldTheirClaim, NEW r \in Runs \ lapsed, NEW q \in Runs \ lapsed,
           pc[r] \in Claimed, pc[q] \in Claimed
    PROVE  r = q
  BY DEF RunsHoldTheirClaim

\* The claim alone, step by step.
LEMMA ClaimStep ==
    ASSUME TypeOK, RunsHoldTheirClaim, [Next]_vars
    PROVE  RunsHoldTheirClaim'
<1> USE NamesAreNew DEF TypeOK, RunsHoldTheirClaim
<1>1. ASSUME NEW r \in Runs, ReadPaper(r) PROVE RunsHoldTheirClaim'
  BY <1>1 DEF ReadPaper
<1>2. ASSUME NEW r \in Runs, RunStep(r) PROVE RunsHoldTheirClaim'
  <2>1. CASE AcquireLease(r)
    BY <2>1 DEF AcquireLease, ClaimIsFree
  <2>2. CASE Refuse(r)
    BY <2>2 DEF Refuse
  <2>3. CASE ReadCache(r)
    BY <2>3 DEF ReadCache
  <2>4. CASE Preflight(r)
    BY <2>4 DEF Preflight
  <2>5. CASE Work(r)
    BY <2>5 DEF Work
  <2>6. CASE Charge(r)
    BY <2>6 DEF Charge
  <2>7. CASE ChargeRefused(r)
    BY <2>7 DEF ChargeRefused
  <2>8. CASE Save(r)
    BY <2>8 DEF Save
  <2>9. CASE ReleaseLease(r)
    BY <2>9 DEF ReleaseLease, Freed
  <2> QED
    BY <1>2, <2>1, <2>2, <2>3, <2>4, <2>5, <2>6, <2>7, <2>8, <2>9 DEF RunStep
<1>3. ASSUME NEW r \in Runs, RunFails(r) PROVE RunsHoldTheirClaim'
  <2>1. CASE AcquireFails(r)
    BY <2>1 DEF AcquireFails, ClaimIsFree
  <2>2. CASE ChargeFails(r)
    BY <2>2 DEF ChargeFails
  <2>3. CASE SaveFails(r)
    BY <2>3 DEF SaveFails
  <2>4. CASE ReleaseFails(r)
    BY <2>4 DEF ReleaseFails, Freed
  <2>5. CASE Dies(r)
    BY <2>5 DEF Dies
  <2> QED
    BY <1>3, <2>1, <2>2, <2>3, <2>4, <2>5 DEF RunFails
<1>4. CASE LeaseExpires
  BY <1>4 DEF LeaseExpires
<1>5. CASE EditPaper
  BY <1>5 DEF EditPaper
<1>6. CASE SpendElsewhere
  BY <1>6 DEF SpendElsewhere
<1>7. CASE UNCHANGED vars
  BY <1>7
<1> QED
  BY <1>1, <1>2, <1>3, <1>4, <1>5, <1>6, <1>7 DEF Next

-----------------------------------------------------------------------------
\* A debit is made at the charge, and no later step goes back.
LEMMA OrderStep ==
    ASSUME TypeOK, RunInv, [Next]_vars
    PROVE  ChargedInOrder'
<1> USE DEF TypeOK, RunInv, ChargedInOrder
<1>1. ASSUME NEW r \in Runs, ReadPaper(r) PROVE ChargedInOrder'
  BY <1>1 DEF ReadPaper
<1>2. ASSUME NEW r \in Runs, RunStep(r) PROVE ChargedInOrder'
  <2>1. CASE AcquireLease(r)
    BY <2>1 DEF AcquireLease, ClaimIsFree
  <2>2. CASE Refuse(r)
    BY <2>2 DEF Refuse
  <2>3. CASE ReadCache(r)
    BY <2>3 DEF ReadCache
  <2>4. CASE Preflight(r)
    BY <2>4 DEF Preflight
  <2>5. CASE Work(r)
    BY <2>5 DEF Work
  <2>6. CASE Charge(r)
    BY <2>6 DEF Charge, Debited
  <2>7. CASE ChargeRefused(r)
    BY <2>7 DEF ChargeRefused
  <2>8. CASE Save(r)
    BY <2>8 DEF Save, Saved
  <2>9. CASE ReleaseLease(r)
    BY <2>9 DEF ReleaseLease, Freed
  <2> QED
    BY <1>2, <2>1, <2>2, <2>3, <2>4, <2>5, <2>6, <2>7, <2>8, <2>9 DEF RunStep
<1>3. ASSUME NEW r \in Runs, RunFails(r) PROVE ChargedInOrder'
  <2>1. CASE AcquireFails(r)
    BY <2>1 DEF AcquireFails, Fault, ClaimIsFree
  <2>2. CASE ChargeFails(r)
    BY <2>2 DEF ChargeFails, Debited, Fault
  <2>3. CASE SaveFails(r)
    BY <2>3 DEF SaveFails, Saved, Fault
  <2>4. CASE ReleaseFails(r)
    BY <2>4 DEF ReleaseFails, Freed, Fault
  <2>5. CASE Dies(r)
    BY <2>5 DEF Dies, Fault
  <2> QED
    BY <1>3, <2>1, <2>2, <2>3, <2>4, <2>5 DEF RunFails
<1>4. CASE LeaseExpires
  BY <1>4 DEF LeaseExpires
<1>5. CASE EditPaper
  BY <1>5 DEF EditPaper
<1>6. CASE SpendElsewhere
  BY <1>6 DEF SpendElsewhere
<1>7. CASE UNCHANGED vars
  BY <1>7
<1> QED
  BY <1>1, <1>2, <1>3, <1>4, <1>5, <1>6, <1>7 DEF Next

\* The artifact of an unfailed paid run stays.
LEMMA DeliveryStep ==
    ASSUME TypeOK, RunInv, [Next]_vars
    PROVE  PaidIsDelivered'
<1> USE NamesAreNew DEF TypeOK, RunInv, PaidIsDelivered, ChargedInOrder
<1>1. ASSUME NEW r \in Runs, ReadPaper(r) PROVE PaidIsDelivered'
  BY <1>1 DEF ReadPaper
<1>2. ASSUME NEW r \in Runs, RunStep(r) PROVE PaidIsDelivered'
  <2>1. CASE AcquireLease(r)
    BY <2>1 DEF AcquireLease, ClaimIsFree
  <2>2. CASE Refuse(r)
    BY <2>2 DEF Refuse
  <2>3. CASE ReadCache(r)
    BY <2>3 DEF ReadCache
  <2>4. CASE Preflight(r)
    BY <2>4 DEF Preflight
  <2>5. CASE Work(r)
    BY <2>5 DEF Work
  <2>6. CASE Charge(r)
    BY <2>6 DEF Charge, Debited
  <2>7. CASE ChargeRefused(r)
    BY <2>7 DEF ChargeRefused
  <2>8. CASE Save(r)
    BY <2>8 DEF Save, Saved
  <2>9. CASE ReleaseLease(r)
    BY <2>9 DEF ReleaseLease, Freed
  <2> QED
    BY <1>2, <2>1, <2>2, <2>3, <2>4, <2>5, <2>6, <2>7, <2>8, <2>9 DEF RunStep
<1>3. ASSUME NEW r \in Runs, RunFails(r) PROVE PaidIsDelivered'
  <2>1. CASE AcquireFails(r)
    BY <2>1 DEF AcquireFails, Fault, ClaimIsFree
  <2>2. CASE ChargeFails(r)
    BY <2>2 DEF ChargeFails, Debited, Fault
  <2>3. CASE SaveFails(r)
    BY <2>3 DEF SaveFails, Saved, Fault
  <2>4. CASE ReleaseFails(r)
    BY <2>4 DEF ReleaseFails, Freed, Fault
  <2>5. CASE Dies(r)
    BY <2>5 DEF Dies, Fault
  <2> QED
    BY <1>3, <2>1, <2>2, <2>3, <2>4, <2>5 DEF RunFails
<1>4. CASE LeaseExpires
  BY <1>4 DEF LeaseExpires
<1>5. CASE EditPaper
  BY <1>5 DEF EditPaper
<1>6. CASE SpendElsewhere
  BY <1>6 DEF SpendElsewhere
<1>7. CASE UNCHANGED vars
  BY <1>7
<1> QED
  BY <1>1, <1>2, <1>3, <1>4, <1>5, <1>6, <1>7 DEF Next

\* While a run that missed works, its claim keeps the others from saving.
LEMMA MissStep ==
    ASSUME TypeOK, RunInv, [Next]_vars
    PROVE  MissIsCurrent'
<1> USE NamesAreNew DEF TypeOK, RunInv, MissIsCurrent, Hit, RunsHoldTheirClaim
<1>1. ASSUME NEW r \in Runs, ReadPaper(r) PROVE MissIsCurrent'
  BY <1>1 DEF ReadPaper
<1>2. ASSUME NEW r \in Runs, RunStep(r) PROVE MissIsCurrent'
  <2>1. CASE AcquireLease(r)
    BY <2>1 DEF AcquireLease, ClaimIsFree
  <2>2. CASE Refuse(r)
    BY <2>2 DEF Refuse
  <2>3. CASE ReadCache(r)
    BY <2>3 DEF ReadCache
  <2>4. CASE Preflight(r)
    BY <2>4 DEF Preflight
  <2>5. CASE Work(r)
    BY <2>5 DEF Work
  <2>6. CASE Charge(r)
    BY <2>6 DEF Charge, Debited
  <2>7. CASE ChargeRefused(r)
    BY <2>7 DEF ChargeRefused
  <2>8. CASE Save(r)
    BY <2>8 DEF Save, Saved
  <2>9. CASE ReleaseLease(r)
    BY <2>9 DEF ReleaseLease, Freed
  <2> QED
    BY <1>2, <2>1, <2>2, <2>3, <2>4, <2>5, <2>6, <2>7, <2>8, <2>9 DEF RunStep
<1>3. ASSUME NEW r \in Runs, RunFails(r) PROVE MissIsCurrent'
  <2>1. CASE AcquireFails(r)
    BY <2>1 DEF AcquireFails, Fault, ClaimIsFree
  <2>2. CASE ChargeFails(r)
    BY <2>2 DEF ChargeFails, Debited, Fault
  <2>3. CASE SaveFails(r)
    BY <2>3 DEF SaveFails, Saved, Fault
  <2>4. CASE ReleaseFails(r)
    BY <2>4 DEF ReleaseFails, Freed, Fault
  <2>5. CASE Dies(r)
    BY <2>5 DEF Dies, Fault
  <2> QED
    BY <1>3, <2>1, <2>2, <2>3, <2>4, <2>5 DEF RunFails
<1>4. CASE LeaseExpires
  BY <1>4 DEF LeaseExpires
<1>5. CASE EditPaper
  BY <1>5 DEF EditPaper
<1>6. CASE SpendElsewhere
  BY <1>6 DEF SpendElsewhere
<1>7. CASE UNCHANGED vars
  BY <1>7
<1> QED
  BY <1>1, <1>2, <1>3, <1>4, <1>5, <1>6, <1>7 DEF Next

\* A run that misses finds nobody who paid, and nobody pays beside it.
LEMMA FirstStep ==
    ASSUME TypeOK, RunInv, [Next]_vars
    PROVE  NobodyPaidBefore'
<1> USE NamesAreNew DEF TypeOK, RunInv, NobodyPaidBefore, RunsHoldTheirClaim, ChargedInOrder, PaidIsDelivered
<1>1. ASSUME NEW r \in Runs, ReadPaper(r) PROVE NobodyPaidBefore'
  BY <1>1 DEF ReadPaper
<1>2. ASSUME NEW r \in Runs, RunStep(r) PROVE NobodyPaidBefore'
  <2>1. CASE AcquireLease(r)
    BY <2>1 DEF AcquireLease, ClaimIsFree
  <2>2. CASE Refuse(r)
    BY <2>2 DEF Refuse
  <2>3. CASE ReadCache(r)
    BY <2>3 DEF ReadCache, Hit
  <2>4. CASE Preflight(r)
    BY <2>4 DEF Preflight
  <2>5. CASE Work(r)
    BY <2>5 DEF Work
  <2>6. CASE Charge(r)
    BY <2>6 DEF Charge, Debited
  <2>7. CASE ChargeRefused(r)
    BY <2>7 DEF ChargeRefused
  <2>8. CASE Save(r)
    BY <2>8 DEF Save, Saved
  <2>9. CASE ReleaseLease(r)
    BY <2>9 DEF ReleaseLease, Freed
  <2> QED
    BY <1>2, <2>1, <2>2, <2>3, <2>4, <2>5, <2>6, <2>7, <2>8, <2>9 DEF RunStep
<1>3. ASSUME NEW r \in Runs, RunFails(r) PROVE NobodyPaidBefore'
  <2>1. CASE AcquireFails(r)
    BY <2>1 DEF AcquireFails, Fault, ClaimIsFree
  <2>2. CASE ChargeFails(r)
    BY <2>2 DEF ChargeFails, Debited, Fault
  <2>3. CASE SaveFails(r)
    BY <2>3 DEF SaveFails, Saved, Fault
  <2>4. CASE ReleaseFails(r)
    BY <2>4 DEF ReleaseFails, Freed, Fault
  <2>5. CASE Dies(r)
    BY <2>5 DEF Dies, Fault
  <2> QED
    BY <1>3, <2>1, <2>2, <2>3, <2>4, <2>5 DEF RunFails
<1>4. CASE LeaseExpires
  BY <1>4 DEF LeaseExpires
<1>5. CASE EditPaper
  BY <1>5 DEF EditPaper
<1>6. CASE SpendElsewhere
  BY <1>6 DEF SpendElsewhere
<1>7. CASE UNCHANGED vars
  BY <1>7
<1> QED
  BY <1>1, <1>2, <1>3, <1>4, <1>5, <1>6, <1>7 DEF Next

\* Two paid runs without failures: the second had found the first's artifact.
LEMMA OnceStep ==
    ASSUME TypeOK, RunInv, [Next]_vars
    PROVE  PaidOnce'
<1> USE DEF TypeOK, RunInv, PaidOnce
<1>1. ASSUME NEW r \in Runs, RunStep(r), ~Charge(r) PROVE PaidOnce'
  BY <1>1 DEF RunStep, AcquireLease, Refuse, ReadCache, Preflight, Work, ChargeRefused,
     Save, ReleaseLease
<1>2. ASSUME NEW r \in Runs, RunFails(r), ~ChargeFails(r) PROVE PaidOnce'
  BY <1>2 DEF RunFails, AcquireFails, SaveFails, ReleaseFails, Dies, Fault
<1>3. ASSUME NEW r \in Runs, Charge(r) PROVE PaidOnce'
  BY <1>3 DEF Charge, Debited, NobodyPaidBefore
<1>4. ASSUME NEW r \in Runs, ChargeFails(r) PROVE PaidOnce'
  BY <1>4 DEF ChargeFails, Debited, Fault
<1>5. ASSUME NEW r \in Runs, ReadPaper(r) PROVE PaidOnce'
  BY <1>5 DEF ReadPaper
<1>6. CASE LeaseExpires \/ EditPaper \/ SpendElsewhere \/ UNCHANGED vars
  BY <1>6 DEF LeaseExpires, EditPaper, SpendElsewhere
<1> QED
  BY <1>1, <1>2, <1>3, <1>4, <1>5, <1>6 DEF Next

-----------------------------------------------------------------------------
\* RunInv holds in every reachable state.
THEOREM RunInvariant == Spec => []RunInv
<1>1. Init => RunInv
  BY DEF Init, RunInv, RunsHoldTheirClaim, ChargedInOrder, PaidIsDelivered, MissIsCurrent,
     NobodyPaidBefore, PaidOnce
<1>2. TypeOK /\ RunInv /\ [Next]_vars => RunInv'
  BY ClaimStep, OrderStep, DeliveryStep, MissStep, FirstStep, OnceStep DEF RunInv
<1> QED
  BY <1>1, <1>2, RunTypes, PTL DEF Spec

\* No run loses its claim to another run's release.
THEOREM ClaimsAreKept == Spec => []RunsHoldTheirClaim
  BY RunInvariant, PTL DEF RunInv

\* Two POSTs that met no failure and kept their claims do not both pay.
THEOREM RunsPayOnce == Spec => []PaidOnce
  BY RunInvariant, PTL DEF RunInv

\* A run that paid and met no failure leaves its artifact.
THEOREM PaidRunsDeliver == Spec => []PaidIsDelivered
  BY RunInvariant, PTL DEF RunInv

\* A run pays only for what the cache does not hold.
THEOREM RunsPayForNew == Spec => PaysForNew
<1> DEFINE Act == \A r \in Runs : r \in charged' \ charged /\ lapsed = {} =>
                     cached = NoArtifact \/ (r \in Refreshers /\ cached # read[r])
<1>1. TypeOK /\ RunInv /\ [Next]_vars => [Act]_vars
  <2> SUFFICES ASSUME TypeOK, RunInv, Next PROVE Act
    BY DEF vars
  <2>1. ASSUME NEW r \in Runs, pc[r] = "charge", lapsed = {}
        PROVE  cached = NoArtifact \/ (r \in Refreshers /\ cached # read[r])
    BY <2>1 DEF RunInv, MissIsCurrent, Hit
  <2>2. ASSUME NEW q \in Runs, Charge(q) \/ ChargeFails(q) PROVE Act
    BY <2>1, <2>2 DEF Charge, ChargeFails, Debited
  <2>3. ASSUME NEW q \in Runs, RunStep(q), ~Charge(q) PROVE charged' = charged
    BY <2>3 DEF RunStep, AcquireLease, Refuse, ReadCache, Preflight, Work, ChargeRefused,
       Save, ReleaseLease
  <2>4. ASSUME NEW q \in Runs, RunFails(q), ~ChargeFails(q) PROVE charged' = charged
    BY <2>4 DEF RunFails, AcquireFails, SaveFails, ReleaseFails, Dies
  <2>5. CASE (\E q \in Runs : ReadPaper(q)) \/ LeaseExpires \/ EditPaper \/ SpendElsewhere
    BY <2>5 DEF ReadPaper, LeaseExpires, EditPaper, SpendElsewhere
  <2> QED
    BY <2>2, <2>3, <2>4, <2>5 DEF Next
<1> QED
  BY <1>1, RunTypes, RunInvariant, PTL DEF Spec, PaysForNew
=============================================================================
