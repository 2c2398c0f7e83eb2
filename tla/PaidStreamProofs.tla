-------------------------- MODULE PaidStreamProofs --------------------------
(***************************************************************************)
(* Proofs about PaidStream for any number of POSTs, texts and failures.    *)
(***************************************************************************)
EXTENDS PaidStream, TLAPS

USE DEF account, vars, Goes

\* A POST that saved has ended, and its text stays; one that was charged and
\* met no failure is about to save or has saved.
SaveInv ==
    /\ \A p \in saved : pc[p] = "ended" /\ key[p] \in cached
    /\ \A p \in charged : pc[p] \in {"save", "ended"}
    /\ \A p \in charged \ faulted : pc[p] = "ended" => p \in saved
    /\ \A p \in Posts : pc[p] = "start" => p \notin saved

\* A POST begun after the save of its text is over, and uncharged.
ReplayInv ==
    /\ \A p \in Posts : \A q \in before[p] : pc[q] = "ended"
    /\ \A p \in Posts, q \in saved : q \in before[p] /\ key[q] = key[p] =>
           pc[p] = "ended" /\ p \notin charged

\* A POST has the sample once it has looked for it, and has spent it when it saves;
\* one that began after that save looks for it in vain.
SampleInv ==
    /\ \A p \in free : pc[p] \notin {"start", "sample"}
    /\ \A p \in free : pc[p] = "save" \/ p \in saved => sampled
    /\ LaterPostsPay

-----------------------------------------------------------------------------
LEMMA StreamTypesStep ==
    ASSUME TypeOK, [Next]_vars
    PROVE  TypeOK'
<1> USE DEF TypeOK
<1>1. ASSUME NEW p \in Posts, NEW k \in Keys, LookUp(p, k) PROVE TypeOK'
  BY <1>1 DEF LookUp
<1>2. ASSUME NEW p \in Posts, ReadSampled(p) PROVE TypeOK'
  BY <1>2 DEF ReadSampled
<1>3. ASSUME NEW p \in Posts, Stream(p) PROVE TypeOK'
  BY <1>3 DEF Stream
<1>4. ASSUME NEW p \in Posts, TakeSample(p) PROVE TypeOK'
  BY <1>4 DEF TakeSample, SampleTaken
<1>5. ASSUME NEW p \in Posts, Charge(p) PROVE TypeOK'
  BY <1>5 DEF Charge, Covers
<1>6. ASSUME NEW p \in Posts, ChargeRefused(p) PROVE TypeOK'
  BY <1>6 DEF ChargeRefused
<1>7. ASSUME NEW p \in Posts, Save(p) PROVE TypeOK'
  BY <1>7 DEF Save
<1>8. ASSUME NEW p \in Posts, Fails(p) PROVE TypeOK'
  BY <1>8 DEF Fails, Fault
<1>9. CASE SpendElsewhere \/ UNCHANGED vars
  BY <1>9 DEF SpendElsewhere, Covers
<1> QED
  BY <1>1, <1>2, <1>3, <1>4, <1>5, <1>6, <1>7, <1>8, <1>9 DEF Next

\* Every reachable state is well typed.
THEOREM StreamTypes == Spec => []TypeOK
<1>1. Init => TypeOK
  <2> SUFFICES ASSUME Init PROVE TypeOK
    OBVIOUS
  <2> USE DEF Init
  <2>1. before \in [Posts -> SUBSET Posts] /\ funds \in Nat
    BY StreamNumbers
  <2>2. /\ pc \in [Posts -> {"start", "sample", "stream", "settle", "save", "ended"}]
        /\ key \in [Posts -> Keys \cup {NoKey}]
        /\ \A p \in Posts : pc[p] # "start" => key[p] \in Keys
    OBVIOUS
  <2> QED
    BY <2>1, <2>2 DEF TypeOK
<1> QED
  BY <1>1, StreamTypesStep, PTL DEF Spec

LEMMA SaveStep ==
    ASSUME TypeOK, SaveInv, [Next]_vars
    PROVE  SaveInv'
<1> USE DEF TypeOK, SaveInv
<1>1. ASSUME NEW p \in Posts, NEW k \in Keys, LookUp(p, k) PROVE SaveInv'
  BY <1>1 DEF LookUp
<1>2. ASSUME NEW p \in Posts, ReadSampled(p) PROVE SaveInv'
  BY <1>2 DEF ReadSampled
<1>3. ASSUME NEW p \in Posts, Stream(p) PROVE SaveInv'
  BY <1>3 DEF Stream
<1>4. ASSUME NEW p \in Posts, TakeSample(p) PROVE SaveInv'
  BY <1>4 DEF TakeSample, SampleTaken
<1>5. ASSUME NEW p \in Posts, Charge(p) PROVE SaveInv'
  BY <1>5 DEF Charge, Covers
<1>6. ASSUME NEW p \in Posts, ChargeRefused(p) PROVE SaveInv'
  BY <1>6 DEF ChargeRefused
<1>7. ASSUME NEW p \in Posts, Save(p) PROVE SaveInv'
  BY <1>7 DEF Save
<1>8. ASSUME NEW p \in Posts, Fails(p) PROVE SaveInv'
  BY <1>8 DEF Fails, Fault
<1>9. CASE SpendElsewhere \/ UNCHANGED vars
  BY <1>9 DEF SpendElsewhere, Covers
<1> QED
  BY <1>1, <1>2, <1>3, <1>4, <1>5, <1>6, <1>7, <1>8, <1>9 DEF Next

LEMMA ReplayStep ==
    ASSUME TypeOK, SaveInv, ReplayInv, [Next]_vars
    PROVE  ReplayInv'
<1> USE DEF TypeOK, SaveInv, ReplayInv
<1>1. ASSUME NEW p \in Posts, NEW k \in Keys, LookUp(p, k) PROVE ReplayInv'
  BY <1>1 DEF LookUp, Cached
<1>2. ASSUME NEW p \in Posts, ReadSampled(p) PROVE ReplayInv'
  BY <1>2 DEF ReadSampled
<1>3. ASSUME NEW p \in Posts, Stream(p) PROVE ReplayInv'
  BY <1>3 DEF Stream
<1>4. ASSUME NEW p \in Posts, TakeSample(p) PROVE ReplayInv'
  BY <1>4 DEF TakeSample, SampleTaken
<1>5. ASSUME NEW p \in Posts, Charge(p) PROVE ReplayInv'
  BY <1>5 DEF Charge, Covers
<1>6. ASSUME NEW p \in Posts, ChargeRefused(p) PROVE ReplayInv'
  BY <1>6 DEF ChargeRefused
<1>7. ASSUME NEW p \in Posts, Save(p) PROVE ReplayInv'
  BY <1>7 DEF Save
<1>8. ASSUME NEW p \in Posts, Fails(p) PROVE ReplayInv'
  BY <1>8 DEF Fails, Fault
<1>9. CASE SpendElsewhere \/ UNCHANGED vars
  BY <1>9 DEF SpendElsewhere, Covers
<1> QED
  BY <1>1, <1>2, <1>3, <1>4, <1>5, <1>6, <1>7, <1>8, <1>9 DEF Next

LEMMA StreamInvariant == Spec => [](SaveInv /\ ReplayInv)
<1>1. Init => SaveInv /\ ReplayInv
  BY DEF Init, SaveInv, ReplayInv
<1>2. TypeOK /\ SaveInv /\ ReplayInv /\ [Next]_vars => (SaveInv /\ ReplayInv)'
  BY SaveStep, ReplayStep
<1> QED
  BY <1>1, <1>2, StreamTypes, PTL DEF Spec

LEMMA SampleStep ==
    ASSUME TypeOK, SaveInv, ReplayInv, SampleInv, [Next]_vars
    PROVE  SampleInv'
<1> USE DEF TypeOK, SaveInv, ReplayInv, SampleInv, LaterPostsPay
<1>1. ASSUME NEW p \in Posts, NEW k \in Keys, LookUp(p, k) PROVE SampleInv'
  BY <1>1 DEF LookUp
<1>2. ASSUME NEW p \in Posts, ReadSampled(p) PROVE SampleInv'
  BY <1>2 DEF ReadSampled
<1>3. ASSUME NEW p \in Posts, Stream(p) PROVE SampleInv'
  BY <1>3 DEF Stream
<1>4. ASSUME NEW p \in Posts, TakeSample(p) PROVE SampleInv'
  BY <1>4 DEF TakeSample, SampleTaken
<1>5. ASSUME NEW p \in Posts, Charge(p) PROVE SampleInv'
  BY <1>5 DEF Charge
<1>6. ASSUME NEW p \in Posts, ChargeRefused(p) PROVE SampleInv'
  BY <1>6 DEF ChargeRefused
<1>7. ASSUME NEW p \in Posts, Save(p) PROVE SampleInv'
  BY <1>7 DEF Save
<1>8. ASSUME NEW p \in Posts, Fails(p) PROVE SampleInv'
  BY <1>8 DEF Fails
<1>9. CASE SpendElsewhere \/ UNCHANGED vars
  BY <1>9 DEF SpendElsewhere
<1> QED
  BY <1>1, <1>2, <1>3, <1>4, <1>5, <1>6, <1>7, <1>8, <1>9 DEF Next

-----------------------------------------------------------------------------
\* A POST is not charged for a text that an earlier POST saved.
THEOREM LaterPostsAreFree == Spec => []LaterPostsReplay
<1>1. TypeOK /\ SaveInv /\ ReplayInv => LaterPostsReplay
  BY DEF TypeOK, ReplayInv, LaterPostsReplay
<1> QED
  BY <1>1, StreamInvariant, StreamTypes, PTL

\* One text is charged twice only to POSTs that overlapped or one that failed.
THEOREM DoubleChargesNeedOverlap == Spec => []DoubleChargesOverlap
<1>1. TypeOK /\ SaveInv /\ ReplayInv => DoubleChargesOverlap
  BY DEF TypeOK, SaveInv, ReplayInv, DoubleChargesOverlap
<1> QED
  BY <1>1, StreamInvariant, StreamTypes, PTL

\* The sample is free once, but for POSTs that overlapped.
THEOREM SamplesAreOne == Spec => []LaterPostsPay
<1>1. Init => SampleInv
  BY DEF Init, SampleInv, LaterPostsPay
<1>2. TypeOK /\ SaveInv /\ ReplayInv /\ SampleInv /\ [Next]_vars => SampleInv'
  BY SampleStep
<1>3. SampleInv => LaterPostsPay
  BY DEF SampleInv
<1> QED
  BY <1>1, <1>2, <1>3, StreamInvariant, StreamTypes, PTL DEF Spec
=============================================================================
