-------------------------- MODULE JobRefreshProofs --------------------------
(***************************************************************************)
(* Proofs about JobRefresh for any number of tickets and API processes and *)
(* with every failure of the model: the settlement of a ticket until two   *)
(* processes come to settle it, and the bound on its credits even then.    *)
(***************************************************************************)
EXTENDS JobRefresh, FiniteSetTheorems, TLAPS

USE DEF ticket, money, start, run, api, history, vars,
        Write, Says, Posts, Works, Abandons, Fails, Fault, Crosses, Contested, AllFaults

\* Every step keeps the types.
LEMMA TypeStep ==
    ASSUME TypeOK, [Next]_vars
    PROVE  TypeOK'
<1> USE DEF TypeOK
<1>1. ASSUME NEW t \in Tickets, StartStep(t) PROVE TypeOK'
  <2>1. CASE CheckRunner(t)
    BY <2>1 DEF CheckRunner
  <2>2. CASE Price(t)
    BY <2>2 DEF Price
  <2>3. CASE Charge(t)
    BY <2>3 DEF Charge
  <2>4. CASE DispatchChecks(t)
    BY <2>4 DEF DispatchChecks
  <2>5. CASE RefuseWithoutRunner(t)
    BY <2>5 DEF RefuseWithoutRunner, Refund, Credit, CreditRaises
  <2>6. CASE WriteQueued(t)
    BY <2>6 DEF WriteQueued
  <2>7. CASE Enqueue(t)
    BY <2>7 DEF Enqueue
  <2>8. CASE UndoCharge(t)
    BY <2>8 DEF UndoCharge, Refund, Credit, CreditRaises
  <2>9. CASE WriteUnqueued(t)
    BY <2>9 DEF WriteUnqueued
  <2> QED
    BY <1>1, <2>1, <2>2, <2>3, <2>4, <2>5, <2>6, <2>7, <2>8, <2>9 DEF StartStep
<1>2. ASSUME NEW t \in Tickets, EnqueueRaises(t) PROVE TypeOK'
  BY <1>2 DEF EnqueueRaises
<1>3. ASSUME NEW t \in Tickets, StartDies(t) PROVE TypeOK'
  BY <1>3 DEF StartDies
<1>4. ASSUME NEW t \in Tickets, WorkStep(t) PROVE TypeOK'
  <2>1. CASE Dequeue(t)
    BY <2>1 DEF Dequeue
  <2>2. CASE Begin(t)
    BY <2>2 DEF Begin
  <2>3. CASE RunLands(t)
    BY <2>3 DEF RunLands
  <2>4. CASE RunIsEmpty(t)
    BY <2>4 DEF RunIsEmpty
  <2>5. CASE RunRaises(t)
    BY <2>5 DEF RunRaises, AttemptRaises
  <2>6. CASE RunAgain(t)
    BY <2>6 DEF RunAgain
  <2>7. CASE Repay(t)
    BY <2>7 DEF Repay, Refund, Credit, CreditRaises
  <2>8. CASE Finish(t)
    BY <2>8 DEF Finish
  <2>9. CASE GiveUp(t)
    BY <2>9 DEF GiveUp, Refund, Credit, CreditRaises
  <2>10. CASE Fail(t)
    BY <2>10 DEF Fail
  <2> QED
    BY <1>4, <2>1, <2>2, <2>3, <2>4, <2>5, <2>6, <2>7, <2>8, <2>9, <2>10 DEF WorkStep
<1>5. ASSUME NEW t \in Tickets, Reveal(t) PROVE TypeOK'
  BY <1>5 DEF Reveal
<1>6. ASSUME NEW t \in Tickets, WriteRaises(t) PROVE TypeOK'
  BY <1>6 DEF WriteRaises, AttemptRaises
<1>7. ASSUME NEW t \in Tickets, RunKilled(t) PROVE TypeOK'
  BY <1>7 DEF RunKilled
<1>8. ASSUME NEW a \in Apis, ApiStep(a) PROVE TypeOK'
  <2>1. ASSUME NEW t \in Tickets, AbandonChecks(a, t) PROVE TypeOK'
    BY <2>1 DEF AbandonChecks, Stranded
  <2>2. CASE CancelPipeline(a)
    BY <2>2 DEF CancelPipeline, Canceled
  <2>3. CASE ReadState(a)
    BY <2>3 DEF ReadState, Stranded, Abandoning
  <2>4. CASE AbandonRefunds(a)
    BY <2>4 DEF AbandonRefunds, Refund, Credit, CreditRaises
  <2>5. CASE AbandonWrites(a)
    BY <2>5 DEF AbandonWrites
  <2> QED
    BY <1>8, <2>1, <2>2, <2>3, <2>4, <2>5 DEF ApiStep
<1>12. ASSUME NEW a \in Apis, AbandonDies(a) PROVE TypeOK'
  BY <1>12 DEF AbandonDies
<1>9. CASE RunnerLeaves
  <2>1. leaves' = leaves + 1 /\ runner' = FALSE
    BY <1>9 DEF RunnerLeaves
  <2>2. UNCHANGED <<ticket, job, money, start, run, api, faults, crossed, doubled>>
    BY <1>9 DEF RunnerLeaves
  <2>3. runner' \in BOOLEAN
    BY <2>1
  <2> QED
    BY <2>1, <2>2, <2>3
<1>10. CASE RunnerBoots
  BY <1>10 DEF RunnerBoots
<1>11. CASE UNCHANGED vars
  BY <1>11
<1> QED
  BY <1>1, <1>2, <1>3, <1>4, <1>5, <1>6, <1>7, <1>8, <1>9, <1>10, <1>11, <1>12 DEF Next

\* Every reachable state is well typed, whatever fails.
THEOREM RefreshTypes == Spec => []TypeOK
<1>1. Init => TypeOK
  BY RefreshAssumption DEF Init, TypeOK
<1> QED
  BY <1>1, TypeStep, PTL DEF Spec


-----------------------------------------------------------------------------

\* Where the POST, the job and the run of a ticket are, relative to each other.
LEMMA PhaseStep ==
    ASSUME TypeOK, RefreshInv, [Next]_vars
    PROVE  PhaseInv'
<1> USE DEF TypeOK, PhaseInv, AbandonInv
<1> USE DEF RefreshInv
<1>1. ASSUME NEW t \in Tickets, StartStep(t) PROVE PhaseInv'
  <2>1. CASE CheckRunner(t)
    BY <2>1 DEF CheckRunner
  <2>2. CASE Price(t)
    BY <2>2 DEF Price
  <2>3. CASE Charge(t)
    BY <2>3 DEF Charge
  <2>4. CASE DispatchChecks(t)
    BY <2>4 DEF DispatchChecks
  <2>5. CASE RefuseWithoutRunner(t)
    BY <2>5 DEF RefuseWithoutRunner, Refund, Credit, CreditRaises
  <2>6. CASE WriteQueued(t)
    BY <2>6 DEF WriteQueued
  <2>7. CASE Enqueue(t)
    BY <2>7 DEF Enqueue
  <2>8. CASE UndoCharge(t)
    BY <2>8 DEF UndoCharge, Refund, Credit, CreditRaises
  <2>9. CASE WriteUnqueued(t)
    BY <2>9 DEF WriteUnqueued
  <2> QED
    BY <1>1, <2>1, <2>2, <2>3, <2>4, <2>5, <2>6, <2>7, <2>8, <2>9 DEF StartStep
<1>2. ASSUME NEW t \in Tickets, EnqueueRaises(t) PROVE PhaseInv'
  BY <1>2 DEF EnqueueRaises
<1>3. ASSUME NEW t \in Tickets, StartDies(t) PROVE PhaseInv'
  BY <1>3 DEF StartDies
<1>4. ASSUME NEW t \in Tickets, WorkStep(t) PROVE PhaseInv'
  <2>1. CASE Dequeue(t)
    BY <2>1 DEF Dequeue
  <2>2. CASE Begin(t)
    BY <2>2 DEF Begin
  <2>3. CASE RunLands(t)
    BY <2>3 DEF RunLands
  <2>4. CASE RunIsEmpty(t)
    BY <2>4 DEF RunIsEmpty
  <2>5. CASE RunRaises(t)
    BY <2>5 DEF RunRaises, AttemptRaises
  <2>6. CASE RunAgain(t)
    BY <2>6 DEF RunAgain
  <2>7. CASE Repay(t)
    BY <2>7 DEF Repay, Refund, Credit, CreditRaises
  <2>8. CASE Finish(t)
    BY <2>8 DEF Finish
  <2>9. CASE GiveUp(t)
    BY <2>9 DEF GiveUp, Refund, Credit, CreditRaises
  <2>10. CASE Fail(t)
    BY <2>10 DEF Fail
  <2> QED
    BY <1>4, <2>1, <2>2, <2>3, <2>4, <2>5, <2>6, <2>7, <2>8, <2>9, <2>10 DEF WorkStep
<1>5. ASSUME NEW t \in Tickets, Reveal(t) PROVE PhaseInv'
  BY <1>5 DEF Reveal
<1>6. ASSUME NEW t \in Tickets, WriteRaises(t) PROVE PhaseInv'
  BY <1>6 DEF WriteRaises, AttemptRaises
<1>7. ASSUME NEW t \in Tickets, RunKilled(t) PROVE PhaseInv'
  BY <1>7 DEF RunKilled
<1>8. ASSUME NEW a \in Apis, ApiStep(a) PROVE PhaseInv'
  <2>1. ASSUME NEW t \in Tickets, AbandonChecks(a, t) PROVE PhaseInv'
    BY <2>1 DEF AbandonChecks, Stranded
  <2>2. CASE CancelPipeline(a)
    BY <2>2 DEF CancelPipeline, Canceled
  <2>3. CASE ReadState(a)
    BY <2>3 DEF ReadState, Stranded, Abandoning
  <2>4. CASE AbandonRefunds(a)
    BY <2>4 DEF AbandonRefunds, Refund, Credit, CreditRaises
  <2>5. CASE AbandonWrites(a)
    BY <2>5 DEF AbandonWrites
  <2> QED
    BY <1>8, <2>1, <2>2, <2>3, <2>4, <2>5 DEF ApiStep
<1>12. ASSUME NEW a \in Apis, AbandonDies(a) PROVE PhaseInv'
  BY <1>12 DEF AbandonDies
<1>9. CASE RunnerLeaves
  BY <1>9 DEF RunnerLeaves
<1>10. CASE RunnerBoots
  BY <1>10 DEF RunnerBoots
<1>11. CASE UNCHANGED vars
  BY <1>11
<1> QED
  BY <1>1, <1>2, <1>3, <1>4, <1>5, <1>6, <1>7, <1>8, <1>9, <1>10, <1>11, <1>12 DEF Next

-----------------------------------------------------------------------------

\* While an abandonment is under way nobody starts, runs or ends its ticket.
LEMMA AbandonStep ==
    ASSUME TypeOK, RefreshInv, [Next]_vars
    PROVE  AbandonInv'
<1> USE DEF TypeOK, PhaseInv, AbandonInv
<1> USE DEF RefreshInv
<1>1. ASSUME NEW t \in Tickets, StartStep(t) PROVE AbandonInv'
  <2>1. CASE CheckRunner(t)
    BY <2>1 DEF CheckRunner
  <2>2. CASE Price(t)
    BY <2>2 DEF Price
  <2>3. CASE Charge(t)
    BY <2>3 DEF Charge
  <2>4. CASE DispatchChecks(t)
    BY <2>4 DEF DispatchChecks
  <2>5. CASE RefuseWithoutRunner(t)
    BY <2>5 DEF RefuseWithoutRunner, Refund, Credit, CreditRaises
  <2>6. CASE WriteQueued(t)
    BY <2>6 DEF WriteQueued
  <2>7. CASE Enqueue(t)
    BY <2>7 DEF Enqueue
  <2>8. CASE UndoCharge(t)
    BY <2>8 DEF UndoCharge, Refund, Credit, CreditRaises
  <2>9. CASE WriteUnqueued(t)
    BY <2>9 DEF WriteUnqueued
  <2> QED
    BY <1>1, <2>1, <2>2, <2>3, <2>4, <2>5, <2>6, <2>7, <2>8, <2>9 DEF StartStep
<1>2. ASSUME NEW t \in Tickets, EnqueueRaises(t) PROVE AbandonInv'
  BY <1>2 DEF EnqueueRaises
<1>3. ASSUME NEW t \in Tickets, StartDies(t) PROVE AbandonInv'
  BY <1>3 DEF StartDies
<1>4. ASSUME NEW t \in Tickets, WorkStep(t) PROVE AbandonInv'
  <2>1. CASE Dequeue(t)
    BY <2>1 DEF Dequeue
  <2>2. CASE Begin(t)
    BY <2>2 DEF Begin
  <2>3. CASE RunLands(t)
    BY <2>3 DEF RunLands
  <2>4. CASE RunIsEmpty(t)
    BY <2>4 DEF RunIsEmpty
  <2>5. CASE RunRaises(t)
    BY <2>5 DEF RunRaises, AttemptRaises
  <2>6. CASE RunAgain(t)
    BY <2>6 DEF RunAgain
  <2>7. CASE Repay(t)
    BY <2>7 DEF Repay, Refund, Credit, CreditRaises
  <2>8. CASE Finish(t)
    BY <2>8 DEF Finish
  <2>9. CASE GiveUp(t)
    BY <2>9 DEF GiveUp, Refund, Credit, CreditRaises
  <2>10. CASE Fail(t)
    BY <2>10 DEF Fail
  <2> QED
    BY <1>4, <2>1, <2>2, <2>3, <2>4, <2>5, <2>6, <2>7, <2>8, <2>9, <2>10 DEF WorkStep
<1>5. ASSUME NEW t \in Tickets, Reveal(t) PROVE AbandonInv'
  BY <1>5 DEF Reveal
<1>6. ASSUME NEW t \in Tickets, WriteRaises(t) PROVE AbandonInv'
  BY <1>6 DEF WriteRaises, AttemptRaises
<1>7. ASSUME NEW t \in Tickets, RunKilled(t) PROVE AbandonInv'
  BY <1>7 DEF RunKilled
<1>8. ASSUME NEW a \in Apis, ApiStep(a) PROVE AbandonInv'
  <2>1. ASSUME NEW t \in Tickets, AbandonChecks(a, t) PROVE AbandonInv'
    BY <2>1 DEF AbandonChecks, Stranded
  <2>2. CASE CancelPipeline(a)
    BY <2>2 DEF CancelPipeline, Canceled
  <2>3. CASE ReadState(a)
    BY <2>3 DEF ReadState, Stranded, Abandoning
  <2>4. CASE AbandonRefunds(a)
    BY <2>4 DEF AbandonRefunds, Refund, Credit, CreditRaises
  <2>5. CASE AbandonWrites(a)
    BY <2>5 DEF AbandonWrites
  <2> QED
    BY <1>8, <2>1, <2>2, <2>3, <2>4, <2>5 DEF ApiStep
<1>12. ASSUME NEW a \in Apis, AbandonDies(a) PROVE AbandonInv'
  BY <1>12 DEF AbandonDies
<1>9. CASE RunnerLeaves
  BY <1>9 DEF RunnerLeaves
<1>10. CASE RunnerBoots
  BY <1>10 DEF RunnerBoots
<1>11. CASE UNCHANGED vars
  BY <1>11
<1> QED
  BY <1>1, <1>2, <1>3, <1>4, <1>5, <1>6, <1>7, <1>8, <1>9, <1>10, <1>11, <1>12 DEF Next

-----------------------------------------------------------------------------

\* A process that credits finds no credit made.
LEMMA CreditStep ==
    ASSUME TypeOK, RefreshInv, [Next]_vars
    PROVE  CreditInv'
<1> USE DEF TypeOK, PhaseInv, AbandonInv, CreditInv, LandedInv
<1> USE DEF RefreshInv
<1>1. ASSUME NEW t \in Tickets, StartStep(t) PROVE CreditInv'
  <2>1. CASE CheckRunner(t)
    BY <2>1 DEF CheckRunner
  <2>2. CASE Price(t)
    BY <2>2 DEF Price
  <2>3. CASE Charge(t)
    BY <2>3 DEF Charge
  <2>4. CASE DispatchChecks(t)
    BY <2>4 DEF DispatchChecks
  <2>5. CASE RefuseWithoutRunner(t)
    BY <2>5 DEF RefuseWithoutRunner, Refund, Credit, CreditRaises
  <2>6. CASE WriteQueued(t)
    BY <2>6 DEF WriteQueued
  <2>7. CASE Enqueue(t)
    BY <2>7 DEF Enqueue
  <2>8. CASE UndoCharge(t)
    BY <2>8 DEF UndoCharge, Refund, Credit, CreditRaises
  <2>9. CASE WriteUnqueued(t)
    BY <2>9 DEF WriteUnqueued
  <2> QED
    BY <1>1, <2>1, <2>2, <2>3, <2>4, <2>5, <2>6, <2>7, <2>8, <2>9 DEF StartStep
<1>2. ASSUME NEW t \in Tickets, EnqueueRaises(t) PROVE CreditInv'
  BY <1>2 DEF EnqueueRaises
<1>3. ASSUME NEW t \in Tickets, StartDies(t) PROVE CreditInv'
  BY <1>3 DEF StartDies
<1>4. ASSUME NEW t \in Tickets, WorkStep(t) PROVE CreditInv'
  <2>1. CASE Dequeue(t)
    BY <2>1 DEF Dequeue
  <2>2. CASE Begin(t)
    BY <2>2 DEF Begin
  <2>3. CASE RunLands(t)
    BY <2>3 DEF RunLands
  <2>4. CASE RunIsEmpty(t)
    BY <2>4 DEF RunIsEmpty
  <2>5. CASE RunRaises(t)
    BY <2>5 DEF RunRaises, AttemptRaises
  <2>6. CASE RunAgain(t)
    BY <2>6 DEF RunAgain
  <2>7. CASE Repay(t)
    BY <2>7 DEF Repay, Refund, Credit, CreditRaises
  <2>8. CASE Finish(t)
    BY <2>8 DEF Finish
  <2>9. CASE GiveUp(t)
    BY <2>9 DEF GiveUp, Refund, Credit, CreditRaises
  <2>10. CASE Fail(t)
    BY <2>10 DEF Fail
  <2> QED
    BY <1>4, <2>1, <2>2, <2>3, <2>4, <2>5, <2>6, <2>7, <2>8, <2>9, <2>10 DEF WorkStep
<1>5. ASSUME NEW t \in Tickets, Reveal(t) PROVE CreditInv'
  BY <1>5 DEF Reveal
<1>6. ASSUME NEW t \in Tickets, WriteRaises(t) PROVE CreditInv'
  BY <1>6 DEF WriteRaises, AttemptRaises
<1>7. ASSUME NEW t \in Tickets, RunKilled(t) PROVE CreditInv'
  BY <1>7 DEF RunKilled
<1>8. ASSUME NEW a \in Apis, ApiStep(a) PROVE CreditInv'
  <2>1. ASSUME NEW t \in Tickets, AbandonChecks(a, t) PROVE CreditInv'
    BY <2>1 DEF AbandonChecks, Stranded
  <2>2. CASE CancelPipeline(a)
    BY <2>2 DEF CancelPipeline, Canceled
  <2>3. CASE ReadState(a)
    BY <2>3 DEF ReadState, Stranded, Abandoning
  <2>4. CASE AbandonRefunds(a)
    BY <2>4 DEF AbandonRefunds, Refund, Credit, CreditRaises
  <2>5. CASE AbandonWrites(a)
    BY <2>5 DEF AbandonWrites
  <2> QED
    BY <1>8, <2>1, <2>2, <2>3, <2>4, <2>5 DEF ApiStep
<1>12. ASSUME NEW a \in Apis, AbandonDies(a) PROVE CreditInv'
  BY <1>12 DEF AbandonDies
<1>9. CASE RunnerLeaves
  BY <1>9 DEF RunnerLeaves
<1>10. CASE RunnerBoots
  BY <1>10 DEF RunnerBoots
<1>11. CASE UNCHANGED vars
  BY <1>11
<1> QED
  BY <1>1, <1>2, <1>3, <1>4, <1>5, <1>6, <1>7, <1>8, <1>9, <1>10, <1>11, <1>12 DEF Next

-----------------------------------------------------------------------------

\* A search that landed meets no credit.
LEMMA LandedStep ==
    ASSUME TypeOK, RefreshInv, [Next]_vars
    PROVE  LandedInv'
<1> USE DEF TypeOK, PhaseInv, AbandonInv, CreditInv, LandedInv
<1> USE DEF RefreshInv
<1>1. ASSUME NEW t \in Tickets, StartStep(t) PROVE LandedInv'
  <2>1. CASE CheckRunner(t)
    BY <2>1 DEF CheckRunner
  <2>2. CASE Price(t)
    BY <2>2 DEF Price
  <2>3. CASE Charge(t)
    BY <2>3 DEF Charge
  <2>4. CASE DispatchChecks(t)
    BY <2>4 DEF DispatchChecks
  <2>5. CASE RefuseWithoutRunner(t)
    BY <2>5 DEF RefuseWithoutRunner, Refund, Credit, CreditRaises
  <2>6. CASE WriteQueued(t)
    BY <2>6 DEF WriteQueued
  <2>7. CASE Enqueue(t)
    BY <2>7 DEF Enqueue
  <2>8. CASE UndoCharge(t)
    BY <2>8 DEF UndoCharge, Refund, Credit, CreditRaises
  <2>9. CASE WriteUnqueued(t)
    BY <2>9 DEF WriteUnqueued
  <2> QED
    BY <1>1, <2>1, <2>2, <2>3, <2>4, <2>5, <2>6, <2>7, <2>8, <2>9 DEF StartStep
<1>2. ASSUME NEW t \in Tickets, EnqueueRaises(t) PROVE LandedInv'
  BY <1>2 DEF EnqueueRaises
<1>3. ASSUME NEW t \in Tickets, StartDies(t) PROVE LandedInv'
  BY <1>3 DEF StartDies
<1>4. ASSUME NEW t \in Tickets, WorkStep(t) PROVE LandedInv'
  <2>1. CASE Dequeue(t)
    BY <2>1 DEF Dequeue
  <2>2. CASE Begin(t)
    BY <2>2 DEF Begin
  <2>3. CASE RunLands(t)
    BY <2>3 DEF RunLands
  <2>4. CASE RunIsEmpty(t)
    BY <2>4 DEF RunIsEmpty
  <2>5. CASE RunRaises(t)
    BY <2>5 DEF RunRaises, AttemptRaises
  <2>6. CASE RunAgain(t)
    BY <2>6 DEF RunAgain
  <2>7. CASE Repay(t)
    BY <2>7 DEF Repay, Refund, Credit, CreditRaises
  <2>8. CASE Finish(t)
    BY <2>8 DEF Finish
  <2>9. CASE GiveUp(t)
    BY <2>9 DEF GiveUp, Refund, Credit, CreditRaises
  <2>10. CASE Fail(t)
    BY <2>10 DEF Fail
  <2> QED
    BY <1>4, <2>1, <2>2, <2>3, <2>4, <2>5, <2>6, <2>7, <2>8, <2>9, <2>10 DEF WorkStep
<1>5. ASSUME NEW t \in Tickets, Reveal(t) PROVE LandedInv'
  BY <1>5 DEF Reveal
<1>6. ASSUME NEW t \in Tickets, WriteRaises(t) PROVE LandedInv'
  BY <1>6 DEF WriteRaises, AttemptRaises
<1>7. ASSUME NEW t \in Tickets, RunKilled(t) PROVE LandedInv'
  BY <1>7 DEF RunKilled
<1>8. ASSUME NEW a \in Apis, ApiStep(a) PROVE LandedInv'
  <2>1. ASSUME NEW t \in Tickets, AbandonChecks(a, t) PROVE LandedInv'
    BY <2>1 DEF AbandonChecks, Stranded
  <2>2. CASE CancelPipeline(a)
    BY <2>2 DEF CancelPipeline, Canceled
  <2>3. CASE ReadState(a)
    BY <2>3 DEF ReadState, Stranded, Abandoning
  <2>4. CASE AbandonRefunds(a)
    BY <2>4 DEF AbandonRefunds, Refund, Credit, CreditRaises
  <2>5. CASE AbandonWrites(a)
    BY <2>5 DEF AbandonWrites
  <2> QED
    BY <1>8, <2>1, <2>2, <2>3, <2>4, <2>5 DEF ApiStep
<1>12. ASSUME NEW a \in Apis, AbandonDies(a) PROVE LandedInv'
  BY <1>12 DEF AbandonDies
<1>9. CASE RunnerLeaves
  BY <1>9 DEF RunnerLeaves
<1>10. CASE RunnerBoots
  BY <1>10 DEF RunnerBoots
<1>11. CASE UNCHANGED vars
  BY <1>11
<1> QED
  BY <1>1, <1>2, <1>3, <1>4, <1>5, <1>6, <1>7, <1>8, <1>9, <1>10, <1>11, <1>12 DEF Next

-----------------------------------------------------------------------------

\* A credit precedes the write that reports it.
LEMMA DueStep ==
    ASSUME TypeOK, RefreshInv, [Next]_vars
    PROVE  DueInv'
<1> USE DEF TypeOK, PhaseInv, AbandonInv, CreditInv, LandedInv, DueInv
<1> USE DEF RefreshInv
<1>1. ASSUME NEW t \in Tickets, StartStep(t) PROVE DueInv'
  <2>1. CASE CheckRunner(t)
    BY <2>1 DEF CheckRunner
  <2>2. CASE Price(t)
    BY <2>2 DEF Price
  <2>3. CASE Charge(t)
    BY <2>3 DEF Charge
  <2>4. CASE DispatchChecks(t)
    BY <2>4 DEF DispatchChecks
  <2>5. CASE RefuseWithoutRunner(t)
    BY <2>5 DEF RefuseWithoutRunner, Refund, Credit, CreditRaises
  <2>6. CASE WriteQueued(t)
    BY <2>6 DEF WriteQueued
  <2>7. CASE Enqueue(t)
    BY <2>7 DEF Enqueue
  <2>8. CASE UndoCharge(t)
    BY <2>8 DEF UndoCharge, Refund, Credit, CreditRaises
  <2>9. CASE WriteUnqueued(t)
    BY <2>9 DEF WriteUnqueued
  <2> QED
    BY <1>1, <2>1, <2>2, <2>3, <2>4, <2>5, <2>6, <2>7, <2>8, <2>9 DEF StartStep
<1>2. ASSUME NEW t \in Tickets, EnqueueRaises(t) PROVE DueInv'
  BY <1>2 DEF EnqueueRaises
<1>3. ASSUME NEW t \in Tickets, StartDies(t) PROVE DueInv'
  BY <1>3 DEF StartDies
<1>4. ASSUME NEW t \in Tickets, WorkStep(t) PROVE DueInv'
  <2>1. CASE Dequeue(t)
    BY <2>1 DEF Dequeue
  <2>2. CASE Begin(t)
    BY <2>2 DEF Begin
  <2>3. CASE RunLands(t)
    BY <2>3 DEF RunLands
  <2>4. CASE RunIsEmpty(t)
    BY <2>4 DEF RunIsEmpty
  <2>5. CASE RunRaises(t)
    BY <2>5 DEF RunRaises, AttemptRaises
  <2>6. CASE RunAgain(t)
    BY <2>6 DEF RunAgain
  <2>7. CASE Repay(t)
    BY <2>7 DEF Repay, Refund, Credit, CreditRaises
  <2>8. CASE Finish(t)
    BY <2>8 DEF Finish
  <2>9. CASE GiveUp(t)
    BY <2>9 DEF GiveUp, Refund, Credit, CreditRaises
  <2>10. CASE Fail(t)
    BY <2>10 DEF Fail
  <2> QED
    BY <1>4, <2>1, <2>2, <2>3, <2>4, <2>5, <2>6, <2>7, <2>8, <2>9, <2>10 DEF WorkStep
<1>5. ASSUME NEW t \in Tickets, Reveal(t) PROVE DueInv'
  BY <1>5 DEF Reveal
<1>6. ASSUME NEW t \in Tickets, WriteRaises(t) PROVE DueInv'
  BY <1>6 DEF WriteRaises, AttemptRaises
<1>7. ASSUME NEW t \in Tickets, RunKilled(t) PROVE DueInv'
  BY <1>7 DEF RunKilled
<1>8. ASSUME NEW a \in Apis, ApiStep(a) PROVE DueInv'
  <2>1. ASSUME NEW t \in Tickets, AbandonChecks(a, t) PROVE DueInv'
    BY <2>1 DEF AbandonChecks, Stranded
  <2>2. CASE CancelPipeline(a)
    BY <2>2 DEF CancelPipeline, Canceled
  <2>3. CASE ReadState(a)
    BY <2>3 DEF ReadState, Stranded, Abandoning
  <2>4. CASE AbandonRefunds(a)
    BY <2>4 DEF AbandonRefunds, Refund, Credit, CreditRaises
  <2>5. CASE AbandonWrites(a)
    BY <2>5 DEF AbandonWrites
  <2> QED
    BY <1>8, <2>1, <2>2, <2>3, <2>4, <2>5 DEF ApiStep
<1>12. ASSUME NEW a \in Apis, AbandonDies(a) PROVE DueInv'
  BY <1>12 DEF AbandonDies
<1>9. CASE RunnerLeaves
  BY <1>9 DEF RunnerLeaves
<1>10. CASE RunnerBoots
  BY <1>10 DEF RunnerBoots
<1>11. CASE UNCHANGED vars
  BY <1>11
<1> QED
  BY <1>1, <1>2, <1>3, <1>4, <1>5, <1>6, <1>7, <1>8, <1>9, <1>10, <1>11, <1>12 DEF Next

-----------------------------------------------------------------------------

\* The write that ends a ticket finds it settled.
LEMMA FairStep ==
    ASSUME TypeOK, RefreshInv, [Next]_vars
    PROVE  SettledFairly'
<1> USE DEF TypeOK, PhaseInv, AbandonInv, CreditInv, LandedInv, DueInv, SettledFairly
<1> USE DEF RefreshInv
<1>1. ASSUME NEW t \in Tickets, StartStep(t) PROVE SettledFairly'
  <2>1. CASE CheckRunner(t)
    BY <2>1 DEF CheckRunner
  <2>2. CASE Price(t)
    BY <2>2 DEF Price
  <2>3. CASE Charge(t)
    BY <2>3 DEF Charge
  <2>4. CASE DispatchChecks(t)
    BY <2>4 DEF DispatchChecks
  <2>5. CASE RefuseWithoutRunner(t)
    BY <2>5 DEF RefuseWithoutRunner, Refund, Credit, CreditRaises
  <2>6. CASE WriteQueued(t)
    BY <2>6 DEF WriteQueued
  <2>7. CASE Enqueue(t)
    BY <2>7 DEF Enqueue
  <2>8. CASE UndoCharge(t)
    BY <2>8 DEF UndoCharge, Refund, Credit, CreditRaises
  <2>9. CASE WriteUnqueued(t)
    BY <2>9 DEF WriteUnqueued
  <2> QED
    BY <1>1, <2>1, <2>2, <2>3, <2>4, <2>5, <2>6, <2>7, <2>8, <2>9 DEF StartStep
<1>2. ASSUME NEW t \in Tickets, EnqueueRaises(t) PROVE SettledFairly'
  BY <1>2 DEF EnqueueRaises
<1>3. ASSUME NEW t \in Tickets, StartDies(t) PROVE SettledFairly'
  BY <1>3 DEF StartDies
<1>4. ASSUME NEW t \in Tickets, WorkStep(t) PROVE SettledFairly'
  <2>1. CASE Dequeue(t)
    BY <2>1 DEF Dequeue
  <2>2. CASE Begin(t)
    BY <2>2 DEF Begin
  <2>3. CASE RunLands(t)
    BY <2>3 DEF RunLands
  <2>4. CASE RunIsEmpty(t)
    BY <2>4 DEF RunIsEmpty
  <2>5. CASE RunRaises(t)
    BY <2>5 DEF RunRaises, AttemptRaises
  <2>6. CASE RunAgain(t)
    BY <2>6 DEF RunAgain
  <2>7. CASE Repay(t)
    BY <2>7 DEF Repay, Refund, Credit, CreditRaises
  <2>8. CASE Finish(t)
    BY <2>8 DEF Finish
  <2>9. CASE GiveUp(t)
    BY <2>9 DEF GiveUp, Refund, Credit, CreditRaises
  <2>10. CASE Fail(t)
    BY <2>10 DEF Fail
  <2> QED
    BY <1>4, <2>1, <2>2, <2>3, <2>4, <2>5, <2>6, <2>7, <2>8, <2>9, <2>10 DEF WorkStep
<1>5. ASSUME NEW t \in Tickets, Reveal(t) PROVE SettledFairly'
  BY <1>5 DEF Reveal
<1>6. ASSUME NEW t \in Tickets, WriteRaises(t) PROVE SettledFairly'
  BY <1>6 DEF WriteRaises, AttemptRaises
<1>7. ASSUME NEW t \in Tickets, RunKilled(t) PROVE SettledFairly'
  BY <1>7 DEF RunKilled
<1>8. ASSUME NEW a \in Apis, ApiStep(a) PROVE SettledFairly'
  <2>1. ASSUME NEW t \in Tickets, AbandonChecks(a, t) PROVE SettledFairly'
    BY <2>1 DEF AbandonChecks, Stranded
  <2>2. CASE CancelPipeline(a)
    BY <2>2 DEF CancelPipeline, Canceled
  <2>3. CASE ReadState(a)
    BY <2>3 DEF ReadState, Stranded, Abandoning
  <2>4. CASE AbandonRefunds(a)
    BY <2>4 DEF AbandonRefunds, Refund, Credit, CreditRaises
  <2>5. CASE AbandonWrites(a)
    BY <2>5 DEF AbandonWrites
  <2> QED
    BY <1>8, <2>1, <2>2, <2>3, <2>4, <2>5 DEF ApiStep
<1>12. ASSUME NEW a \in Apis, AbandonDies(a) PROVE SettledFairly'
  BY <1>12 DEF AbandonDies
<1>9. CASE RunnerLeaves
  BY <1>9 DEF RunnerLeaves
<1>10. CASE RunnerBoots
  BY <1>10 DEF RunnerBoots
<1>11. CASE UNCHANGED vars
  BY <1>11
<1> QED
  BY <1>1, <1>2, <1>3, <1>4, <1>5, <1>6, <1>7, <1>8, <1>9, <1>10, <1>11, <1>12 DEF Next

-----------------------------------------------------------------------------

\* The settlement invariant holds in every reachable state, whatever fails: a
\* ticket leaves it at the step at which two processes have come to settle it
\* (crossed, doubled), and no other.
THEOREM RefreshInvariant == Spec => []RefreshInv
<1>1. Init => RefreshInv
  BY DEF Init, RefreshInv, PhaseInv, AbandonInv, CreditInv, LandedInv, DueInv, SettledFairly
<1>2. TypeOK /\ RefreshInv /\ [Next]_vars => RefreshInv'
  BY PhaseStep, AbandonStep, CreditStep, LandedStep, DueStep, FairStep DEF RefreshInv
<1> QED
  BY <1>1, <1>2, RefreshTypes, PTL DEF Spec

\* No ticket is given back more than it cost, by the POST that could not
\* enqueue it, its run and its abandonments together, unless two of them came to
\* settle it (crossed, doubled).
THEOREM RefundsStayWithinCharge == Spec => []RefundsWithinCharge
<1>1. TypeOK /\ RefreshInv => RefundsWithinCharge
  BY DEF TypeOK, RefreshInv, CreditInv, RefundsWithinCharge
<1> QED
  BY <1>1, RefreshTypes, RefreshInvariant, PTL

\* A search that landed was not and will not be given back, unless its ticket was
\* crossed: an abandonment or the POST met its run.  Any other arrival of a Job
\* Runner, kill, retry or second API process is harmless.
THEOREM LandedSearchesAreKept == Spec => []NeverLandsRefunded
<1>1. RefreshInv => NeverLandsRefunded
  BY DEF RefreshInv, LandedInv, NeverLandsRefunded
<1> QED
  BY <1>1, RefreshInvariant, PTL

\* An ended ticket is settled by what its search came to, unless its credit raised
\* or two processes came to settle it (crossed, doubled).
THEOREM EndedTicketsAreSettled == Spec => []SettledFairly
<1>1. RefreshInv => SettledFairly
  BY DEF RefreshInv
<1> QED
  BY <1>1, RefreshInvariant, PTL

\* A step leaves an ended ticket as it is.
LEMMA EndStep ==
    ASSUME TypeOK, RefreshInv, [Next]_vars,
           NEW u \in Tickets \ crossed, state[u] \in {"done", "failed"}
    PROVE  state'[u] = state[u]
<1> USE DEF TypeOK, PhaseInv, AbandonInv
<1> USE DEF RefreshInv
<1>1. ASSUME NEW t \in Tickets, StartStep(t) PROVE state'[u] = state[u]
  <2>1. CASE CheckRunner(t)
    BY <2>1 DEF CheckRunner
  <2>2. CASE Price(t)
    BY <2>2 DEF Price
  <2>3. CASE Charge(t)
    BY <2>3 DEF Charge
  <2>4. CASE DispatchChecks(t)
    BY <2>4 DEF DispatchChecks
  <2>5. CASE RefuseWithoutRunner(t)
    BY <2>5 DEF RefuseWithoutRunner, Refund, Credit, CreditRaises
  <2>6. CASE WriteQueued(t)
    BY <2>6 DEF WriteQueued
  <2>7. CASE Enqueue(t)
    BY <2>7 DEF Enqueue
  <2>8. CASE UndoCharge(t)
    BY <2>8 DEF UndoCharge, Refund, Credit, CreditRaises
  <2>9. CASE WriteUnqueued(t)
    BY <2>9 DEF WriteUnqueued
  <2> QED
    BY <1>1, <2>1, <2>2, <2>3, <2>4, <2>5, <2>6, <2>7, <2>8, <2>9 DEF StartStep
<1>2. ASSUME NEW t \in Tickets, EnqueueRaises(t) PROVE state'[u] = state[u]
  BY <1>2 DEF EnqueueRaises
<1>3. ASSUME NEW t \in Tickets, StartDies(t) PROVE state'[u] = state[u]
  BY <1>3 DEF StartDies
<1>4. ASSUME NEW t \in Tickets, WorkStep(t) PROVE state'[u] = state[u]
  <2>1. CASE Dequeue(t)
    BY <2>1 DEF Dequeue
  <2>2. CASE Begin(t)
    BY <2>2 DEF Begin
  <2>3. CASE RunLands(t)
    BY <2>3 DEF RunLands
  <2>4. CASE RunIsEmpty(t)
    BY <2>4 DEF RunIsEmpty
  <2>5. CASE RunRaises(t)
    BY <2>5 DEF RunRaises, AttemptRaises
  <2>6. CASE RunAgain(t)
    BY <2>6 DEF RunAgain
  <2>7. CASE Repay(t)
    BY <2>7 DEF Repay, Refund, Credit, CreditRaises
  <2>8. CASE Finish(t)
    BY <2>8 DEF Finish
  <2>9. CASE GiveUp(t)
    BY <2>9 DEF GiveUp, Refund, Credit, CreditRaises
  <2>10. CASE Fail(t)
    BY <2>10 DEF Fail
  <2> QED
    BY <1>4, <2>1, <2>2, <2>3, <2>4, <2>5, <2>6, <2>7, <2>8, <2>9, <2>10 DEF WorkStep
<1>5. ASSUME NEW t \in Tickets, Reveal(t) PROVE state'[u] = state[u]
  BY <1>5 DEF Reveal
<1>6. ASSUME NEW t \in Tickets, WriteRaises(t) PROVE state'[u] = state[u]
  BY <1>6 DEF WriteRaises, AttemptRaises
<1>7. ASSUME NEW t \in Tickets, RunKilled(t) PROVE state'[u] = state[u]
  BY <1>7 DEF RunKilled
<1>8. ASSUME NEW a \in Apis, ApiStep(a) PROVE state'[u] = state[u]
  <2>1. ASSUME NEW t \in Tickets, AbandonChecks(a, t) PROVE state'[u] = state[u]
    BY <2>1 DEF AbandonChecks, Stranded
  <2>2. CASE CancelPipeline(a)
    BY <2>2 DEF CancelPipeline, Canceled
  <2>3. CASE ReadState(a)
    BY <2>3 DEF ReadState, Stranded, Abandoning
  <2>4. CASE AbandonRefunds(a)
    BY <2>4 DEF AbandonRefunds, Refund, Credit, CreditRaises
  <2>5. CASE AbandonWrites(a)
    BY <2>5 DEF AbandonWrites
  <2> QED
    BY <1>8, <2>1, <2>2, <2>3, <2>4, <2>5 DEF ApiStep
<1>12. ASSUME NEW a \in Apis, AbandonDies(a) PROVE state'[u] = state[u]
  BY <1>12 DEF AbandonDies
<1>9. CASE RunnerLeaves
  BY <1>9 DEF RunnerLeaves
<1>10. CASE RunnerBoots
  BY <1>10 DEF RunnerBoots
<1>11. CASE UNCHANGED vars
  BY <1>11
<1> QED
  BY <1>1, <1>2, <1>3, <1>4, <1>5, <1>6, <1>7, <1>8, <1>9, <1>10, <1>11, <1>12 DEF Next

\* An ended ticket stays as it ended, unless it was crossed: no late write of its
\* POST, its run, a progress callback or an abandonment revives it.
THEOREM EndedTicketsStay == Spec => EndedStays
<1>1. TypeOK /\ RefreshInv /\ [Next]_vars =>
          [\A t \in Tickets \ crossed : state[t] \in {"done", "failed"} => state'[t] = state[t]]_vars
  BY EndStep
<1> QED
  BY <1>1, RefreshTypes, RefreshInvariant, PTL DEF Spec, EndedStays

-----------------------------------------------------------------------------

\* A process writes that a ticket was given back only after crediting it, and
\* no second credit follows.
LEMMA TellStep ==
    ASSUME TypeOK, RefreshInv, TicketTellsTheRefund, [Next]_vars
    PROVE  TicketTellsTheRefund'
<1> USE DEF TypeOK, PhaseInv, AbandonInv, CreditInv, LandedInv, DueInv
<1> USE DEF RefreshInv, TicketTellsTheRefund
<1>1. ASSUME NEW t \in Tickets, StartStep(t) PROVE TicketTellsTheRefund'
  <2>1. CASE CheckRunner(t)
    BY <2>1 DEF CheckRunner
  <2>2. CASE Price(t)
    BY <2>2 DEF Price
  <2>3. CASE Charge(t)
    BY <2>3 DEF Charge
  <2>4. CASE DispatchChecks(t)
    BY <2>4 DEF DispatchChecks
  <2>5. CASE RefuseWithoutRunner(t)
    BY <2>5 DEF RefuseWithoutRunner, Refund, Credit, CreditRaises
  <2>6. CASE WriteQueued(t)
    BY <2>6 DEF WriteQueued
  <2>7. CASE Enqueue(t)
    BY <2>7 DEF Enqueue
  <2>8. CASE UndoCharge(t)
    BY <2>8 DEF UndoCharge, Refund, Credit, CreditRaises
  <2>9. CASE WriteUnqueued(t)
    BY <2>9 DEF WriteUnqueued
  <2> QED
    BY <1>1, <2>1, <2>2, <2>3, <2>4, <2>5, <2>6, <2>7, <2>8, <2>9 DEF StartStep
<1>2. ASSUME NEW t \in Tickets, EnqueueRaises(t) PROVE TicketTellsTheRefund'
  BY <1>2 DEF EnqueueRaises
<1>3. ASSUME NEW t \in Tickets, StartDies(t) PROVE TicketTellsTheRefund'
  BY <1>3 DEF StartDies
<1>4. ASSUME NEW t \in Tickets, WorkStep(t) PROVE TicketTellsTheRefund'
  <2>1. CASE Dequeue(t)
    BY <2>1 DEF Dequeue
  <2>2. CASE Begin(t)
    BY <2>2 DEF Begin
  <2>3. CASE RunLands(t)
    BY <2>3 DEF RunLands
  <2>4. CASE RunIsEmpty(t)
    BY <2>4 DEF RunIsEmpty
  <2>5. CASE RunRaises(t)
    BY <2>5 DEF RunRaises, AttemptRaises
  <2>6. CASE RunAgain(t)
    BY <2>6 DEF RunAgain
  <2>7. CASE Repay(t)
    BY <2>7 DEF Repay, Refund, Credit, CreditRaises
  <2>8. CASE Finish(t)
    BY <2>8 DEF Finish
  <2>9. CASE GiveUp(t)
    BY <2>9 DEF GiveUp, Refund, Credit, CreditRaises
  <2>10. CASE Fail(t)
    BY <2>10 DEF Fail
  <2> QED
    BY <1>4, <2>1, <2>2, <2>3, <2>4, <2>5, <2>6, <2>7, <2>8, <2>9, <2>10 DEF WorkStep
<1>5. ASSUME NEW t \in Tickets, Reveal(t) PROVE TicketTellsTheRefund'
  BY <1>5 DEF Reveal
<1>6. ASSUME NEW t \in Tickets, WriteRaises(t) PROVE TicketTellsTheRefund'
  BY <1>6 DEF WriteRaises, AttemptRaises
<1>7. ASSUME NEW t \in Tickets, RunKilled(t) PROVE TicketTellsTheRefund'
  BY <1>7 DEF RunKilled
<1>8. ASSUME NEW a \in Apis, ApiStep(a) PROVE TicketTellsTheRefund'
  <2>1. ASSUME NEW t \in Tickets, AbandonChecks(a, t) PROVE TicketTellsTheRefund'
    BY <2>1 DEF AbandonChecks, Stranded
  <2>2. CASE CancelPipeline(a)
    BY <2>2 DEF CancelPipeline, Canceled
  <2>3. CASE ReadState(a)
    BY <2>3 DEF ReadState, Stranded, Abandoning
  <2>4. CASE AbandonRefunds(a)
    BY <2>4 DEF AbandonRefunds, Refund, Credit, CreditRaises
  <2>5. CASE AbandonWrites(a)
    BY <2>5 DEF AbandonWrites
  <2> QED
    BY <1>8, <2>1, <2>2, <2>3, <2>4, <2>5 DEF ApiStep
<1>12. ASSUME NEW a \in Apis, AbandonDies(a) PROVE TicketTellsTheRefund'
  BY <1>12 DEF AbandonDies
<1>9. CASE RunnerLeaves
  BY <1>9 DEF RunnerLeaves
<1>10. CASE RunnerBoots
  BY <1>10 DEF RunnerBoots
<1>11. CASE UNCHANGED vars
  BY <1>11
<1> QED
  BY <1>1, <1>2, <1>3, <1>4, <1>5, <1>6, <1>7, <1>8, <1>9, <1>10, <1>11, <1>12 DEF Next

\* A ticket that reports a refund is right: the wallet was credited once, by
\* the POST, the run or the API process that wrote the report, unless the
\* credit itself raised or two of them came to settle it (crossed, doubled).
THEOREM TicketsTellTheTruth == Spec => []TicketTellsTheRefund
<1>1. Init => TicketTellsTheRefund
  BY DEF Init, TicketTellsTheRefund
<1> QED
  BY <1>1, TellStep, RefreshTypes, RefreshInvariant, PTL DEF Spec

-----------------------------------------------------------------------------
(***************************************************************************)
(* The credits, with every failure and any number of API processes.        *)
(***************************************************************************)

\* Where a ticket is, whatever fails.
LEMMA LooseStep ==
    ASSUME TypeOK, LooseInv, MeetInv, [Next]_vars
    PROVE  LooseInv'
<1> USE DEF TypeOK, LooseInv, MeetInv
<1>1. ASSUME NEW t \in Tickets, StartStep(t) PROVE LooseInv'
  <2>1. CASE CheckRunner(t)
    BY <2>1 DEF CheckRunner
  <2>2. CASE Price(t)
    BY <2>2 DEF Price
  <2>3. CASE Charge(t)
    BY <2>3 DEF Charge
  <2>4. CASE DispatchChecks(t)
    BY <2>4 DEF DispatchChecks
  <2>5. CASE RefuseWithoutRunner(t)
    BY <2>5 DEF RefuseWithoutRunner, Refund, Credit, CreditRaises
  <2>6. CASE WriteQueued(t)
    BY <2>6 DEF WriteQueued
  <2>7. CASE Enqueue(t)
    BY <2>7 DEF Enqueue
  <2>8. CASE UndoCharge(t)
    BY <2>8 DEF UndoCharge, Refund, Credit, CreditRaises
  <2>9. CASE WriteUnqueued(t)
    BY <2>9 DEF WriteUnqueued
  <2> QED
    BY <1>1, <2>1, <2>2, <2>3, <2>4, <2>5, <2>6, <2>7, <2>8, <2>9 DEF StartStep
<1>2. ASSUME NEW t \in Tickets, EnqueueRaises(t) PROVE LooseInv'
  BY <1>2 DEF EnqueueRaises
<1>3. ASSUME NEW t \in Tickets, StartDies(t) PROVE LooseInv'
  BY <1>3 DEF StartDies
<1>4. ASSUME NEW t \in Tickets, WorkStep(t) PROVE LooseInv'
  <2>1. CASE Dequeue(t)
    BY <2>1 DEF Dequeue
  <2>2. CASE Begin(t)
    BY <2>2 DEF Begin
  <2>3. CASE RunLands(t)
    BY <2>3 DEF RunLands
  <2>4. CASE RunIsEmpty(t)
    BY <2>4 DEF RunIsEmpty
  <2>5. CASE RunRaises(t)
    BY <2>5 DEF RunRaises, AttemptRaises
  <2>6. CASE RunAgain(t)
    BY <2>6 DEF RunAgain
  <2>7. CASE Repay(t)
    BY <2>7 DEF Repay, Refund, Credit, CreditRaises
  <2>8. CASE Finish(t)
    BY <2>8 DEF Finish
  <2>9. CASE GiveUp(t)
    BY <2>9 DEF GiveUp, Refund, Credit, CreditRaises
  <2>10. CASE Fail(t)
    BY <2>10 DEF Fail
  <2> QED
    BY <1>4, <2>1, <2>2, <2>3, <2>4, <2>5, <2>6, <2>7, <2>8, <2>9, <2>10 DEF WorkStep
<1>5. ASSUME NEW t \in Tickets, Reveal(t) PROVE LooseInv'
  BY <1>5 DEF Reveal
<1>6. ASSUME NEW t \in Tickets, WriteRaises(t) PROVE LooseInv'
  BY <1>6 DEF WriteRaises, AttemptRaises
<1>7. ASSUME NEW t \in Tickets, RunKilled(t) PROVE LooseInv'
  BY <1>7 DEF RunKilled
<1>8. ASSUME NEW a \in Apis, ApiStep(a) PROVE LooseInv'
  <2>1. ASSUME NEW t \in Tickets, AbandonChecks(a, t) PROVE LooseInv'
    BY <2>1 DEF AbandonChecks, Stranded
  <2>2. CASE CancelPipeline(a)
    BY <2>2 DEF CancelPipeline, Canceled
  <2>3. CASE ReadState(a)
    BY <2>3 DEF ReadState, Stranded, Abandoning
  <2>4. CASE AbandonRefunds(a)
    BY <2>4 DEF AbandonRefunds, Refund, Credit, CreditRaises
  <2>5. CASE AbandonWrites(a)
    BY <2>5 DEF AbandonWrites
  <2> QED
    BY <1>8, <2>1, <2>2, <2>3, <2>4, <2>5 DEF ApiStep
<1>12. ASSUME NEW a \in Apis, AbandonDies(a) PROVE LooseInv'
  BY <1>12 DEF AbandonDies
<1>9. CASE RunnerLeaves
  BY <1>9 DEF RunnerLeaves
<1>10. CASE RunnerBoots
  BY <1>10 DEF RunnerBoots
<1>11. CASE UNCHANGED vars
  BY <1>11
<1> QED
  BY <1>1, <1>2, <1>3, <1>4, <1>5, <1>6, <1>7, <1>8, <1>9, <1>10, <1>11, <1>12 DEF Next

\* An abandonment meets a Job Runner only after a fault.
LEMMA MeetStep ==
    ASSUME TypeOK, LooseInv, MeetInv, [Next]_vars
    PROVE  MeetInv'
<1> USE DEF TypeOK, LooseInv, MeetInv
<1>1. ASSUME NEW t \in Tickets, StartStep(t) PROVE MeetInv'
  <2>1. CASE CheckRunner(t)
    BY <2>1 DEF CheckRunner
  <2>2. CASE Price(t)
    BY <2>2 DEF Price
  <2>3. CASE Charge(t)
    BY <2>3 DEF Charge
  <2>4. CASE DispatchChecks(t)
    BY <2>4 DEF DispatchChecks
  <2>5. CASE RefuseWithoutRunner(t)
    BY <2>5 DEF RefuseWithoutRunner, Refund, Credit, CreditRaises
  <2>6. CASE WriteQueued(t)
    BY <2>6 DEF WriteQueued
  <2>7. CASE Enqueue(t)
    BY <2>7 DEF Enqueue
  <2>8. CASE UndoCharge(t)
    BY <2>8 DEF UndoCharge, Refund, Credit, CreditRaises
  <2>9. CASE WriteUnqueued(t)
    BY <2>9 DEF WriteUnqueued
  <2> QED
    BY <1>1, <2>1, <2>2, <2>3, <2>4, <2>5, <2>6, <2>7, <2>8, <2>9 DEF StartStep
<1>2. ASSUME NEW t \in Tickets, EnqueueRaises(t) PROVE MeetInv'
  BY <1>2 DEF EnqueueRaises
<1>3. ASSUME NEW t \in Tickets, StartDies(t) PROVE MeetInv'
  BY <1>3 DEF StartDies
<1>4. ASSUME NEW t \in Tickets, WorkStep(t) PROVE MeetInv'
  <2>1. CASE Dequeue(t)
    BY <2>1 DEF Dequeue
  <2>2. CASE Begin(t)
    BY <2>2 DEF Begin
  <2>3. CASE RunLands(t)
    BY <2>3 DEF RunLands
  <2>4. CASE RunIsEmpty(t)
    BY <2>4 DEF RunIsEmpty
  <2>5. CASE RunRaises(t)
    BY <2>5 DEF RunRaises, AttemptRaises
  <2>6. CASE RunAgain(t)
    BY <2>6 DEF RunAgain
  <2>7. CASE Repay(t)
    BY <2>7 DEF Repay, Refund, Credit, CreditRaises
  <2>8. CASE Finish(t)
    BY <2>8 DEF Finish
  <2>9. CASE GiveUp(t)
    BY <2>9 DEF GiveUp, Refund, Credit, CreditRaises
  <2>10. CASE Fail(t)
    BY <2>10 DEF Fail
  <2> QED
    BY <1>4, <2>1, <2>2, <2>3, <2>4, <2>5, <2>6, <2>7, <2>8, <2>9, <2>10 DEF WorkStep
<1>5. ASSUME NEW t \in Tickets, Reveal(t) PROVE MeetInv'
  BY <1>5 DEF Reveal
<1>6. ASSUME NEW t \in Tickets, WriteRaises(t) PROVE MeetInv'
  BY <1>6 DEF WriteRaises, AttemptRaises
<1>7. ASSUME NEW t \in Tickets, RunKilled(t) PROVE MeetInv'
  BY <1>7 DEF RunKilled
<1>8. ASSUME NEW a \in Apis, ApiStep(a) PROVE MeetInv'
  <2>1. ASSUME NEW t \in Tickets, AbandonChecks(a, t) PROVE MeetInv'
    BY <2>1 DEF AbandonChecks, Stranded
  <2>2. CASE CancelPipeline(a)
    BY <2>2 DEF CancelPipeline, Canceled
  <2>3. CASE ReadState(a)
    BY <2>3 DEF ReadState, Stranded, Abandoning
  <2>4. CASE AbandonRefunds(a)
    BY <2>4 DEF AbandonRefunds, Refund, Credit, CreditRaises
  <2>5. CASE AbandonWrites(a)
    BY <2>5 DEF AbandonWrites
  <2> QED
    BY <1>8, <2>1, <2>2, <2>3, <2>4, <2>5 DEF ApiStep
<1>12. ASSUME NEW a \in Apis, AbandonDies(a) PROVE MeetInv'
  BY <1>12 DEF AbandonDies
<1>9. CASE RunnerLeaves
  BY <1>9 DEF RunnerLeaves
<1>10. CASE RunnerBoots
  BY <1>10 DEF RunnerBoots
<1>11. CASE UNCHANGED vars
  BY <1>11
<1> QED
  BY <1>1, <1>2, <1>3, <1>4, <1>5, <1>6, <1>7, <1>8, <1>9, <1>10, <1>11, <1>12 DEF Next

\* A run and an abandonment come to meet only by a fault.
Grows(x) == Meet(x)' => Meet(x) \/ faults' > faults

LEMMA GrowStep ==
    ASSUME TypeOK, LooseInv, MeetInv, [Next]_vars, NEW x \in Tickets
    PROVE  Grows(x)
<1> USE DEF TypeOK, LooseInv, MeetInv, Grows, Meet, RunMayCredit
<1>1. ASSUME NEW t \in Tickets, StartStep(t) PROVE Grows(x)
  <2>1. CASE CheckRunner(t)
    BY <2>1 DEF CheckRunner
  <2>2. CASE Price(t)
    BY <2>2 DEF Price
  <2>3. CASE Charge(t)
    BY <2>3 DEF Charge
  <2>4. CASE DispatchChecks(t)
    BY <2>4 DEF DispatchChecks
  <2>5. CASE RefuseWithoutRunner(t)
    BY <2>5 DEF RefuseWithoutRunner, Refund, Credit, CreditRaises
  <2>6. CASE WriteQueued(t)
    BY <2>6 DEF WriteQueued
  <2>7. CASE Enqueue(t)
    BY <2>7 DEF Enqueue
  <2>8. CASE UndoCharge(t)
    BY <2>8 DEF UndoCharge, Refund, Credit, CreditRaises
  <2>9. CASE WriteUnqueued(t)
    BY <2>9 DEF WriteUnqueued
  <2> QED
    BY <1>1, <2>1, <2>2, <2>3, <2>4, <2>5, <2>6, <2>7, <2>8, <2>9 DEF StartStep
<1>2. ASSUME NEW t \in Tickets, EnqueueRaises(t) PROVE Grows(x)
  BY <1>2 DEF EnqueueRaises
<1>3. ASSUME NEW t \in Tickets, StartDies(t) PROVE Grows(x)
  BY <1>3 DEF StartDies
<1>4. ASSUME NEW t \in Tickets, WorkStep(t) PROVE Grows(x)
  <2>1. CASE Dequeue(t)
    BY <2>1 DEF Dequeue
  <2>2. CASE Begin(t)
    BY <2>2 DEF Begin
  <2>3. CASE RunLands(t)
    BY <2>3 DEF RunLands
  <2>4. CASE RunIsEmpty(t)
    BY <2>4 DEF RunIsEmpty
  <2>5. CASE RunRaises(t)
    BY <2>5 DEF RunRaises, AttemptRaises
  <2>6. CASE RunAgain(t)
    BY <2>6 DEF RunAgain
  <2>7. CASE Repay(t)
    BY <2>7 DEF Repay, Refund, Credit, CreditRaises
  <2>8. CASE Finish(t)
    BY <2>8 DEF Finish
  <2>9. CASE GiveUp(t)
    BY <2>9 DEF GiveUp, Refund, Credit, CreditRaises
  <2>10. CASE Fail(t)
    BY <2>10 DEF Fail
  <2> QED
    BY <1>4, <2>1, <2>2, <2>3, <2>4, <2>5, <2>6, <2>7, <2>8, <2>9, <2>10 DEF WorkStep
<1>5. ASSUME NEW t \in Tickets, Reveal(t) PROVE Grows(x)
  BY <1>5 DEF Reveal
<1>6. ASSUME NEW t \in Tickets, WriteRaises(t) PROVE Grows(x)
  BY <1>6 DEF WriteRaises, AttemptRaises
<1>7. ASSUME NEW t \in Tickets, RunKilled(t) PROVE Grows(x)
  BY <1>7 DEF RunKilled
<1>8. ASSUME NEW a \in Apis, ApiStep(a) PROVE Grows(x)
  <2>1. ASSUME NEW t \in Tickets, AbandonChecks(a, t) PROVE Grows(x)
    BY <2>1 DEF AbandonChecks, Stranded
  <2>2. CASE CancelPipeline(a)
    BY <2>2 DEF CancelPipeline, Canceled
  <2>3. CASE ReadState(a)
    BY <2>3 DEF ReadState, Stranded, Abandoning
  <2>4. CASE AbandonRefunds(a)
    BY <2>4 DEF AbandonRefunds, Refund, Credit, CreditRaises
  <2>5. CASE AbandonWrites(a)
    BY <2>5 DEF AbandonWrites
  <2> QED
    BY <1>8, <2>1, <2>2, <2>3, <2>4, <2>5 DEF ApiStep
<1>12. ASSUME NEW a \in Apis, AbandonDies(a) PROVE Grows(x)
  BY <1>12 DEF AbandonDies
<1>9. CASE RunnerLeaves
  BY <1>9 DEF RunnerLeaves
<1>10. CASE RunnerBoots
  BY <1>10 DEF RunnerBoots
<1>11. CASE UNCHANGED vars
  BY <1>11
<1> QED
  BY <1>1, <1>2, <1>3, <1>4, <1>5, <1>6, <1>7, <1>8, <1>9, <1>10, <1>11, <1>12 DEF Next

\* The steps that put a credit of ticket x in somebody's hands, or take one
\* out of an API process's hands.
Reaches(x) ==
    \/ DispatchChecks(x) \/ Enqueue(x) \/ EnqueueRaises(x)
    \/ \E a \in Apis : task[a] = x /\ (ReadState(a) \/ AbandonRefunds(a) \/ AbandonDies(a))

\* What any other step leaves of the bound of x: the credits given and in hand
\* grow by no more than the faults.
Tame(x) ==
    /\ Abandoning(x, "refund")' = Abandoning(x, "refund")
    /\ faults' \in Nat /\ faults' >= faults
    /\ (refunds[x] + One(RunMayCredit(x)) + One(PostMayCredit(x)))' + faults
           <= refunds[x] + One(RunMayCredit(x)) + One(PostMayCredit(x)) + faults'
    /\ (state[x] = "queued" /\ spc[x] = "returned")' =>
           /\ state[x] = "queued" /\ spc[x] = "returned" /\ refunds'[x] = refunds[x]
           /\ Abandoning(x, "write")' = Abandoning(x, "write")

LEMMA TameStep ==
    ASSUME TypeOK, LooseInv, MeetInv, [Next]_vars, NEW x \in Tickets, ~Reaches(x)
    PROVE  Tame(x)
<1> USE DEF TypeOK, LooseInv, MeetInv, Tame, RunMayCredit, PostMayCredit, One, Abandoning
<1>1. ASSUME NEW t \in Tickets, StartStep(t) PROVE Tame(x)
  <2>1. CASE CheckRunner(t)
    BY <2>1 DEF CheckRunner
  <2>2. CASE Price(t)
    BY <2>2 DEF Price
  <2>3. CASE Charge(t)
    BY <2>3 DEF Charge
  <2>4. CASE DispatchChecks(t)
    <3>1. t # x
      BY <2>4 DEF Reaches
    <3> QED
      BY <2>4, <3>1 DEF DispatchChecks
  <2>5. CASE RefuseWithoutRunner(t)
    BY <2>5 DEF RefuseWithoutRunner, Refund, Credit, CreditRaises
  <2>6. CASE WriteQueued(t)
    BY <2>6 DEF WriteQueued
  <2>7. CASE Enqueue(t)
    <3>1. t # x
      BY <2>7 DEF Reaches
    <3> QED
      BY <2>7, <3>1 DEF Enqueue
  <2>8. CASE UndoCharge(t)
    BY <2>8 DEF UndoCharge, Refund, Credit, CreditRaises
  <2>9. CASE WriteUnqueued(t)
    BY <2>9 DEF WriteUnqueued
  <2> QED
    BY <1>1, <2>1, <2>2, <2>3, <2>4, <2>5, <2>6, <2>7, <2>8, <2>9 DEF StartStep
<1>2. ASSUME NEW t \in Tickets, EnqueueRaises(t) PROVE Tame(x)
  <2>1. t # x
    BY <1>2 DEF Reaches
  <2> QED
    BY <1>2, <2>1 DEF EnqueueRaises
<1>3. ASSUME NEW t \in Tickets, StartDies(t) PROVE Tame(x)
  BY <1>3 DEF StartDies
<1>4. ASSUME NEW t \in Tickets, WorkStep(t) PROVE Tame(x)
  <2>1. CASE Dequeue(t)
    BY <2>1 DEF Dequeue
  <2>2. CASE Begin(t)
    BY <2>2 DEF Begin
  <2>3. CASE RunLands(t)
    BY <2>3 DEF RunLands
  <2>4. CASE RunIsEmpty(t)
    BY <2>4 DEF RunIsEmpty
  <2>5. CASE RunRaises(t)
    BY <2>5 DEF RunRaises, AttemptRaises
  <2>6. CASE RunAgain(t)
    BY <2>6 DEF RunAgain
  <2>7. CASE Repay(t)
    BY <2>7 DEF Repay, Refund, Credit, CreditRaises
  <2>8. CASE Finish(t)
    BY <2>8 DEF Finish
  <2>9. CASE GiveUp(t)
    BY <2>9 DEF GiveUp, Refund, Credit, CreditRaises
  <2>10. CASE Fail(t)
    BY <2>10 DEF Fail
  <2> QED
    BY <1>4, <2>1, <2>2, <2>3, <2>4, <2>5, <2>6, <2>7, <2>8, <2>9, <2>10 DEF WorkStep
<1>5. ASSUME NEW t \in Tickets, Reveal(t) PROVE Tame(x)
  BY <1>5 DEF Reveal
<1>6. ASSUME NEW t \in Tickets, WriteRaises(t) PROVE Tame(x)
  BY <1>6 DEF WriteRaises, AttemptRaises
<1>7. ASSUME NEW t \in Tickets, RunKilled(t) PROVE Tame(x)
  BY <1>7 DEF RunKilled
<1>8. ASSUME NEW a \in Apis, ApiStep(a) PROVE Tame(x)
  <2>1. ASSUME NEW t \in Tickets, AbandonChecks(a, t) PROVE Tame(x)
    BY <2>1 DEF AbandonChecks, Stranded
  <2>2. CASE CancelPipeline(a)
    BY <2>2 DEF CancelPipeline, Canceled
  <2>3. CASE ReadState(a)
    <3>1. task[a] # x
      BY <2>3 DEF Reaches
    <3> QED
      BY <2>3, <3>1 DEF ReadState, Stranded, Abandoning
  <2>4. CASE AbandonRefunds(a)
    <3>1. task[a] # x
      BY <2>4 DEF Reaches
    <3> QED
      BY <2>4, <3>1 DEF AbandonRefunds, Refund, Credit, CreditRaises
  <2>5. CASE AbandonWrites(a)
    BY <2>5 DEF AbandonWrites
  <2> QED
    BY <1>8, <2>1, <2>2, <2>3, <2>4, <2>5 DEF ApiStep
<1>12. ASSUME NEW a \in Apis, AbandonDies(a) PROVE Tame(x)
  <2>1. task[a] # x
    BY <1>12 DEF Reaches
  <2> QED
    BY <1>12, <2>1 DEF AbandonDies
<1>9. CASE RunnerLeaves
  BY <1>9 DEF RunnerLeaves
<1>10. CASE RunnerBoots
  BY <1>10 DEF RunnerBoots
<1>11. CASE UNCHANGED vars
  BY <1>11
<1> QED
  BY <1>1, <1>2, <1>3, <1>4, <1>5, <1>6, <1>7, <1>8, <1>9, <1>10, <1>11, <1>12 DEF Next

\* The API processes at one step of abandoning one ticket are finitely many.
LEMMA AbandoningIsFinite ==
    ASSUME NEW x \in Tickets, NEW step
    PROVE  /\ IsFiniteSet(Abandoning(x, step))
           /\ Cardinality(Abandoning(x, step)) \in Nat
<1>1. Abandoning(x, step) \subseteq Apis
  BY DEF Abandoning
<1> QED
  BY <1>1, ApisAssumption, FS_Subset, FS_CardinalityType

\* Nobody abandons a ticket whose POST has not returned.
LEMMA NobodyAbandons ==
    ASSUME TypeOK, MeetInv, NEW x \in Tickets, spc[x] # "returned", NEW step \in {"refund", "write"}
    PROVE  Abandoning(x, step) = {} /\ Cardinality(Abandoning(x, step)) = 0
<1>1. Abandoning(x, step) = {}
  BY DEF Abandoning, MeetInv
<1> QED
  BY <1>1, FS_EmptySet

LEMMA AtMostOneMore ==
    ASSUME NEW m \in 0..1, NEW n \in 0..1, NEW f \in Nat, NEW g \in Nat,
           g >= f, n <= m \/ g > f
    PROVE  n + f <= m + g
OBVIOUS

LEMMA MeetGrows ==
    ASSUME TypeOK, TypeOK', NEW x \in Tickets, Grows(x), faults' >= faults
    PROVE  /\ One(Meet(x)) \in 0..1 /\ One(Meet(x))' \in 0..1
           /\ One(Meet(x))' + faults <= One(Meet(x)) + faults'
<1> DEFINE before == One(Meet(x))
           after  == One(Meet(x))'
<1>1. faults \in Nat /\ faults' \in Nat
  BY DEF TypeOK
<1>2. before \in 0..1 /\ after \in 0..1
  BY DEF One
<1>3. after <= before \/ faults' > faults
  <2>1. CASE Meet(x)' /\ ~Meet(x)
    BY <2>1 DEF Grows
  <2>2. CASE ~Meet(x)' \/ Meet(x)
    BY <2>2 DEF One
  <2> QED
    BY <2>1, <2>2
<1> HIDE DEF before, after
<1>4. after + faults <= before + faults'
  BY <1>1, <1>2, <1>3, AtMostOneMore
<1> QED
  BY <1>2, <1>4 DEF before, after

LEMMA TameIsBounded ==
    ASSUME TypeOK, TypeOK', NEW x \in Tickets, Bounded(x), Tame(x), Grows(x)
    PROVE  Bounded(x)'
<1>1. Cardinality(Apis) \in Nat /\ Cardinality(Abandoning(x, "refund")) \in Nat
  BY AbandoningIsFinite, ApisAssumption, FS_CardinalityType
<1>2. Cardinality(Abandoning(x, "refund"))' = Cardinality(Abandoning(x, "refund"))
  BY DEF Tame
<1>3. /\ refunds[x] \in Nat /\ refunds'[x] \in Nat /\ faults \in Nat /\ faults' \in Nat
      /\ One(RunMayCredit(x)) \in 0..1 /\ One(PostMayCredit(x)) \in 0..1
      /\ One(RunMayCredit(x))' \in 0..1 /\ One(PostMayCredit(x))' \in 0..1
  BY DEF TypeOK, One
<1>4. (refunds[x] + CreditsInHand(x) <= Cardinality(Apis) + faults)'
  BY <1>1, <1>2, <1>3 DEF Bounded, Tame, CreditsInHand
<1>5. (state[x] = "queued" /\ spc[x] = "returned" =>
           refunds[x] + One(Meet(x)) <= Cardinality(Abandoning(x, "write")) + faults)'
  <2> SUFFICES ASSUME (state[x] = "queued" /\ spc[x] = "returned")'
               PROVE  (refunds[x] + One(Meet(x)) <= Cardinality(Abandoning(x, "write")) + faults)'
    OBVIOUS
  <2>1. /\ refunds[x] + One(Meet(x)) <= Cardinality(Abandoning(x, "write")) + faults
        /\ refunds'[x] = refunds[x] /\ faults' >= faults
        /\ Cardinality(Abandoning(x, "write"))' = Cardinality(Abandoning(x, "write"))
    BY DEF Bounded, Tame
  <2>2. Cardinality(Abandoning(x, "write")) \in Nat
    BY AbandoningIsFinite
  <2> QED
    BY <1>3, <2>1, <2>2, MeetGrows
<1> QED
  BY <1>4, <1>5 DEF Bounded

\* An abandonment that finds its ticket queued adds one credit in hand.
LEMMA ReadIsBounded ==
    ASSUME TypeOK, BoundInv, NEW a \in Apis, NEW x \in Tickets, task[a] = x,
           Abandons(a, "read", "refund"), Stranded(x), Grows(x),
           UNCHANGED <<runner, ticket, job, money, start, run, task, faults>>
    PROVE  Bounded(x)'
<1> USE DEF TypeOK
<1> DEFINE R == Abandoning(x, "refund")
           W == Abandoning(x, "write")
<1>1. /\ IsFiniteSet(R) /\ Cardinality(R) \in Nat
      /\ IsFiniteSet(W) /\ Cardinality(W) \in Nat
      /\ IsFiniteSet(Apis) /\ Cardinality(Apis) \in Nat
  BY AbandoningIsFinite, ApisAssumption, FS_CardinalityType
<1>2. R' = R \cup {a} /\ a \notin R /\ W' = W /\ R' \cap W = {} /\ R' \cup W \subseteq Apis
  BY DEF Abandoning
<1>3. Cardinality(R') = Cardinality(R) + 1 /\ IsFiniteSet(R')
  BY <1>1, <1>2, FS_AddElement
<1>4. Cardinality(R' \cup W) = Cardinality(R') + Cardinality(W)
  <2>1. Cardinality(R' \cap W) = 0
    <3>1. R' \cap W = {}
      BY <1>2
    <3> QED
      BY <3>1, FS_EmptySet
  <2>2. Cardinality(R' \cup W) = Cardinality(R') + Cardinality(W) - Cardinality(R' \cap W)
    BY <1>1, <1>3, FS_Union
  <2>3. Cardinality(R') \in Nat
    BY <1>1, <1>3
  <2> HIDE DEF R, W
  <2> QED
    BY <1>1, <2>1, <2>2, <2>3
<1>5. Cardinality(R' \cup W) <= Cardinality(Apis)
  BY <1>1, <1>2, FS_Subset
<1>6. state[x] = "queued" /\ spc[x] = "returned"
  BY DEF BoundInv, MeetInv, Stranded
<1>7. /\ refunds[x] \in Nat /\ faults \in Nat /\ One(Meet(x)) \in 0..1
      /\ refunds[x] + One(Meet(x)) <= Cardinality(W) + faults
  BY <1>6 DEF BoundInv, Bounded, One
<1>8. /\ One(PostMayCredit(x))' = 0
      /\ One(RunMayCredit(x))' = One(Meet(x)) /\ One(Meet(x))' = One(Meet(x))
  <2>1. RunMayCredit(x)' <=> RunMayCredit(x)
    BY DEF RunMayCredit
  <2>2. (Meet(x) <=> RunMayCredit(x)) /\ (Meet(x)' <=> RunMayCredit(x)')
    BY DEF Meet
  <2> QED
    BY <1>6, <2>1, <2>2 DEF PostMayCredit, One
<1>9. (refunds[x] + CreditsInHand(x) <= Cardinality(Apis) + faults)'
  <2>1. CreditsInHand(x)' = Cardinality(R') + One(RunMayCredit(x))'
    BY <1>1, <1>3, <1>7, <1>8 DEF CreditsInHand
  <2>2. refunds'[x] = refunds[x] /\ faults' = faults
    OBVIOUS
  <2> HIDE DEF R, W
  <2> QED
    BY <1>1, <1>3, <1>4, <1>5, <1>7, <1>8, <2>1, <2>2
<1>10. (refunds[x] + One(Meet(x)) <= Cardinality(Abandoning(x, "write")) + faults)'
  BY <1>2, <1>7, <1>8
<1> QED
  BY <1>9, <1>10 DEF Bounded

\* Its credit moves from its hands to the wallet, or is swallowed.
LEMMA CreditIsBounded ==
    ASSUME TypeOK, TypeOK', BoundInv, NEW a \in Apis, NEW x \in Tickets, task[a] = x,
           AbandonRefunds(a), Grows(x)
    PROVE  Bounded(x)'
<1> USE DEF TypeOK
<1> DEFINE R == Abandoning(x, "refund")
           W == Abandoning(x, "write")
<1>1. /\ IsFiniteSet(R) /\ Cardinality(R) \in Nat
      /\ IsFiniteSet(W) /\ Cardinality(W) \in Nat
      /\ Cardinality(Apis) \in Nat
  BY AbandoningIsFinite, ApisAssumption, FS_CardinalityType
<1>2. R' = R \ {a} /\ a \in R /\ W' = W \cup {a} /\ a \notin W
  BY DEF AbandonRefunds, Abandoning
<1>3. Cardinality(R') = Cardinality(R) - 1 /\ Cardinality(W') = Cardinality(W) + 1
  <2>1. Cardinality(R \ {a}) = Cardinality(R) - 1
    BY <1>1, <1>2, FS_RemoveElement
  <2>2. Cardinality(W \cup {a}) = Cardinality(W) + 1
    BY <1>1, <1>2, FS_AddElement
  <2> QED
    BY <1>2, <2>1, <2>2
<1>4. /\ refunds'[x] <= refunds[x] + 1 /\ refunds[x] \in Nat /\ refunds'[x] \in Nat
      /\ faults' >= faults /\ faults \in Nat /\ faults' \in Nat
      /\ UNCHANGED <<ticket, job, start, run>>
  BY DEF AbandonRefunds, Refund, Credit, CreditRaises
<1>5. /\ One(RunMayCredit(x))' = One(RunMayCredit(x)) /\ One(RunMayCredit(x)) \in 0..1
      /\ One(PostMayCredit(x))' = One(PostMayCredit(x)) /\ One(PostMayCredit(x)) \in 0..1
  BY <1>4 DEF RunMayCredit, PostMayCredit, One
<1>6. Bounded(x)
  BY DEF BoundInv
<1>7. (refunds[x] + CreditsInHand(x) <= Cardinality(Apis) + faults)'
  <2>1. /\ CreditsInHand(x) = Cardinality(R) + One(RunMayCredit(x)) + One(PostMayCredit(x))
        /\ CreditsInHand(x)' = Cardinality(R') + One(RunMayCredit(x)) + One(PostMayCredit(x))
    BY <1>5 DEF CreditsInHand
  <2>2. refunds[x] + CreditsInHand(x) <= Cardinality(Apis) + faults
    BY <1>6 DEF Bounded
  <2> HIDE DEF R, W
  <2> QED
    BY <1>1, <1>3, <1>4, <1>5, <2>1, <2>2
<1>8. (state[x] = "queued" /\ spc[x] = "returned" =>
           refunds[x] + One(Meet(x)) <= Cardinality(W) + faults)'
  <2>1. state[x] = "queued" /\ spc[x] = "returned" =>
            refunds[x] + One(Meet(x)) <= Cardinality(W) + faults
    BY <1>6 DEF Bounded
  <2>2. state' = state /\ spc' = spc
    BY <1>4
  <2>3. /\ One(Meet(x)) \in 0..1 /\ One(Meet(x))' \in 0..1
        /\ One(Meet(x))' + faults <= One(Meet(x)) + faults'
    BY <1>4, MeetGrows
  <2> HIDE DEF R, W
  <2> QED
    BY <1>1, <1>3, <1>4, <2>1, <2>2, <2>3
<1> QED
  BY <1>7, <1>8 DEF Bounded

\* An API process that dies loses what it had in hand, or leaves its credit
\* unwritten; either is a fault.
LEMMA DeathIsBounded ==
    ASSUME TypeOK, TypeOK', BoundInv, NEW a \in Apis, NEW x \in Tickets, task[a] = x,
           AbandonDies(a), Grows(x)
    PROVE  Bounded(x)'
<1> USE DEF TypeOK
<1> DEFINE R == Abandoning(x, "refund")
           W == Abandoning(x, "write")
<1>1. /\ IsFiniteSet(R) /\ Cardinality(R) \in Nat
      /\ IsFiniteSet(W) /\ Cardinality(W) \in Nat
      /\ Cardinality(Apis) \in Nat
  BY AbandoningIsFinite, ApisAssumption, FS_CardinalityType
<1>2. R' = R \ {a} /\ W' = W \ {a}
  BY DEF AbandonDies, Abandoning
<1>3. /\ Cardinality(R') \in Nat /\ Cardinality(R') <= Cardinality(R)
      /\ Cardinality(W') \in Nat /\ Cardinality(W) <= Cardinality(W') + 1
  <2>1. /\ Cardinality(R \ {a}) = IF a \in R THEN Cardinality(R) - 1 ELSE Cardinality(R)
        /\ Cardinality(W \ {a}) = IF a \in W THEN Cardinality(W) - 1 ELSE Cardinality(W)
    BY <1>1, FS_RemoveElement
  <2>2. Cardinality(R \ {a}) \in Nat /\ Cardinality(W \ {a}) \in Nat
    BY <1>1, FS_RemoveElement, FS_CardinalityType
  <2> HIDE DEF R, W
  <2> QED
    BY <1>1, <1>2, <2>1, <2>2
<1>4. /\ refunds' = refunds /\ refunds[x] \in Nat
      /\ faults' = faults + 1 /\ faults \in Nat
      /\ UNCHANGED <<ticket, job, start, run>>
  BY DEF AbandonDies
<1>5. /\ One(RunMayCredit(x))' = One(RunMayCredit(x)) /\ One(RunMayCredit(x)) \in 0..1
      /\ One(PostMayCredit(x))' = One(PostMayCredit(x)) /\ One(PostMayCredit(x)) \in 0..1
  BY <1>4 DEF RunMayCredit, PostMayCredit, One
<1>6. Bounded(x)
  BY DEF BoundInv
<1>7. (refunds[x] + CreditsInHand(x) <= Cardinality(Apis) + faults)'
  <2>1. /\ CreditsInHand(x) = Cardinality(R) + One(RunMayCredit(x)) + One(PostMayCredit(x))
        /\ CreditsInHand(x)' = Cardinality(R') + One(RunMayCredit(x)) + One(PostMayCredit(x))
    BY <1>5 DEF CreditsInHand
  <2>2. refunds[x] + CreditsInHand(x) <= Cardinality(Apis) + faults
    BY <1>6 DEF Bounded
  <2> HIDE DEF R, W
  <2> QED
    BY <1>1, <1>3, <1>4, <1>5, <2>1, <2>2
<1>8. (state[x] = "queued" /\ spc[x] = "returned" =>
           refunds[x] + One(Meet(x)) <= Cardinality(W) + faults)'
  <2>1. state[x] = "queued" /\ spc[x] = "returned" =>
            refunds[x] + One(Meet(x)) <= Cardinality(W) + faults
    BY <1>6 DEF Bounded
  <2>2. state' = state /\ spc' = spc
    BY <1>4
  <2>3. Meet(x)' => Meet(x)
    BY DEF AbandonDies, Meet, RunMayCredit
  <2>4. /\ One(Meet(x)) \in 0..1 /\ One(Meet(x))' \in 0..1
        /\ One(Meet(x))' <= One(Meet(x))
    BY <2>3 DEF One
  <2> HIDE DEF R, W
  <2> QED
    BY <1>1, <1>3, <1>4, <2>1, <2>2, <2>4
<1> QED
  BY <1>7, <1>8 DEF Bounded

\* Before the POST returns nothing was credited, and at most its job and its
\* own undoing may.
LEMMA PostIsBounded ==
    ASSUME TypeOK, TypeOK', BoundInv, NEW x \in Tickets,
           DispatchChecks(x) \/ Enqueue(x) \/ EnqueueRaises(x)
    PROVE  Bounded(x)'
<1> USE DEF TypeOK
<1>1. /\ Abandoning(x, "refund") = {} /\ Cardinality(Abandoning(x, "refund")) = 0
      /\ Abandoning(x, "write") = {} /\ Cardinality(Abandoning(x, "write")) = 0
  <2>1. spc[x] # "returned"
    BY DEF DispatchChecks, Enqueue, EnqueueRaises
  <2> QED
    BY <2>1, NobodyAbandons DEF BoundInv
<1>2. Cardinality(Abandoning(x, "refund"))' = 0 /\ Cardinality(Abandoning(x, "write"))' = 0
  <2>1. UNCHANGED api
    BY DEF DispatchChecks, Enqueue, EnqueueRaises
  <2>2. Abandoning(x, "refund")' = Abandoning(x, "refund") /\ Abandoning(x, "write")' = Abandoning(x, "write")
    BY <2>1 DEF Abandoning
  <2> QED
    BY <1>1, <2>2
<1>3. Cardinality(Apis) \in Nat /\ Cardinality(Apis) > 0
  BY ApisAssumption, FS_CardinalityType, FS_EmptySet
<1>4. refunds[x] = 0 /\ job[x] = "none" /\ wpc[x] = "off"
  BY DEF BoundInv, LooseInv, DispatchChecks, Enqueue, EnqueueRaises
<1>5. refunds'[x] = 0 /\ faults \in Nat /\ faults' \in Nat
  BY <1>4 DEF DispatchChecks, Enqueue, EnqueueRaises
<1>6. CreditsInHand(x)' = One(RunMayCredit(x))' + One(PostMayCredit(x))'
  <2>1. One(RunMayCredit(x))' \in 0..1 /\ One(PostMayCredit(x))' \in 0..1
    BY DEF One
  <2> QED
    BY <1>2, <2>1 DEF CreditsInHand
<1>7. One(RunMayCredit(x))' + One(PostMayCredit(x))' <= 1 + faults'
  <2>0. One(RunMayCredit(x))' \in 0..1 /\ One(PostMayCredit(x))' \in 0..1
    BY DEF One
  <2>1. CASE DispatchChecks(x)
    <3>1. ~RunMayCredit(x)'
      BY <1>4, <2>1 DEF RunMayCredit, DispatchChecks
    <3>2. One(RunMayCredit(x))' = 0
      BY <3>1 DEF One
    <3> QED
      BY <1>5, <2>0, <3>2
  <2>2. CASE Enqueue(x)
    <3>1. ~PostMayCredit(x)'
      BY <2>2 DEF PostMayCredit, Enqueue
    <3>2. One(PostMayCredit(x))' = 0
      BY <3>1 DEF One
    <3> QED
      BY <1>5, <2>0, <3>2
  <2>3. CASE EnqueueRaises(x)
    <3>1. faults' = faults + 1
      BY <2>3 DEF EnqueueRaises
    <3> QED
      BY <1>5, <2>0, <3>1
  <2> QED
    BY <2>1, <2>2, <2>3
<1>8. (refunds[x] + CreditsInHand(x) <= Cardinality(Apis) + faults)'
  <2>1. One(RunMayCredit(x))' \in 0..1 /\ One(PostMayCredit(x))' \in 0..1
    BY DEF One
  <2> QED
    BY <1>3, <1>5, <1>6, <1>7, <2>1
<1>9. (state[x] = "queued" /\ spc[x] = "returned" =>
           refunds[x] + One(Meet(x)) <= Cardinality(Abandoning(x, "write")) + faults)'
  <2>1. spc[x] # "returned" /\ UNCHANGED api
    BY DEF DispatchChecks, Enqueue, EnqueueRaises
  <2>2. ~Meet(x)'
    BY <2>1 DEF Meet, BoundInv, MeetInv
  <2> QED
    BY <1>2, <1>5, <2>2 DEF One
<1> QED
  BY <1>8, <1>9 DEF Bounded

LEMMA BoundStep ==
    ASSUME TypeOK, BoundInv, [Next]_vars
    PROVE  BoundInv'
<1>1. TypeOK' /\ LooseInv' /\ MeetInv'
  BY TypeStep, LooseStep, MeetStep DEF BoundInv
<1>2. ASSUME NEW x \in Tickets PROVE Bounded(x)'
  <2>0. Bounded(x) /\ Grows(x)
    BY GrowStep DEF BoundInv
  <2>1. CASE ~Reaches(x)
    BY <1>1, <2>0, <2>1, TameStep, TameIsBounded DEF BoundInv
  <2>2. CASE DispatchChecks(x) \/ Enqueue(x) \/ EnqueueRaises(x)
    BY <1>1, <2>2, PostIsBounded
  <2>3. ASSUME NEW a \in Apis, task[a] = x, ReadState(a) PROVE Bounded(x)'
    <3>1. CASE Stranded(x)
      BY <2>0, <2>3, <3>1, ReadIsBounded DEF ReadState
    <3>2. CASE ~Stranded(x)
      <4>1. Tame(x)
        BY <2>3, <3>2 DEF ReadState, Tame, Abandoning, RunMayCredit, PostMayCredit, One, TypeOK
      <4> QED
        BY <1>1, <2>0, <4>1, TameIsBounded
    <3> QED
      BY <2>3, <3>1, <3>2 DEF ReadState
  <2>4. ASSUME NEW a \in Apis, task[a] = x, AbandonRefunds(a) PROVE Bounded(x)'
    BY <1>1, <2>0, <2>4, CreditIsBounded
  <2>5. ASSUME NEW a \in Apis, task[a] = x, AbandonDies(a) PROVE Bounded(x)'
    BY <1>1, <2>0, <2>5, DeathIsBounded
  <2> QED
    BY <2>1, <2>2, <2>3, <2>4, <2>5 DEF Reaches
<1> QED
  BY <1>1, <1>2 DEF BoundInv

LEMMA BoundInit == Init => BoundInv
<1> SUFFICES ASSUME Init PROVE BoundInv
  OBVIOUS
<1>1. TypeOK /\ LooseInv /\ MeetInv
  BY RefreshAssumption DEF Init, TypeOK, LooseInv, MeetInv
<1>2. ASSUME NEW x \in Tickets PROVE Bounded(x)
  <2>1. Cardinality(Abandoning(x, "refund")) = 0
    BY <1>1, NobodyAbandons DEF Init
  <2>2. refunds[x] = 0 /\ One(RunMayCredit(x)) = 0 /\ One(PostMayCredit(x)) = 0 /\ faults = 0
    BY DEF Init, RunMayCredit, PostMayCredit, One
  <2>3. Cardinality(Apis) \in Nat
    BY ApisAssumption, FS_CardinalityType
  <2> QED
    BY <2>1, <2>2, <2>3 DEF Bounded, CreditsInHand, Init
<1> QED
  BY <1>1, <1>2 DEF BoundInv

\* Whatever raises, dies or is delivered twice, only a debited ticket is ever
\* credited, and never more often than there are API processes and faults: each
\* process abandons a ticket in one go, and only a fault lets a run or a second
\* writer credit it as well.
THEOREM CreditsStayBounded == Spec => []CreditsAreBounded
<1>1. TypeOK /\ BoundInv => CreditsAreBounded
  <2> SUFFICES ASSUME TypeOK, BoundInv, NEW t \in Tickets, refunds[t] > 0
               PROVE  t \in charged /\ refunds[t] <= Cardinality(Apis) + faults
    BY DEF CreditsAreBounded
  <2>1. t \in charged
    BY DEF BoundInv, LooseInv
  <2>2. refunds[t] + CreditsInHand(t) <= Cardinality(Apis) + faults
    BY DEF BoundInv, Bounded
  <2>3. CreditsInHand(t) \in Nat /\ Cardinality(Apis) \in Nat /\ refunds[t] \in Nat /\ faults \in Nat
    BY AbandoningIsFinite, ApisAssumption, FS_CardinalityType DEF CreditsInHand, One, TypeOK
  <2> QED
    BY <2>1, <2>2, <2>3
<1> QED
  BY <1>1, BoundInit, BoundStep, RefreshTypes, PTL DEF Spec


-----------------------------------------------------------------------------

\* A credit that raised is the last that is tried.
LEMMA LostStep ==
    ASSUME TypeOK, RefreshInv, LostInv, [Next]_vars
    PROVE  LostInv'
<1> USE DEF TypeOK, PhaseInv, AbandonInv, CreditInv, LandedInv, LostInv
<1> USE DEF RefreshInv
<1>1. ASSUME NEW t \in Tickets, StartStep(t) PROVE LostInv'
  <2>1. CASE CheckRunner(t)
    BY <2>1 DEF CheckRunner
  <2>2. CASE Price(t)
    BY <2>2 DEF Price
  <2>3. CASE Charge(t)
    BY <2>3 DEF Charge
  <2>4. CASE DispatchChecks(t)
    BY <2>4 DEF DispatchChecks
  <2>5. CASE RefuseWithoutRunner(t)
    BY <2>5 DEF RefuseWithoutRunner, Refund, Credit, CreditRaises
  <2>6. CASE WriteQueued(t)
    BY <2>6 DEF WriteQueued
  <2>7. CASE Enqueue(t)
    BY <2>7 DEF Enqueue
  <2>8. CASE UndoCharge(t)
    BY <2>8 DEF UndoCharge, Refund, Credit, CreditRaises
  <2>9. CASE WriteUnqueued(t)
    BY <2>9 DEF WriteUnqueued
  <2> QED
    BY <1>1, <2>1, <2>2, <2>3, <2>4, <2>5, <2>6, <2>7, <2>8, <2>9 DEF StartStep
<1>2. ASSUME NEW t \in Tickets, EnqueueRaises(t) PROVE LostInv'
  BY <1>2 DEF EnqueueRaises
<1>3. ASSUME NEW t \in Tickets, StartDies(t) PROVE LostInv'
  BY <1>3 DEF StartDies
<1>4. ASSUME NEW t \in Tickets, WorkStep(t) PROVE LostInv'
  <2>1. CASE Dequeue(t)
    BY <2>1 DEF Dequeue
  <2>2. CASE Begin(t)
    BY <2>2 DEF Begin
  <2>3. CASE RunLands(t)
    BY <2>3 DEF RunLands
  <2>4. CASE RunIsEmpty(t)
    BY <2>4 DEF RunIsEmpty
  <2>5. CASE RunRaises(t)
    BY <2>5 DEF RunRaises, AttemptRaises
  <2>6. CASE RunAgain(t)
    BY <2>6 DEF RunAgain
  <2>7. CASE Repay(t)
    BY <2>7 DEF Repay, Refund, Credit, CreditRaises
  <2>8. CASE Finish(t)
    BY <2>8 DEF Finish
  <2>9. CASE GiveUp(t)
    BY <2>9 DEF GiveUp, Refund, Credit, CreditRaises
  <2>10. CASE Fail(t)
    BY <2>10 DEF Fail
  <2> QED
    BY <1>4, <2>1, <2>2, <2>3, <2>4, <2>5, <2>6, <2>7, <2>8, <2>9, <2>10 DEF WorkStep
<1>5. ASSUME NEW t \in Tickets, Reveal(t) PROVE LostInv'
  BY <1>5 DEF Reveal
<1>6. ASSUME NEW t \in Tickets, WriteRaises(t) PROVE LostInv'
  BY <1>6 DEF WriteRaises, AttemptRaises
<1>7. ASSUME NEW t \in Tickets, RunKilled(t) PROVE LostInv'
  BY <1>7 DEF RunKilled
<1>8. ASSUME NEW a \in Apis, ApiStep(a) PROVE LostInv'
  <2>1. ASSUME NEW t \in Tickets, AbandonChecks(a, t) PROVE LostInv'
    BY <2>1 DEF AbandonChecks, Stranded
  <2>2. CASE CancelPipeline(a)
    BY <2>2 DEF CancelPipeline, Canceled
  <2>3. CASE ReadState(a)
    BY <2>3 DEF ReadState, Stranded, Abandoning
  <2>4. CASE AbandonRefunds(a)
    BY <2>4 DEF AbandonRefunds, Refund, Credit, CreditRaises
  <2>5. CASE AbandonWrites(a)
    BY <2>5 DEF AbandonWrites
  <2> QED
    BY <1>8, <2>1, <2>2, <2>3, <2>4, <2>5 DEF ApiStep
<1>12. ASSUME NEW a \in Apis, AbandonDies(a) PROVE LostInv'
  BY <1>12 DEF AbandonDies
<1>9. CASE RunnerLeaves
  BY <1>9 DEF RunnerLeaves
<1>10. CASE RunnerBoots
  BY <1>10 DEF RunnerBoots
<1>11. CASE UNCHANGED vars
  BY <1>11
<1> QED
  BY <1>1, <1>2, <1>3, <1>4, <1>5, <1>6, <1>7, <1>8, <1>9, <1>10, <1>11, <1>12 DEF Next

-----------------------------------------------------------------------------

Ended(t) == state[t] \in {"done", "failed"}
Loose(t) == t \in Contested
Alike(t) == Deal(t)' = Deal(t) /\ (Ended(t)' <=> Ended(t)) /\ (Loose(t)' <=> Loose(t))

\* The contract's steps, by the tickets they change.
Takes(t) ==
    /\ ~Ended(t) /\ ~Ended(t)' /\ (Loose(t)' <=> Loose(t))
    /\ Deal(t) = "none" /\ Deal(t)' = "held"
Settles(t) ==
    /\ ~Ended(t) /\ ~Ended(t)' /\ (Loose(t)' <=> Loose(t))
    /\ Deal(t) = "held" /\ Deal(t)' \in {"kept", "returned", "lost"}
Ends(t) ==
    /\ ~Ended(t) /\ Ended(t)' /\ (Loose(t)' <=> Loose(t))
    /\ Deal(t) # "held" /\ Deal(t)' = Deal(t)
Loosens(t) ==
    /\ Deal(t)' = Deal(t) /\ (Ended(t)' <=> Ended(t))
    /\ Loose(t)'
Drifts(t) ==
    /\ Loose(t) /\ Loose(t)'
    /\ Deal(t)' = "none" <=> Deal(t) = "none"
RefinesAt(t) ==
    /\ Alike(t) \/ Takes(t) \/ Settles(t) \/ Ends(t) \/ Loosens(t) \/ Drifts(t)
    /\ \A u \in Tickets \ {t} : Alike(u)
Still == \A t \in Tickets : Alike(t)
Refines == Still \/ (\E t \in Tickets : RefinesAt(t))

\* Such a step is one of the contract's, or leaves it alone.
LEMMA RefinesContract ==
    ASSUME TypeOK, TypeOK', Refines
    PROVE  [Contract!Next]_(Contract!contract)
<1> DEFINE deal  == [t \in Tickets |-> Deal(t)]
           ended == {t \in Tickets : state[t] \in {"done", "failed"}}
           loose == Contested
<1> USE DEF Ended, Alike, Loose
<1>0. loose \subseteq Tickets /\ loose' \subseteq Tickets
  BY DEF TypeOK
<1>1. CASE Still
  <2>1. deal' = deal /\ ended' = ended /\ loose' = loose
    BY <1>0, <1>1 DEF Still
  <2> QED
    BY <2>1 DEF Contract!contract
<1>2. ASSUME NEW t \in Tickets, RefinesAt(t) PROVE [Contract!Next]_(Contract!contract)
  <2>1. CASE Alike(t)
    <3>1. \A u \in Tickets : Alike(u)
      BY <1>2, <2>1 DEF RefinesAt
    <3> QED
      BY <1>1, <3>1 DEF Still
  <2>2. CASE Takes(t)
    <3>1. deal' = [deal EXCEPT ![t] = "held"] /\ ended' = ended /\ loose' = loose
      BY <1>0, <1>2, <2>2 DEF Takes, RefinesAt
    <3>2. Contract!Take(t)
      BY <2>2, <3>1 DEF Contract!Take, Takes
    <3> QED
      BY <3>2 DEF Contract!Next
  <2>3. CASE Settles(t)
    <3>1. deal' = [deal EXCEPT ![t] = Deal(t)'] /\ ended' = ended /\ loose' = loose
      BY <1>0, <1>2, <2>3 DEF Settles, RefinesAt
    <3>2. Contract!Settle(t)
      BY <2>3, <3>1 DEF Contract!Settle, Settles
    <3> QED
      BY <3>2 DEF Contract!Next
  <2>4. CASE Ends(t)
    <3>1. deal' = deal /\ ended' = ended \cup {t} /\ loose' = loose
      BY <1>0, <1>2, <2>4 DEF Ends, RefinesAt
    <3>2. Contract!End(t)
      BY <2>4, <3>1 DEF Contract!End, Ends
    <3> QED
      BY <3>2 DEF Contract!Next
  <2>5. CASE Loosens(t)
    <3>1. deal' = deal /\ ended' = ended /\ loose' = loose \cup {t}
      BY <1>0, <1>2, <2>5 DEF Loosens, RefinesAt
    <3>2. Contract!Loosen(t)
      BY <3>1 DEF Contract!Loosen
    <3> QED
      BY <3>2 DEF Contract!Next
  <2>6. CASE Drifts(t)
    <3>1. deal' = [deal EXCEPT ![t] = Deal(t)'] /\ loose' = loose /\ t \in loose
      BY <1>0, <1>2, <2>6 DEF Drifts, RefinesAt
    <3>2. ended' \in {ended \cup {t}, ended \ {t}}
      <4>1. CASE Ended(t)'
        <5>1. ended' = ended \cup {t}
          BY <1>2, <2>6, <4>1 DEF Drifts, RefinesAt
        <5> QED
          BY <5>1
      <4>2. CASE ~Ended(t)'
        <5>1. ended' = ended \ {t}
          BY <1>2, <2>6, <4>2 DEF Drifts, RefinesAt
        <5> QED
          BY <5>1
      <4> QED
        BY <4>1, <4>2
    <3>3. /\ Deal(t)' \in {"none", "held", "kept", "returned", "lost"}
          /\ Deal(t)' = "none" <=> deal[t] = "none"
      BY <2>6 DEF Deal, Drifts
    <3>4. \E as \in {"none", "held", "kept", "returned", "lost"} :
              /\ as = "none" <=> deal[t] = "none"
              /\ deal' = [deal EXCEPT ![t] = as]
      <4> HIDE DEF deal
      <4> QED
        BY <3>1, <3>3
    <3>5. Contract!Drift(t)
      BY <3>1, <3>2, <3>4 DEF Contract!Drift
    <3> QED
      BY <3>5 DEF Contract!Next
  <2> QED
    BY <1>2, <2>1, <2>2, <2>3, <2>4, <2>5, <2>6 DEF RefinesAt
<1> QED
  BY <1>1, <1>2 DEF Refines

\* The debit takes the charge, whoever credits first or lands the search settles
\* it, and whoever writes the ticket's end finds it settled.
LEMMA ContractStep ==
    ASSUME TypeOK, RefreshInv, LostInv, [Next]_vars
    PROVE  Refines
<1> USE DEF TypeOK, PhaseInv, AbandonInv, CreditInv, LandedInv, DueInv, LostInv
<1> USE DEF RefreshInv
<1> USE DEF Still, RefinesAt, Alike, Takes, Settles, Ends, Loosens, Drifts, Ended, Loose, Deal
<1>1. ASSUME NEW t \in Tickets, StartStep(t) PROVE RefinesAt(t)
  <2>1. CASE CheckRunner(t)
    BY <2>1 DEF CheckRunner
  <2>2. CASE Price(t)
    BY <2>2 DEF Price
  <2>3. CASE Charge(t)
    BY <2>3 DEF Charge
  <2>4. CASE DispatchChecks(t)
    BY <2>4 DEF DispatchChecks
  <2>5. CASE RefuseWithoutRunner(t)
    BY <2>5 DEF RefuseWithoutRunner, Refund, Credit, CreditRaises
  <2>6. CASE WriteQueued(t)
    BY <2>6 DEF WriteQueued
  <2>7. CASE Enqueue(t)
    BY <2>7 DEF Enqueue
  <2>8. CASE UndoCharge(t)
    BY <2>8 DEF UndoCharge, Refund, Credit, CreditRaises
  <2>9. CASE WriteUnqueued(t)
    BY <2>9 DEF WriteUnqueued
  <2> QED
    BY <1>1, <2>1, <2>2, <2>3, <2>4, <2>5, <2>6, <2>7, <2>8, <2>9 DEF StartStep
<1>2. ASSUME NEW t \in Tickets, EnqueueRaises(t) PROVE RefinesAt(t)
  BY <1>2 DEF EnqueueRaises
<1>3. ASSUME NEW t \in Tickets, StartDies(t) PROVE RefinesAt(t)
  BY <1>3 DEF StartDies
<1>4. ASSUME NEW t \in Tickets, WorkStep(t) PROVE RefinesAt(t)
  <2>1. CASE Dequeue(t)
    BY <2>1 DEF Dequeue
  <2>2. CASE Begin(t)
    BY <2>2 DEF Begin
  <2>3. CASE RunLands(t)
    BY <2>3 DEF RunLands
  <2>4. CASE RunIsEmpty(t)
    BY <2>4 DEF RunIsEmpty
  <2>5. CASE RunRaises(t)
    BY <2>5 DEF RunRaises, AttemptRaises
  <2>6. CASE RunAgain(t)
    BY <2>6 DEF RunAgain
  <2>7. CASE Repay(t)
    BY <2>7 DEF Repay, Refund, Credit, CreditRaises
  <2>8. CASE Finish(t)
    BY <2>8 DEF Finish
  <2>9. CASE GiveUp(t)
    BY <2>9 DEF GiveUp, Refund, Credit, CreditRaises
  <2>10. CASE Fail(t)
    BY <2>10 DEF Fail
  <2> QED
    BY <1>4, <2>1, <2>2, <2>3, <2>4, <2>5, <2>6, <2>7, <2>8, <2>9, <2>10 DEF WorkStep
<1>5. ASSUME NEW t \in Tickets, Reveal(t) PROVE RefinesAt(t)
  BY <1>5 DEF Reveal
<1>6. ASSUME NEW t \in Tickets, WriteRaises(t) PROVE RefinesAt(t)
  BY <1>6 DEF WriteRaises, AttemptRaises
<1>7. ASSUME NEW t \in Tickets, RunKilled(t) PROVE RefinesAt(t)
  BY <1>7 DEF RunKilled
<1>8. ASSUME NEW a \in Apis, NEW x \in Tickets, x = task[a],
              CancelPipeline(a) \/ ReadState(a) \/ AbandonRefunds(a) \/ AbandonWrites(a) \/ AbandonDies(a)
      PROVE  RefinesAt(x)
  <2>1. CASE CancelPipeline(a)
    BY <1>8, <2>1 DEF CancelPipeline, Canceled
  <2>2. CASE ReadState(a)
    BY <1>8, <2>2 DEF ReadState, Stranded, Abandoning
  <2>3. CASE AbandonRefunds(a)
    BY <1>8, <2>3 DEF AbandonRefunds, Refund, Credit, CreditRaises
  <2>4. CASE AbandonWrites(a)
    BY <1>8, <2>4 DEF AbandonWrites
  <2>5. CASE AbandonDies(a)
    BY <1>8, <2>5 DEF AbandonDies
  <2> QED
    BY <1>8, <2>1, <2>2, <2>3, <2>4, <2>5
<1>12. ASSUME NEW a \in Apis, NEW t \in Tickets, AbandonChecks(a, t) PROVE Still
  BY <1>12 DEF AbandonChecks, Stranded
<1>13. ASSUME NEW a \in Apis, ApiStep(a) \/ AbandonDies(a) PROVE Refines
  <2>1. CASE \E t \in Tickets : AbandonChecks(a, t)
    <3> HIDE DEF Still, RefinesAt
    <3> QED
      BY <1>12, <2>1 DEF Refines
  <2>2. CASE CancelPipeline(a) \/ ReadState(a) \/ AbandonRefunds(a) \/ AbandonWrites(a) \/ AbandonDies(a)
    <3>1. task[a] \in Tickets
      BY <2>2 DEF CancelPipeline, ReadState, AbandonRefunds, AbandonWrites, AbandonDies
    <3>2. PICK x \in Tickets : x = task[a]
      BY <3>1
    <3> HIDE DEF Still, RefinesAt
    <3> QED
      BY <1>8, <2>2, <3>2 DEF Refines
  <2> QED
    BY <1>13, <2>1, <2>2 DEF ApiStep
<1>9. ASSUME RunnerLeaves PROVE Still
  BY <1>9 DEF RunnerLeaves
<1>10. ASSUME RunnerBoots PROVE Still
  BY <1>10 DEF RunnerBoots
<1>11. ASSUME UNCHANGED vars PROVE Still
  BY <1>11
<1> HIDE DEF Still, RefinesAt
<1> QED
  BY <1>1, <1>2, <1>3, <1>4, <1>5, <1>6, <1>7, <1>13, <1>9, <1>10, <1>11 DEF Next, Refines

\* Job Refresh implements what it promises about a charge: taken once, settled
\* once, by the POST, the run or the abandonment, and before the ticket ends; up to
\* the step at which two of them have come to settle it (crossed, doubled).
THEOREM RefreshImplementsContract == Spec => ImplementsContract
<1>1. Init => LostInv
  BY DEF Init, LostInv
<1>2. Init => Contract!Init
  BY DEF Init, Contract!Init, Deal
<1>3. TypeOK /\ RefreshInv /\ LostInv /\ [Next]_vars =>
          LostInv' /\ [Contract!Next]_(Contract!contract)
  BY TypeStep, LostStep, ContractStep, RefinesContract
<1> QED
  BY <1>1, <1>2, <1>3, RefreshTypes, RefreshInvariant, PTL
     DEF Spec, ImplementsContract, Contract!Spec
=============================================================================
