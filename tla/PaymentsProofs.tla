--------------------------- MODULE PaymentsProofs ---------------------------
(***************************************************************************)
(* Proofs about Payments, for any number of orders, requests, charges,     *)
(* months and failures.                                                    *)
(***************************************************************************)
EXTENDS Payments, FiniteSetTheorems, SequenceTheorems, TLAPS

USE DEF rows, gateway, goods, request, ghosts, vars

LEMMA EventTypes ==
    /\ Charges \subseteq Events /\ \A o \in Orders : StopOf(o) \in Events
    /\ \A c \in Charges : c[1] \in Orders /\ c[2] \in 1..MaxCharges
    /\ \A o \in Orders : \A n \in 1..MaxCharges : <<o, n>> \in Charges
    /\ \A o \in Orders : <<o, 1>> \in Charges
    /\ NoEvent \notin Charges
BY PaymentsAssumption DEF Charges, Events, StopOf, NoEvent

LEMMA StopTypes ==
    /\ \A o \in Orders : StopOf(o) \notin Charges /\ StopOf(o) # NoEvent
    /\ \A o, p \in Orders : StopOf(o) = StopOf(p) => o = p
BY PaymentsAssumption DEF Charges, StopOf, NoEvent

LEMMA RequestBegins ==
    ASSUME RequestTypes, NEW h \in Handlers, NEW c \in Charges, NEW to \in Pcs,
           Begins(h, c, to), hook' \subseteq Handlers
    PROVE  RequestTypes'
BY DEF RequestTypes, Begins

LEMMA RequestGoes ==
    ASSUME RequestTypes, NEW h \in Handlers, NEW from \in Pcs \ {"idle"}, NEW to \in Pcs,
           Goes(h, from, to), seen' \in [Handlers -> Nat]
    PROVE  RequestTypes' /\ task[h] \in Charges
BY DEF RequestTypes, Goes

LEMMA RequestEnds ==
    ASSUME RequestTypes, NEW h \in Handlers, Ends(h)
    PROVE  RequestTypes'
BY DEF RequestTypes, Ends, Pcs

LEMMA AnswerTypes ==
    ASSUME RequestTypes, RowTypes, NEW h \in Handlers, pc[h] # "idle", Answers(h),
           UNCHANGED <<rows, gateway>>
    PROVE  RequestTypes' /\ RowTypes' /\ task[h] \in Charges
<1>1. task[h] \in Charges /\ task[h] \in Events
  BY EventTypes DEF RequestTypes
<1>2. RequestTypes'
  BY RequestEnds DEF Answers
<1>3. acked' \subseteq Events
  BY <1>1 DEF Answers, RowTypes
<1> QED
  BY <1>1, <1>2, <1>3 DEF RowTypes

LEMMA ServeTypes ==
    ASSUME GhostTypes, NEW h \in Handlers, task[h] \in Charges, Serves(h),
           UNCHANGED <<lost, passedOver, lapsed, early, overlapped, faults>>
    PROVE  GhostTypes'
BY DEF GhostTypes, Serves

\* Every step keeps the types.
LEMMA TypeStep ==
    ASSUME TypeOK, [Next]_vars
    PROVE  TypeOK'
<1> USE PaymentsAssumption, EventTypes DEF TypeOK
<1>1. ASSUME NEW o \in Orders, NEW p \in Products, CreateOrder(o, p) PROVE TypeOK'
  BY <1>1 DEF CreateOrder, RowTypes, GoodsTypes, RequestTypes, GhostTypes
<1>2. ASSUME NEW o \in Orders, NEW n \in 1..MaxCharges, Checkout(o) \/ Recurs(o, n)
      PROVE  TypeOK'
  <2>1. /\ \E m \in 1..MaxCharges : captured' = [captured EXCEPT ![<<o, m>>] = month]
        /\ UNCHANGED <<rows, stopped, acked, goods, month, request, ghosts, faults>>
    BY <1>2 DEF Checkout, Recurs
  <2>2. captured' \in [Charges -> 0..MaxMonths]
    BY <2>1 DEF RowTypes, GoodsTypes
  <2> QED
    BY <2>1, <2>2 DEF RowTypes, GoodsTypes, RequestTypes, GhostTypes
<1>3. ASSUME NEW o \in Orders, StopsAtRazorpay(o) PROVE TypeOK'
  BY <1>3 DEF StopsAtRazorpay, RowTypes, GoodsTypes, RequestTypes, GhostTypes
<1>4. CASE MonthTurns
  BY <1>4 DEF MonthTurns, RowTypes, GoodsTypes, RequestTypes, GhostTypes
<1>5. ASSUME NEW c \in Charges, WebhookDone(c) PROVE TypeOK'
  BY <1>5 DEF WebhookDone, RowTypes, GoodsTypes, RequestTypes, GhostTypes
<1>6. ASSUME NEW o \in Orders, WebhookStop(o) PROVE TypeOK'
  BY <1>6 DEF WebhookStop, RowTypes, GoodsTypes, RequestTypes, GhostTypes
<1>7. ASSUME NEW h \in Handlers, Handle(h) PROVE TypeOK'
  <2>1. ASSUME NEW c \in Charges, WebhookUnpaid(h, c)
        PROVE  TypeOK'
    <3>1. RequestTypes'
      BY <2>1, RequestBegins DEF WebhookUnpaid, Pcs, RequestTypes
    <3> QED
      BY <2>1, <3>1 DEF WebhookUnpaid, Begins, RowTypes, GoodsTypes, GhostTypes
  <2>2. ASSUME NEW o \in Orders, VerifyUnpaid(h, o)
        PROVE  TypeOK'
    <3>1. RequestTypes'
      BY <2>2, RequestBegins DEF VerifyUnpaid, Pcs, RequestTypes
    <3> QED
      BY <2>2, <3>1 DEF VerifyUnpaid, Begins, RowTypes, GoodsTypes, GhostTypes
  <2>3. ASSUME NEW c \in Charges, WebhookRenewal(h, c)
        PROVE  TypeOK'
    <3>1. RequestTypes'
      BY <2>3, RequestBegins DEF WebhookRenewal, Pcs, RequestTypes
    <3> QED
      BY <2>3, <3>1 DEF WebhookRenewal, Begins, RowTypes, GoodsTypes, GhostTypes
  <2>4. CASE Marks(h)
    <3>1. RequestTypes' /\ task[h] \in Charges
      BY <2>4, RequestGoes DEF Marks, Pcs, InHand, RequestTypes
    <3>2. PICK o \in Orders :
             row' = [row EXCEPT ![o] = [@ EXCEPT !.status = "verified", !.charge = task[h]]]
      BY <2>4, <3>1 DEF Marks
    <3>3. row' \in [Orders -> [product : Products, status : {"none", "created", "verified"},
                              charge : Charges \cup {NoEvent}]]
      BY <3>1, <3>2 DEF RowTypes
    <3> QED
      BY <2>4, <3>1, <3>3 DEF Marks, RowTypes, GoodsTypes, GhostTypes
  <2>5. CASE ReadsBalance(h)
    <3>1. RequestTypes' /\ task[h] \in Charges
      BY <2>5, RequestGoes DEF ReadsBalance, Pcs, InHand, RequestTypes, GoodsTypes
    <3> QED
      BY <2>5, <3>1 DEF ReadsBalance, RowTypes, GoodsTypes, GhostTypes
  <2>6. CASE ReadsPlan(h)
    <3>1. RequestTypes' /\ task[h] \in Charges
      BY <2>6, RequestGoes DEF ReadsPlan, Pcs, InHand, RequestTypes
    <3> QED
      BY <2>6, <3>1 DEF ReadsPlan, RowTypes, GoodsTypes, GhostTypes
  <2>7. CASE InsertsPlan(h)
    <3>1. RequestTypes' /\ task[h] \in Charges
      BY <2>7, RequestGoes DEF InsertsPlan, Pcs, InHand, RequestTypes
    <3> QED
      BY <2>7, <3>1 DEF InsertsPlan, RowTypes, GoodsTypes, GhostTypes
  <2>8. CASE PatchesPlan(h)
    <3>1. RequestTypes' /\ task[h] \in Charges
      BY <2>8, RequestGoes DEF PatchesPlan, Pcs, InHand, RequestTypes
    <3> QED
      BY <2>8, <3>1 DEF PatchesPlan, RowTypes, GoodsTypes, GhostTypes
  <2>9. CASE RecordsRenewal(h)
    <3>1. RequestTypes' /\ task[h] \in Charges
      BY <2>9, RequestGoes DEF RecordsRenewal, Pcs, InHand, RequestTypes
    <3> QED
      BY <2>9, <3>1 DEF RecordsRenewal, RowTypes, GoodsTypes, GhostTypes
  <2>10. CASE RenewsPeriod(h)
    <3>1. RequestTypes' /\ task[h] \in Charges
      BY <2>10, RequestGoes DEF RenewsPeriod, Pcs, InHand, RequestTypes
    <3> QED
      BY <2>10, <3>1 DEF RenewsPeriod, RowTypes, GoodsTypes, GhostTypes
  <2>11. CASE NeedsPass(h)
    <3>1. RequestTypes' /\ task[h] \in Charges
      BY <2>11, RequestGoes DEF NeedsPass, Pcs, InHand, RequestTypes, GoodsTypes
    <3> QED
      BY <2>11, <3>1 DEF NeedsPass, RowTypes, GoodsTypes, GhostTypes
  <2>12. CASE WritesBalance(h)
    <3>1. RequestTypes' /\ RowTypes' /\ task[h] \in Charges
      BY <2>12, AnswerTypes DEF WritesBalance
    <3>2. GhostTypes'
      BY <2>12, <3>1, ServeTypes DEF WritesBalance
    <3> QED
      BY <2>12, <3>1, <3>2 DEF WritesBalance, GoodsTypes, RequestTypes
  <2>13. CASE Unlocks(h)
    <3>1. RequestTypes' /\ RowTypes' /\ task[h] \in Charges
      BY <2>13, AnswerTypes DEF Unlocks
    <3>2. GhostTypes'
      BY <2>13, <3>1, ServeTypes DEF Unlocks
    <3> QED
      BY <2>13, <3>1, <3>2 DEF Unlocks, GoodsTypes
  <2>14. CASE OpensAudit(h)
    <3>1. RequestTypes' /\ RowTypes' /\ task[h] \in Charges
      BY <2>14, AnswerTypes DEF OpensAudit
    <3>2. GhostTypes'
      BY <2>14, <3>1, ServeTypes DEF OpensAudit
    <3> QED
      BY <2>14, <3>1, <3>2 DEF OpensAudit, GoodsTypes
  <2>15. CASE HasPass(h)
    <3>1. RequestTypes' /\ RowTypes' /\ task[h] \in Charges
      BY <2>15, AnswerTypes DEF HasPass
    <3>2. GhostTypes'
      BY <2>15, <3>1, ServeTypes DEF HasPass
    <3> QED
      BY <2>15, <3>1, <3>2 DEF HasPass, GoodsTypes
  <2>16. CASE OpensPass(h)
    <3>1. RequestTypes' /\ RowTypes' /\ task[h] \in Charges
      BY <2>16, AnswerTypes DEF OpensPass
    <3>2. GhostTypes'
      BY <2>16, <3>1, ServeTypes DEF OpensPass
    <3> QED
      BY <2>16, <3>1, <3>2 DEF OpensPass, GoodsTypes
  <2>17. CASE MarksInVain(h)
    <3>1. RequestTypes' /\ RowTypes' /\ task[h] \in Charges
      BY <2>17, AnswerTypes DEF MarksInVain
    <3> QED
      BY <2>17, <3>1 DEF MarksInVain, GoodsTypes, GhostTypes
  <2>18. CASE SwallowsAudit(h)
    <3>1. RequestTypes' /\ RowTypes' /\ task[h] \in Charges
      BY <2>18, AnswerTypes DEF SwallowsAudit
    <3> QED
      BY <2>18, <3>1 DEF SwallowsAudit, GoodsTypes, GhostTypes
  <2>19. CASE RenewsNothing(h)
    <3>1. RequestTypes' /\ RowTypes' /\ task[h] \in Charges
      BY <2>19, AnswerTypes DEF RenewsNothing
    <3> QED
      BY <2>19, <3>1 DEF RenewsNothing, GoodsTypes, GhostTypes
  <2>20. CASE Raises(h) \/ Dies(h)
    <3>1. Fails(h) /\ pc[h] # "idle" /\ faults' \in 0..MaxFaults
      BY <2>20 DEF Raises, Dies, Conflicts, GhostTypes
    <3>2. RequestTypes' /\ task[h] \in Charges
      BY <3>1, RequestEnds DEF Fails, RequestTypes
    <3> QED
      BY <3>1, <3>2 DEF Fails, RowTypes, GoodsTypes, GhostTypes
  <2> QED
    BY <1>7, <2>1, <2>2, <2>3, <2>4, <2>5, <2>6, <2>7, <2>8, <2>9, <2>10, <2>11, <2>12,
       <2>13, <2>14, <2>15, <2>16, <2>17, <2>18, <2>19, <2>20 DEF Handle
<1>8. CASE UNCHANGED vars
  BY <1>8 DEF RowTypes, GoodsTypes, RequestTypes, GhostTypes
<1> QED
  BY <1>1, <1>2, <1>3, <1>4, <1>5, <1>6, <1>7, <1>8 DEF Next

\* Every reachable state is well typed, whatever fails.
THEOREM PaymentTypes == Spec => []TypeOK
<1>1. Init => TypeOK
  <2> SUFFICES ASSUME Init PROVE TypeOK
    OBVIOUS
  <2>1. RowTypes
    BY PaymentsAssumption DEF Init, RowTypes, NoRow, Products
  <2>2. GoodsTypes
    BY PaymentsAssumption DEF Init, GoodsTypes, NoPlan
  <2>3. RequestTypes
    BY DEF Init, RequestTypes, Pcs
  <2>4. GhostTypes
    <3>1. overlapped \in BOOLEAN
      BY DEF Init
    <3>2. /\ served \in [Charges -> Nat] /\ early = {} /\ faults \in 0..MaxFaults
          /\ lost = {} /\ passedOver = {} /\ lapsed = {}
      BY PaymentsAssumption DEF Init
    <3> QED
      BY <3>1, <3>2 DEF GhostTypes
  <2> QED
    BY <2>1, <2>2, <2>3, <2>4 DEF TypeOK
<1> QED
  BY <1>1, TypeStep, PTL DEF Spec

-----------------------------------------------------------------------------
(* What is true in between. *)

Taken(c) == row[c[1]].charge = c \/ c \in renewals

\* A request in flight is about a charge Razorpay took.
TasksAreCharges ==
    \A h \in Handlers : pc[h] # "idle" => task[h] \in Charges /\ captured[task[h]] > 0

\* Only subscriptions charge more than once.
ChargesAreOrdered ==
    \A c \in Charges : captured[c] > 0 =>
        row[c[1]].status # "none" /\ (row[c[1]].product = "plan" \/ c[2] = 1)

RowsCarryACharge ==
    \A o \in Orders :
        IF row[o].status = "verified"
        THEN /\ row[o].charge \in Charges /\ row[o].charge[1] = o
             /\ captured[row[o].charge] > 0
        ELSE row[o].charge = NoEvent

\* A renewal is another charge than its subscription's row carries.
RenewalsAreLater ==
    /\ \A c \in renewals : row[c[1]].status = "verified" /\ row[c[1]].charge # c
    /\ \A h \in Handlers : pc[h] = "record" =>
          row[task[h][1]].status = "verified" /\ row[task[h][1]].charge # task[h]

Granting == {"grant", "credit", "insert", "patch"}

\* One request serves a charge, and only one that is taken and not yet served.
OneServes ==
    \A h \in Handlers : pc[h] \in InHand =>
        /\ Taken(task[h]) /\ served[task[h]] = 0
        /\ pc[h] \in Granting => row[task[h][1]].charge = task[h]
        /\ \A g \in Handlers \ {h} : pc[g] \in InHand => task[g] # task[h]

ServedIsTaken == \A c \in Charges : served[c] > 0 => Taken(c)

Settlement ==
    /\ TasksAreCharges /\ ChargesAreOrdered /\ RowsCarryACharge /\ RenewalsAreLater
    /\ OneServes /\ ServedIsTaken /\ ChargesServeOnce

\* Nothing taken is forgotten, but for what the ghosts record.
TakenIsServed ==
    \A c \in Charges \ (lost \cup lapsed) : Taken(c) =>
        served[c] > 0 \/ \E h \in Handlers : task[h] = c /\ pc[h] \in InHand

AnsweredIsTaken == \A c \in Charges \ passedOver : c \in acked => Taken(c)

-----------------------------------------------------------------------------
(* What a step does to the charges. *)

books == <<row, renewals, captured>>
past  == <<served, lost, passedOver, lapsed>>

\* Razorpay takes a charge.
Charged(c) ==
    /\ row[c[1]].status # "none" /\ (row[c[1]].product = "plan" \/ c[2] = 1)
    /\ month \in 1..MaxMonths /\ captured' = [captured EXCEPT ![c] = month]
    /\ UNCHANGED <<rows, acked, request, past>>

\* A request begins, moves on, serves its charge, or ends without.
BeginsUnpaid(h, c) ==
    /\ captured[c] > 0 /\ Begins(h, c, "mark")

BeginsRenewal(h, c) ==
    /\ captured[c] > 0 /\ Begins(h, c, "record")
    /\ row[c[1]].status = "verified" /\ row[c[1]].charge # c

Moves(h) ==
    /\ pc[h] \in InHand /\ UNCHANGED <<task, books, acked, past>>
    /\ \E to \in InHand : /\ pc' = [pc EXCEPT ![h] = to]
                          /\ to \in Granting => pc[h] \in Granting

ServesIt(h) ==
    /\ pc[h] \in InHand /\ Ends(h) /\ Serves(h)
    /\ acked' \subseteq acked \cup {task[h]}
    /\ UNCHANGED <<books, lost, passedOver, lapsed>>

Drops(h) ==
    /\ pc[h] # "idle" /\ Ends(h)
    /\ pc[h] \in InHand => task[h] \in lost' \cup lapsed'
    /\ lost \subseteq lost' /\ lapsed \subseteq lapsed' /\ passedOver \subseteq passedOver'
    /\ acked' = acked \/ acked' = acked \cup {task[h]}
    /\ acked' = acked \/ pc[h] \in InHand \/ Taken(task[h]) \/ task[h] \in passedOver'
    /\ UNCHANGED <<books, served>>

\* Nothing but the answers, and they are about charges that are taken.
Elsewhere ==
    /\ UNCHANGED <<books, pc, task, past>>
    /\ acked \subseteq acked'
    /\ \A c \in Charges : c \in acked' => c \in acked \/ Taken(c)

StepOf(h) ==
    \/ \E c \in Charges : BeginsUnpaid(h, c) \/ BeginsRenewal(h, c)
    \/ Marks(h) \/ RecordsRenewal(h) \/ Moves(h) \/ ServesIt(h) \/ Drops(h)

\* What a request does, one call at a time.
LEMMA HandleSteps ==
    ASSUME TypeOK, Settlement, NEW h \in Handlers, Handle(h)
    PROVE  StepOf(h)
<1> USE DEF StepOf, books, past
<1>1. ASSUME NEW c \in Charges, WebhookUnpaid(h, c) PROVE StepOf(h)
  BY <1>1 DEF WebhookUnpaid, BeginsUnpaid, IsSent
<1>2. ASSUME NEW c \in Charges, WebhookRenewal(h, c) PROVE StepOf(h)
  BY <1>2 DEF WebhookRenewal, BeginsRenewal, IsSent, IsRenewal, RowOf
<1>3. ASSUME NEW o \in Orders, VerifyUnpaid(h, o) PROVE StepOf(h)
  BY <1>3, EventTypes DEF VerifyUnpaid, BeginsUnpaid, IsSent
<1>4. CASE ReadsBalance(h) \/ ReadsPlan(h) \/ InsertsPlan(h) \/ PatchesPlan(h)
  BY <1>4 DEF ReadsBalance, ReadsPlan, InsertsPlan, PatchesPlan, Goes, Moves, InHand, Granting
<1>5. CASE RenewsPeriod(h) \/ NeedsPass(h)
  BY <1>5 DEF RenewsPeriod, NeedsPass, Goes, Moves, InHand, Granting
<1>6. CASE WritesBalance(h) \/ Unlocks(h) \/ OpensAudit(h) \/ HasPass(h) \/ OpensPass(h)
  BY <1>6 DEF WritesBalance, Unlocks, OpensAudit, HasPass, OpensPass, Answers, ServesIt, InHand
<1>7. CASE MarksInVain(h)
  <2>1. task[h] \in Charges /\ captured[task[h]] > 0
    BY <1>7 DEF MarksInVain, Settlement, TasksAreCharges
  <2>2. row[task[h][1]].status = "verified"
    BY <2>1, <1>7, EventTypes DEF MarksInVain, Wins, RowOf, Settlement, ChargesAreOrdered,
       TypeOK, RowTypes
  <2>3. row[task[h][1]].charge # task[h] => row[task[h][1]].product = "plan"
    BY <2>1, <2>2, EventTypes DEF Settlement, ChargesAreOrdered, RowsCarryACharge, Charges
  <2>4. h \in hook => Taken(task[h]) \/ task[h] \in passedOver'
    BY <1>7, <2>3 DEF MarksInVain, IsRenewal, RowOf, Taken
  <2> QED
    BY <1>7, <2>4 DEF MarksInVain, Answers, Drops, InHand
<1>8. CASE SwallowsAudit(h) \/ RenewsNothing(h)
  BY <1>8 DEF SwallowsAudit, RenewsNothing, Answers, Drops, InHand
<1>9. CASE Raises(h) \/ Dies(h)
  BY <1>9 DEF Raises, Dies, Conflicts, Fails, Drops
<1> QED
  BY <1>1, <1>2, <1>3, <1>4, <1>5, <1>6, <1>7, <1>8, <1>9 DEF Handle

\* What a step does that is nobody's request.
LEMMA OtherSteps ==
    ASSUME TypeOK, Settlement, [Next]_vars
    PROVE  \/ \E o \in Orders : \E p \in Products : CreateOrder(o, p)
           \/ \E c \in Charges : Charged(c)
           \/ Elsewhere
           \/ \E h \in Handlers : Handle(h)
<1> USE DEF books, past
<1>1. ASSUME NEW o \in Orders, NEW n \in 1..MaxCharges, Checkout(o) \/ Recurs(o, n)
      PROVE  \E c \in Charges : Charged(c)
  <2>1. month \in 1..MaxMonths
    BY DEF TypeOK, GoodsTypes
  <2>2. CASE Checkout(o)
    <3>1. Charged(<<o, 1>>)
      BY <2>1, <2>2 DEF Checkout, Charged
    <3> QED
      BY <3>1, EventTypes
  <2>3. CASE Recurs(o, n)
    <3>1. <<o, n - 1>> \in Charges
      BY <2>3, EventTypes, PaymentsAssumption DEF Recurs
    <3>2. row[o].status # "none"
      BY <2>3, <3>1 DEF Recurs, Settlement, ChargesAreOrdered
    <3>3. Charged(<<o, n>>)
      BY <2>1, <2>3, <3>2 DEF Recurs, Charged
    <3> QED
      BY <3>3, EventTypes
  <2> QED
    BY <1>1, <2>2, <2>3
<1>2. ASSUME NEW c \in Charges, WebhookDone(c) PROVE Elsewhere
  <2>1. c[1] \in Orders /\ captured[c] > 0 /\ row[c[1]].status = "verified"
    BY <1>2, EventTypes DEF WebhookDone, IsSent, RowOf
  <2>2. Taken(c)
    BY <1>2, <2>1, EventTypes DEF WebhookDone, IsRenewal, RowOf, Taken, Settlement,
       ChargesAreOrdered, RowsCarryACharge, Charges
  <2> QED
    BY <1>2, <2>2 DEF WebhookDone, Elsewhere
<1>3. ASSUME NEW o \in Orders, WebhookStop(o) PROVE Elsewhere
  BY <1>3 DEF WebhookStop, Elsewhere, StopOf, Charges
<1>4. ASSUME NEW o \in Orders, StopsAtRazorpay(o) PROVE Elsewhere
  BY <1>4 DEF StopsAtRazorpay, Elsewhere
<1>5. CASE MonthTurns \/ UNCHANGED vars
  BY <1>5 DEF MonthTurns, Elsewhere
<1>6. 1 \in 1..MaxCharges
  BY PaymentsAssumption
<1> QED
  BY <1>1, <1>2, <1>3, <1>4, <1>5, <1>6 DEF Next

LEMMA TasksAreChargesStep ==
    ASSUME TypeOK, Settlement, [Next]_vars
    PROVE  TasksAreCharges'
<1> USE EventTypes DEF books, past, TypeOK, RowTypes, RequestTypes, GhostTypes, Settlement
<1>1. ASSUME NEW o \in Orders, NEW p \in Products, CreateOrder(o, p)
      PROVE  TasksAreCharges'
  BY <1>1 DEF CreateOrder, NoRow, TasksAreCharges
<1>2. ASSUME NEW c \in Charges, Charged(c)
      PROVE  TasksAreCharges'
  BY <1>2 DEF Charged, TasksAreCharges
<1>3. CASE Elsewhere
  BY <1>3 DEF Elsewhere, TasksAreCharges
<1>4. ASSUME NEW h \in Handlers, NEW c \in Charges, BeginsUnpaid(h, c)
      PROVE  TasksAreCharges'
  BY <1>4 DEF BeginsUnpaid, Begins, TasksAreCharges
<1>5. ASSUME NEW h \in Handlers, NEW c \in Charges, BeginsRenewal(h, c)
      PROVE  TasksAreCharges'
  BY <1>5 DEF BeginsRenewal, Begins, TasksAreCharges
<1>6. ASSUME NEW h \in Handlers, Marks(h)
      PROVE  TasksAreCharges'
  BY <1>6 DEF Marks, Wins, RowOf, Goes, TasksAreCharges
<1>7. ASSUME NEW h \in Handlers, RecordsRenewal(h)
      PROVE  TasksAreCharges'
  BY <1>7 DEF RecordsRenewal, Goes, TasksAreCharges
<1>8. ASSUME NEW h \in Handlers, Moves(h)
      PROVE  TasksAreCharges'
  BY <1>8 DEF Moves, TasksAreCharges, InHand
<1>9. ASSUME NEW h \in Handlers, ServesIt(h)
      PROVE  TasksAreCharges'
  BY <1>9 DEF ServesIt, Ends, Serves, TasksAreCharges
<1>10. ASSUME NEW h \in Handlers, Drops(h)
      PROVE  TasksAreCharges'
  BY <1>10 DEF Drops, Ends, TasksAreCharges
<1> QED
  BY OtherSteps, HandleSteps, <1>1, <1>2, <1>3, <1>4, <1>5, <1>6, <1>7, <1>8, <1>9, <1>10
     DEF StepOf

LEMMA ChargesAreOrderedStep ==
    ASSUME TypeOK, Settlement, [Next]_vars
    PROVE  ChargesAreOrdered'
<1> USE EventTypes DEF books, past, TypeOK, RowTypes, RequestTypes, GhostTypes, Settlement
<1>1. ASSUME NEW o \in Orders, NEW p \in Products, CreateOrder(o, p)
      PROVE  ChargesAreOrdered'
  BY <1>1 DEF CreateOrder, NoRow, ChargesAreOrdered, TasksAreCharges
<1>2. ASSUME NEW c \in Charges, Charged(c)
      PROVE  ChargesAreOrdered'
  BY <1>2 DEF Charged, ChargesAreOrdered, TasksAreCharges
<1>3. CASE Elsewhere
  BY <1>3 DEF Elsewhere, ChargesAreOrdered, TasksAreCharges
<1>4. ASSUME NEW h \in Handlers, NEW c \in Charges, BeginsUnpaid(h, c)
      PROVE  ChargesAreOrdered'
  BY <1>4 DEF BeginsUnpaid, Begins, ChargesAreOrdered, TasksAreCharges
<1>5. ASSUME NEW h \in Handlers, NEW c \in Charges, BeginsRenewal(h, c)
      PROVE  ChargesAreOrdered'
  BY <1>5 DEF BeginsRenewal, Begins, ChargesAreOrdered, TasksAreCharges
<1>6. ASSUME NEW h \in Handlers, Marks(h)
      PROVE  ChargesAreOrdered'
  BY <1>6 DEF Marks, Wins, RowOf, Goes, ChargesAreOrdered, TasksAreCharges
<1>7. ASSUME NEW h \in Handlers, RecordsRenewal(h)
      PROVE  ChargesAreOrdered'
  BY <1>7 DEF RecordsRenewal, Goes, ChargesAreOrdered, TasksAreCharges
<1>8. ASSUME NEW h \in Handlers, Moves(h)
      PROVE  ChargesAreOrdered'
  BY <1>8 DEF Moves, ChargesAreOrdered, TasksAreCharges
<1>9. ASSUME NEW h \in Handlers, ServesIt(h)
      PROVE  ChargesAreOrdered'
  BY <1>9 DEF ServesIt, Ends, Serves, ChargesAreOrdered, TasksAreCharges
<1>10. ASSUME NEW h \in Handlers, Drops(h)
      PROVE  ChargesAreOrdered'
  BY <1>10 DEF Drops, Ends, ChargesAreOrdered, TasksAreCharges
<1> QED
  BY OtherSteps, HandleSteps, <1>1, <1>2, <1>3, <1>4, <1>5, <1>6, <1>7, <1>8, <1>9, <1>10
     DEF StepOf

LEMMA RowsCarryAChargeStep ==
    ASSUME TypeOK, Settlement, [Next]_vars
    PROVE  RowsCarryACharge'
<1> USE EventTypes DEF books, past, TypeOK, RowTypes, RequestTypes, GhostTypes, Settlement
<1>1. ASSUME NEW o \in Orders, NEW p \in Products, CreateOrder(o, p)
      PROVE  RowsCarryACharge'
  BY <1>1 DEF CreateOrder, NoRow, RowsCarryACharge, TasksAreCharges
<1>2. ASSUME NEW c \in Charges, Charged(c)
      PROVE  RowsCarryACharge'
  BY <1>2 DEF Charged, RowsCarryACharge, TasksAreCharges
<1>3. CASE Elsewhere
  BY <1>3 DEF Elsewhere, RowsCarryACharge, TasksAreCharges
<1>4. ASSUME NEW h \in Handlers, NEW c \in Charges, BeginsUnpaid(h, c)
      PROVE  RowsCarryACharge'
  BY <1>4 DEF BeginsUnpaid, Begins, RowsCarryACharge, TasksAreCharges
<1>5. ASSUME NEW h \in Handlers, NEW c \in Charges, BeginsRenewal(h, c)
      PROVE  RowsCarryACharge'
  BY <1>5 DEF BeginsRenewal, Begins, RowsCarryACharge, TasksAreCharges
<1>6. ASSUME NEW h \in Handlers, Marks(h)
      PROVE  RowsCarryACharge'
  BY <1>6 DEF Marks, Wins, RowOf, Goes, RowsCarryACharge, TasksAreCharges
<1>7. ASSUME NEW h \in Handlers, RecordsRenewal(h)
      PROVE  RowsCarryACharge'
  BY <1>7 DEF RecordsRenewal, Goes, RowsCarryACharge, TasksAreCharges
<1>8. ASSUME NEW h \in Handlers, Moves(h)
      PROVE  RowsCarryACharge'
  BY <1>8 DEF Moves, RowsCarryACharge, TasksAreCharges
<1>9. ASSUME NEW h \in Handlers, ServesIt(h)
      PROVE  RowsCarryACharge'
  BY <1>9 DEF ServesIt, Ends, Serves, RowsCarryACharge, TasksAreCharges
<1>10. ASSUME NEW h \in Handlers, Drops(h)
      PROVE  RowsCarryACharge'
  BY <1>10 DEF Drops, Ends, RowsCarryACharge, TasksAreCharges
<1> QED
  BY OtherSteps, HandleSteps, <1>1, <1>2, <1>3, <1>4, <1>5, <1>6, <1>7, <1>8, <1>9, <1>10
     DEF StepOf

LEMMA RenewalsAreLaterStep ==
    ASSUME TypeOK, Settlement, [Next]_vars
    PROVE  RenewalsAreLater'
<1> USE EventTypes DEF books, past, TypeOK, RowTypes, RequestTypes, GhostTypes, Settlement
<1>1. ASSUME NEW o \in Orders, NEW p \in Products, CreateOrder(o, p)
      PROVE  RenewalsAreLater'
  BY <1>1 DEF CreateOrder, NoRow, RenewalsAreLater, RowsCarryACharge, ChargesAreOrdered,
     TasksAreCharges, InHand
<1>2. ASSUME NEW c \in Charges, Charged(c)
      PROVE  RenewalsAreLater'
  BY <1>2 DEF Charged, RenewalsAreLater, RowsCarryACharge, ChargesAreOrdered,
     TasksAreCharges, InHand
<1>3. CASE Elsewhere
  BY <1>3 DEF Elsewhere, RenewalsAreLater, RowsCarryACharge, ChargesAreOrdered,
     TasksAreCharges, InHand
<1>4. ASSUME NEW h \in Handlers, NEW c \in Charges, BeginsUnpaid(h, c)
      PROVE  RenewalsAreLater'
  BY <1>4 DEF BeginsUnpaid, Begins, RenewalsAreLater, RowsCarryACharge, ChargesAreOrdered,
     TasksAreCharges, InHand
<1>5. ASSUME NEW h \in Handlers, NEW c \in Charges, BeginsRenewal(h, c)
      PROVE  RenewalsAreLater'
  BY <1>5 DEF BeginsRenewal, Begins, RenewalsAreLater, RowsCarryACharge, ChargesAreOrdered,
     TasksAreCharges, InHand
<1>6. ASSUME NEW h \in Handlers, Marks(h)
      PROVE  RenewalsAreLater'
  BY <1>6 DEF Marks, Wins, RowOf, Goes, RenewalsAreLater, RowsCarryACharge,
     ChargesAreOrdered, TasksAreCharges, InHand
<1>7. ASSUME NEW h \in Handlers, RecordsRenewal(h)
      PROVE  RenewalsAreLater'
  BY <1>7 DEF RecordsRenewal, Goes, RenewalsAreLater, RowsCarryACharge, ChargesAreOrdered,
     TasksAreCharges, InHand
<1>8. ASSUME NEW h \in Handlers, Moves(h)
      PROVE  RenewalsAreLater'
  BY <1>8 DEF Moves, RenewalsAreLater, RowsCarryACharge, ChargesAreOrdered, TasksAreCharges,
     InHand
<1>9. ASSUME NEW h \in Handlers, ServesIt(h)
      PROVE  RenewalsAreLater'
  BY <1>9 DEF ServesIt, Ends, Serves, RenewalsAreLater, RowsCarryACharge, ChargesAreOrdered,
     TasksAreCharges, InHand
<1>10. ASSUME NEW h \in Handlers, Drops(h)
      PROVE  RenewalsAreLater'
  BY <1>10 DEF Drops, Ends, RenewalsAreLater, RowsCarryACharge, ChargesAreOrdered,
     TasksAreCharges, InHand
<1> QED
  BY OtherSteps, HandleSteps, <1>1, <1>2, <1>3, <1>4, <1>5, <1>6, <1>7, <1>8, <1>9, <1>10
     DEF StepOf

LEMMA OneServesStep ==
    ASSUME TypeOK, Settlement, [Next]_vars
    PROVE  OneServes'
<1> USE EventTypes DEF books, past, TypeOK, RowTypes, RequestTypes, GhostTypes, Settlement
<1>1. ASSUME NEW o \in Orders, NEW p \in Products, CreateOrder(o, p)
      PROVE  OneServes'
  BY <1>1 DEF CreateOrder, NoRow, OneServes, Taken, InHand, Granting, ServedIsTaken,
     RenewalsAreLater, RowsCarryACharge, ChargesAreOrdered, TasksAreCharges
<1>2. ASSUME NEW c \in Charges, Charged(c)
      PROVE  OneServes'
  BY <1>2 DEF Charged, OneServes, Taken, InHand, Granting, ServedIsTaken, RenewalsAreLater,
     RowsCarryACharge, ChargesAreOrdered, TasksAreCharges
<1>3. CASE Elsewhere
  BY <1>3 DEF Elsewhere, OneServes, Taken, InHand, Granting, ServedIsTaken,
     RenewalsAreLater, RowsCarryACharge, ChargesAreOrdered, TasksAreCharges
<1>4. ASSUME NEW h \in Handlers, NEW c \in Charges, BeginsUnpaid(h, c)
      PROVE  OneServes'
  BY <1>4 DEF BeginsUnpaid, Begins, OneServes, Taken, InHand, Granting, ServedIsTaken,
     RenewalsAreLater, RowsCarryACharge, ChargesAreOrdered, TasksAreCharges
<1>5. ASSUME NEW h \in Handlers, NEW c \in Charges, BeginsRenewal(h, c)
      PROVE  OneServes'
  BY <1>5 DEF BeginsRenewal, Begins, OneServes, Taken, InHand, Granting, ServedIsTaken,
     RenewalsAreLater, RowsCarryACharge, ChargesAreOrdered, TasksAreCharges
<1>6. ASSUME NEW h \in Handlers, Marks(h)
      PROVE  OneServes'
  <2> DEFINE c == task[h]
  <2>1. /\ c \in Charges /\ row[c[1]].status = "created" /\ row[c[1]].charge = NoEvent
        /\ pc' = [pc EXCEPT ![h] = "grant"]
    BY <1>6 DEF Marks, Wins, RowOf, Goes, TasksAreCharges, RowsCarryACharge
  <2>2. row' = [row EXCEPT ![c[1]] = [@ EXCEPT !.status = "verified", !.charge = c]]
    BY <1>6 DEF Marks
  <2>3. row'[c[1]].charge = c /\ \A o \in Orders \ {c[1]} : row'[o] = row[o]
    BY <2>1, <2>2
  <2>4. UNCHANGED <<renewals, captured, task, served>>
    BY <1>6 DEF Marks, Goes
  <2>5. ~Taken(c)
    BY <2>1 DEF Taken, RenewalsAreLater
  <2>6. \A d \in Charges : Taken(d) => Taken(d)' /\ d # c
    BY <2>1, <2>3, <2>4, <2>5 DEF Taken
  <2>7. ASSUME NEW g \in Handlers \ {h}, pc'[g] \in InHand
        PROVE  /\ pc[g] \in InHand /\ Taken(task[g])' /\ task[g] # c /\ task[g] \in Charges
               /\ pc[g] \in Granting => row'[task[g][1]].charge = task[g]
    <3>1. pc'[g] = pc[g] /\ task[g] \in Charges
      BY <2>1, <2>7 DEF TasksAreCharges, InHand
    <3>2. Taken(task[g]) /\ (pc[g] \in Granting => row[task[g][1]].charge = task[g])
      BY <2>7, <3>1 DEF OneServes
    <3>3. Taken(task[g])' /\ task[g] # c
      BY <2>4, <2>6, <3>1, <3>2 DEF Taken
    <3> QED
      BY <2>1, <2>3, <2>7, <3>1, <3>2, <3>3
  <2>8. served[c] = 0 /\ Taken(c)'
    BY <2>1, <2>3, <2>4, <2>5 DEF ServedIsTaken, Taken
  <2> QED
    BY <2>1, <2>3, <2>4, <2>7, <2>8 DEF OneServes, TasksAreCharges
<1>7. ASSUME NEW h \in Handlers, RecordsRenewal(h)
      PROVE  OneServes'
  BY <1>7 DEF RecordsRenewal, Goes, OneServes, Taken, InHand, Granting, ServedIsTaken,
     RenewalsAreLater, RowsCarryACharge, ChargesAreOrdered, TasksAreCharges
<1>8. ASSUME NEW h \in Handlers, Moves(h)
      PROVE  OneServes'
  BY <1>8 DEF Moves, OneServes, Taken, InHand, Granting, ServedIsTaken, RenewalsAreLater,
     RowsCarryACharge, ChargesAreOrdered, TasksAreCharges
<1>9. ASSUME NEW h \in Handlers, ServesIt(h)
      PROVE  OneServes'
  BY <1>9 DEF ServesIt, Ends, Serves, OneServes, Taken, InHand, Granting, ServedIsTaken,
     RenewalsAreLater, RowsCarryACharge, ChargesAreOrdered, TasksAreCharges
<1>10. ASSUME NEW h \in Handlers, Drops(h)
      PROVE  OneServes'
  BY <1>10 DEF Drops, Ends, OneServes, Taken, InHand, Granting, ServedIsTaken,
     RenewalsAreLater, RowsCarryACharge, ChargesAreOrdered, TasksAreCharges
<1> QED
  BY OtherSteps, HandleSteps, <1>1, <1>2, <1>3, <1>4, <1>5, <1>6, <1>7, <1>8, <1>9, <1>10
     DEF StepOf

LEMMA ServedIsTakenStep ==
    ASSUME TypeOK, Settlement, [Next]_vars
    PROVE  ServedIsTaken'
<1> USE EventTypes DEF books, past, TypeOK, RowTypes, RequestTypes, GhostTypes, Settlement
<1>1. ASSUME NEW o \in Orders, NEW p \in Products, CreateOrder(o, p)
      PROVE  ServedIsTaken'
  BY <1>1 DEF CreateOrder, NoRow, ServedIsTaken, OneServes, Taken, RowsCarryACharge,
     ChargesAreOrdered, TasksAreCharges
<1>2. ASSUME NEW c \in Charges, Charged(c)
      PROVE  ServedIsTaken'
  BY <1>2 DEF Charged, ServedIsTaken, OneServes, Taken, RowsCarryACharge, ChargesAreOrdered,
     TasksAreCharges
<1>3. CASE Elsewhere
  BY <1>3 DEF Elsewhere, ServedIsTaken, OneServes, Taken, RowsCarryACharge,
     ChargesAreOrdered, TasksAreCharges
<1>4. ASSUME NEW h \in Handlers, NEW c \in Charges, BeginsUnpaid(h, c)
      PROVE  ServedIsTaken'
  BY <1>4 DEF BeginsUnpaid, Begins, ServedIsTaken, OneServes, Taken, RowsCarryACharge,
     ChargesAreOrdered, TasksAreCharges
<1>5. ASSUME NEW h \in Handlers, NEW c \in Charges, BeginsRenewal(h, c)
      PROVE  ServedIsTaken'
  BY <1>5 DEF BeginsRenewal, Begins, ServedIsTaken, OneServes, Taken, RowsCarryACharge,
     ChargesAreOrdered, TasksAreCharges
<1>6. ASSUME NEW h \in Handlers, Marks(h)
      PROVE  ServedIsTaken'
  <2> DEFINE c == task[h]
  <2>1. /\ c \in Charges /\ row[c[1]].status = "created" /\ row[c[1]].charge = NoEvent
        /\ pc' = [pc EXCEPT ![h] = "grant"]
    BY <1>6 DEF Marks, Wins, RowOf, Goes, TasksAreCharges, RowsCarryACharge
  <2>2. row' = [row EXCEPT ![c[1]] = [@ EXCEPT !.status = "verified", !.charge = c]]
    BY <1>6 DEF Marks
  <2>3. row'[c[1]].charge = c /\ \A o \in Orders \ {c[1]} : row'[o] = row[o]
    BY <2>1, <2>2
  <2>4. UNCHANGED <<renewals, captured, task, served>>
    BY <1>6 DEF Marks, Goes
  <2>5. ~Taken(c)
    BY <2>1 DEF Taken, RenewalsAreLater
  <2>6. \A d \in Charges : Taken(d) => Taken(d)' /\ d # c
    BY <2>1, <2>3, <2>4, <2>5 DEF Taken
  <2> QED
    BY <2>4, <2>6 DEF ServedIsTaken
<1>7. ASSUME NEW h \in Handlers, RecordsRenewal(h)
      PROVE  ServedIsTaken'
  BY <1>7 DEF RecordsRenewal, Goes, ServedIsTaken, OneServes, Taken, RowsCarryACharge,
     ChargesAreOrdered, TasksAreCharges
<1>8. ASSUME NEW h \in Handlers, Moves(h)
      PROVE  ServedIsTaken'
  BY <1>8 DEF Moves, ServedIsTaken, OneServes, Taken, RowsCarryACharge, ChargesAreOrdered,
     TasksAreCharges
<1>9. ASSUME NEW h \in Handlers, ServesIt(h)
      PROVE  ServedIsTaken'
  BY <1>9 DEF ServesIt, Ends, Serves, ServedIsTaken, OneServes, Taken, RowsCarryACharge,
     ChargesAreOrdered, TasksAreCharges
<1>10. ASSUME NEW h \in Handlers, Drops(h)
      PROVE  ServedIsTaken'
  BY <1>10 DEF Drops, Ends, ServedIsTaken, OneServes, Taken, RowsCarryACharge,
     ChargesAreOrdered, TasksAreCharges
<1> QED
  BY OtherSteps, HandleSteps, <1>1, <1>2, <1>3, <1>4, <1>5, <1>6, <1>7, <1>8, <1>9, <1>10
     DEF StepOf

LEMMA ServeOnceStep ==
    ASSUME TypeOK, Settlement, [Next]_vars
    PROVE  ChargesServeOnce'
<1> USE EventTypes DEF books, past, TypeOK, RowTypes, RequestTypes, GhostTypes, Settlement
<1>1. ASSUME NEW o \in Orders, NEW p \in Products, CreateOrder(o, p)
      PROVE  ChargesServeOnce'
  BY <1>1 DEF CreateOrder, NoRow, ChargesServeOnce, OneServes
<1>2. ASSUME NEW c \in Charges, Charged(c)
      PROVE  ChargesServeOnce'
  BY <1>2 DEF Charged, ChargesServeOnce, OneServes
<1>3. CASE Elsewhere
  BY <1>3 DEF Elsewhere, ChargesServeOnce, OneServes
<1>4. ASSUME NEW h \in Handlers, NEW c \in Charges, BeginsUnpaid(h, c)
      PROVE  ChargesServeOnce'
  BY <1>4 DEF BeginsUnpaid, Begins, ChargesServeOnce, OneServes
<1>5. ASSUME NEW h \in Handlers, NEW c \in Charges, BeginsRenewal(h, c)
      PROVE  ChargesServeOnce'
  BY <1>5 DEF BeginsRenewal, Begins, ChargesServeOnce, OneServes
<1>6. ASSUME NEW h \in Handlers, Marks(h)
      PROVE  ChargesServeOnce'
  BY <1>6 DEF Marks, Wins, RowOf, Goes, ChargesServeOnce, OneServes
<1>7. ASSUME NEW h \in Handlers, RecordsRenewal(h)
      PROVE  ChargesServeOnce'
  BY <1>7 DEF RecordsRenewal, Goes, ChargesServeOnce, OneServes
<1>8. ASSUME NEW h \in Handlers, Moves(h)
      PROVE  ChargesServeOnce'
  BY <1>8 DEF Moves, ChargesServeOnce, OneServes
<1>9. ASSUME NEW h \in Handlers, ServesIt(h)
      PROVE  ChargesServeOnce'
  BY <1>9 DEF ServesIt, Ends, Serves, ChargesServeOnce, OneServes
<1>10. ASSUME NEW h \in Handlers, Drops(h)
      PROVE  ChargesServeOnce'
  BY <1>10 DEF Drops, Ends, ChargesServeOnce, OneServes
<1> QED
  BY OtherSteps, HandleSteps, <1>1, <1>2, <1>3, <1>4, <1>5, <1>6, <1>7, <1>8, <1>9, <1>10
     DEF StepOf

\* The books are in order in every reachable state.
LEMMA SettlementHolds == Spec => []Settlement
<1>1. Init => Settlement
  BY EventTypes, PaymentsAssumption DEF Init, Settlement, TasksAreCharges, ChargesAreOrdered,
     RowsCarryACharge, RenewalsAreLater, OneServes, ServedIsTaken, ChargesServeOnce, NoRow,
     InHand, Taken
<1>2. TypeOK /\ Settlement /\ [Next]_vars => Settlement'
  BY TasksAreChargesStep, ChargesAreOrderedStep, RowsCarryAChargeStep, RenewalsAreLaterStep,
     OneServesStep, ServedIsTakenStep, ServeOnceStep DEF Settlement
<1> QED
  BY <1>1, <1>2, PaymentTypes, PTL DEF Spec

\* No interleaving of webhooks, their redeliveries and the browser's verdict, and no
\* failure, grants a charge twice.
THEOREM NoChargeServesTwice == Spec => []ChargesServeOnce
<1>1. Settlement => ChargesServeOnce
  BY DEF Settlement
<1> QED
  BY <1>1, SettlementHolds, PTL

-----------------------------------------------------------------------------
(* An answered webhook. *)

LEMMA TakenIsServedStep ==
    ASSUME TypeOK, Settlement, TakenIsServed, [Next]_vars
    PROVE  TakenIsServed'
<1> USE EventTypes DEF books, past, TypeOK, RowTypes, RequestTypes, GhostTypes, TakenIsServed,
        Taken
<1>1. ASSUME NEW o \in Orders, NEW p \in Products, CreateOrder(o, p)
      PROVE  TakenIsServed'
  BY <1>1 DEF CreateOrder, Settlement, RowsCarryACharge
<1>2. ASSUME NEW c \in Charges, Charged(c)
      PROVE  TakenIsServed'
  BY <1>2 DEF Charged
<1>3. CASE Elsewhere
  BY <1>3 DEF Elsewhere
<1>4. ASSUME NEW h \in Handlers, NEW c \in Charges, BeginsUnpaid(h, c)
      PROVE  TakenIsServed'
  BY <1>4 DEF BeginsUnpaid, Begins, InHand
<1>5. ASSUME NEW h \in Handlers, NEW c \in Charges, BeginsRenewal(h, c)
      PROVE  TakenIsServed'
  BY <1>5 DEF BeginsRenewal, Begins, InHand
<1>6. ASSUME NEW h \in Handlers, Marks(h)
      PROVE  TakenIsServed'
  BY <1>6 DEF Marks, Wins, RowOf, Goes, InHand
<1>7. ASSUME NEW h \in Handlers, RecordsRenewal(h)
      PROVE  TakenIsServed'
  BY <1>7 DEF RecordsRenewal, Goes, InHand
<1>8. ASSUME NEW h \in Handlers, Moves(h)
      PROVE  TakenIsServed'
  BY <1>8 DEF Moves
<1>9. ASSUME NEW h \in Handlers, ServesIt(h)
      PROVE  TakenIsServed'
  BY <1>9 DEF ServesIt, Ends, Serves
<1>10. ASSUME NEW h \in Handlers, Drops(h)
      PROVE  TakenIsServed'
  BY <1>10 DEF Drops, Ends
<1> QED
  BY OtherSteps, HandleSteps, <1>1, <1>2, <1>3, <1>4, <1>5, <1>6, <1>7, <1>8, <1>9, <1>10
     DEF StepOf

LEMMA AnsweredIsTakenStep ==
    ASSUME TypeOK, Settlement, AnsweredIsTaken, [Next]_vars
    PROVE  AnsweredIsTaken'
<1> USE EventTypes DEF books, past, TypeOK, RowTypes, RequestTypes, GhostTypes,
        AnsweredIsTaken, Taken
<1>1. ASSUME NEW o \in Orders, NEW p \in Products, CreateOrder(o, p)
      PROVE  AnsweredIsTaken'
  BY <1>1 DEF CreateOrder, Settlement, RowsCarryACharge
<1>2. ASSUME NEW c \in Charges, Charged(c)
      PROVE  AnsweredIsTaken'
  BY <1>2 DEF Charged
<1>3. CASE Elsewhere
  BY <1>3 DEF Elsewhere
<1>4. ASSUME NEW h \in Handlers, NEW c \in Charges, BeginsUnpaid(h, c)
      PROVE  AnsweredIsTaken'
  BY <1>4 DEF BeginsUnpaid, Begins
<1>5. ASSUME NEW h \in Handlers, NEW c \in Charges, BeginsRenewal(h, c)
      PROVE  AnsweredIsTaken'
  BY <1>5 DEF BeginsRenewal, Begins
<1>6. ASSUME NEW h \in Handlers, Marks(h)
      PROVE  AnsweredIsTaken'
  BY <1>6 DEF Marks, Wins, RowOf, Goes, Settlement, RowsCarryACharge, TasksAreCharges
<1>7. ASSUME NEW h \in Handlers, RecordsRenewal(h)
      PROVE  AnsweredIsTaken'
  BY <1>7 DEF RecordsRenewal, Goes
<1>8. ASSUME NEW h \in Handlers, Moves(h)
      PROVE  AnsweredIsTaken'
  BY <1>8 DEF Moves
<1>9. ASSUME NEW h \in Handlers, ServesIt(h)
      PROVE  AnsweredIsTaken'
  BY <1>9 DEF ServesIt, Ends, Serves, Settlement, OneServes
<1>10. ASSUME NEW h \in Handlers, Drops(h)
      PROVE  AnsweredIsTaken'
  BY <1>10 DEF Drops, Ends, Settlement, OneServes
<1> QED
  BY OtherSteps, HandleSteps, <1>1, <1>2, <1>3, <1>4, <1>5, <1>6, <1>7, <1>8, <1>9, <1>10
     DEF StepOf

\* A webhook that was answered is not lost to Razorpay's retries: its charge is granted,
\* is being granted, or was dropped in one of the ways the ghosts name.
THEOREM AnsweredWebhooksAreServed == Spec => []AnsweredIsServed
<1>1. Init => TakenIsServed /\ AnsweredIsTaken
  BY EventTypes DEF Init, TakenIsServed, AnsweredIsTaken, Taken, NoRow
<1>2. TypeOK /\ Settlement /\ TakenIsServed /\ AnsweredIsTaken /\ [Next]_vars
         => (TakenIsServed /\ AnsweredIsTaken)'
  BY TakenIsServedStep, AnsweredIsTakenStep
<1>3. TakenIsServed /\ AnsweredIsTaken => AnsweredIsServed
  BY DEF TakenIsServed, AnsweredIsTaken, AnsweredIsServed, Serving
<1> QED
  BY <1>1, <1>2, <1>3, PaymentTypes, SettlementHolds, PTL DEF Spec

-----------------------------------------------------------------------------
(* A stopped subscription. *)

Activating == {"grant", "insert", "patch"}

\* A subscription is put on the plan once.
PlanIsActivated ==
    plan.sub # NoOrder =>
        /\ row[plan.sub].status = "verified"
        /\ \A h \in Handlers : pc[h] \in Activating => task[h][1] # plan.sub

StopsSettle ==
    \A o \in Orders \ early : StopOf(o) \in acked =>
        /\ row[o].status = "verified"
        /\ \A h \in Handlers : pc[h] \in Activating => task[h][1] # o
        /\ ~(plan.sub = o /\ plan.live)

\* Nothing is put on the plan, and no stop is answered.
KeepsThePlan ==
    /\ UNCHANGED <<row, plan, early>>
    /\ \A h \in Handlers : pc'[h] \in Activating => pc[h] \in Activating /\ task'[h] = task[h]
    /\ \A o \in Orders : StopOf(o) \in acked' => StopOf(o) \in acked

LEMMA PlanSteps ==
    ASSUME TypeOK, [Next]_vars
    PROVE  \/ \E o \in Orders : WebhookStop(o) \/ \E p \in Products : CreateOrder(o, p)
           \/ \E h \in Handlers : Marks(h) \/ InsertsPlan(h) \/ PatchesPlan(h)
           \/ KeepsThePlan
<1> USE EventTypes, StopTypes DEF TypeOK, RequestTypes, KeepsThePlan, Activating
<1>1. ASSUME NEW o \in Orders, NEW n \in 1..MaxCharges, Checkout(o) \/ Recurs(o, n)
      PROVE  KeepsThePlan
  BY <1>1 DEF Checkout, Recurs
<1>2. ASSUME NEW o \in Orders, StopsAtRazorpay(o) PROVE KeepsThePlan
  BY <1>2 DEF StopsAtRazorpay
<1>3. CASE MonthTurns \/ UNCHANGED vars
  BY <1>3 DEF MonthTurns
<1>4. ASSUME NEW c \in Charges, WebhookDone(c) PROVE KeepsThePlan
  BY <1>4 DEF WebhookDone
<1>5. ASSUME NEW h \in Handlers, Handle(h), ~Marks(h), ~InsertsPlan(h), ~PatchesPlan(h)
      PROVE  KeepsThePlan
  <2>1. ASSUME NEW c \in Charges, WebhookUnpaid(h, c) \/ WebhookRenewal(h, c)
        PROVE  KeepsThePlan
    BY <2>1 DEF WebhookUnpaid, WebhookRenewal, Begins
  <2>2. ASSUME NEW o \in Orders, VerifyUnpaid(h, o) PROVE KeepsThePlan
    BY <2>2 DEF VerifyUnpaid, Begins
  <2>3. CASE ReadsBalance(h) \/ ReadsPlan(h)
    BY <2>3 DEF ReadsBalance, ReadsPlan, Goes
  <2>4. CASE RecordsRenewal(h) \/ RenewsPeriod(h) \/ NeedsPass(h)
    BY <2>4 DEF RecordsRenewal, RenewsPeriod, NeedsPass, Goes
  <2>5. CASE MarksInVain(h) \/ SwallowsAudit(h) \/ RenewsNothing(h)
    BY <2>5 DEF MarksInVain, SwallowsAudit, RenewsNothing, Answers, Ends
  <2>6. CASE WritesBalance(h) \/ Unlocks(h) \/ OpensAudit(h) \/ HasPass(h) \/ OpensPass(h)
    BY <2>6 DEF WritesBalance, Unlocks, OpensAudit, HasPass, OpensPass, Answers, Ends
  <2>7. CASE Raises(h) \/ Dies(h)
    BY <2>7 DEF Raises, Dies, Fails, Ends
  <2> QED
    BY <1>5, <2>1, <2>2, <2>3, <2>4, <2>5, <2>6, <2>7 DEF Handle
<1>6. 1 \in 1..MaxCharges
  BY PaymentsAssumption
<1> QED
  BY <1>1, <1>2, <1>3, <1>4, <1>5, <1>6 DEF Next

\* The one request that puts an order on the plan.
LEMMA ActivatesAlone ==
    ASSUME TypeOK, Settlement, NEW h \in Handlers, pc[h] \in Activating
    PROVE  /\ task[h] \in Charges /\ row[task[h][1]].status = "verified"
           /\ \A g \in Handlers \ {h} : pc[g] \in Activating => task[g][1] # task[h][1]
<1>1. \A g \in Handlers : pc[g] \in Activating =>
         task[g] \in Charges /\ task[g][1] \in Orders /\ row[task[g][1]].charge = task[g]
  BY EventTypes DEF Settlement, TasksAreCharges, OneServes, InHand, Granting, Activating
<1>2. \A g \in Handlers \ {h} : pc[g] \in Activating => task[g] # task[h]
  BY DEF Settlement, OneServes, InHand, Activating
<1> QED
  BY <1>1, <1>2, EventTypes DEF Settlement, RowsCarryACharge

LEMMA ActivationStep ==
    ASSUME TypeOK, Settlement, PlanIsActivated, StopsSettle, [Next]_vars
    PROVE  PlanIsActivated' /\ StopsSettle'
<1> USE EventTypes, StopTypes, PaymentsAssumption DEF TypeOK, RowTypes, GoodsTypes, RequestTypes,
        PlanIsActivated, StopsSettle
<1>1. ASSUME NEW o \in Orders, WebhookStop(o) PROVE PlanIsActivated' /\ StopsSettle'
  BY <1>1 DEF WebhookStop
<1>2. ASSUME NEW o \in Orders, NEW p \in Products, CreateOrder(o, p)
      PROVE  PlanIsActivated' /\ StopsSettle'
  BY <1>2 DEF CreateOrder
<1>3. ASSUME NEW h \in Handlers, Marks(h) PROVE PlanIsActivated' /\ StopsSettle'
  <2>1. /\ task[h] \in Charges /\ row[task[h][1]].status = "created"
        /\ pc' = [pc EXCEPT ![h] = "grant"]
        /\ UNCHANGED <<task, plan, acked, early>>
    BY <1>3 DEF Marks, Wins, RowOf, Goes
  <2>2. \A o \in Orders : row[o].status = "verified" => row'[o].status = "verified"
    BY <1>3, <2>1 DEF Marks
  <2>3. plan.sub # task[h][1] /\ (StopOf(task[h][1]) \in acked => task[h][1] \in early)
    BY <2>1
  <2> QED
    BY <2>1, <2>2, <2>3 DEF Activating
<1>4. ASSUME NEW h \in Handlers, InsertsPlan(h) \/ PatchesPlan(h)
      PROVE  PlanIsActivated' /\ StopsSettle'
  <2>1. /\ pc[h] \in Activating /\ plan' = [sub |-> task[h][1], live |-> TRUE]
        /\ \E to \in {"open", "passes"} : pc' = [pc EXCEPT ![h] = to]
        /\ UNCHANGED <<row, task, acked, early>>
    BY <1>4 DEF InsertsPlan, PatchesPlan, Goes, Activating
  <2>2. /\ task[h] \in Charges /\ row[task[h][1]].status = "verified"
        /\ \A g \in Handlers \ {h} : pc[g] \in Activating => task[g][1] # task[h][1]
    BY <2>1, ActivatesAlone
  <2>3. StopOf(task[h][1]) \in acked => task[h][1] \in early
    BY <2>1, <2>2
  <2> QED
    BY <2>1, <2>2, <2>3 DEF Activating
<1>5. CASE KeepsThePlan
  BY <1>5 DEF KeepsThePlan
<1> QED
  BY PlanSteps, <1>1, <1>2, <1>3, <1>4, <1>5

\* A charge, a second plan, a redelivery: nothing brings a stopped subscription back.
THEOREM StoppedPlansStayStopped == Spec => []StopSticks
<1>1. Init => PlanIsActivated /\ StopsSettle
  BY DEF Init, PlanIsActivated, StopsSettle, NoPlan
<1>2. TypeOK /\ Settlement /\ PlanIsActivated /\ StopsSettle /\ [Next]_vars
         => (PlanIsActivated /\ StopsSettle)'
  BY ActivationStep
<1>3. StopsSettle => StopSticks
  BY DEF StopsSettle, StopSticks
<1> QED
  BY <1>1, <1>2, <1>3, PaymentTypes, SettlementHolds, PTL DEF Spec

-----------------------------------------------------------------------------
(* The month's pass. *)

PassesSoFar == \A n \in DOMAIN passes : passes[n] <= month

\* A request that may open the next pass has seen that the month has none.
OpensAreDue ==
    \A h \in Handlers :
        /\ pc[h] = "open" => seen[h] <= Len(passes)
        /\ pc[h] = "open" /\ seen[h] = Len(passes) =>
              \A n \in DOMAIN passes : passes[n] # month

\* A request has read no number before it needs one.
NothingSeen == \A h \in Handlers : pc[h] \notin {"credit", "open"} => seen[h] = 0

Passes == PassesSoFar /\ OpensAreDue /\ NothingSeen /\ OnePassAMonth

\* No pass is opened, and no request is about to open one that was not.
KeepsPasses ==
    /\ UNCHANGED <<passes, month>>
    /\ \A h \in Handlers : pc'[h] = "open" => pc[h] = "open" /\ seen'[h] = seen[h]
    /\ NothingSeen'

LEMMA PassesKept ==
    ASSUME Passes, KeepsPasses
    PROVE  Passes'
BY DEF Passes, KeepsPasses, PassesSoFar, OpensAreDue, OnePassAMonth

LEMMA PassesStep ==
    ASSUME TypeOK, Passes, [Next]_vars
    PROVE  Passes'
<1> USE DEF KeepsPasses, NothingSeen
<1>1. pc \in [Handlers -> Pcs] /\ seen \in [Handlers -> Nat]
  BY DEF TypeOK, RequestTypes
<1>0. /\ passes \in Seq(1..MaxMonths) /\ month \in 1..MaxMonths
      /\ DOMAIN passes = 1..Len(passes) /\ Len(passes) \in Nat
      /\ \A n \in 1..Len(passes) : passes[n] \in 1..MaxMonths
  <2>1. passes \in Seq(1..MaxMonths) /\ month \in 1..MaxMonths
    BY DEF TypeOK, GoodsTypes
  <2> QED
    BY <2>1, LenProperties, ElementOfSeq
<1>2. NothingSeen
  BY DEF Passes
<1>3. ASSUME NEW o \in Orders, NEW p \in Products, CreateOrder(o, p) PROVE KeepsPasses
  BY <1>2, <1>3 DEF CreateOrder
<1>4. ASSUME NEW o \in Orders, NEW n \in 1..MaxCharges, Checkout(o) \/ Recurs(o, n)
      PROVE  KeepsPasses
  BY <1>2, <1>4 DEF Checkout, Recurs
<1>5. ASSUME NEW o \in Orders, StopsAtRazorpay(o) \/ WebhookStop(o) PROVE KeepsPasses
  BY <1>2, <1>5 DEF StopsAtRazorpay, WebhookStop
<1>6. CASE MonthTurns
  <2>1. /\ month' = month + 1 /\ UNCHANGED <<passes, pc, seen>>
    BY <1>6 DEF MonthTurns
  <2>2. \A n \in DOMAIN passes : passes[n] <= month
    BY DEF Passes, PassesSoFar
  <2>3. \A n \in DOMAIN passes : passes[n] <= month' /\ passes[n] # month'
    BY <1>1, <1>0, <2>1, <2>2, PaymentsAssumption
  <2> QED
    BY <2>1, <2>3 DEF Passes, PassesSoFar, OpensAreDue, OnePassAMonth
<1>7. ASSUME NEW c \in Charges, WebhookDone(c) PROVE KeepsPasses
  BY <1>2, <1>7 DEF WebhookDone
<1>8. ASSUME NEW h \in Handlers, Handle(h) PROVE Passes'
  <2>1. ASSUME NEW c \in Charges, WebhookUnpaid(h, c) \/ WebhookRenewal(h, c)
        PROVE  KeepsPasses
    BY <1>1, <1>2, <2>1 DEF WebhookUnpaid, WebhookRenewal, Begins
  <2>2. ASSUME NEW o \in Orders, VerifyUnpaid(h, o) PROVE KeepsPasses
    BY <1>1, <1>2, <2>2 DEF VerifyUnpaid, Begins
  <2>3. CASE Marks(h) \/ ReadsPlan(h) \/ PatchesPlan(h) \/ RecordsRenewal(h) \/ RenewsPeriod(h)
    <3>1. /\ pc[h] \notin {"credit", "open"} /\ UNCHANGED <<passes, month, seen>>
          /\ \E to \in Pcs \ {"credit", "open"} : pc' = [pc EXCEPT ![h] = to]
      BY <2>3 DEF Marks, ReadsPlan, PatchesPlan, RecordsRenewal, RenewsPeriod, Goes, Pcs, InHand
    <3> QED
      BY <1>1, <1>2, <3>1, PassesKept
  <2>4. CASE ReadsBalance(h)
    <3>1. /\ pc' = [pc EXCEPT ![h] = "credit"] /\ UNCHANGED <<passes, month>>
          /\ \A g \in Handlers \ {h} : seen'[g] = seen[g]
      BY <1>1, <2>4 DEF ReadsBalance, Goes
    <3> QED
      BY <1>1, <1>2, <3>1, PassesKept
  <2>5. CASE MarksInVain(h) \/ SwallowsAudit(h) \/ RenewsNothing(h) \/ HasPass(h)
    <3>1. Ends(h) /\ UNCHANGED <<passes, month>>
      BY <2>5 DEF MarksInVain, SwallowsAudit, RenewsNothing, HasPass, Answers
    <3> QED
      BY <1>1, <1>2, <3>1, PassesKept DEF Ends
  <2>6. CASE WritesBalance(h) \/ Unlocks(h) \/ OpensAudit(h) \/ Raises(h) \/ Dies(h)
    <3>1. Ends(h) /\ UNCHANGED <<passes, month>>
      BY <2>6 DEF WritesBalance, Unlocks, OpensAudit, Raises, Dies, Fails, Answers
    <3> QED
      BY <1>1, <1>2, <3>1, PassesKept DEF Ends
  <2>7. CASE InsertsPlan(h)
    <3>1. /\ pc' = [pc EXCEPT ![h] = "open"] /\ seen[h] = 0
          /\ UNCHANGED <<passes, month, seen>>
      BY <1>2, <2>7 DEF InsertsPlan, Goes
    <3> QED
      BY <1>1, <1>0, <3>1 DEF Passes, PassesSoFar, OpensAreDue, OnePassAMonth
  <2>8. CASE NeedsPass(h)
    <3>1. /\ pc' = [pc EXCEPT ![h] = "open"] /\ seen' = [seen EXCEPT ![h] = Len(passes)]
          /\ \A n \in DOMAIN passes : passes[n] # month
          /\ UNCHANGED <<passes, month>>
      BY <2>8 DEF NeedsPass, Goes
    <3> QED
      BY <1>1, <1>0, <3>1 DEF Passes, PassesSoFar, OpensAreDue, OnePassAMonth
  <2>9. CASE OpensPass(h)
    <3>1. pc[h] = "open" /\ passes' = Append(passes, month) /\ month' = month /\ Ends(h)
      BY <2>9 DEF OpensPass, Answers
    <3>2. seen[h] = Len(passes)
      <4>1. seen[h] <= Len(passes) /\ seen[h] \in Nat
        BY <1>1, <3>1 DEF Passes, OpensAreDue
      <4>2. seen[h] + 1 > Len(passes)
        BY <2>9 DEF OpensPass, IsFree
      <4> QED
        BY <1>0, <4>1, <4>2
    <3>3. \A n \in 1..Len(passes) : passes[n] <= month /\ passes[n] # month
      BY <1>0, <3>1, <3>2 DEF Passes, PassesSoFar, OpensAreDue
    <3>4. /\ Len(passes') = Len(passes) + 1 /\ passes'[Len(passes) + 1] = month
          /\ \A n \in 1..Len(passes) : passes'[n] = passes[n]
          /\ DOMAIN passes' = 1..(Len(passes) + 1)
      <4>1. passes' \in Seq(1..MaxMonths)
        BY <1>0, <3>1, AppendProperties
      <4>2. /\ Len(passes') = Len(passes) + 1 /\ passes'[Len(passes) + 1] = month
            /\ \A n \in 1..Len(passes) : passes'[n] = passes[n]
        <5>1. passes \in Seq(1..MaxMonths) /\ month \in 1..MaxMonths
          BY <1>0
        <5>2. /\ Len(Append(passes, month)) = Len(passes) + 1
              /\ Append(passes, month)[Len(passes) + 1] = month
              /\ \A n \in 1..Len(passes) : Append(passes, month)[n] = passes[n]
          BY <5>1, AppendProperties
        <5> QED
          BY <3>1, <5>2, Zenon
      <4> QED
        BY <4>1, <4>2, LenProperties
    <3>5. \A n \in DOMAIN passes' : n \in 1..Len(passes) \/ n = Len(passes) + 1
      BY <1>0, <3>4
    <3>6. PassesSoFar'
      <4> SUFFICES ASSUME NEW n \in DOMAIN passes' PROVE passes'[n] <= month'
        BY DEF PassesSoFar
      <4>1. CASE n \in 1..Len(passes)
        BY <3>1, <3>3, <3>4, <4>1
      <4>2. CASE n = Len(passes) + 1
        <5>1. month \in Nat
          BY <1>0, PaymentsAssumption
        <5> QED
          BY <3>1, <3>4, <4>2, <5>1
      <4> QED
        BY <3>5, <4>1, <4>2
    <3>7. OnePassAMonth'
      <4> SUFFICES ASSUME NEW m \in DOMAIN passes', NEW n \in DOMAIN passes',
                          passes'[m] = passes'[n]
                   PROVE  m = n
        BY DEF OnePassAMonth
      <4>1. CASE m \in 1..Len(passes) /\ n \in 1..Len(passes)
        BY <1>0, <3>4, <4>1 DEF OnePassAMonth, Passes
      <4> QED
        BY <3>3, <3>4, <3>5, <4>1
    <3>8. OpensAreDue' /\ NothingSeen'
      BY <1>0, <1>1, <1>2, <3>1, <3>4 DEF Ends, OpensAreDue, Passes
    <3> QED
      BY <3>6, <3>7, <3>8 DEF Passes
  <2> QED
    BY <1>8, PassesKept, <2>1, <2>2, <2>3, <2>4, <2>5, <2>6, <2>7, <2>8, <2>9 DEF Handle
<1>9. CASE UNCHANGED vars
  BY <1>2, <1>9, PassesKept
<1>10. 1 \in 1..MaxCharges
  BY PaymentsAssumption
<1> QED
  BY PassesKept, <1>3, <1>4, <1>5, <1>6, <1>7, <1>8, <1>9, <1>10 DEF Next

\* Two requests that open the month's pass at once, or a month that turns between the
\* read and the insert, leave one pass for each month.
THEOREM PassesAreMonthly == Spec => []OnePassAMonth
<1>1. Init => Passes
  BY DEF Init, Passes, PassesSoFar, OpensAreDue, NothingSeen, OnePassAMonth
<1>2. Passes => OnePassAMonth
  BY DEF Passes
<1> QED
  BY <1>1, <1>2, PassesStep, PaymentTypes, PTL DEF Spec

-----------------------------------------------------------------------------
(* The wallet. *)

Packs == {o \in Orders : row[o].product = "coins" /\ served[<<o, 1>>] > 0}

\* A request grants what its order is of.
GrantsItsProduct ==
    \A h \in Handlers :
        /\ pc[h] = "credit" => row[task[h][1]].product = "coins"
        /\ pc[h] \in {"insert", "patch", "record", "renew", "passes", "open"} =>
               row[task[h][1]].product = "plan"

\* A request that is alone with the wallet writes back what is there.
WalletIsCurrent ==
    /\ IsFiniteSet(Packs)
    /\ ~overlapped => balance = Cardinality(Packs)
    /\ ~overlapped => \A h \in Handlers : pc[h] = "credit" =>
           seen[h] = balance /\ \A g \in Handlers \ {h} : pc[g] # "credit"

LEMMA GrantsItsProductStep ==
    ASSUME TypeOK, Settlement, GrantsItsProduct, [Next]_vars
    PROVE  GrantsItsProduct'
<1> USE EventTypes DEF GrantsItsProduct, TypeOK, RowTypes, RequestTypes
<1>1. ASSUME NEW o \in Orders, NEW p \in Products, CreateOrder(o, p) PROVE GrantsItsProduct'
  BY <1>1 DEF CreateOrder, Settlement, ChargesAreOrdered, TasksAreCharges
<1>2. CASE UNCHANGED <<row, pc, task>>
  BY <1>2
<1>3. ASSUME NEW o \in Orders, NEW n \in 1..MaxCharges,
             Checkout(o) \/ Recurs(o, n) \/ StopsAtRazorpay(o) \/ WebhookStop(o)
      PROVE  UNCHANGED <<row, pc, task>>
  BY <1>3 DEF Checkout, Recurs, StopsAtRazorpay, WebhookStop
<1>4. ASSUME NEW c \in Charges, WebhookDone(c) PROVE UNCHANGED <<row, pc, task>>
  BY <1>4 DEF WebhookDone
<1>5. CASE MonthTurns
  BY <1>5 DEF MonthTurns
<1>6. ASSUME NEW h \in Handlers, Handle(h) PROVE GrantsItsProduct'
  <2>1. ASSUME NEW c \in Charges, WebhookUnpaid(h, c) \/ WebhookRenewal(h, c)
        PROVE  GrantsItsProduct'
    BY <2>1 DEF WebhookUnpaid, WebhookRenewal, Begins, IsRenewal, RowOf
  <2>2. ASSUME NEW o \in Orders, VerifyUnpaid(h, o) PROVE GrantsItsProduct'
    BY <2>2 DEF VerifyUnpaid, Begins
  <2>3. CASE Marks(h)
    BY <2>3 DEF Marks, Wins, Goes, RowOf, Settlement, TasksAreCharges
  <2>4. CASE ReadsBalance(h) \/ ReadsPlan(h)
    BY <2>4 DEF ReadsBalance, ReadsPlan, Goes, RowOf
  <2>5. CASE InsertsPlan(h) \/ PatchesPlan(h) \/ RecordsRenewal(h) \/ RenewsPeriod(h) \/ NeedsPass(h)
    BY <2>5 DEF InsertsPlan, PatchesPlan, RecordsRenewal, RenewsPeriod, NeedsPass, Goes
  <2>6. CASE \/ MarksInVain(h) \/ WritesBalance(h) \/ Unlocks(h) \/ OpensAudit(h)
             \/ SwallowsAudit(h) \/ RenewsNothing(h) \/ HasPass(h) \/ OpensPass(h)
             \/ Raises(h) \/ Dies(h)
    <3>1. Ends(h) /\ row' = row
      BY <2>6 DEF MarksInVain, WritesBalance, Unlocks, OpensAudit, SwallowsAudit, RenewsNothing,
         HasPass, OpensPass, Raises, Dies, Fails, Answers
    <3> QED
      BY <3>1 DEF Ends
  <2> QED
    BY <1>6, <2>1, <2>2, <2>3, <2>4, <2>5, <2>6 DEF Handle
<1>7. 1 \in 1..MaxCharges
  BY PaymentsAssumption
<1> QED
  BY <1>1, <1>2, <1>3, <1>4, <1>5, <1>6, <1>7 DEF Next

\* Neither the wallet nor what it should hold changes, and nobody comes to it.
KeepsTheWallet ==
    /\ UNCHANGED <<balance, overlapped>> /\ Packs' = Packs
    /\ \A h \in Handlers : pc'[h] = "credit" => pc[h] = "credit" /\ seen'[h] = seen[h]

\* A request that ends without a grant of coins.
LEMMA EndKeepsTheWallet ==
    ASSUME TypeOK, NEW h \in Handlers, Ends(h),
           UNCHANGED <<row, balance, overlapped>>,
           served' = served \/ (Serves(h) /\ row[task[h][1]].product # "coins"),
           task[h] \in Charges
    PROVE  KeepsTheWallet
<1>1. \A o \in Orders : row[o].product = "coins" => served'[<<o, 1>>] = served[<<o, 1>>]
  BY EventTypes DEF Serves, TypeOK, GhostTypes
<1>2. Packs' = Packs
  BY <1>1 DEF Packs
<1> QED
  BY <1>2 DEF KeepsTheWallet, Ends, TypeOK, RequestTypes

LEMMA WalletKept ==
    ASSUME WalletIsCurrent, KeepsTheWallet
    PROVE  WalletIsCurrent'
<1>1. balance' = balance /\ overlapped' = overlapped /\ Packs' = Packs
  BY DEF KeepsTheWallet
<1> QED
  BY <1>1 DEF WalletIsCurrent, KeepsTheWallet

LEMMA WalletStep ==
    ASSUME TypeOK, Settlement, GrantsItsProduct, WalletIsCurrent, [Next]_vars
    PROVE  WalletIsCurrent'
<1> USE DEF TypeOK, RequestTypes
<1>1. ASSUME NEW o \in Orders, NEW p \in Products, CreateOrder(o, p) PROVE KeepsTheWallet
  <2>1. <<o, 1>> \in Charges /\ served[<<o, 1>>] \in Nat /\ row[o].status = "none"
    BY <1>1, EventTypes DEF CreateOrder, GhostTypes
  <2>2. ~Taken(<<o, 1>>)
    BY <2>1, EventTypes DEF Taken, Settlement, RowsCarryACharge, RenewalsAreLater
  <2>3. ~(served[<<o, 1>>] > 0)
    BY <2>1, <2>2 DEF Settlement, ServedIsTaken
  <2>4. \A q \in Orders \ {o} : row'[q] = row[q]
    BY <1>1 DEF CreateOrder, RowTypes
  <2>5. UNCHANGED <<served, balance, overlapped, pc, seen>>
    BY <1>1 DEF CreateOrder
  <2>6. Packs' = Packs
    BY <2>3, <2>4, <2>5 DEF Packs
  <2> QED
    BY <2>5, <2>6 DEF KeepsTheWallet
<1>2. CASE UNCHANGED <<row, served, balance, overlapped, pc, seen>>
  BY <1>2, WalletKept DEF KeepsTheWallet, Packs
<1>3. ASSUME NEW o \in Orders, NEW n \in 1..MaxCharges,
             Checkout(o) \/ Recurs(o, n) \/ StopsAtRazorpay(o) \/ WebhookStop(o)
      PROVE  UNCHANGED <<row, served, balance, overlapped, pc, seen>>
  BY <1>3 DEF Checkout, Recurs, StopsAtRazorpay, WebhookStop
<1>4. ASSUME NEW c \in Charges, WebhookDone(c)
      PROVE  UNCHANGED <<row, served, balance, overlapped, pc, seen>>
  BY <1>4 DEF WebhookDone
<1>5. CASE MonthTurns
  BY <1>5, <1>2 DEF MonthTurns
<1>6. ASSUME NEW h \in Handlers, Handle(h) PROVE WalletIsCurrent'
  <2>1. ASSUME NEW c \in Charges, WebhookUnpaid(h, c) \/ WebhookRenewal(h, c)
        PROVE  KeepsTheWallet
    BY <2>1 DEF WebhookUnpaid, WebhookRenewal, Begins, KeepsTheWallet, Packs
  <2>2. ASSUME NEW o \in Orders, VerifyUnpaid(h, o) PROVE KeepsTheWallet
    BY <2>2 DEF VerifyUnpaid, Begins, KeepsTheWallet, Packs
  <2>3. CASE Marks(h)
    <3>1. \A o \in Orders : row'[o].product = row[o].product
      BY <2>3 DEF Marks, RowTypes
    <3>2. /\ UNCHANGED <<served, balance, overlapped, seen>> /\ pc' = [pc EXCEPT ![h] = "grant"]
      BY <2>3 DEF Marks, Goes
    <3>3. Packs' = Packs
      BY <3>1, <3>2 DEF Packs
    <3> QED
      BY <3>2, <3>3, WalletKept DEF KeepsTheWallet
  <2>4. CASE ReadsBalance(h)
    <3>1. /\ Packs' = Packs /\ balance' = balance
          /\ pc' = [pc EXCEPT ![h] = "credit"] /\ seen' = [seen EXCEPT ![h] = balance]
          /\ ~overlapped' => ~overlapped /\ \A g \in Handlers : pc[g] # "credit"
      BY <2>4 DEF ReadsBalance, Goes, Packs
    <3>2. ~overlapped' => balance' = Cardinality(Packs')
      BY <3>1 DEF WalletIsCurrent
    <3>3. IsFiniteSet(Packs')
      BY <3>1 DEF WalletIsCurrent
    <3> QED
      BY <3>1, <3>2, <3>3 DEF WalletIsCurrent
  <2>5. CASE ReadsPlan(h) \/ InsertsPlan(h) \/ PatchesPlan(h) \/ RecordsRenewal(h)
             \/ RenewsPeriod(h) \/ NeedsPass(h)
    <3>1. /\ UNCHANGED <<row, served, balance, overlapped>>
          /\ \E to \in Pcs \ {"credit"} : pc' = [pc EXCEPT ![h] = to]
          /\ \A g \in Handlers \ {h} : seen'[g] = seen[g]
      BY <2>5 DEF ReadsPlan, InsertsPlan, PatchesPlan, RecordsRenewal, RenewsPeriod, NeedsPass,
         Goes, Pcs, InHand
    <3> QED
      BY <3>1, WalletKept DEF KeepsTheWallet, Packs
  <2>6. CASE WritesBalance(h)
    <3> DEFINE o == task[h][1]
    <3>1. /\ task[h] \in Charges /\ o \in Orders /\ row[o].product = "coins"
          /\ served[task[h]] = 0
      BY <2>6, EventTypes DEF WritesBalance, GrantsItsProduct, Settlement, TasksAreCharges,
         OneServes, InHand
    <3>2. task[h] = <<o, 1>>
      BY <2>6, <3>1 DEF WritesBalance, Settlement, TasksAreCharges, ChargesAreOrdered, Charges
    <3>3. /\ served' = [served EXCEPT ![<<o, 1>>] = @ + 1] /\ row' = row
          /\ balance' = seen[h] + 1 /\ overlapped' = overlapped /\ Ends(h)
      BY <2>6, <3>2 DEF WritesBalance, Serves, Answers
    <3>4. o \notin Packs /\ Packs' = Packs \cup {o}
      <4>1. served \in [Charges -> Nat] /\ served[<<o, 1>>] = 0 /\ <<o, 1>> \in Charges
        BY <3>1, <3>2 DEF GhostTypes
      <4>2. ASSUME NEW q \in Orders
            PROVE  served'[<<q, 1>>] > 0 <=> served[<<q, 1>>] > 0 \/ q = o
        <5>1. <<q, 1>> \in Charges
          BY EventTypes
        <5>2. CASE q = o
          BY <3>3, <4>1, <5>2
        <5>3. CASE q # o
          <6>1. <<q, 1>> # <<o, 1>>
            BY <5>3
          <6> QED
            BY <3>3, <4>1, <5>1, <5>3, <6>1
        <5> QED
          BY <5>2, <5>3
      <4> QED
        BY <3>1, <3>3, <4>1, <4>2 DEF Packs
    <3>5. IsFiniteSet(Packs') /\ Cardinality(Packs') = Cardinality(Packs) + 1
      BY <3>4, FS_AddElement DEF WalletIsCurrent
    <3>6. ~overlapped => seen[h] = Cardinality(Packs) /\ \A g \in Handlers \ {h} : pc[g] # "credit"
      BY <2>6 DEF WritesBalance, WalletIsCurrent
    <3>7. ~overlapped' => \A g \in Handlers : pc'[g] # "credit"
      BY <3>3, <3>6 DEF Ends
    <3>8. ~overlapped' => balance' = Cardinality(Packs')
      BY <3>3, <3>5, <3>6
    <3> QED
      BY <3>5, <3>7, <3>8 DEF WalletIsCurrent
  <2>7. CASE MarksInVain(h) \/ SwallowsAudit(h) \/ RenewsNothing(h) \/ Raises(h) \/ Dies(h)
    <3>1. Ends(h) /\ UNCHANGED <<row, balance, overlapped, served>> /\ pc[h] # "idle"
      BY <2>7 DEF MarksInVain, SwallowsAudit, RenewsNothing, Raises, Dies, Fails, Answers, Conflicts
    <3> QED
      BY <3>1, EndKeepsTheWallet, WalletKept
  <2>8. CASE Unlocks(h) \/ OpensAudit(h) \/ HasPass(h) \/ OpensPass(h)
    <3>1. Ends(h) /\ UNCHANGED <<row, balance, overlapped>> /\ pc[h] # "idle" /\ Serves(h)
      BY <2>8 DEF Unlocks, OpensAudit, HasPass, OpensPass, Answers
    <3>2. row[task[h][1]].product # "coins"
      BY <2>8 DEF Unlocks, OpensAudit, HasPass, OpensPass, RowOf, GrantsItsProduct
    <3> QED
      BY <3>1, <3>2, EndKeepsTheWallet, WalletKept
  <2> QED
    BY <1>6, WalletKept, <2>1, <2>2, <2>3, <2>4, <2>5, <2>6, <2>7, <2>8 DEF Handle
<1>7. 1 \in 1..MaxCharges
  BY PaymentsAssumption
<1> QED
  BY WalletKept, <1>1, <1>2, <1>3, <1>4, <1>5, <1>6, <1>7 DEF Next

\* The packs that were granted add up in the wallet, for any orders and failures, as
\* long as no request reads the balance between another's read and write.
THEOREM PacksAddUp == Spec => []CoinsAddUp
<1>1. Init => GrantsItsProduct /\ WalletIsCurrent
  <2> SUFFICES ASSUME Init PROVE GrantsItsProduct /\ WalletIsCurrent
    OBVIOUS
  <2>1. Packs = {}
    BY EventTypes DEF Init, Packs
  <2>2. IsFiniteSet(Packs) /\ Cardinality(Packs) = 0
    BY <2>1, FS_EmptySet
  <2> QED
    BY <2>2 DEF Init, GrantsItsProduct, WalletIsCurrent
<1>2. TypeOK /\ Settlement /\ GrantsItsProduct /\ WalletIsCurrent /\ [Next]_vars
         => (GrantsItsProduct /\ WalletIsCurrent)'
  BY GrantsItsProductStep, WalletStep
<1>3. TypeOK /\ WalletIsCurrent => CoinsAddUp
  BY DEF TypeOK, GhostTypes, WalletIsCurrent, CoinsAddUp, Packs
<1> QED
  BY <1>1, <1>2, <1>3, PaymentTypes, SettlementHolds, PTL DEF Spec
=============================================================================
