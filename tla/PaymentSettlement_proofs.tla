---------------------- MODULE PaymentSettlement_proofs ----------------------
(***************************************************************************)
(* The settlement of the slots, for any sets of slots, requests and        *)
(* workers. Every step does one of six things to the slots, the Bill and   *)
(* the receipts (SettlementCases); the invariants then follow by six cases *)
(* in place of one for each action.                                        *)
(***************************************************************************)
EXTENDS PaymentLifecycle_proofs

SlotsKept == UNCHANGED <<slot, bill, receipts>>

Followed(s, status) ==
    slot' = SlotFollows(s, status) /\ UNCHANGED <<bill, receipts>>

Awaited(s) ==
    /\ slot[s].status \in Eligible
    /\ slot' = [slot EXCEPT ![s].status = "awaiting_signature"]
    /\ UNCHANGED <<bill, receipts>>

Settled(s, q) ==
    /\ owner[q] = s /\ ledger[q] = "success"
    /\ receipts' = RecordReceipt(s, q)
    /\ slot' = MarkSlotPaid(s, q)
    /\ bill' = RecomputeBill(slot')

Reviewed(s) ==
    slot' = SlotToReview(s) /\ bill' = BillToReview /\ receipts' = receipts

Retried(s) ==
    /\ \/ slot' = slot
       \/ /\ slot[s].status \in ReviewStatuses
          /\ slot' = [slot EXCEPT ![s].status = "unpaid"]
          /\ <<"retry_authorized", s>> \in audit'
    /\ bill' = RecomputeBillStatus(slot')
    /\ receipts' = receipts

\* What one step can do to the settlement of the Bill.
LEMMA SettlementCases ==
  ASSUME TypeOK, HandlersAreSound, [Next]_vars
  PROVE  \/ SlotsKept
         \/ \E s \in Slots, status \in RequestStatuses : Followed(s, status)
         \/ \E s \in Slots : Awaited(s)
         \/ \E s \in Slots, q \in Requests : Settled(s, q)
         \/ \E s \in Slots : Reviewed(s)
         \/ \E s \in Slots : Retried(s)
<1> DEFINE Cases == \/ SlotsKept
                    \/ \E s \in Slots, status \in RequestStatuses : Followed(s, status)
                    \/ \E s \in Slots : Awaited(s)
                    \/ \E s \in Slots, q \in Requests : Settled(s, q)
                    \/ \E s \in Slots : Reviewed(s)
                    \/ \E s \in Slots : Retried(s)
<1>a. \A w \in Workers : ~At(w, "idle") /\ ~At(w, "close") => work[w].slot \in Slots
  BY DEF HandlersAreSound, IsTrueMemory, At
<1>1. ASSUME UNCHANGED db PROVE Cases
  BY <1>1 DEF db, SlotsKept
<1>2. ASSUME NEW w \in Workers, ExpireActive(w) PROVE Cases
  <2>1. work[w].slot \in Slots /\ "expired" \in RequestStatuses
    BY <1>2, <1>a DEF ExpireActive, At, RequestStatuses
  <2> QED
    BY <1>2, <2>1 DEF ExpireActive, SlotsKept, Followed
<1>3. ASSUME NEW w \in Workers, PersistRequest(w) PROVE Cases
  <2>1. work[w].slot \in Slots
    BY <1>3, <1>a DEF PersistRequest, At
  <2> QED
    BY <1>3, <2>1 DEF PersistRequest, SlotsKept, Awaited
<1>4. ASSUME NEW w \in Workers, Settle(w) PROVE Cases
  <2>1. /\ work[w].slot \in Slots /\ work[w].request \in Requests
        /\ owner[work[w].request] = work[w].slot /\ ledger[work[w].request] = "success"
    BY <1>4 DEF Settle, At, HandlersAreSound, IsTrueMemory
  <2> QED
    BY <1>4, <2>1 DEF Settle, Settled
<1>5. ASSUME NEW w \in Workers, MarkReview(w) \/ MarkMultiple(w) PROVE Cases
  BY <1>5, <1>a DEF MarkReview, MarkMultiple, At, Reviewed
<1>6. ASSUME NEW w \in Workers, ApplyObservation(w) PROVE Cases
  <2>1. /\ work[w].slot \in Slots /\ owner[work[w].request] = work[w].slot
        /\ work[w].saw \in RequestStatuses
    BY <1>6 DEF ApplyObservation, At, HandlersAreSound, IsTrueMemory
  <2> QED
    BY <1>6, <2>1 DEF ApplyObservation, SlotsKept, Followed
<1>7. ASSUME NEW w \in Workers, AuthorizeRetry(w) PROVE Cases
  <2>1. work[w].slot \in Slots
    BY <1>7, <1>a DEF AuthorizeRetry, At
  <2> QED
    BY <1>7, <2>1 DEF AuthorizeRetry, Retried
<1>8. ASSUME NEW w \in Workers, CloseBill(w) PROVE Cases
  <2>1. UNCHANGED <<slot, bill, receipts>>
    BY <1>8 DEF CloseBill, ClosedBill, BillStatuses
  <2> QED
    BY <2>1 DEF SlotsKept
<1>9. ASSUME NEW q \in Requests, Surroundings(q) PROVE Cases
  BY <1>1, <1>9 DEF Surroundings, Open, Sign, Resolve, Decline, Validate, Lapse, Elapse
<1>10. ASSUME UNCHANGED vars PROVE Cases
  BY <1>1, <1>10 DEF vars, db
<1>11. ASSUME NEW w \in Workers, CreateStep(w) PROVE Cases
  <2>1. CASE ~ExpireActive(w) /\ ~PersistRequest(w)
    BY <1>1, <1>11, <2>1 DEF CreateStep, BeginCreate, LoadSlot, FindStale, ResumeActive,
       ContinueCreate, Reconcile, CreateHandoff
  <2> QED
    BY <1>2, <1>3, <2>1
<1>12. ASSUME NEW w \in Workers, NEW q \in Requests,
              (\E s \in Slots : VerifyPayment(w, s, q)) \/ FetchPayload(w, q)
       PROVE  Cases
  BY <1>1, <1>12 DEF VerifyPayment, FetchPayload
<1>13. ASSUME NEW w \in Workers, (\E s \in Slots : LoadReview(w, s)) \/ LoadClosure(w) \/ Abandon(w)
       PROVE  Cases
  BY <1>1, <1>13 DEF LoadReview, LoadClosure, Abandon
<1> HIDE DEF Cases
<1>14. ASSUME NEW w \in Workers, HandlerStep(w) PROVE Cases
  BY <1>4, <1>5, <1>6, <1>7, <1>8, <1>11, <1>12, <1>13, <1>14
     DEF HandlerStep, VerifyStep, SyncStep, OperatorStep
<1>15. Cases
  BY <1>9, <1>10, <1>14 DEF Next
<1> QED
  BY <1>15 DEF Cases

\* A request keeps its slot and its verdict for ever.
LEMMA VerdictsStay ==
  ASSUME TypeOK, HandlersAreSound, [Next]_vars
  PROVE  \A q \in Requests :
           /\ owner[q] # None => owner'[q] = owner[q]
           /\ ledger[q] \in Validated => ledger'[q] = ledger[q]
<1>1. CASE UNCHANGED <<owner, ledger>>
  BY <1>1
<1>2. ASSUME NEW w \in Workers, CreateHandoff(w)
      PROVE  \A q \in Requests : /\ owner[q] # None => owner'[q] = owner[q]
                                 /\ ledger'[q] = ledger[q]
  <2>1. PICK p \in Requests : owner[p] = None /\ owner' = [owner EXCEPT ![p] = work[w].slot]
    BY <1>2 DEF CreateHandoff
  <2>2. ledger' = ledger
    BY <1>2 DEF CreateHandoff
  <2> QED
    BY <2>1, <2>2 DEF TypeOK
<1>3. ASSUME NEW p \in Requests, Surroundings(p)
      PROVE  \A q \in Requests : /\ owner'[q] = owner[q]
                                 /\ ledger[q] \in Validated => ledger'[q] = ledger[q]
  BY <1>3 DEF Surroundings, Open, Sign, Resolve, Decline, Validate, Lapse, Elapse, TypeOK, Validated
<1>4. ASSUME NEW w \in Workers, CreateStep(w) /\ ~CreateHandoff(w) PROVE UNCHANGED <<owner, ledger>>
  BY <1>4 DEF CreateStep, BeginCreate, LoadSlot, FindStale, ExpireActive, ResumeActive,
     ContinueCreate, Reconcile, PersistRequest, world
<1>5. ASSUME NEW w \in Workers, VerifyStep(w) \/ SyncStep(w) \/ OperatorStep(w) \/ Abandon(w)
      PROVE  UNCHANGED <<owner, ledger>>
  BY <1>5 DEF VerifyStep, VerifyPayment, Settle, MarkReview, MarkMultiple, SyncStep, FetchPayload,
     ApplyObservation, OperatorStep, LoadReview, AuthorizeRetry, LoadClosure, CloseBill, Abandon, world
<1>6. CASE UNCHANGED vars
  BY <1>6 DEF vars, world
<1> QED
  BY <1>1, <1>2, <1>3, <1>4, <1>5, <1>6 DEF Next, HandlerStep

(***************************************************************************)
(* Receipts and paid slots.                                                *)
(***************************************************************************)

\* The receipts back the paid slots after every step, and a paid slot is kept.
LEMMA ReceiptsStep ==
  ASSUME TypeOK, HandlersAreSound, ReceiptsBackPaidSlots, [Next]_vars
  PROVE  /\ ReceiptsBackPaidSlots'
         /\ \A s \in Slots : slot[s].status = "paid" => slot'[s] = slot[s]
<1> DEFINE PaidSlotsKept == \A s \in Slots : slot[s].status = "paid" => slot'[s] = slot[s]
           \* the slots that are not paid stay so, and no receipt is added
           NothingPaid == /\ receipts' = receipts /\ PaidSlotsKept
                          /\ \A s \in Slots : slot[s].status # "paid" =>
                               slot'[s].status # "paid" /\ slot'[s].paidBy = slot[s].paidBy
<1>a. \A q \in Requests : /\ owner[q] # None => owner'[q] = owner[q]
                          /\ ledger[q] = "success" => ledger'[q] = "success"
  BY VerdictsStay DEF Validated
<1>b. slot' \in [Slots -> SlotRecord] /\ slot \in [Slots -> SlotRecord]
  BY TypeStep DEF TypeOK, SlotRecord
<1>c. ASSUME NothingPaid PROVE ReceiptsBackPaidSlots' /\ PaidSlotsKept
  <2>1. \A s \in Slots : (slot'[s].status = "paid") <=> (slot[s].status = "paid")
    BY <1>c
  <2>2. \A s \in Slots : slot'[s].paidBy = slot[s].paidBy
    BY <1>c
  <2>3. \A s \in Slots : slot[s].paidBy # None =>
          slot[s].paidBy \in receipts' /\ owner'[slot[s].paidBy] = s
    BY <1>a, <1>c, ConstantsOK DEF ReceiptsBackPaidSlots, TypeOK
  <2>4. \A q \in receipts' : ledger'[q] = "success" /\ owner'[q] = owner[q] /\ owner[q] # None
    BY <1>a, <1>c DEF ReceiptsBackPaidSlots, TypeOK
  <2>5. \A q \in receipts' : owner[q] \in Slots /\ slot[owner[q]].paidBy = q
    BY <1>c DEF ReceiptsBackPaidSlots, TypeOK
  <2> QED
    BY <1>c, <2>1, <2>2, <2>3, <2>4, <2>5 DEF ReceiptsBackPaidSlots
<1>1. CASE SlotsKept
  BY <1>1, <1>c DEF SlotsKept
<1>2. ASSUME NEW s \in Slots, NEW status \in RequestStatuses, Followed(s, status) PROVE NothingPaid
  <2>1. SlotStatusForHandoff(status) # "paid"
    BY DEF SlotStatusForHandoff, RequestStatuses, ActiveStatuses, Unsigned
  <2> QED
    BY <1>2, <1>b, <2>1 DEF Followed, SlotFollows, SlotRecord
<1>3. ASSUME NEW s \in Slots, Awaited(s) PROVE NothingPaid
  BY <1>3, <1>b DEF Awaited, Eligible, SlotRecord
<1>4. ASSUME NEW s \in Slots, NEW q \in Requests, Settled(s, q)
      PROVE  ReceiptsBackPaidSlots' /\ PaidSlotsKept
  <2>1. CASE ~AcceptsPayment(s, q) \/ q \notin RecordReceipt(s, q)
    <3>1. receipts' = receipts /\ slot' = slot
      BY <1>4, <2>1 DEF Settled, RecordReceipt, MarkSlotPaid
    <3> QED
      BY <1>c, <3>1
  <2>2. CASE AcceptsPayment(s, q) /\ q \in receipts
    <3>1. slot[s].paidBy = q /\ slot[s].status = "paid" /\ receipts' = receipts
      BY <1>4, <2>2, ConstantsOK DEF Settled, RecordReceipt, ReceiptsBackPaidSlots
    <3>2. slot[s] = [status |-> "paid", paidBy |-> q]
      BY <1>b, <3>1 DEF SlotRecord
    <3>3. slot' = slot
      BY <1>4, <1>b, <2>2, <3>2 DEF Settled, MarkSlotPaid
    <3> QED
      BY <1>c, <3>1, <3>3
  <2>3. CASE AcceptsPayment(s, q) /\ q \notin receipts /\ q \in RecordReceipt(s, q)
    <3>1. receipts' = receipts \cup {q}
      BY <1>4, <2>3 DEF Settled, RecordReceipt
    <3>2. slot' = [slot EXCEPT ![s] = [status |-> "paid", paidBy |-> q]]
      BY <1>4, <2>3 DEF Settled, MarkSlotPaid
    <3>3. slot[s].paidBy = None /\ slot[s].status # "paid"
      BY <2>3 DEF AcceptsPayment, ReceiptsBackPaidSlots
    <3>4. slot'[s].status = "paid" /\ slot'[s].paidBy = q /\ \A r \in Slots : r # s => slot'[r] = slot[r]
      BY <1>b, <3>2
    <3>5. owner[q] = s /\ owner'[q] = s /\ ledger'[q] = "success" /\ q # None /\ s # None
      BY <1>4, <1>a, ConstantsOK DEF Settled
    <3>6. PaidSlotsKept
      BY <3>3, <3>4
    <3>7. \A r \in Slots : (slot'[r].status = "paid") <=> (slot'[r].paidBy # None)
      BY <3>4, <3>5 DEF ReceiptsBackPaidSlots
    <3>8. \A r \in Slots : slot'[r].paidBy # None =>
            slot'[r].paidBy \in receipts' /\ owner'[slot'[r].paidBy] = r
      BY <1>a, <3>1, <3>4, <3>5, ConstantsOK DEF ReceiptsBackPaidSlots, TypeOK
    <3>9. \A p \in receipts' : ledger'[p] = "success" /\ owner'[p] # None
      BY <1>a, <3>1, <3>5 DEF ReceiptsBackPaidSlots, TypeOK
    <3>10. \A p \in receipts' : slot'[owner'[p]].paidBy = p
      <4>1. \A p \in receipts : owner[p] \in Slots /\ owner'[p] = owner[p] /\ slot[owner[p]].paidBy = p
        BY <1>a DEF ReceiptsBackPaidSlots, TypeOK
      <4>2. \A p \in receipts : owner[p] # s
        BY <3>3, <4>1, ConstantsOK DEF TypeOK
      <4> QED
        BY <3>1, <3>4, <3>5, <4>1, <4>2
    <3> QED
      BY <3>6, <3>7, <3>8, <3>9, <3>10 DEF ReceiptsBackPaidSlots
  <2> QED
    BY <2>1, <2>2, <2>3
<1>5. ASSUME NEW s \in Slots, Reviewed(s) PROVE NothingPaid
  BY <1>5, <1>b DEF Reviewed, SlotToReview, SlotRecord
<1>6. ASSUME NEW s \in Slots, Retried(s) PROVE NothingPaid
  BY <1>6, <1>b DEF Retried, ReviewStatuses, SlotRecord
<1> HIDE DEF NothingPaid
<1> QED
  BY <1>c, <1>1, <1>2, <1>3, <1>4, <1>5, <1>6, SettlementCases

\* The inductive invariant of the receipts.
ReceiptsInv == TypeOK /\ HandlersAreSound /\ ReceiptsBackPaidSlots

LEMMA ReceiptsInit == Init => ReceiptsInv
<1>1. Init => ReceiptsBackPaidSlots
  BY DEF Init, ReceiptsBackPaidSlots
<1> QED
  BY <1>1, TypeInit, SoundInit DEF ReceiptsInv

LEMMA ReceiptsNext == ReceiptsInv /\ [Next]_vars => ReceiptsInv'
  BY TypeStep, SoundStep, ReceiptsStep DEF ReceiptsInv

\* A receipt exists exactly for the transaction each paid slot names, which the
\* ledger validated as a matching payment of that slot.
THEOREM ReceiptsCorrect == Spec => []ReceiptsBackPaidSlots
<1>1. ReceiptsInv => ReceiptsBackPaidSlots
  BY DEF ReceiptsInv
<1> QED
  BY <1>1, ReceiptsInit, ReceiptsNext, PTL DEF Spec

\* No handler, however late, changes a slot that is paid.
THEOREM PaidSlotsAreFinal == Spec => PaidIsFinal
<1>1. ReceiptsInv /\ [Next]_vars => [\A s \in Slots : slot[s].status = "paid" => slot'[s] = slot[s]]_vars
  BY ReceiptsStep DEF ReceiptsInv
<1> QED
  BY <1>1, ReceiptsInit, ReceiptsNext, PTL DEF Spec, PaidIsFinal

(***************************************************************************)
(* The Bill.                                                               *)
(***************************************************************************)

\* The closure is refused by the schema, so no Bill ever ends incomplete.
BillIsActive == bill.closure = "active"

BillInv == ReceiptsInv /\ BillIsActive /\ BillAgreesWithSlots

\* What the recomputed share says of the slots.
LEMMA PaidShareAgrees ==
  ASSUME NEW slots
  PROVE  /\ PaidShare(slots) = "settled" => Everywhere(slots, "paid")
         /\ PaidShare(slots) = "partially_paid" =>
              Somewhere(slots, {"paid"}) /\ ~Everywhere(slots, "paid")
         /\ PaidShare(slots) = "open" => ~Somewhere(slots, {"paid"})
         /\ PaidShare(slots) \in {"open", "partially_paid", "settled"}
<1>1. CASE Everywhere(slots, "paid")
  BY <1>1 DEF PaidShare
<1>2. CASE ~Everywhere(slots, "paid") /\ Somewhere(slots, {"paid"})
  BY <1>2 DEF PaidShare
<1>3. CASE ~Everywhere(slots, "paid") /\ ~Somewhere(slots, {"paid"})
  BY <1>3 DEF PaidShare
<1> QED
  BY <1>1, <1>2, <1>3

\* The Bill row and the slots agree after every step, and a settled Bill is kept.
LEMMA BillStep ==
  ASSUME BillInv, [Next]_vars
  PROVE  BillIsActive' /\ BillAgreesWithSlots' /\ (bill.status = "settled" => bill'.status = "settled")
<1> DEFINE Goal == /\ BillIsActive' /\ BillAgreesWithSlots'
                   /\ bill.status = "settled" => bill'.status = "settled"
<1>a. TypeOK /\ HandlersAreSound
  BY DEF BillInv, ReceiptsInv
<1>b. /\ slot' \in [Slots -> SlotRecord] /\ slot \in [Slots -> SlotRecord]
      /\ bill \in BillRecord
  BY <1>a, TypeStep DEF TypeOK, SlotRecord, BillRecord
<1>c. \A s \in Slots : slot[s].status = "paid" => slot'[s].status = "paid"
  BY ReceiptsStep DEF BillInv, ReceiptsInv
<1>d. ASSUME bill' = bill,
             \A s \in Slots : slot'[s] # slot[s] =>
               slot[s].status # "paid" /\ slot'[s].status \notin {"paid", "needs_review"}
      PROVE  Goal
  BY <1>d DEF BillInv, BillIsActive, BillAgreesWithSlots, Everywhere, Somewhere
<1>1. ASSUME SlotsKept PROVE Goal
  BY <1>1, <1>d DEF SlotsKept
<1>2. ASSUME NEW s \in Slots, NEW status \in RequestStatuses, Followed(s, status) PROVE Goal
  <2>1. SlotStatusForHandoff(status) \notin {"paid", "needs_review"}
    BY DEF SlotStatusForHandoff, RequestStatuses, ActiveStatuses, Unsigned
  <2>2. \A r \in Slots : slot'[r] # slot[r] =>
          slot[r].status # "paid" /\ slot'[r].status \notin {"paid", "needs_review"}
    BY <1>2, <1>b, <2>1 DEF Followed, SlotFollows, SlotRecord
  <2> QED
    BY <1>2, <1>d, <2>2 DEF Followed
<1>3. ASSUME NEW s \in Slots, Awaited(s) PROVE Goal
  <2>1. \A r \in Slots : slot'[r] # slot[r] =>
          slot[r].status # "paid" /\ slot'[r].status \notin {"paid", "needs_review"}
    BY <1>3, <1>b DEF Awaited, Eligible, SlotRecord
  <2> QED
    BY <1>3, <1>d, <2>1 DEF Awaited
<1>4. ASSUME NEW s \in Slots, NEW q \in Requests, Settled(s, q) PROVE Goal
  <2>1. \A r \in Slots : slot'[r].status = "needs_review" => slot[r].status = "needs_review"
    BY <1>4, <1>b DEF Settled, MarkSlotPaid, SlotRecord
  <2>2. CASE bill.status = "needs_review"
    <3>1. bill' = bill
      BY <1>4, <2>2 DEF Settled, RecomputeBill
    <3> QED
      BY <2>2, <3>1 DEF BillInv, BillIsActive, BillAgreesWithSlots
  <2>3. CASE bill.status # "needs_review"
    <3>1. bill' = [bill EXCEPT !.status = PaidShare(slot')]
      BY <1>4, <1>b, <2>3 DEF Settled, RecomputeBill, BillRecord, BillStatuses
    <3>2. bill'.status = PaidShare(slot') /\ bill'.closure = bill.closure
      BY <1>b, <3>1 DEF BillRecord
    <3>3. ~Somewhere(slot, {"needs_review"}) /\ ~Somewhere(slot', {"needs_review"})
      BY <2>1, <2>3 DEF BillInv, BillAgreesWithSlots, Somewhere
    <3>4. bill.status = "settled" => PaidShare(slot') = "settled"
      BY <1>c DEF BillInv, BillAgreesWithSlots, Everywhere, PaidShare
    <3>5. BillAgreesWithSlots'
      BY <3>2, <3>3, PaidShareAgrees DEF BillAgreesWithSlots
    <3> QED
      BY <3>2, <3>4, <3>5 DEF BillInv, BillIsActive
  <2> QED
    BY <2>2, <2>3
<1>5. ASSUME NEW s \in Slots, Reviewed(s) PROVE Goal
  <2>1. CASE bill.status = "settled"
    <3>1. slot[s].status = "paid"
      BY <2>1 DEF BillInv, BillAgreesWithSlots, Everywhere
    <3>2. slot' = slot /\ bill' = bill
      BY <1>5, <2>1, <3>1 DEF Reviewed, SlotToReview, BillToReview
    <3> QED
      BY <1>d, <3>2
  <2>2. CASE bill.status # "settled"
    <3>1. bill' = [bill EXCEPT !.status = "needs_review"]
      BY <1>5, <1>b, <2>2 DEF Reviewed, BillToReview, BillInv, BillIsActive, BillRecord, BillStatuses
    <3>2. bill'.status = "needs_review" /\ bill'.closure = bill.closure
      BY <1>b, <3>1 DEF BillRecord
    <3> QED
      BY <2>2, <3>2 DEF BillInv, BillIsActive, BillAgreesWithSlots
  <2> QED
    BY <2>1, <2>2
<1>6. ASSUME NEW s \in Slots, Retried(s) PROVE Goal
  <2> DEFINE inReview == Somewhere(slot', ReviewStatuses)
  <2>1. bill' = [bill EXCEPT !.status = IF inReview THEN "needs_review" ELSE PaidShare(slot')]
    BY <1>6 DEF Retried, RecomputeBillStatus, BillInv, BillIsActive
  <2>2. /\ bill'.status = IF inReview THEN "needs_review" ELSE PaidShare(slot')
        /\ bill'.closure = bill.closure
    BY <1>b, <2>1 DEF BillRecord
  <2>3. Somewhere(slot', {"needs_review"}) => inReview
    BY DEF Somewhere, ReviewStatuses
  <2>4. bill.status = "settled" => ~inReview /\ PaidShare(slot') = "settled"
    BY <1>c DEF BillInv, BillAgreesWithSlots, Everywhere, Somewhere, PaidShare, ReviewStatuses
  <2> HIDE DEF inReview
  <2>5. BillAgreesWithSlots'
    BY <2>2, <2>3, PaidShareAgrees DEF BillAgreesWithSlots
  <2> QED
    BY <2>2, <2>4, <2>5 DEF BillInv, BillIsActive
<1> HIDE DEF Goal
<1>7. Goal
  BY <1>a, <1>1, <1>2, <1>3, <1>4, <1>5, <1>6, SettlementCases
<1> QED
  BY <1>7 DEF Goal

LEMMA BillInit == Init => BillInv
<1>1. Init => BillIsActive /\ BillAgreesWithSlots
  BY DEF Init, BillIsActive, BillAgreesWithSlots, Somewhere, Everywhere
<1> QED
  BY <1>1, ReceiptsInit DEF BillInv

LEMMA BillNext == BillInv /\ [Next]_vars => BillInv'
  BY ReceiptsNext, BillStep DEF BillInv

\* The status of the Bill always tells the truth about its slots.
THEOREM BillCorrect == Spec => []BillAgreesWithSlots
<1>1. BillInv => BillAgreesWithSlots
  BY DEF BillInv
<1> QED
  BY <1>1, BillInit, BillNext, PTL DEF Spec

\* No late review mark, settlement or recomputation reopens a settled Bill.
THEOREM SettledBillsAreFinal == Spec => SettledIsFinal
<1>1. BillInv /\ [Next]_vars => [bill.status = "settled" => bill'.status = "settled"]_vars
  BY BillStep
<1> QED
  BY <1>1, BillInit, BillNext, PTL DEF Spec, SettledIsFinal

\* Only a recorded retry authorization takes a slot out of review.
THEOREM ReviewsEndByDecision == Spec => ReviewEndsByDecision
<1> DEFINE Decided == \A s \in Slots :
             slot[s].status = "needs_review" /\ slot'[s].status # "needs_review" =>
               slot'[s].status = "unpaid" /\ <<"retry_authorized", s>> \in audit'
<1>1. ASSUME TypeOK, HandlersAreSound, [Next]_vars PROVE Decided
  <2>1. slot \in [Slots -> SlotRecord]
    BY <1>1 DEF TypeOK, SlotRecord
  <2>2. ASSUME SlotsKept PROVE Decided
    BY <2>2 DEF SlotsKept
  <2>3. ASSUME NEW s \in Slots, NEW status \in RequestStatuses, Followed(s, status) PROVE Decided
    BY <2>1, <2>3 DEF Followed, SlotFollows, SlotRecord
  <2>4. ASSUME NEW s \in Slots, Awaited(s) PROVE Decided
    BY <2>1, <2>4 DEF Awaited, Eligible, SlotRecord
  <2>5. ASSUME NEW s \in Slots, NEW q \in Requests, Settled(s, q) PROVE Decided
    BY <2>1, <2>5 DEF Settled, MarkSlotPaid, AcceptsPayment, SlotRecord
  <2>6. ASSUME NEW s \in Slots, Reviewed(s) PROVE Decided
    BY <2>1, <2>6 DEF Reviewed, SlotToReview, SlotRecord
  <2>7. ASSUME NEW s \in Slots, Retried(s) PROVE Decided
    BY <2>1, <2>7 DEF Retried, SlotRecord
  <2> HIDE DEF Decided
  <2> QED
    BY <1>1, <2>2, <2>3, <2>4, <2>5, <2>6, <2>7, SettlementCases
<1>2. ReceiptsInv /\ [Next]_vars => [Decided]_vars
  BY <1>1 DEF ReceiptsInv
<1> QED
  BY <1>2, ReceiptsInit, ReceiptsNext, PTL DEF Spec, ReviewEndsByDecision

-----------------------------------------------------------------------------
(***************************************************************************)
(* The handlers keep the contract of the settlement, for any sets of       *)
(* slots, requests and workers. The six cases of SettlementCases map each  *)
(* to a step of the contract or to a stutter.                              *)
(***************************************************************************)

Made == {s \in Slots : Matching(s) # {}}
Stands == [s \in Slots |-> Standing(s)]

LEMMA ContractInit == Init => Contract!Init
<1> SUFFICES ASSUME Init PROVE Contract!Init
  OBVIOUS
<1>1. \A s \in Slots : Standing(s) = "owed"
  BY DEF Init, Standing
<1>2. Progress = "collecting"
  BY DEF Init, Progress
<1>3. \A s \in Slots : Matching(s) = {}
  BY DEF Init, Matching
<1> QED
  BY <1>1, <1>2, <1>3 DEF Contract!Init

\* The payments that exist change by a validation only, which touches no row.
LEMMA MadeChanges ==
  ASSUME TypeOK, HandlersAreSound, [Next]_vars
  PROVE  \/ Made' = Made
         \/ /\ \E s \in Slots : s \notin Made /\ Made' = Made \cup {s}
            /\ UNCHANGED <<slot, bill>>
<1> DEFINE Goal == \/ Made' = Made
                   \/ /\ \E s \in Slots : s \notin Made /\ Made' = Made \cup {s}
                      /\ UNCHANGED <<slot, bill>>
<1>a. /\ Made = {s \in Slots : \E q \in Requests : owner[q] = s /\ ledger[q] = "success"}
      /\ Made' = {s \in Slots : \E q \in Requests : owner'[q] = s /\ ledger'[q] = "success"}
  BY DEF Made, Matching
<1>b. /\ \A s : s \in Made <=> s \in Slots /\ \E q \in Requests : owner[q] = s /\ ledger[q] = "success"
      /\ \A s : s \in Made' <=> s \in Slots /\ \E q \in Requests : owner'[q] = s /\ ledger'[q] = "success"
      /\ Made \subseteq Slots /\ Made' \subseteq Slots
  BY <1>a
<1>1. ASSUME UNCHANGED <<owner, ledger>> PROVE Goal
  BY <1>1, <1>a
<1>2. ASSUME NEW w \in Workers, CreateHandoff(w) PROVE Goal
  <2>1. PICK p \in Requests : owner[p] = None /\ owner' = [owner EXCEPT ![p] = work[w].slot]
    BY <1>2 DEF CreateHandoff
  <2>2. ledger' = ledger /\ ledger[p] = "unsent"
    BY <1>2, <2>1 DEF CreateHandoff, HandlersAreSound, IsSoundRequest
  <2>3. \A q \in Requests, s \in Slots :
          owner'[q] = s /\ ledger'[q] = "success" <=> owner[q] = s /\ ledger[q] = "success"
    BY <2>1, <2>2 DEF TypeOK
  <2> QED
    BY <2>3, <1>b
<1>3. ASSUME NEW p \in Requests, Surroundings(p) PROVE Goal
  <2>1. CASE UNCHANGED <<owner, ledger>>
    BY <1>1, <2>1
  <2>2. CASE Sign(p) \/ Lapse(p)
    <3>1. /\ owner' = owner
          /\ \A q \in Requests : ledger'[q] = "success" <=> ledger[q] = "success"
      BY <2>2 DEF Sign, Lapse, TypeOK
    <3> QED
      BY <1>b, <3>1
  <2>3. CASE Validate(p)
    <3>1. PICK outcome \in Validated : ledger' = [ledger EXCEPT ![p] = outcome]
      BY <2>3 DEF Validate
    <3>2. UNCHANGED <<slot, bill, owner>> /\ ledger[p] = "pending"
      BY <2>3 DEF Validate, db
    <3>3. owner[p] \in Slots
      BY <3>2 DEF HandlersAreSound, IsSoundRequest, TypeOK
    <3>4. \A q \in Requests : ledger'[q] = "success" <=>
            ledger[q] = "success" \/ (q = p /\ outcome = "success")
      BY <3>1, <3>2 DEF TypeOK
    <3>5. \A s \in Slots : s \in Made' <=> s \in Made \/ (s = owner[p] /\ outcome = "success")
      BY <1>b, <3>2, <3>4
    <3>6. CASE owner[p] \in Made \/ outcome # "success"
      BY <1>b, <3>5, <3>6
    <3>7. CASE owner[p] \notin Made /\ outcome = "success"
      <4>1. Made' = Made \cup {owner[p]}
        BY <1>b, <3>3, <3>5, <3>7
      <4> QED
        BY <3>2, <3>3, <3>7, <4>1
    <3> QED
      BY <3>6, <3>7
  <2> QED
    BY <1>3, <2>1, <2>2, <2>3 DEF Surroundings, Open, Resolve, Decline, Elapse
<1>4. ASSUME NEW w \in Workers, CreateStep(w) /\ ~CreateHandoff(w) PROVE UNCHANGED <<owner, ledger>>
  BY <1>4 DEF CreateStep, BeginCreate, LoadSlot, FindStale, ExpireActive, ResumeActive,
     ContinueCreate, Reconcile, PersistRequest, world
<1>5. ASSUME NEW w \in Workers, VerifyStep(w) \/ SyncStep(w) \/ OperatorStep(w) \/ Abandon(w)
      PROVE  UNCHANGED <<owner, ledger>>
  BY <1>5 DEF VerifyStep, VerifyPayment, Settle, MarkReview, MarkMultiple, SyncStep, FetchPayload,
     ApplyObservation, OperatorStep, LoadReview, AuthorizeRetry, LoadClosure, CloseBill, Abandon, world
<1>6. ASSUME UNCHANGED vars PROVE Goal
  BY <1>1, <1>6 DEF vars, world
<1> HIDE DEF Goal
<1>7. ASSUME NEW w \in Workers, HandlerStep(w) PROVE Goal
  <2>1. CASE CreateHandoff(w)
    BY <1>2, <2>1
  <2>2. CASE ~CreateHandoff(w)
    <3>1. UNCHANGED <<owner, ledger>>
      BY <1>4, <1>5, <1>7, <2>2 DEF HandlerStep
    <3> QED
      BY <1>1, <3>1
  <2> QED
    BY <2>1, <2>2
<1>8. Goal
  <2>1. CASE Next
    BY <1>3, <1>7, <2>1 DEF Next
  <2>2. CASE UNCHANGED vars
    BY <1>6, <2>2
  <2> QED
    BY <2>1, <2>2
<1> QED
  BY <1>8 DEF Goal

\* What the standing of the slots is, pointwise.
LEMMA StandsPointwise ==
  /\ \A s \in Slots :
       /\ (Stands[s] = "paid") <=> (slot[s].status = "paid")
       /\ (Stands[s] = "review") <=> (slot[s].status = "needs_review")
       /\ Stands[s] \in {"owed", "review", "paid"}
  /\ \A s \in Slots :
       /\ (Stands'[s] = "paid") <=> (slot'[s].status = "paid")
       /\ (Stands'[s] = "review") <=> (slot'[s].status = "needs_review")
       /\ Stands'[s] \in {"owed", "review", "paid"}
  /\ Stands = [s \in Slots |-> Stands[s]]
  /\ Stands' = [s \in Slots |-> Stands'[s]]
<1>1. Stands = [s \in Slots |-> Standing(s)] /\ Stands' = [s \in Slots |-> Standing(s)']
  BY DEF Stands
<1>2. ASSUME NEW s \in Slots
      PROVE  Stands[s] = CASE slot[s].status = "paid" -> "paid"
                           [] slot[s].status = "needs_review" -> "review"
                           [] OTHER -> "owed"
  BY <1>1 DEF Standing
<1>3. ASSUME NEW s \in Slots
      PROVE  Stands'[s] = CASE slot'[s].status = "paid" -> "paid"
                            [] slot'[s].status = "needs_review" -> "review"
                            [] OTHER -> "owed"
  BY <1>1 DEF Standing
<1> QED
  BY <1>1, <1>2, <1>3

\* A step that leaves every slot where it stands and keeps the Bill is a stutter.
LEMMA SameStanding ==
  ASSUME bill' = bill,
         \A s \in Slots : /\ (slot'[s].status = "paid") <=> (slot[s].status = "paid")
                          /\ (slot'[s].status = "needs_review") <=> (slot[s].status = "needs_review")
  PROVE  Stands' = Stands /\ Progress' = Progress
<1>1. Progress' = Progress
  BY DEF Progress
<1>2. \A s \in Slots : Stands'[s] = Stands[s]
  BY StandsPointwise
<1> QED
  BY <1>1, <1>2, StandsPointwise

LEMMA ProgressCases ==
  /\ Progress = "settled" <=> bill.status = "settled"
  /\ Progress = "review" <=> bill.status = "needs_review"
  /\ Progress \in {"collecting", "review", "settled"}
  /\ Progress' = "settled" <=> bill'.status = "settled"
  /\ Progress' = "review" <=> bill'.status = "needs_review"
  /\ Progress' \in {"collecting", "review", "settled"}
BY DEF Progress

\* The actions of the contract, over the abbreviations.
LEMMA ContractActions ==
  ASSUME NEW s \in Slots
  PROVE  /\ (s \notin Made /\ Made' = Made \cup {s} /\ UNCHANGED <<Stands, Progress>>)
              => Contract!Pay(s)
         /\ (/\ Progress = "collecting" /\ Stands[s] = "owed" /\ s \in Made
             /\ Stands' = [Stands EXCEPT ![s] = "paid"]
             /\ Progress' = Contract!Share(Stands')
             /\ Made' = Made) => Contract!Recognise(s)
         /\ (/\ Progress # "settled" /\ Progress' = "review"
             /\ Stands' = IF Stands[s] = "paid" THEN Stands ELSE [Stands EXCEPT ![s] = "review"]
             /\ Made' = Made) => Contract!Question(s)
         /\ (/\ Progress # "settled"
             /\ Stands' = IF Stands[s] = "review" THEN [Stands EXCEPT ![s] = "owed"] ELSE Stands
             /\ \/ Progress' = "review"
                \/ (\A r \in Slots : Stands'[r] # "review") /\ Progress' = Contract!Share(Stands')
             /\ Made' = Made) => Contract!Decide(s)
         /\ UNCHANGED <<Stands, Progress, Made>> => UNCHANGED Contract!terms
BY DEF Contract!Pay, Contract!Recognise, Contract!Question, Contract!Decide, Contract!terms, Stands, Made

\* Every step of the handlers is a step of the contract or leaves its terms alone.
LEMMA ContractStep ==
  ASSUME BillInv, [Next]_vars
  PROVE  [Contract!Next]_(Contract!terms)
<1> DEFINE Goal == [Contract!Next]_(Contract!terms)
<1>a. TypeOK /\ HandlersAreSound /\ BillIsActive /\ BillAgreesWithSlots /\ ReceiptsBackPaidSlots
  BY DEF BillInv, ReceiptsInv
<1>b. TypeOK'
  BY <1>a, TypeStep
<1>c. /\ slot \in [Slots -> SlotRecord] /\ slot' \in [Slots -> SlotRecord]
      /\ bill \in BillRecord /\ bill' \in BillRecord
  BY <1>a, <1>b DEF TypeOK, SlotRecord, BillRecord
<1>d. BillAgreesWithSlots'
  BY BillStep
<1>e. \A s \in Slots : slot[s].status = "paid" => slot'[s] = slot[s]
  BY ReceiptsStep, <1>a
<1>f. /\ Progress = "settled" <=> bill.status = "settled"
      /\ Progress = "review" <=> bill.status = "needs_review"
      /\ Progress \in {"collecting", "review", "settled"}
      /\ Progress' = "settled" <=> bill'.status = "settled"
      /\ Progress' = "review" <=> bill'.status = "needs_review"
      /\ Progress' \in {"collecting", "review", "settled"}
  BY ProgressCases
<1>g. ASSUME UNCHANGED <<Stands, Progress, Made>> PROVE Goal
  <2>1. UNCHANGED Contract!terms
    BY <1>g DEF Contract!terms, Stands, Made
  <2> QED
    BY <2>1
<1>h. ASSUME NEW s \in Slots,
             Contract!Pay(s) \/ Contract!Recognise(s) \/ Contract!Question(s) \/ Contract!Decide(s)
      PROVE  Goal
  BY <1>h DEF Contract!Next
<1> HIDE DEF Goal
<1>i. Contract!Share(Stands') = IF Everywhere(slot', "paid") THEN "settled" ELSE "collecting"
  BY StandsPointwise DEF Contract!Share, Everywhere
<1>1. ASSUME NEW s \in Slots, s \notin Made, Made' = Made \cup {s}, UNCHANGED <<slot, bill>> PROVE Goal
  <2>1. UNCHANGED <<Stands, Progress>>
    BY <1>1, SameStanding
  <2> QED
    BY <1>1, <1>h, <2>1, ContractActions
<1>2. ASSUME Made' = Made, SlotsKept PROVE Goal
  <2>1. UNCHANGED <<Stands, Progress>>
    BY <1>2, SameStanding DEF SlotsKept
  <2> QED
    BY <1>2, <1>g, <2>1
<1>3. ASSUME Made' = Made, NEW s \in Slots, NEW status \in RequestStatuses, Followed(s, status) PROVE Goal
  <2>1. SlotStatusForHandoff(status) \notin {"paid", "needs_review"}
    BY DEF SlotStatusForHandoff, RequestStatuses, ActiveStatuses, Unsigned
  <2>2. \A r \in Slots : \/ slot'[r] = slot[r]
                         \/ /\ slot[r].status \notin {"paid", "needs_review"}
                            /\ slot'[r].status \notin {"paid", "needs_review"}
    BY <1>3, <1>c, <2>1 DEF Followed, SlotFollows, SlotRecord
  <2>3. UNCHANGED <<Stands, Progress>>
    BY <1>3, <2>2, SameStanding DEF Followed
  <2> QED
    BY <1>3, <1>g, <2>3
<1>4. ASSUME Made' = Made, NEW s \in Slots, Awaited(s) PROVE Goal
  <2>1. \A r \in Slots : \/ slot'[r] = slot[r]
                         \/ /\ slot[r].status \notin {"paid", "needs_review"}
                            /\ slot'[r].status \notin {"paid", "needs_review"}
    BY <1>4, <1>c DEF Awaited, Eligible, SlotRecord
  <2>2. UNCHANGED <<Stands, Progress>>
    BY <1>4, <2>1, SameStanding DEF Awaited
  <2> QED
    BY <1>4, <1>g, <2>2
<1>5. ASSUME Made' = Made, NEW s \in Slots, NEW q \in Requests, Settled(s, q) PROVE Goal
  <2>1. CASE slot' = slot
    <3>1. Stands' = Stands
      BY <2>1 DEF Stands, Standing
    <3>2. CASE bill.status = "needs_review"
      <4>1. bill' = bill
        BY <1>5, <3>2 DEF Settled, RecomputeBill
      <4>2. Progress' = Progress
        BY <4>1 DEF Progress
      <4> QED
        BY <1>5, <1>g, <3>1, <4>2
    <3>3. CASE bill.status # "needs_review"
      <4>1. bill' = [bill EXCEPT !.status = PaidShare(slot)]
        BY <1>5, <1>c, <2>1, <3>3 DEF Settled, RecomputeBill, BillRecord, BillStatuses
      <4>2. bill'.status = PaidShare(slot)
        BY <1>c, <4>1 DEF BillRecord
      <4>3. bill.status = "settled" <=> Everywhere(slot, "paid")
        BY <1>a, <1>c, <3>3 DEF BillAgreesWithSlots, Everywhere, Somewhere, BillRecord, BillStatuses
      <4>4. bill'.status = "settled" <=> Everywhere(slot, "paid")
        BY <4>2 DEF PaidShare
      <4>5. bill'.status # "needs_review"
        BY <4>2, PaidShareAgrees
      <4>6. Progress' = Progress
        BY <1>f, <3>3, <4>3, <4>4, <4>5
      <4> QED
        BY <1>5, <1>g, <3>1, <4>6
    <3> QED
      BY <3>2, <3>3
  <2>2. CASE slot' # slot
    <3>1. /\ AcceptsPayment(s, q) /\ q \in RecordReceipt(s, q)
          /\ slot' = [slot EXCEPT ![s] = [status |-> "paid", paidBy |-> q]]
      BY <1>5, <2>2 DEF Settled, MarkSlotPaid
    <3>2. slot[s].status \notin {"paid", "needs_review"}
      <4>1. slot[s].status # "paid"
        BY <1>c, <1>e, <2>2, <3>1 DEF SlotRecord
      <4> QED
        BY <3>1, <4>1 DEF AcceptsPayment
    <3>3. q \notin receipts
      BY <1>5, <1>a, <3>2, ConstantsOK DEF ReceiptsBackPaidSlots, Settled
    <3>4. bill.status \in {"open", "partially_paid"}
      <4>1. bill.status \in {"open", "partially_paid", "settled"}
        BY <3>1, <3>3 DEF RecordReceipt
      <4> QED
        BY <1>a, <3>2, <4>1 DEF BillAgreesWithSlots, Everywhere
    <3>5. bill' = [bill EXCEPT !.status = PaidShare(slot')]
      BY <1>5, <3>4 DEF Settled, RecomputeBill
    <3>6. bill'.status = PaidShare(slot')
      BY <1>c, <3>5 DEF BillRecord
    <3>7. Progress = "collecting" /\ Stands[s] = "owed"
      BY <1>f, <3>2, <3>4, StandsPointwise
    <3>8. s \in Made
      BY <1>5 DEF Settled, Made, Matching
    <3>9. Stands' = [Stands EXCEPT ![s] = "paid"]
      <4>1. slot'[s].status = "paid" /\ \A r \in Slots : r # s => slot'[r] = slot[r]
        BY <1>c, <3>1
      <4>2. \A r \in Slots : Stands'[r] = IF r = s THEN "paid" ELSE Stands[r]
        BY <4>1, StandsPointwise
      <4>3. Stands' = [r \in Slots |-> IF r = s THEN "paid" ELSE Stands[r]]
        BY <4>2, StandsPointwise
      <4> QED
        BY <4>3, StandsPointwise
    <3>10. Progress' = Contract!Share(Stands')
      <4>1. bill'.status = "settled" <=> Everywhere(slot', "paid")
        BY <3>6 DEF PaidShare
      <4>2. bill'.status # "needs_review"
        BY <3>6, PaidShareAgrees
      <4> QED
        BY <1>f, <1>i, <4>1, <4>2
    <3> QED
      BY <1>5, <1>h, <3>7, <3>8, <3>9, <3>10, ContractActions
  <2> QED
    BY <2>1, <2>2
<1>6. ASSUME Made' = Made, NEW s \in Slots, Reviewed(s) PROVE Goal
  <2>1. CASE bill.status = "settled"
    <3>1. slot' = slot /\ bill' = bill
      BY <1>6, <1>a, <2>1 DEF Reviewed, SlotToReview, BillToReview, BillAgreesWithSlots, Everywhere
    <3>2. UNCHANGED <<Stands, Progress>>
      BY <3>1, SameStanding
    <3> QED
      BY <1>6, <1>g, <3>2
  <2>2. CASE bill.status # "settled"
    <3>1. bill'.status = "needs_review"
      BY <1>6, <1>a, <1>c, <2>2 DEF Reviewed, BillToReview, BillIsActive, BillRecord, BillStatuses
    <3>2. Progress # "settled" /\ Progress' = "review"
      BY <1>f, <2>2, <3>1
    <3>3. Stands' = IF Stands[s] = "paid" THEN Stands ELSE [Stands EXCEPT ![s] = "review"]
      <4>1. CASE slot[s].status = "paid"
        <5>1. slot' = slot
          BY <1>6, <4>1 DEF Reviewed, SlotToReview
        <5> QED
          BY <4>1, <5>1, StandsPointwise DEF Stands, Standing
      <4>2. CASE slot[s].status # "paid"
        <5>1. slot'[s].status = "needs_review" /\ \A r \in Slots : r # s => slot'[r] = slot[r]
          BY <1>6, <1>c, <4>2 DEF Reviewed, SlotToReview, SlotRecord
        <5>2. \A r \in Slots : Stands'[r] = IF r = s THEN "review" ELSE Stands[r]
          BY <5>1, StandsPointwise
        <5>3. Stands' = [r \in Slots |-> IF r = s THEN "review" ELSE Stands[r]]
          BY <5>2, StandsPointwise
        <5> QED
          BY <4>2, <5>3, StandsPointwise
      <4> QED
        BY <4>1, <4>2
    <3> QED
      BY <1>6, <1>h, <3>2, <3>3, ContractActions
  <2> QED
    BY <2>1, <2>2
<1>7. ASSUME Made' = Made, NEW s \in Slots, Retried(s) PROVE Goal
  <2> DEFINE inReview == Somewhere(slot', ReviewStatuses)
  <2>1. bill' = [bill EXCEPT !.status = IF inReview THEN "needs_review" ELSE PaidShare(slot')]
    BY <1>7, <1>a DEF Retried, RecomputeBillStatus, BillIsActive
  <2>2. bill'.status = IF inReview THEN "needs_review" ELSE PaidShare(slot')
    BY <1>c, <2>1 DEF BillRecord
  <2>3. ~inReview => \A r \in Slots : slot'[r].status # "needs_review"
    BY DEF Somewhere, ReviewStatuses
  <2>4. \/ Progress' = "review"
        \/ (\A r \in Slots : Stands'[r] # "review") /\ Progress' = Contract!Share(Stands')
    <3>1. CASE inReview
      BY <1>f, <2>2, <3>1
    <3>2. CASE ~inReview
      <4>1. bill'.status = PaidShare(slot')
        BY <2>2, <3>2
      <4>2. bill'.status = "settled" <=> Everywhere(slot', "paid")
        BY <4>1 DEF PaidShare
      <4>3. bill'.status # "needs_review"
        BY <4>1, PaidShareAgrees
      <4>4. \A r \in Slots : Stands'[r] # "review"
        BY <2>3, <3>2, StandsPointwise
      <4> QED
        BY <1>f, <1>i, <4>2, <4>3, <4>4
    <3> QED
      BY <3>1, <3>2
  <2> HIDE DEF inReview
  <2>5. CASE bill.status = "settled"
    <3>1. bill'.status = "settled"
      BY BillStep, <2>5
    <3>2. \A r \in Slots : slot[r].status = "paid" /\ slot'[r] = slot[r]
      BY <1>a, <1>e, <2>5 DEF BillAgreesWithSlots, Everywhere
    <3>3. Stands' = Stands
      <4>1. \A r \in Slots : Stands'[r] = Stands[r]
        BY <3>2, StandsPointwise
      <4> QED
        BY <4>1, StandsPointwise
    <3>4. Progress' = Progress
      BY <1>f, <2>5, <3>1
    <3> QED
      BY <1>7, <1>g, <3>3, <3>4
  <2>6. CASE slot' = slot /\ slot[s].status = "needs_review"
    <3>1. Stands' = Stands
      BY <2>6 DEF Stands, Standing
    <3>2. bill.status = "needs_review" /\ bill'.status = "needs_review"
      BY <1>a, <1>d, <2>6 DEF BillAgreesWithSlots, Somewhere
    <3>3. Progress' = Progress
      BY <1>f, <3>2
    <3> QED
      BY <1>7, <1>g, <3>1, <3>3
  <2>7. CASE bill.status # "settled" /\ ~(slot' = slot /\ slot[s].status = "needs_review")
    <3>1. Stands' = IF Stands[s] = "review" THEN [Stands EXCEPT ![s] = "owed"] ELSE Stands
      <4>1. CASE slot' = slot
        <5>1. Stands' = Stands
          BY <4>1 DEF Stands, Standing
        <5> QED
          BY <2>7, <4>1, <5>1, StandsPointwise
      <4>2. CASE slot' # slot
        <5>1. /\ slot[s].status \in ReviewStatuses /\ slot'[s].status = "unpaid"
              /\ \A r \in Slots : r # s => slot'[r] = slot[r]
          BY <1>7, <1>c, <4>2 DEF Retried, SlotRecord
        <5>2. \A r \in Slots : Stands'[r] = IF r = s THEN "owed" ELSE Stands[r]
          BY <5>1, StandsPointwise
        <5>3. Stands' = [r \in Slots |-> IF r = s THEN "owed" ELSE Stands[r]]
          BY <5>2, StandsPointwise
        <5>4. Stands[s] \in {"review", "owed"}
          BY <5>1, StandsPointwise DEF ReviewStatuses
        <5>5. CASE Stands[s] = "review"
          BY <5>3, <5>5, StandsPointwise
        <5>6. CASE Stands[s] = "owed"
          <6>1. \A r \in Slots : Stands'[r] = Stands[r]
            BY <5>2, <5>6
          <6> QED
            BY <5>6, <6>1, StandsPointwise
        <5> QED
          BY <5>4, <5>5, <5>6
      <4> QED
        BY <4>1, <4>2
    <3>2. Progress # "settled"
      BY <1>f, <2>7
    <3> QED
      BY <1>7, <1>h, <2>4, <3>1, <3>2, ContractActions
  <2> QED
    BY <2>5, <2>6, <2>7
<1>8. ASSUME Made' = Made PROVE Goal
  BY <1>a, <1>8, <1>2, <1>3, <1>4, <1>5, <1>6, <1>7, SettlementCases
<1>9. Goal
  BY <1>a, <1>1, <1>8, MadeChanges
<1> QED
  BY <1>9 DEF Goal

\* Every behaviour of the handlers, the wallet provider and the ledger is a
\* behaviour of the settlement contract.
THEOREM HandlersImplementContract == Spec => ImplementsContract
<1>1. Init => Contract!Init
  BY ContractInit
<1>2. BillInv /\ [Next]_vars => [Contract!Next]_(Contract!terms)
  BY ContractStep
<1> QED
  BY <1>1, <1>2, BillInit, BillNext, PTL DEF Spec, ImplementsContract, Contract!Spec

=============================================================================
