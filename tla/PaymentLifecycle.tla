-------------------------- MODULE PaymentLifecycle --------------------------
(***************************************************************************)
(* The settlement core of one Bill: its PaymentSlots, the Wallet Handoff   *)
(* rows that ask payers to sign, the receipts of verified payments, and    *)
(* the HTTP handlers that read and write them.                             *)
(*                                                                         *)
(* A handler awaits the database, the wallet provider (Xaman) and the      *)
(* XRP Ledger between its steps, so it is a sequence of actions of one     *)
(* worker and what it read before an await may be stale when it is used.   *)
(* A D1 batch is one transaction: it is one step, its statements apply in  *)
(* order, a statement that matches no row does not stop the others, and a  *)
(* constraint violation undoes them all.                                   *)
(*                                                                         *)
(* Left out: a handler that only reads (it changes no variable here), the  *)
(* timestamps, the tokens, and the amounts (the verifier's verdict on a    *)
(* transaction is an outcome of the ledger).                               *)
(***************************************************************************)
EXTENDS Naturals, FiniteSets

CONSTANTS
    Slots,      \* payment_slots of the Bill, each with its own payer and invoice
    Requests,   \* provider request ids (wallet_handoffs.request_id); a bound
    Workers,    \* handlers that can be in flight at once; a bound
    None,
    Timely      \* TRUE: the ledger window of a request and the handlers that
                \* overlap it end before the request elapses (see Elapse)

ASSUME ConstantsOK ==
    /\ None \notin Slots \cup Requests
    /\ IsFiniteSet(Requests)
    /\ Timely \in BOOLEAN

VARIABLES
    slot,       \* [status, paidBy] of each payment_slots row
    bill,       \* [status, closure] of the bills row
    row,        \* status of the wallet_handoffs row of each request
    receipts,   \* requests whose transaction has a verified_payment receipt
    audit,      \* findings and management actions recorded, as <<kind, slot>>
    owner,      \* slot whose intent the provider payload of a request carries
    payload,    \* state of that payload at the wallet provider
    elapsed,    \* requests whose expiresAt has passed
    ledger,     \* state of the request's transaction on the XRP Ledger
    pin,        \* account Sequence the transaction of a request is pinned to
    work        \* what each worker is doing and what it has read

db == <<slot, bill, row, receipts, audit>>
world == <<owner, payload, elapsed, ledger, pin>>
vars == <<db, world, work>>

-----------------------------------------------------------------------------
(* Statuses, as the schema and the code name them.                         *)

SlotStatuses == {"unpaid", "payload_created", "awaiting_signature",
                 "rejected", "expired", "submitted", "validating", "paid",
                 "verification_failed", "needs_review"}

\* The CHECK on bills.status: what a row may hold.
BillStatuses == {"open", "partially_paid", "settled", "needs_review"}

Unsigned == {"created", "available", "opened"}
ActiveStatuses == Unsigned \cup {"signed", "submitted"}
RequestStatuses == ActiveStatuses \cup {"rejected", "expired", "failed"}

PayloadStates == {"none", "available", "opened", "signed", "resolved", "rejected"}
Validated == {"success", "failed", "mismatch"}
LedgerStates == {"unsent", "pending", "lapsed"} \cup Validated

Steps == {"idle", "details", "slot", "expire", "payable", "cleared", "created",
          "settle", "multiple", "review", "sync", "authorize", "close"}

Payables == {"open", "partially_paid"}
Eligible == {"unpaid", "payload_created", "awaiting_signature",
             "rejected", "expired", "verification_failed"}
Resumable == {"unpaid", "payload_created", "awaiting_signature",
              "submitted", "validating"}
InFlight == {"submitted", "validating"}
ReviewStatuses == {"needs_review", "verification_failed"}

-----------------------------------------------------------------------------
(* What the statements of the batches compute.                             *)

Active(s) == {q \in Requests : owner[q] = s /\ row[q] \in ActiveStatuses}
HasActiveRequest(s) == Active(s) # {}                               \* mutant
HasPriorRequest(s) == \E q \in Requests : owner[q] = s /\ row[q] # "absent"

\* The validated transactions of the history that match the slot's own invoice.
Matching(s) == {q \in Requests : owner[q] = s /\ ledger[q] = "success"}

\* The account Sequence: one more for each transaction the ledger applied.
Sequence(s) == Cardinality({q \in Requests : owner[q] = s /\ ledger[q] \in Validated})

\* SELECT_PAYMENT_SLOT reports a closed Bill as closed_incomplete.
EffectiveBillStatus ==
    IF bill.closure = "closed_incomplete" THEN "closed_incomplete" ELSE bill.status

RequirePayable(slotStatus, billStatus) ==
    slotStatus \in Eligible /\ billStatus \in Payables

CanResume(slotStatus, billStatus) ==
    slotStatus \in Resumable /\ billStatus \in Payables

Somewhere(slots, statuses) == \E s \in Slots : slots[s].status \in statuses
Everywhere(slots, status) == \A s \in Slots : slots[s].status = status

PaidShare(slots) ==
    CASE Everywhere(slots, "paid") -> "settled"
      [] ~Everywhere(slots, "paid") /\ Somewhere(slots, {"paid"}) -> "partially_paid"
      [] OTHER -> "open"

RecomputeAnyBill(slots) == [bill EXCEPT !.status = PaidShare(slots)] \* mutant

\* RECOMPUTE_BILL, the last write of a settlement.
RecomputeBill(slots) ==
    IF bill.status \in {"open", "partially_paid", "settled"}
    THEN [bill EXCEPT !.status = PaidShare(slots)]
    ELSE bill

\* RECOMPUTE_BILL_STATUS, the last write of a retry authorization.
RecomputeBillStatus(slots) ==
    IF bill.closure # "active" THEN bill
    ELSE [bill EXCEPT !.status =
            IF Somewhere(slots, ReviewStatuses) THEN "needs_review" ELSE PaidShare(slots)]

ForgetEnd(status) ==                                                \* mutant
    IF status = "submitted" THEN status ELSE "awaiting_signature"

SlotStatusForHandoff(status) ==
    CASE status \in Unsigned \cup {"signed"} -> "awaiting_signature"
      [] status = "failed" -> "verification_failed"
      [] OTHER -> status

AlwaysFollows(s, status) ==                                         \* mutant
    [slot EXCEPT ![s].status = SlotStatusForHandoff(status)]

\* UPDATE_SLOT_FROM_REQUEST: follows the row unless the slot is paid or in review.
SlotFollows(s, status) ==
    IF slot[s].status \in {"paid", "needs_review"} THEN slot
    ELSE [slot EXCEPT ![s].status = SlotStatusForHandoff(status)]

ActiveRank == [created |-> 0, available |-> 1, opened |-> 2, signed |-> 3, submitted |-> 4]

AlwaysApply(current, next) == TRUE                                  \* mutant

ShouldApply(current, next) ==
    \/ current = next
    \/ next = "submitted"
    \/ /\ current \in ActiveStatuses \ {"submitted"}
       /\ next \in ActiveStatuses => ActiveRank[next] >= ActiveRank[current]

\* normalizeXamanLifecycle: a resolved signature wins, then a refusal, then expiry.
Observation(q) ==
    CASE payload[q] = "resolved" -> "submitted"
      [] payload[q] = "rejected" -> "rejected"
      [] payload[q] \in {"available", "opened", "signed"} /\ q \in elapsed -> "expired"
      [] OTHER -> payload[q]

-----------------------------------------------------------------------------
Idle == [step |-> "idle", slot |-> None, request |-> None,
         saw |-> "nothing", sawBill |-> "nothing"]

At(w, step) == work[w].step = step
Return(w) == work' = [work EXCEPT ![w] = Idle]
Go(w, step) == work' = [work EXCEPT ![w] = [@ EXCEPT !.step = step]]

Init ==
    /\ slot = [s \in Slots |-> [status |-> "unpaid", paidBy |-> None]]
    /\ bill = [status |-> "open", closure |-> "active"]
    /\ row = [q \in Requests |-> "absent"]
    /\ receipts = {}
    /\ audit = {}
    /\ owner = [q \in Requests |-> None]
    /\ payload = [q \in Requests |-> "none"]
    /\ elapsed = {}
    /\ ledger = [q \in Requests |-> "unsent"]
    /\ pin = [q \in Requests |-> 0]
    /\ work = [w \in Workers |-> Idle]

-----------------------------------------------------------------------------
(* POST /api/payments/payload: resume the active request of a slot, or     *)
(* reconcile what the ledger already holds and create a new request.       *)

\* loadPayablePaymentDetails, before the readiness reads.
BeginCreate(w, s) ==
    /\ At(w, "idle")
    /\ \/ slot[s].status \in InFlight /\ EffectiveBillStatus \in Payables
       \/ RequirePayable(slot[s].status, EffectiveBillStatus)
    /\ work' = [work EXCEPT ![w] = [Idle EXCEPT !.step = "details", !.slot = s]]
    /\ UNCHANGED <<db, world>>

\* loadPaymentSlotByToken: the slot the rest of the handler relies on.
LoadSlot(w) ==
    /\ At(w, "details")
    /\ work' = [work EXCEPT ![w] = [@ EXCEPT !.step = "slot",
                                             !.saw = slot[work[w].slot].status,
                                             !.sawBill = EffectiveBillStatus]]
    /\ UNCHANGED <<db, world>>

StaleRequests(s) == {q \in Active(s) : row[q] \in Unsigned /\ q \in elapsed}

\* requirePayableSlot on the slot read earlier: go on, or answer with an error.
ProceedIfPayable(w) ==
    work' = [work EXCEPT ![w] =
        IF RequirePayable(work[w].saw, work[w].sawBill)
        THEN [Idle EXCEPT !.step = "payable", !.slot = work[w].slot]
        ELSE Idle]

\* loadActiveRequest reads an unsigned request that is past its expiry.
FindStale(w) ==
    /\ At(w, "slot")
    /\ \E q \in StaleRequests(work[w].slot) :
        work' = [work EXCEPT ![w] = [@ EXCEPT !.step = "expire", !.request = q]]
    /\ UNCHANGED <<db, world>>

\* ... and expires it, if it still is unsigned. The slot follows any expired row,
\* also one that another handler expired and replaced since.
ExpireActive(w) ==
    /\ At(w, "expire")
    /\ LET q == work[w].request
       IN /\ row' = IF row[q] \in Unsigned THEN [row EXCEPT ![q] = "expired"] ELSE row
          /\ slot' = IF row'[q] = "expired" THEN SlotFollows(work[w].slot, "expired") ELSE slot
    /\ ProceedIfPayable(w)
    /\ UNCHANGED <<bill, receipts, audit, world>>

\* resumeExistingPayload hands the active request back to the participant.
ResumeActive(w) ==
    /\ At(w, "slot")
    /\ Active(work[w].slot) # {} /\ StaleRequests(work[w].slot) = {}
    /\ CanResume(work[w].saw, work[w].sawBill)
    /\ Return(w)
    /\ UNCHANGED <<db, world>>

\* Nothing to resume, or a slot that was not read as resumable.
ContinueCreate(w) ==
    /\ At(w, "slot")
    /\ StaleRequests(work[w].slot) = {}
    /\ Active(work[w].slot) = {} \/ ~CanResume(work[w].saw, work[w].sawBill)
    /\ ProceedIfPayable(w)
    /\ UNCHANGED <<db, world>>

\* hasPriorRequest and reconcileReplacementPayment: the validated history decides.
Reconcile(w) ==
    /\ At(w, "payable")
    /\ LET s == work[w].slot
           matches == IF HasPriorRequest(s) THEN Matching(s) ELSE {}
       IN \/ matches = {} /\ Go(w, "cleared")
          \/ \E q \in matches :
                /\ matches = {q}
                /\ work' = [work EXCEPT ![w] = [@ EXCEPT !.step = "settle", !.request = q]]
          \/ \E p, q \in matches : p # q /\ Go(w, "multiple")
    /\ UNCHANGED <<db, world>>

\* XamanProvider.createHandoff: pin the signing state, create the payload.
CreateHandoff(w) ==
    /\ At(w, "cleared")
    /\ \E q \in Requests :
        /\ owner[q] = None
        /\ owner' = [owner EXCEPT ![q] = work[w].slot]
        /\ payload' = [payload EXCEPT ![q] = "available"]
        /\ pin' = [pin EXCEPT ![q] = Sequence(work[w].slot)]
        /\ work' = [work EXCEPT ![w] = [@ EXCEPT !.step = "created", !.request = q]]
    /\ UNCHANGED <<db, elapsed, ledger>>

\* persistRequestState, refused whole by the one-active-per-slot index. When
\* only MARK_SLOT_WAITING matches nothing the row is kept and an error returned.
PersistRequest(w) ==
    /\ At(w, "created")
    /\ LET s == work[w].slot
       IN IF Active(s) # {} THEN UNCHANGED <<row, slot>>
          ELSE /\ row' = [row EXCEPT ![work[w].request] = "available"]
               /\ slot' = IF slot[s].status \in Eligible /\ bill.status \in Payables
                          THEN [slot EXCEPT ![s].status = "awaiting_signature"]
                          ELSE slot
    /\ Return(w)
    /\ UNCHANGED <<bill, receipts, audit, world>>

-----------------------------------------------------------------------------
(* Settlement and review, shared by reconciliation and verification.       *)

\* The transaction of q is validated and successful, and differs from what s owes:
\* its contents were altered, or it carries the invoice of another slot.
Mismatches(s, q) == ledger[q] = "mismatch" \/ (ledger[q] = "success" /\ owner[q] # s)

\* POST /api/payments/verify: the payment link names the slot and the body a
\* payload, which nothing ties to that slot. The provider names the transaction,
\* the ledger judges it against the slot. A pending or failed transaction changes
\* nothing and is not a step.
VerifyPayment(w, s, q) ==
    /\ At(w, "idle")
    /\ payload[q] = "resolved"
    /\ \/ q \in Matching(s) /\ work' = [work EXCEPT ![w] =
            [Idle EXCEPT !.step = "settle", !.slot = s, !.request = q]]
       \/ Mismatches(s, q) /\ work' = [work EXCEPT ![w] =
            [Idle EXCEPT !.step = "review", !.slot = s]]
    /\ UNCHANGED <<db, world>>

AcceptsInFlight(s, q) ==                                            \* mutant
    slot[s].status \in InFlight /\ slot[s].paidBy \in {None, q}

AcceptsPayment(s, q) == slot[s].status # "needs_review" /\ slot[s].paidBy \in {None, q}

\* INSERT_SLOT_RECEIPT
RecordReceipt(s, q) ==
    IF AcceptsPayment(s, q) /\ bill.status \in {"open", "partially_paid", "settled"}
    THEN receipts \cup {q}
    ELSE receipts

MarkWithoutReceipt(s, q) ==                                         \* mutant
    IF AcceptsPayment(s, q)
    THEN [slot EXCEPT ![s] = [status |-> "paid", paidBy |-> q]]
    ELSE slot

\* MARK_SLOT_PAID
MarkSlotPaid(s, q) ==
    IF AcceptsPayment(s, q) /\ q \in RecordReceipt(s, q)
    THEN [slot EXCEPT ![s] = [status |-> "paid", paidBy |-> q]]
    ELSE slot

\* settleVerifiedPaymentSlot, settleVerifiedIssuedPaymentSlot
Settle(w) ==
    /\ At(w, "settle")
    /\ LET s == work[w].slot  q == work[w].request
       IN /\ receipts' = RecordReceipt(s, q)
          /\ slot' = MarkSlotPaid(s, q)
          /\ bill' = RecomputeBill(slot')
    /\ Return(w)
    /\ UNCHANGED <<row, audit, world>>

\* MARK_SLOT_REVIEW and MARK_BILL_REVIEW; the two statements guard apart.
SlotToReview(s) ==
    IF slot[s].status = "paid" THEN slot ELSE [slot EXCEPT ![s].status = "needs_review"]

BillToReview ==
    IF bill.closure = "active" /\ bill.status \in {"open", "partially_paid", "needs_review"}
    THEN [bill EXCEPT !.status = "needs_review"]
    ELSE bill

\* markPaymentSlotNeedsReview after a validated transaction that does not match.
MarkReview(w) ==
    /\ At(w, "review")
    /\ slot' = SlotToReview(work[w].slot)
    /\ bill' = BillToReview
    /\ Return(w)
    /\ UNCHANGED <<row, receipts, audit, world>>

\* markReconciliationNeedsReview: the finding is kept with the review marks.
MarkMultiple(w) ==
    /\ At(w, "multiple")
    /\ audit' = audit \cup {<<"multiple_validated_matches", work[w].slot>>}
    /\ slot' = SlotToReview(work[w].slot)
    /\ bill' = BillToReview
    /\ Return(w)
    /\ UNCHANGED <<row, receipts, world>>

-----------------------------------------------------------------------------
(* The Xaman callback and the payload status route.                        *)

FetchPayload(w, q) ==
    /\ At(w, "idle")
    /\ row[q] # "absent"
    /\ work' = [work EXCEPT ![w] = [Idle EXCEPT !.step = "sync", !.slot = owner[q],
                                                !.request = q, !.saw = Observation(q)]]
    /\ UNCHANGED <<db, world>>

NeverCollides(q, status) == FALSE                                   \* mutant

\* The unique index refuses a second active row of the slot.
Collides(q, status) ==
    /\ status \in ActiveStatuses
    /\ Active(owner[q]) \ {q} # {}

\* synchronizeProviderRequest: the row, then the slot that follows it.
ApplyObservation(w) ==
    /\ At(w, "sync")
    /\ LET q == work[w].request  status == work[w].saw
       IN IF ShouldApply(row[q], status) /\ ~Collides(q, status)
          THEN /\ row' = [row EXCEPT ![q] = status]
               /\ slot' = SlotFollows(owner[q], status)
          ELSE UNCHANGED <<row, slot>>
    /\ Return(w)
    /\ UNCHANGED <<bill, receipts, audit, world>>

-----------------------------------------------------------------------------
(* Operator recovery: retry authorization and incomplete closure.          *)

LoadReview(w, s) ==
    /\ At(w, "idle")
    /\ bill.closure = "active" /\ bill.status # "settled"
    /\ slot[s].status \in ReviewStatuses
    /\ work' = [work EXCEPT ![w] = [Idle EXCEPT !.step = "authorize", !.slot = s]]
    /\ UNCHANGED <<db, world>>

\* authorizeReviewedSlotRetry: the action is recorded and the Bill recomputed
\* even when the slot is no longer waiting for a decision.
AuthorizeRetry(w) ==
    /\ At(w, "authorize")
    /\ LET s == work[w].slot
       IN /\ audit' = audit \cup {<<"retry_authorized", s>>}
          /\ slot' = IF /\ slot[s].status \in ReviewStatuses
                        /\ bill.closure = "active" /\ bill.status # "settled"
                     THEN [slot EXCEPT ![s].status = "unpaid"]
                     ELSE slot
          /\ bill' = RecomputeBillStatus(slot')
    /\ Return(w)
    /\ UNCHANGED <<row, receipts, world>>

LoadClosure(w) ==
    /\ At(w, "idle")
    /\ bill.closure = "active" /\ bill.status # "settled"
    /\ work' = [work EXCEPT ![w] = [Idle EXCEPT !.step = "close"]]
    /\ UNCHANGED <<db, world>>

\* CLOSE_BILL writes one status to two columns; bills.status has a CHECK.
ClosedBill == [status |-> "closed_incomplete", closure |-> "closed_incomplete"]

\* closeBillIncomplete
CloseBill(w) ==
    /\ At(w, "close")
    /\ bill' = IF /\ bill.closure = "active" /\ bill.status # "settled"
                  /\ ClosedBill.status \in BillStatuses
               THEN ClosedBill
               ELSE bill
    /\ Return(w)
    /\ UNCHANGED <<slot, row, receipts, audit, world>>

-----------------------------------------------------------------------------
(* What happens around the handlers.                                       *)

\* An upstream read or write fails or times out, or the worker dies.
Abandon(w) ==
    /\ ~At(w, "idle")
    /\ Return(w)
    /\ UNCHANGED <<db, world>>

\* A payload reaches the payer only through a stored row.
Reached(q) == row[q] # "absent"

Open(q) ==
    /\ Reached(q) /\ payload[q] = "available" /\ q \notin elapsed
    /\ payload' = [payload EXCEPT ![q] = "opened"]
    /\ UNCHANGED <<db, owner, elapsed, ledger, pin, work>>

\* The payer signs; the wallet broadcasts the transaction. A payload opened
\* before it expired can still be signed afterwards.
Sign(q) ==
    /\ Reached(q)
    /\ payload[q] = "opened" \/ (payload[q] = "available" /\ q \notin elapsed)
    /\ payload' = [payload EXCEPT ![q] = "signed"]
    /\ ledger' = IF ledger[q] = "unsent" THEN [ledger EXCEPT ![q] = "pending"] ELSE ledger
    /\ UNCHANGED <<db, owner, elapsed, pin, work>>

\* The provider reports the payload resolved, with its transaction id.
Resolve(q) ==
    /\ payload[q] = "signed"
    /\ payload' = [payload EXCEPT ![q] = "resolved"]
    /\ UNCHANGED <<db, owner, elapsed, ledger, pin, work>>

Decline(q) ==
    /\ Reached(q) /\ payload[q] \in {"available", "opened"}
    /\ payload' = [payload EXCEPT ![q] = "rejected"]
    /\ UNCHANGED <<db, owner, elapsed, ledger, pin, work>>

\* The ledger applies a transaction whose Sequence is the account's next one.
Validate(q) ==
    /\ ledger[q] = "pending"
    /\ pin[q] = Sequence(owner[q])
    /\ \E outcome \in Validated : ledger' = [ledger EXCEPT ![q] = outcome]
    /\ UNCHANGED <<db, owner, payload, elapsed, pin, work>>

\* The validated ledger index passes LastLedgerSequence.
Lapse(q) ==
    /\ owner[q] # None /\ ledger[q] \in {"unsent", "pending"}
    /\ ledger' = [ledger EXCEPT ![q] = "lapsed"]
    /\ UNCHANGED <<db, owner, payload, elapsed, pin, work>>

\* Five minutes pass since the request was created. LastLedgerSequence is 60
\* ledgers away, about four minutes. Timely takes that for granted, and that no
\* handler past its load of the slot is still running a minute later; without
\* it the two clocks run apart.
Elapse(q) ==
    /\ owner[q] # None /\ q \notin elapsed
    /\ Timely =>
        /\ ledger[q] \notin {"unsent", "pending"}
        /\ \A w \in Workers : work[w].slot = owner[q] =>
            work[w].step \notin {"payable", "cleared", "created"}
    /\ elapsed' = elapsed \cup {q}
    /\ UNCHANGED <<db, owner, payload, ledger, pin, work>>

-----------------------------------------------------------------------------
CreateStep(w) ==
    \/ \E s \in Slots : BeginCreate(w, s)
    \/ LoadSlot(w) \/ FindStale(w) \/ ExpireActive(w)
    \/ ResumeActive(w) \/ ContinueCreate(w)
    \/ Reconcile(w) \/ CreateHandoff(w) \/ PersistRequest(w)

VerifyStep(w) ==
    \/ \E s \in Slots, q \in Requests : VerifyPayment(w, s, q)
    \/ Settle(w) \/ MarkReview(w) \/ MarkMultiple(w)

SyncStep(w) ==
    \/ \E q \in Requests : FetchPayload(w, q)
    \/ ApplyObservation(w)

OperatorStep(w) ==
    \/ \E s \in Slots : LoadReview(w, s)
    \/ AuthorizeRetry(w) \/ LoadClosure(w) \/ CloseBill(w)

HandlerStep(w) ==
    CreateStep(w) \/ VerifyStep(w) \/ SyncStep(w) \/ OperatorStep(w) \/ Abandon(w)

Surroundings(q) ==
    \/ Open(q) \/ Sign(q) \/ Resolve(q) \/ Decline(q)
    \/ Validate(q) \/ Lapse(q) \/ Elapse(q)

Next ==
    \/ \E w \in Workers : HandlerStep(w)
    \/ \E q \in Requests : Surroundings(q)

Spec == Init /\ [][Next]_vars

(***************************************************************************)
(* No step of the server runs by itself: progress comes from the payer's   *)
(* page, which polls its own payload and verifies once it has a            *)
(* transaction id. The page is kept open, a handler that began ends, and   *)
(* an outage of the settlement batch does not last for ever.               *)
(***************************************************************************)
Fairness ==
    /\ \A w \in Workers :
        WF_vars(~At(w, "idle") /\ HandlerStep(w)) /\ SF_vars(Settle(w))
    /\ \A q \in Requests :
        /\ WF_vars(Resolve(q))
        /\ SF_vars(\E w \in Workers, s \in Slots : owner[q] = s /\ VerifyPayment(w, s, q))

FairSpec == Spec /\ Fairness
-----------------------------------------------------------------------------
(* Properties.                                                             *)

TypeOK ==
    /\ slot \in [Slots -> [status : SlotStatuses, paidBy : Requests \cup {None}]]
    /\ bill \in [status : BillStatuses, closure : {"active", "closed_incomplete"}]
    /\ row \in [Requests -> RequestStatuses \cup {"absent"}]
    /\ receipts \subseteq Requests
    /\ audit \subseteq {"multiple_validated_matches", "retry_authorized"} \X Slots
    /\ owner \in [Requests -> Slots \cup {None}]
    /\ payload \in [Requests -> PayloadStates]
    /\ elapsed \subseteq Requests
    /\ ledger \in [Requests -> LedgerStates]
    /\ pin \in [Requests -> Nat]
    /\ work \in [Workers ->
            [step : Steps, slot : Slots \cup {None}, request : Requests \cup {None},
             saw : SlotStatuses \cup RequestStatuses \cup {"nothing"},
             sawBill : BillStatuses \cup {"closed_incomplete", "nothing"}]]

\* What the memory of a handler says of its slot and its request.
IsTrueMemory(m) ==
    /\ m.step \notin {"idle", "close"} => m.slot \in Slots
    /\ m.step \in {"expire", "created", "settle", "sync"} =>
        m.request \in Requests /\ owner[m.request] = m.slot
    /\ m.step \in {"expire", "sync"} => row[m.request] # "absent"
    /\ m.step = "created" => row[m.request] = "absent"
    /\ m.step = "sync" => m.saw \in RequestStatuses
    /\ m.step = "settle" => ledger[m.request] = "success"
    /\ m.step = "review" => \E q \in Requests : Mismatches(m.slot, q)

\* A request is signed only once its row is stored, and nothing happens to one
\* that no slot owns.
IsSoundRequest(q) ==
    /\ row[q] = "absent" => ledger[q] \in {"unsent", "lapsed"}
    /\ owner[q] = None => row[q] = "absent" /\ ledger[q] = "unsent" /\ q \notin elapsed
    /\ payload[q] = "none" <=> owner[q] = None

\* What a handler remembers stays true through every await, whatever the other
\* handlers, the payer and the ledger do meanwhile, and no two handlers are about
\* to store the same new request.
HandlersAreSound ==
    /\ \A w \in Workers : IsTrueMemory(work[w])
    /\ \A v, w \in Workers : v # w /\ At(v, "created") /\ At(w, "created") =>
        work[v].request # work[w].request
    /\ \A q \in Requests : IsSoundRequest(q)

\* A receipt exists exactly for the transaction each paid slot names, and that
\* transaction is a matching payment of this very slot in the validated ledger:
\* INSERT_SLOT_RECEIPT and MARK_SLOT_PAID guard separately, with a Bill status
\* between them, and settle from a verdict reached before the batch.
ReceiptsBackPaidSlots ==
    /\ \A s \in Slots : (slot[s].status = "paid") <=> (slot[s].paidBy # None)
    /\ \A s \in Slots : slot[s].paidBy # None =>
        slot[s].paidBy \in receipts /\ owner[slot[s].paidBy] = s
    /\ \A q \in receipts :
        /\ ledger[q] = "success"
        /\ owner[q] # None /\ slot[owner[q]].paidBy = q

\* The Bill row and its slots agree, through settlements, review marks and
\* retry recomputations that overlap.
BillAgreesWithSlots ==
    /\ bill.status = "settled" => Everywhere(slot, "paid")
    /\ bill.status = "partially_paid" =>
        Somewhere(slot, {"paid"}) /\ ~Everywhere(slot, "paid")
    /\ bill.status = "open" => ~Somewhere(slot, {"paid"})
    /\ Somewhere(slot, {"needs_review"}) => bill.status = "needs_review"

\* A slot shown as waiting for a signature has an active request to resume, and
\* one shown as submitted has a request whose row says so.
SlotStatusIsBacked ==
    \A s \in Slots :
        /\ slot[s].status = "awaiting_signature" => Active(s) # {}
        /\ slot[s].status = "submitted" =>
            \E q \in Requests : owner[q] = s /\ row[q] = "submitted"

\* Two handlers that both passed the reconciliation never leave a slot with two
\* active requests (the index), and a terminal row tells the provider's truth.
RequestsAreSound ==
    /\ \A p, q \in Requests :
        row[p] \in ActiveStatuses /\ row[q] \in ActiveStatuses /\ owner[p] = owner[q] => p = q
    /\ \A q \in Requests :
        /\ row[q] = "submitted" => payload[q] = "resolved"
        /\ row[q] = "rejected" => payload[q] = "rejected"
        /\ row[q] = "expired" => q \in elapsed

\* No slot is paid twice on the ledger: the one-shot Sequence, the ledger window
\* and the reconciliation of replacements together. It needs Timely.
AtMostOnePayment ==
    \A p, q \in Requests :
        ledger[p] = "success" /\ ledger[q] = "success" /\ owner[p] = owner[q] => p = q

\* A paid slot keeps its payment for ever, whatever stale handler comes late.
PaidIsFinal ==
    [][\A s \in Slots : slot[s].status = "paid" => slot'[s] = slot[s]]_vars

\* A settled Bill stays settled: no late review mark or recomputation reopens it.
SettledIsFinal ==
    [][bill.status = "settled" => bill'.status = "settled"]_vars

\* Out-of-order observations never move a row backwards: an active row only
\* gains rank or ends, an ended row can only turn out submitted, and a submitted
\* row stays submitted.
RowNeverRegresses ==
    [][\A q \in Requests : row'[q] # row[q] =>
        \/ row[q] = "absent"
        \/ row'[q] = "submitted"
        \/ /\ row[q] \in ActiveStatuses \ {"submitted"}
           /\ row'[q] \in ActiveStatuses => ActiveRank[row'[q]] > ActiveRank[row[q]]]_vars

\* Only a recorded operator decision takes a slot out of review.
ReviewEndsByDecision ==
    [][\A s \in Slots :
        slot[s].status = "needs_review" /\ slot'[s].status # "needs_review" =>
            slot'[s].status = "unpaid" /\ <<"retry_authorized", s>> \in audit']_vars

-----------------------------------------------------------------------------
(* What the settlement promises, and how this design keeps it.             *)

Standing(s) ==
    CASE slot[s].status = "paid" -> "paid"
      [] slot[s].status = "needs_review" -> "review"
      [] OTHER -> "owed"

Progress ==
    CASE bill.status = "settled" -> "settled"
      [] bill.status = "needs_review" -> "review"
      [] OTHER -> "collecting"

Contract == INSTANCE SettlementContract WITH
    standing <- [s \in Slots |-> Standing(s)],
    progress <- Progress,
    made <- {s \in Slots : Matching(s) # {}}

\* Whatever the handlers, the wallet and the ledger do, and in whatever order,
\* the organizer and the payers see a step of the contract: a slot becomes paid
\* by one of its own validated payments and only while no review is open, the
\* Bill settles in the same step as its last slot, and only a decision of the
\* operator takes a slot or the Bill out of review.
ImplementsContract == Contract!Spec

\* The same with its fairness: a payment that stays recognisable is recognised.
ImplementsFairContract == Contract!FairSpec

=============================================================================
