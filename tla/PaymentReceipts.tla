-------------------------- MODULE PaymentReceipts --------------------------
(***************************************************************************)
(* How a verified payment of one slot is stored, row by row. Payments in   *)
(* XRP are written to verified_payment_receipts, from where two triggers   *)
(* copy them to verified_payment_records; issued payments are written to   *)
(* the records. Every verification has its own time, and so has the digest *)
(* of what it verified; the digest of a public proof leaves the time out.  *)
(* Settle is the one step that PaymentLifecycle has for all of this.       *)
(***************************************************************************)
EXTENDS Naturals

CONSTANTS
    Handlers,       \* Workers that verify or reconcile a payment of the slot
    Transactions,   \* validated payments that match the slot
    MaxTime,        \* how far the clock goes; a bound
    Nil             \* no transaction, row, time or digest

Receipt == [at : Nat, digest : Nat \cup {Nil}]
Record == [at : Nat, digest : Nat \cup {Nil}, proof : BOOLEAN]

ASSUME ReceiptConstants == Nil \notin Transactions \cup Nat \cup Receipt \cup Record

VARIABLES
    assetType,  \* what the slot is paid in, "native" or "issued"
    slotRow,    \* status, transaction and time of the payment
    billStatus, \* "open", "paid" for partially_paid and settled, or "needs_review"
    receipts,   \* verified_payment_receipts: time and digest of the verification
    records,    \* verified_payment_records: these, and whether there is a proof digest
    settling,   \* what each handler does, and what it answered last
    clock

receiptVars == <<assetType, slotRow, billStatus, receipts, records, clock, settling>>

Open == [status |-> "open", tx |-> Nil, at |-> Nil]
NoRows == [t \in Transactions |-> Nil]
Idle == [step |-> "idle", tx |-> Nil, saw |-> Nil, at |-> Nil, answer |-> "none"]

\* A payment that was settled before the digests came: 0006 left them empty, 0007
\* copied the row as it was.
Migrated(t) ==
    /\ slotRow = [status |-> "paid", tx |-> t, at |-> 0] /\ billStatus = "paid"
    /\ receipts = [NoRows EXCEPT ![t] = [at |-> 0, digest |-> Nil]]
    /\ records = [NoRows EXCEPT ![t] = [at |-> 0, digest |-> Nil, proof |-> TRUE]]

ReceiptsInit ==
    /\ assetType \in {"native", "issued"}
    /\ \/ slotRow = Open /\ billStatus = "open" /\ receipts = NoRows /\ records = NoRows
       \/ assetType = "native" /\ \E t \in Transactions : Migrated(t)
    /\ clock = 1
    /\ settling = [h \in Handlers |-> Idle]

-----------------------------------------------------------------------------
(* The statements of the settlement batch.                                 *)

TakesPayments == billStatus \in {"open", "paid"}

Accepting(t) ==
    /\ slotRow.status # "needs_review" /\ slotRow.tx \in {Nil, t}
    /\ TakesPayments

\* INSERT_SLOT_RECEIPT: a row, or the digest a migrated row lacks.
WriteReceipt(t, at) ==
    CASE ~Accepting(t) -> receipts
      [] Accepting(t) /\ receipts[t] = Nil ->
            [receipts EXCEPT ![t] = [at |-> at, digest |-> at]]
      [] Accepting(t) /\ receipts[t] # Nil ->
            IF receipts[t].digest = Nil THEN [receipts EXCEPT ![t].digest = at] ELSE receipts

SyncInsertsOnly(t, written) ==                                      \* mutant
    IF written[t] # receipts[t] /\ records[t] = Nil
    THEN [records EXCEPT ![t] = [at |-> written[t].at, digest |-> written[t].digest,
                                 proof |-> TRUE]]
    ELSE records

\* The triggers on what the insert wrote and on the digest it filled in.
SyncRecord(t, written) ==
    CASE written[t] = receipts[t] -> records
      [] written[t] # receipts[t] /\ records[t] = Nil ->
            [records EXCEPT ![t] = [at |-> written[t].at, digest |-> written[t].digest,
                                    proof |-> TRUE]]
      [] written[t] # receipts[t] /\ records[t] # Nil ->
            IF records[t].digest = Nil
            THEN [records EXCEPT ![t] = [@ EXCEPT !.digest = written[t].digest, !.proof = TRUE]]
            ELSE records

\* INSERT_ISSUED_SLOT_RECEIPT: no row of an issued payment lacks its digest.
WriteRecord(t, at) ==
    IF Accepting(t) /\ records[t] = Nil
    THEN [records EXCEPT ![t] = [at |-> at, digest |-> at, proof |-> FALSE]]
    ELSE records

\* MARK_SLOT_PAID asks for the receipt by its proof digest, MARK_ISSUED_SLOT_PAID for
\* the record by the digest of this very verification.
Marks(t, at, written, synced) ==
    /\ slotRow.status # "needs_review" /\ slotRow.tx \in {Nil, t}
    /\ IF assetType = "native" THEN written[t] # Nil
                              ELSE synced[t] # Nil /\ synced[t].digest = at

MarkPaid(t) ==
    [status |-> "paid", tx |-> t, at |-> IF slotRow.at = Nil THEN clock ELSE slotRow.at]

\* What the batch reads back of the slot, its payment and its Bill is complete.
ReadsBack(slot, bill, written, synced) ==
    /\ slot.status = "paid" /\ bill = "paid"
    /\ IF assetType = "native" THEN written[slot.tx] # Nil
                              ELSE synced[slot.tx] # Nil /\ synced[slot.tx].digest # Nil

WithoutExactRetry(h, slot, changed, wrote, synced) ==               \* mutant
    changed /\ (assetType = "issued" => synced[slot.tx].digest = settling[h].at)

\* An issued payment that the handler found settled by itself may change nothing and
\* keeps the digest of its first verification.
Confirms(h, slot, changed, wrote, synced) ==
    LET exactRetry == settling[h].saw = settling[h].tx
    IN \/ assetType = "native" /\ changed
       \/ /\ assetType = "issued" /\ (changed \/ exactRetry)
          /\ (wrote \/ ~exactRetry) => synced[slot.tx].digest = settling[h].at
          /\ ~synced[slot.tx].proof

-----------------------------------------------------------------------------
(* A request or a reconciliation, from the slot it loads to its answer.    *)

\* loadPaymentSlotByToken
Load(h) ==
    /\ settling[h].step = "idle"
    /\ settling' = [settling EXCEPT ![h] = [Idle EXCEPT !.step = "verify", !.saw = slotRow.tx]]
    /\ UNCHANGED <<assetType, slotRow, billStatus, receipts, records, clock>>

\* The ledger confirms t now. assertProofMatchesSlot refuses it where the slot was
\* already paid by another one.
ConfirmOnLedger(h, t) ==
    /\ settling[h].step = "verify"
    /\ settling' = [settling EXCEPT ![h] =
           IF @.saw \in {Nil, t} THEN [@ EXCEPT !.step = "settle", !.tx = t, !.at = clock]
                                  ELSE [@ EXCEPT !.step = "idle", !.tx = t, !.answer = "conflict"]]
    /\ UNCHANGED <<assetType, slotRow, billStatus, receipts, records, clock>>

AnswerOf(h, answer) ==
    settling' = [settling EXCEPT ![h] = [@ EXCEPT !.step = "idle", !.answer = answer]]

\* settleVerifiedPaymentSlot, settleVerifiedIssuedPaymentSlot. The batch is committed
\* before what it read back is judged; without the record that the slot refers to
\* it is rolled back.
Settle(h) ==
    LET t == settling[h].tx  at == settling[h].at
        written == IF assetType = "native" THEN WriteReceipt(t, at) ELSE receipts
        synced == IF assetType = "native" THEN SyncRecord(t, written) ELSE WriteRecord(t, at)
        changed == Marks(t, at, written, synced)
        slot == IF changed THEN MarkPaid(t) ELSE slotRow
        bill == IF slot.status = "paid" /\ TakesPayments THEN "paid" ELSE billStatus
        wrote == IF assetType = "native" THEN written # receipts ELSE synced # records
    IN  /\ settling[h].step = "settle"
        /\ IF slot.status = "paid" => synced[slot.tx] # Nil
           THEN /\ slotRow' = slot /\ billStatus' = bill
                /\ receipts' = written /\ records' = synced
                /\ AnswerOf(h, CASE ~ReadsBack(slot, bill, written, synced) -> "error"
                                 [] ReadsBack(slot, bill, written, synced) /\ slot.tx # t -> "conflict"
                                 [] ReadsBack(slot, bill, written, synced) /\ slot.tx = t ->
                                       IF Confirms(h, slot, changed, wrote, synced)
                                       THEN "settled" ELSE "error")
           ELSE AnswerOf(h, "error") /\ UNCHANGED <<slotRow, billStatus, receipts, records>>
        /\ UNCHANGED <<assetType, clock>>

\* The batch fails; nothing is written.
Outage(h) ==
    /\ settling[h].step = "settle"
    /\ AnswerOf(h, "error")
    /\ UNCHANGED <<assetType, slotRow, billStatus, receipts, records, clock>>

-----------------------------------------------------------------------------
(* What happens around them.                                               *)

\* markPaymentSlotNeedsReview, for this slot or another one of the Bill.
Review(own) ==
    /\ slotRow' = IF own /\ slotRow.status # "paid" THEN [slotRow EXCEPT !.status = "needs_review"]
                                                    ELSE slotRow
    /\ billStatus' = "needs_review"
    /\ UNCHANGED <<assetType, receipts, records, clock, settling>>

\* The organizer releases all that was in review; the Bill follows its slots.
Release ==
    /\ billStatus = "needs_review"
    /\ slotRow' = IF slotRow.status = "needs_review" THEN Open ELSE slotRow
    /\ billStatus' = IF slotRow.status = "paid" THEN "paid" ELSE "open"
    /\ UNCHANGED <<assetType, receipts, records, clock, settling>>

Tick ==
    /\ clock < MaxTime /\ clock' = clock + 1
    /\ UNCHANGED <<assetType, slotRow, billStatus, receipts, records, settling>>

ReceiptsNext ==
    \/ \E h \in Handlers :
          Load(h) \/ (\E t \in Transactions : ConfirmOnLedger(h, t)) \/ Settle(h) \/ Outage(h)
    \/ \E own \in BOOLEAN : Review(own)
    \/ Release \/ Tick

ReceiptsSpec == ReceiptsInit /\ [][ReceiptsNext]_receiptVars

-----------------------------------------------------------------------------
(* Properties.                                                             *)

\* loadBillProgressByToken: the page is refused without the proof digest of a paid
\* XRP slot.
ProgressLoads ==
    slotRow.status = "paid" /\ assetType = "native" =>
        records[slotRow.tx] # Nil /\ records[slotRow.tx].proof

\* loadPublicProofByToken, for the digest the progress page links to.
ProofOpens(t) == receipts[t] # Nil

\* Who paid can prove it, and nobody else: the progress page of a paid slot loads, the
\* proof it links to opens, the two tables tell the same of the payment, whichever
\* verification wrote or completed them, and no other payment of the slot is recorded.
PaidSlotIsProven ==
    /\ ProgressLoads
    /\ \A t \in Transactions : records[t] # Nil <=> slotRow.tx = t
    /\ \A t \in Transactions :
          IF assetType = "issued" \/ slotRow.tx # t THEN receipts[t] = Nil
          ELSE /\ ProofOpens(t)
               /\ records[t].at = receipts[t].at /\ records[t].digest = receipts[t].digest

\* Verifying a settled payment again is idempotent, whatever verifications overlap: it
\* moves no accepted time, transaction or digest, and it is acknowledged although its
\* own digest is another one, unless the Bill takes no payments.
ReverificationIsIdempotent ==
    [][/\ slotRow.status = "paid" => slotRow' = slotRow
       /\ \A t \in Transactions : records[t] # Nil =>
             /\ records'[t] # Nil /\ records'[t].at = records[t].at
             /\ records[t].digest # Nil => records'[t] = records[t]
       /\ \A h \in Handlers :
             Settle(h) /\ settling[h].saw = settling[h].tx /\ TakesPayments
                => settling'[h].answer = "settled"]_receiptVars

=============================================================================
