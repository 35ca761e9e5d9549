------------------------ MODULE ServerDecisions_proofs ------------------------
(***************************************************************************)
(* Proofs about PaymentReceipts and ServerDecisions: who paid can prove it, *)
(* verifying again changes nothing, and what the server decides of a        *)
(* transaction, of two accounts or of a trust line is true of them.         *)
(***************************************************************************)
EXTENDS ServerDecisions, PaymentReceipts, WellFoundedInduction, TLAPS

-----------------------------------------------------------------------------
(* The receipts: the inductive invariant.                                  *)

HandlerStates ==
    [step : {"idle", "verify", "settle"}, tx : Transactions \cup {Nil},
     saw : Transactions \cup {Nil}, at : Nat \cup {Nil},
     answer : {"none", "conflict", "error", "settled"}]

RowsTyped ==
    /\ assetType \in {"native", "issued"}
    /\ slotRow \in [status : {"open", "paid", "needs_review"},
                    tx : Transactions \cup {Nil}, at : Nat \cup {Nil}]
    /\ billStatus \in {"open", "paid", "needs_review"}
    /\ receipts \in [Transactions -> Receipt \cup {Nil}]
    /\ records \in [Transactions -> Record \cup {Nil}]
    /\ clock \in Nat
    /\ settling \in [Handlers -> HandlerStates]

\* A slot is paid by a transaction, at a time.
PaidHasATransaction ==
    /\ slotRow.status = "paid" <=> slotRow.tx # Nil
    /\ slotRow.tx = Nil <=> slotRow.at = Nil

\* Only the records of XRP payments carry a proof digest; those of issued payments
\* were never without the digest of their verification.
RecordsOfTheirAsset ==
    \A t \in Transactions : records[t] # Nil =>
        IF assetType = "native" THEN records[t].proof = TRUE
        ELSE records[t].proof = FALSE /\ records[t].digest # Nil

\* What a handler carries from its read to its batch.
Knows(g) ==
    /\ g.step = "settle" => g.tx \in Transactions /\ g.at \in Nat /\ g.saw \in {Nil, g.tx}
    /\ g.step # "idle" /\ g.saw # Nil => slotRow.tx = g.saw

HandlersKnow == \A h \in Handlers : Knows(settling[h])

ReceiptsInv ==
    /\ RowsTyped /\ PaidHasATransaction /\ RecordsOfTheirAsset
    /\ HandlersKnow /\ PaidSlotIsProven

-----------------------------------------------------------------------------
(* What the statements of the batch write.                                 *)

LEMMA ReceiptWritten ==
    ASSUME RowsTyped, NEW t \in Transactions, NEW at \in Nat
    PROVE  /\ WriteReceipt(t, at) \in [Transactions -> Receipt \cup {Nil}]
           /\ \A u \in Transactions : u # t => WriteReceipt(t, at)[u] = receipts[u]
           /\ ~Accepting(t) => WriteReceipt(t, at) = receipts
           /\ Accepting(t) =>
                 /\ WriteReceipt(t, at)[t] \in Receipt
                 /\ WriteReceipt(t, at)[t].digest # Nil
                 /\ receipts[t] # Nil => WriteReceipt(t, at)[t].at = receipts[t].at
                 /\ receipts[t] # Nil /\ receipts[t].digest # Nil => WriteReceipt(t, at) = receipts
  <1> DEFINE new == [at |-> at, digest |-> at]
             filled == [receipts[t] EXCEPT !.digest = at]
  <1>1. new \in Receipt /\ new.digest # Nil
    BY ReceiptConstants DEF Receipt
  <1>2. receipts[t] # Nil => receipts[t] \in Receipt
    BY DEF RowsTyped
  <1>3. receipts[t] # Nil => filled \in Receipt /\ filled.at = receipts[t].at /\ filled.digest = at
    BY <1>2 DEF Receipt
  <1>4. at # Nil /\ receipts \in [Transactions -> Receipt \cup {Nil}] /\ Nil \notin Receipt
    BY ReceiptConstants DEF RowsTyped
  <1>5. CASE ~Accepting(t)
    BY <1>4, <1>5 DEF WriteReceipt
  <1>6. CASE Accepting(t) /\ receipts[t] = Nil
    <2>1. WriteReceipt(t, at) = [receipts EXCEPT ![t] = new]
      BY <1>6 DEF WriteReceipt
    <2> QED  BY <1>1, <1>4, <1>6, <2>1
  <1>7. CASE Accepting(t) /\ receipts[t] # Nil /\ receipts[t].digest = Nil
    <2>1. WriteReceipt(t, at) = [receipts EXCEPT ![t] = filled]
      BY <1>7 DEF WriteReceipt
    <2> HIDE DEF filled
    <2> QED  BY <1>3, <1>4, <1>7, <2>1
  <1>8. CASE Accepting(t) /\ receipts[t] # Nil /\ receipts[t].digest # Nil
    <2>1. WriteReceipt(t, at) = receipts
      BY <1>8 DEF WriteReceipt
    <2> QED  BY <1>2, <1>4, <1>8, <2>1
  <1> QED  BY <1>5, <1>6, <1>7, <1>8

\* The triggers keep the record of an XRP payment what its receipt is.
LEMMA RecordSynced ==
    ASSUME ReceiptsInv, assetType = "native",
           NEW t \in Transactions, NEW at \in Nat, Accepting(t),
           NEW written, written = WriteReceipt(t, at)
    PROVE  /\ SyncRecord(t, written) \in [Transactions -> Record \cup {Nil}]
           /\ \A u \in Transactions : u # t => SyncRecord(t, written)[u] = records[u]
           /\ SyncRecord(t, written)[t] \in Record
           /\ SyncRecord(t, written)[t].at = written[t].at
           /\ SyncRecord(t, written)[t].digest = written[t].digest
           /\ SyncRecord(t, written)[t].proof = TRUE
           /\ records[t] # Nil =>
                 /\ SyncRecord(t, written)[t].at = records[t].at
                 /\ records[t].digest # Nil => SyncRecord(t, written) = records
  <1> DEFINE copied == [at |-> written[t].at, digest |-> written[t].digest, proof |-> TRUE]
             filled == [records[t] EXCEPT !.digest = written[t].digest, !.proof = TRUE]
  <1>1. /\ RowsTyped
        /\ records \in [Transactions -> Record \cup {Nil}]
        /\ receipts \in [Transactions -> Receipt \cup {Nil}]
        /\ Nil \notin Record /\ Nil \notin Receipt
    BY ReceiptConstants DEF ReceiptsInv, RowsTyped
  <1>2. /\ written[t] \in Receipt /\ written[t].digest # Nil
        /\ receipts[t] # Nil => written[t].at = receipts[t].at
        /\ receipts[t] # Nil /\ receipts[t].digest # Nil => written = receipts
    BY <1>1, ReceiptWritten
  <1>3. records[t] = Nil <=> receipts[t] = Nil
    <2>1. slotRow.tx # t => receipts[t] = Nil /\ records[t] = Nil
      BY DEF ReceiptsInv, PaidSlotIsProven
    <2>2. slotRow.tx = t => receipts[t] # Nil /\ records[t] # Nil
      BY DEF ReceiptsInv, PaidSlotIsProven, ProofOpens
    <2> QED  BY <2>1, <2>2
  <1>4. records[t] # Nil =>
            /\ records[t] \in Record /\ records[t].proof = TRUE
            /\ records[t].at = receipts[t].at /\ records[t].digest = receipts[t].digest
    <2>1. SUFFICES ASSUME records[t] # Nil
                   PROVE  /\ records[t] \in Record /\ records[t].proof = TRUE
                          /\ records[t].at = receipts[t].at /\ records[t].digest = receipts[t].digest
      OBVIOUS
    <2>2. slotRow.tx = t
      BY <2>1 DEF ReceiptsInv, PaidSlotIsProven
    <2>3. records[t].at = receipts[t].at /\ records[t].digest = receipts[t].digest
      BY <2>2 DEF ReceiptsInv, PaidSlotIsProven
    <2>4. records[t].proof = TRUE
      BY <2>1, Zenon DEF ReceiptsInv, RecordsOfTheirAsset
    <2> QED  BY <1>1, <2>1, <2>3, <2>4
  <1>5. copied \in Record /\ copied.at = written[t].at /\ copied.digest = written[t].digest
            /\ copied.proof = TRUE
    BY <1>2 DEF Receipt, Record
  <1>6. records[t] # Nil => /\ filled \in Record /\ filled.at = records[t].at
                            /\ filled.digest = written[t].digest /\ filled.proof = TRUE
    BY <1>2, <1>4 DEF Receipt, Record
  <1> HIDE DEF copied, filled
  <1>7. CASE written[t] = receipts[t]
    <2>1. SyncRecord(t, written) = records
      BY <1>7 DEF SyncRecord
    <2>2. receipts[t] # Nil
      BY <1>1, <1>2, <1>7
    <2> QED  BY <1>1, <1>3, <1>4, <1>7, <2>1, <2>2
  <1>8. CASE written[t] # receipts[t] /\ records[t] = Nil
    <2>1. SyncRecord(t, written) = [records EXCEPT ![t] = copied]
      BY <1>8 DEF SyncRecord, copied
    <2> QED  BY <1>1, <1>5, <1>8, <2>1
  <1>9. CASE written[t] # receipts[t] /\ records[t] # Nil
    <2>1. records[t].digest = Nil
      BY <1>2, <1>3, <1>4, <1>9
    <2>2. SyncRecord(t, written) = [records EXCEPT ![t] = filled]
      BY <1>9, <2>1 DEF SyncRecord, filled
    <2> QED  BY <1>1, <1>2, <1>3, <1>4, <1>6, <1>9, <2>1, <2>2
  <1> QED  BY <1>7, <1>8, <1>9

LEMMA RecordWritten ==
    ASSUME ReceiptsInv, assetType = "issued", NEW t \in Transactions, NEW at \in Nat
    PROVE  \/ WriteRecord(t, at) = records
           \/ /\ Accepting(t) /\ records[t] = Nil
              /\ WriteRecord(t, at) =
                    [records EXCEPT ![t] = [at |-> at, digest |-> at, proof |-> FALSE]]
  BY DEF WriteRecord

-----------------------------------------------------------------------------
(* What a batch does to the slot: nothing, or it is paid by t now.          *)

SettledBy(t) ==
    /\ slotRow.tx \in {Nil, t} /\ slotRow' = MarkPaid(t)
    /\ receipts' \in [Transactions -> Receipt \cup {Nil}]
    /\ records' \in [Transactions -> Record \cup {Nil}]
    /\ \A u \in Transactions : u # t => receipts'[u] = receipts[u] /\ records'[u] = records[u]
    /\ records'[t] \in Record
    /\ IF assetType = "native"
       THEN /\ receipts'[t] \in Receipt /\ records'[t].proof = TRUE
            /\ records'[t].at = receipts'[t].at /\ records'[t].digest = receipts'[t].digest
       ELSE receipts' = receipts /\ records'[t].proof = FALSE /\ records'[t].digest # Nil
    /\ records[t] # Nil => /\ records'[t].at = records[t].at
                           /\ records[t].digest # Nil => records'[t] = records[t]

BatchDid(t) == UNCHANGED <<slotRow, receipts, records>> \/ SettledBy(t)

Answers == {"conflict", "error", "settled"}

\* A payment that is settled already is marked as it is.
LEMMA MarkedAgain ==
    ASSUME RowsTyped, PaidHasATransaction, NEW t \in Transactions, slotRow.tx = t
    PROVE  MarkPaid(t) = slotRow
  <1>1. t # Nil
    BY ReceiptConstants
  <1>2. slotRow.status = "paid" /\ slotRow.at # Nil
    BY <1>1 DEF PaidHasATransaction
  <1> QED  BY <1>2 DEF RowsTyped, MarkPaid

\* The recorded transactions are that of the slot.
LEMMA OneRecord ==
    ASSUME ReceiptsInv, NEW t \in Transactions
    PROVE  /\ records[t] # Nil <=> slotRow.tx = t
           /\ receipts[t] # Nil => slotRow.tx = t
           /\ slotRow.tx = t /\ assetType = "native" => receipts[t] # Nil
           /\ slotRow.tx = t /\ assetType = "issued" => records[t].digest # Nil /\ records[t].proof = FALSE
  <1>1. records[t] # Nil <=> slotRow.tx = t
    BY DEF ReceiptsInv, PaidSlotIsProven
  <1>2. receipts[t] # Nil => slotRow.tx = t
    BY DEF ReceiptsInv, PaidSlotIsProven
  <1>3. slotRow.tx = t /\ assetType = "native" => receipts[t] # Nil
    BY DEF ReceiptsInv, PaidSlotIsProven, ProofOpens
  <1>4. slotRow.tx = t /\ assetType = "issued" => records[t].digest # Nil /\ records[t].proof = FALSE
    BY <1>1, Zenon DEF ReceiptsInv, RecordsOfTheirAsset
  <1> QED  BY <1>1, <1>2, <1>3, <1>4

LEMMA NativeBatch ==
    ASSUME ReceiptsInv, assetType = "native", NEW t \in Transactions, NEW at \in Nat,
           NEW written, written = WriteReceipt(t, at),
           NEW synced, synced = SyncRecord(t, written),
           NEW slot, slot = IF Marks(t, at, written, synced) THEN MarkPaid(t) ELSE slotRow,
           slotRow' = slot, receipts' = written, records' = synced
    PROVE  BatchDid(t)
  <1>1. RowsTyped /\ PaidHasATransaction /\ receipts \in [Transactions -> Receipt \cup {Nil}]
    BY DEF ReceiptsInv, RowsTyped
  <1>2. CASE Accepting(t)
    <2>1. /\ written \in [Transactions -> Receipt \cup {Nil}] /\ written[t] \in Receipt
          /\ \A u \in Transactions : u # t => written[u] = receipts[u]
      BY <1>1, <1>2, ReceiptWritten
    <2>2. /\ synced \in [Transactions -> Record \cup {Nil}] /\ synced[t] \in Record
          /\ \A u \in Transactions : u # t => synced[u] = records[u]
          /\ synced[t].at = written[t].at /\ synced[t].digest = written[t].digest
          /\ synced[t].proof = TRUE
          /\ records[t] # Nil => /\ synced[t].at = records[t].at
                                 /\ records[t].digest # Nil => synced[t] = records[t]
      BY <1>2, RecordSynced, Zenon
    <2>3. slotRow.tx \in {Nil, t} /\ slot = MarkPaid(t)
      BY <1>2, <2>1, ReceiptConstants DEF Marks, Accepting
    <2>4. SettledBy(t)
      BY <2>1, <2>2, <2>3, Zenon DEF SettledBy
    <2> QED  BY <2>4 DEF BatchDid
  <1>3. CASE ~Accepting(t)
    <2>1. written = receipts
      BY <1>1, <1>3, ReceiptWritten
    <2>2. synced = records
      BY <2>1 DEF SyncRecord
    <2>3. Marks(t, at, written, synced) => slotRow.tx = t
      BY <2>1, OneRecord DEF Marks
    <2>4. slot = slotRow
      BY <1>1, <2>3, MarkedAgain
    <2> QED  BY <2>1, <2>2, <2>4 DEF BatchDid
  <1> QED  BY <1>2, <1>3

LEMMA IssuedBatch ==
    ASSUME ReceiptsInv, assetType = "issued", NEW t \in Transactions, NEW at \in Nat,
           NEW synced, synced = WriteRecord(t, at),
           NEW slot, slot = IF Marks(t, at, receipts, synced) THEN MarkPaid(t) ELSE slotRow,
           slotRow' = slot, receipts' = receipts, records' = synced
    PROVE  BatchDid(t)
  <1>1. RowsTyped /\ PaidHasATransaction
        /\ receipts \in [Transactions -> Receipt \cup {Nil}]
        /\ records \in [Transactions -> Record \cup {Nil}]
        /\ at # Nil /\ assetType # "native" /\ Nil \notin Record
    BY ReceiptConstants DEF ReceiptsInv, RowsTyped
  <1>2. CASE synced = records
    <2>1. Marks(t, at, receipts, synced) => slotRow.tx = t
      BY <1>2, OneRecord DEF Marks
    <2>2. slot = slotRow
      BY <1>1, <2>1, MarkedAgain
    <2> QED  BY <1>2, <2>2 DEF BatchDid
  <1>3. CASE /\ Accepting(t) /\ records[t] = Nil
             /\ synced = [records EXCEPT ![t] = [at |-> at, digest |-> at, proof |-> FALSE]]
    <2> DEFINE new == [at |-> at, digest |-> at, proof |-> FALSE]
    <2>1. new \in Record /\ new.digest = at /\ new.proof = FALSE
      BY DEF Record
    <2>2. synced = [records EXCEPT ![t] = new]
      BY <1>3
    <2> HIDE DEF new
    <2>3. /\ synced \in [Transactions -> Record \cup {Nil}] /\ synced[t] = new
          /\ \A u \in Transactions : u # t => synced[u] = records[u]
      BY <1>1, <2>1, <2>2
    <2>4. slotRow.tx \in {Nil, t} /\ slot = MarkPaid(t)
      BY <1>1, <1>3, <2>1, <2>3 DEF Marks, Accepting
    <2>5. SettledBy(t)
      BY <1>1, <1>3, <2>1, <2>3, <2>4, Zenon DEF SettledBy
    <2> QED  BY <2>5 DEF BatchDid
  <1> QED  BY <1>2, <1>3, RecordWritten

LEMMA SettleDid ==
    ASSUME ReceiptsInv, NEW h \in Handlers, Settle(h)
    PROVE  /\ settling[h].tx \in Transactions /\ BatchDid(settling[h].tx)
           /\ assetType' = assetType /\ clock' = clock
           /\ billStatus' \in {"open", "paid", "needs_review"}
           /\ \E reply \in Answers : AnswerOf(h, reply)
  <1> DEFINE t == settling[h].tx
             at == settling[h].at
             written == IF assetType = "native" THEN WriteReceipt(t, at) ELSE receipts
             synced == IF assetType = "native" THEN SyncRecord(t, written) ELSE WriteRecord(t, at)
             slot == IF Marks(t, at, written, synced) THEN MarkPaid(t) ELSE slotRow
  <1>1. t \in Transactions /\ at \in Nat
    BY DEF Settle, ReceiptsInv, HandlersKnow, Knows
  <1>2. assetType' = assetType /\ clock' = clock
    BY DEF Settle
  <1>3. billStatus' \in {"open", "paid", "needs_review"}
    BY DEF Settle, ReceiptsInv, RowsTyped
  <1>4. \E reply \in Answers : AnswerOf(h, reply)
    BY DEF Settle, Answers
  <1>5. \/ UNCHANGED <<slotRow, receipts, records>>
        \/ slotRow' = slot /\ receipts' = written /\ records' = synced
    BY DEF Settle
  <1>6. CASE UNCHANGED <<slotRow, receipts, records>>
    BY <1>1, <1>2, <1>3, <1>4, <1>6 DEF BatchDid
  <1>7. CASE slotRow' = slot /\ receipts' = written /\ records' = synced
    <2>1. assetType \in {"native", "issued"}
      BY DEF ReceiptsInv, RowsTyped
    <2> HIDE DEF t, at
    <2>2. ASSUME assetType = "native" PROVE BatchDid(t)
      <3> DEFINE w == WriteReceipt(t, at)
                 y == SyncRecord(t, w)
      <3>1. written = w /\ synced = y
        BY <2>2
      <3>2. /\ slotRow' = IF Marks(t, at, w, y) THEN MarkPaid(t) ELSE slotRow
            /\ receipts' = w /\ records' = y
        BY <1>7, <3>1
      <3> HIDE DEF written, synced, slot, w, y
      <3> QED  BY <1>1, <2>2, <3>2, NativeBatch DEF w, y
    <2>3. ASSUME assetType = "issued" PROVE BatchDid(t)
      <3> DEFINE y == WriteRecord(t, at)
      <3>1. written = receipts /\ synced = y
        BY <2>3
      <3>2. /\ slotRow' = IF Marks(t, at, receipts, y) THEN MarkPaid(t) ELSE slotRow
            /\ receipts' = receipts /\ records' = y
        BY <1>7, <3>1
      <3> HIDE DEF written, synced, slot, y
      <3> QED  BY <1>1, <2>3, <3>2, IssuedBatch DEF y
    <2>4. BatchDid(t)
      BY <2>1, <2>2, <2>3, Zenon
    <2> QED  BY <1>1, <1>2, <1>3, <1>4, <2>4 DEF t
  <1> QED  BY <1>5, <1>6, <1>7

-----------------------------------------------------------------------------
(* The steps of a handler.                                                 *)

\* A slot that is paid stays paid by its transaction.
KeepsThePayment == slotRow.tx # Nil => slotRow'.tx = slotRow.tx

LEMMA BatchKeepsThePayment ==
    ASSUME ReceiptsInv, NEW t \in Transactions, BatchDid(t)
    PROVE  KeepsThePayment
  BY DEF BatchDid, SettledBy, MarkPaid, KeepsThePayment

LEMMA HandlerMoves ==
    ASSUME ReceiptsInv, KeepsThePayment, NEW h \in Handlers, NEW g \in HandlerStates,
           settling' = [settling EXCEPT ![h] = g], Knows(g)
    PROVE  settling' \in [Handlers -> HandlerStates] /\ HandlersKnow'
  <1>1. settling \in [Handlers -> HandlerStates]
    BY DEF ReceiptsInv, RowsTyped
  <1>2. settling' \in [Handlers -> HandlerStates]
    BY <1>1
  <1>3. ASSUME NEW f \in Handlers PROVE Knows(settling[f])'
    <2>1. settling'[f] = g \/ settling'[f] = settling[f]
      BY <1>1
    <2>2. Knows(settling[f])
      BY DEF ReceiptsInv, HandlersKnow
    <2> QED  BY <2>1, <2>2 DEF Knows, KeepsThePayment
  <1> QED  BY <1>2, <1>3 DEF HandlersKnow

LEMMA HandlersRest ==
    ASSUME ReceiptsInv, KeepsThePayment, settling' = settling
    PROVE  settling' \in [Handlers -> HandlerStates] /\ HandlersKnow'
  BY DEF ReceiptsInv, RowsTyped, HandlersKnow, Knows, KeepsThePayment

LEMMA Answering ==
    ASSUME ReceiptsInv, KeepsThePayment, NEW h \in Handlers, NEW reply \in Answers,
           AnswerOf(h, reply)
    PROVE  settling' \in [Handlers -> HandlerStates] /\ HandlersKnow'
  <1> DEFINE g == [settling[h] EXCEPT !.step = "idle", !.answer = reply]
  <1>1. settling[h] \in HandlerStates
    BY DEF ReceiptsInv, RowsTyped
  <1>2. g \in HandlerStates /\ g.step = "idle"
    BY <1>1 DEF HandlerStates, Answers
  <1>3. settling' = [settling EXCEPT ![h] = g]
    BY DEF AnswerOf
  <1> HIDE DEF g
  <1>4. Knows(g)
    BY <1>2 DEF Knows
  <1> QED  BY <1>2, <1>3, <1>4, HandlerMoves

LEMMA Loading ==
    ASSUME ReceiptsInv, NEW h \in Handlers, Load(h)
    PROVE  settling' \in [Handlers -> HandlerStates] /\ HandlersKnow'
  <1> DEFINE g == [Idle EXCEPT !.step = "verify", !.saw = slotRow.tx]
  <1>1. slotRow.tx \in Transactions \cup {Nil}
    BY DEF ReceiptsInv, RowsTyped
  <1>2. Idle \in HandlerStates
    BY DEF Idle, HandlerStates
  <1>3. g \in HandlerStates /\ g.step = "verify" /\ g.saw = slotRow.tx
    BY <1>1, <1>2 DEF HandlerStates
  <1>4. settling' = [settling EXCEPT ![h] = g] /\ KeepsThePayment
    BY DEF Load, KeepsThePayment
  <1> HIDE DEF g
  <1>5. Knows(g)
    BY <1>3 DEF Knows
  <1> QED  BY <1>3, <1>4, <1>5, HandlerMoves

LEMMA Confirming ==
    ASSUME ReceiptsInv, NEW h \in Handlers, NEW t \in Transactions, ConfirmOnLedger(h, t)
    PROVE  settling' \in [Handlers -> HandlerStates] /\ HandlersKnow'
  <1> DEFINE confirmed == [settling[h] EXCEPT !.step = "settle", !.tx = t, !.at = clock]
             refused == [settling[h] EXCEPT !.step = "idle", !.tx = t, !.answer = "conflict"]
  <1>1. settling[h] \in HandlerStates /\ clock \in Nat /\ settling[h].step = "verify"
        /\ Knows(settling[h])
    BY DEF ReceiptsInv, RowsTyped, HandlersKnow, ConfirmOnLedger
  <1>2. KeepsThePayment
    BY DEF ConfirmOnLedger, KeepsThePayment
  <1>3. settling \in [Handlers -> HandlerStates]
    BY DEF ReceiptsInv, RowsTyped
  <1>4. CASE settling[h].saw \in {Nil, t}
    <2>1. /\ confirmed \in HandlerStates /\ confirmed.step = "settle" /\ confirmed.tx = t
          /\ confirmed.at = clock /\ confirmed.saw = settling[h].saw
      BY <1>1 DEF HandlerStates
    <2>2. settling' = [settling EXCEPT ![h] = confirmed]
      BY <1>3, <1>4 DEF ConfirmOnLedger
    <2> HIDE DEF confirmed
    <2>3. Knows(confirmed)
      BY <1>1, <1>4, <2>1 DEF Knows
    <2> QED  BY <1>2, <2>1, <2>2, <2>3, HandlerMoves
  <1>5. CASE settling[h].saw \notin {Nil, t}
    <2>1. refused \in HandlerStates /\ refused.step = "idle"
      BY <1>1 DEF HandlerStates
    <2>2. settling' = [settling EXCEPT ![h] = refused]
      BY <1>3, <1>5 DEF ConfirmOnLedger
    <2> HIDE DEF refused
    <2>3. Knows(refused)
      BY <2>1 DEF Knows
    <2> QED  BY <1>2, <2>1, <2>2, <2>3, HandlerMoves
  <1> QED  BY <1>4, <1>5

-----------------------------------------------------------------------------
(* A batch keeps the invariant.                                            *)

LEMMA BatchKeepsRows ==
    ASSUME ReceiptsInv, NEW t \in Transactions, BatchDid(t), assetType' = assetType
    PROVE  /\ slotRow' \in [status : {"open", "paid", "needs_review"},
                            tx : Transactions \cup {Nil}, at : Nat \cup {Nil}]
           /\ receipts' \in [Transactions -> Receipt \cup {Nil}]
           /\ records' \in [Transactions -> Record \cup {Nil}]
           /\ PaidHasATransaction'
  <1>1. CASE UNCHANGED <<slotRow, receipts, records>>
    BY <1>1 DEF ReceiptsInv, RowsTyped, PaidHasATransaction
  <1>2. CASE SettledBy(t)
    <2>1. RowsTyped /\ t # Nil /\ clock # Nil
      BY ReceiptConstants DEF ReceiptsInv, RowsTyped
    <2>2. slotRow' = MarkPaid(t) /\ receipts' \in [Transactions -> Receipt \cup {Nil}]
          /\ records' \in [Transactions -> Record \cup {Nil}]
      BY <1>2 DEF SettledBy
    <2> QED  BY <2>1, <2>2 DEF RowsTyped, MarkPaid, PaidHasATransaction
  <1> QED  BY <1>1, <1>2 DEF BatchDid

LEMMA BatchKeepsProofs ==
    ASSUME ReceiptsInv, NEW t \in Transactions, BatchDid(t), assetType' = assetType
    PROVE  RecordsOfTheirAsset' /\ PaidSlotIsProven'
  <1>1. CASE UNCHANGED <<slotRow, receipts, records>>
    BY <1>1 DEF ReceiptsInv, RecordsOfTheirAsset, PaidSlotIsProven, ProgressLoads, ProofOpens
  <1>2. CASE SettledBy(t)
    <2>1. t # Nil /\ Nil \notin Record /\ Nil \notin Receipt
      BY ReceiptConstants
    <2>2. slotRow'.tx = t /\ records'[t] # Nil
      BY <1>2, <2>1 DEF SettledBy, MarkPaid
    <2>3. \A u \in Transactions : u # t =>
              /\ receipts'[u] = receipts[u] /\ records'[u] = records[u]
              /\ receipts[u] = Nil /\ records[u] = Nil
      <3>1. \A u \in Transactions : u # t => slotRow.tx # u
        BY <1>2, <2>1, ReceiptConstants DEF SettledBy
      <3> QED  BY <1>2, <3>1, OneRecord DEF SettledBy
    <2>4. assetType = "native" =>
              /\ receipts'[t] # Nil /\ records'[t].proof = TRUE
              /\ records'[t].at = receipts'[t].at /\ records'[t].digest = receipts'[t].digest
      BY <1>2, <2>1 DEF SettledBy
    <2>5. assetType # "native" =>
              receipts' = receipts /\ records'[t].proof = FALSE /\ records'[t].digest # Nil
      BY <1>2, Zenon DEF SettledBy
    <2>6. assetType = "issued" => receipts[t] = Nil
      BY DEF ReceiptsInv, PaidSlotIsProven
    <2>7. assetType \in {"native", "issued"}
      BY DEF ReceiptsInv, RowsTyped
    <2>8. RecordsOfTheirAsset'
      <3>1. ASSUME NEW u \in Transactions, records'[u] # Nil
            PROVE  IF assetType = "native" THEN records'[u].proof = TRUE
                   ELSE records'[u].proof = FALSE /\ records'[u].digest # Nil
        <4>1. u = t
          BY <2>3, <3>1
        <4> QED  BY <2>4, <2>5, <4>1, Zenon
      <3> QED  BY <3>1, Zenon DEF RecordsOfTheirAsset
    <2>9. ProgressLoads'
      BY <2>2, <2>4 DEF ProgressLoads
    <2>10. \A u \in Transactions : records'[u] # Nil <=> slotRow'.tx = u
      BY <2>2, <2>3
    <2>11. ASSUME NEW u \in Transactions
           PROVE  IF assetType = "issued" \/ slotRow'.tx # u THEN receipts'[u] = Nil
                  ELSE /\ receipts'[u] # Nil
                       /\ records'[u].at = receipts'[u].at /\ records'[u].digest = receipts'[u].digest
      <3>1. CASE u # t
        BY <2>2, <2>3, <3>1
      <3>2. CASE u = t
        BY <2>2, <2>4, <2>5, <2>6, <2>7, <3>2
      <3> QED  BY <3>1, <3>2
    <2>12. PaidSlotIsProven'
      BY <2>9, <2>10, <2>11, Zenon DEF PaidSlotIsProven, ProofOpens
    <2> QED  BY <2>8, <2>12
  <1> QED  BY <1>1, <1>2 DEF BatchDid

-----------------------------------------------------------------------------
(* What happens around them keeps it, too.                                 *)

LEMMA QuietRows ==
    ASSUME ReceiptsInv, UNCHANGED <<assetType, receipts, records>>,
           slotRow'.tx = slotRow.tx, slotRow'.status = "paid" <=> slotRow.status = "paid"
    PROVE  RecordsOfTheirAsset' /\ PaidSlotIsProven'
  <1>1. RecordsOfTheirAsset'
    BY Zenon DEF ReceiptsInv, RecordsOfTheirAsset
  <1>2. ProgressLoads'
    BY DEF ReceiptsInv, PaidSlotIsProven, ProgressLoads
  <1>3. PaidSlotIsProven'
    BY <1>2 DEF ReceiptsInv, PaidSlotIsProven, ProofOpens
  <1> QED  BY <1>1, <1>3

LEMMA ReviewsKeepTheRows ==
    ASSUME ReceiptsInv, (\E own \in BOOLEAN : Review(own)) \/ Release
    PROVE  /\ slotRow' \in [status : {"open", "paid", "needs_review"},
                            tx : Transactions \cup {Nil}, at : Nat \cup {Nil}]
           /\ slotRow'.tx = slotRow.tx /\ slotRow'.at = slotRow.at
           /\ slotRow'.status = "paid" <=> slotRow.status = "paid"
           /\ billStatus' \in {"open", "paid", "needs_review"}
           /\ UNCHANGED <<assetType, receipts, records, clock, settling>>
  <1>1. RowsTyped /\ PaidHasATransaction
    BY DEF ReceiptsInv
  <1>2. CASE \E own \in BOOLEAN : Review(own)
    BY <1>1, <1>2 DEF RowsTyped, Review
  <1>3. CASE Release
    BY <1>1, <1>3 DEF RowsTyped, PaidHasATransaction, Release, Open
  <1> QED  BY <1>2, <1>3

LEMMA ReceiptsStep ==
    ASSUME ReceiptsInv, ReceiptsNext
    PROVE  ReceiptsInv'
  <1>1. ASSUME NEW h \in Handlers, Load(h) PROVE ReceiptsInv'
    <2>1. settling' \in [Handlers -> HandlerStates] /\ HandlersKnow'
      BY <1>1, Loading
    <2>2. UNCHANGED <<assetType, slotRow, billStatus, receipts, records, clock>>
      BY <1>1 DEF Load
    <2>3. RecordsOfTheirAsset' /\ PaidSlotIsProven'
      BY <2>2, QuietRows
    <2> QED  BY <2>1, <2>2, <2>3 DEF ReceiptsInv, RowsTyped, PaidHasATransaction
  <1>2. ASSUME NEW h \in Handlers, NEW t \in Transactions, ConfirmOnLedger(h, t)
        PROVE  ReceiptsInv'
    <2>1. settling' \in [Handlers -> HandlerStates] /\ HandlersKnow'
      BY <1>2, Confirming
    <2>2. UNCHANGED <<assetType, slotRow, billStatus, receipts, records, clock>>
      BY <1>2 DEF ConfirmOnLedger
    <2>3. RecordsOfTheirAsset' /\ PaidSlotIsProven'
      BY <2>2, QuietRows
    <2> QED  BY <2>1, <2>2, <2>3 DEF ReceiptsInv, RowsTyped, PaidHasATransaction
  <1>3. ASSUME NEW h \in Handlers, Settle(h) PROVE ReceiptsInv'
    <2>1. settling[h].tx \in Transactions /\ BatchDid(settling[h].tx)
          /\ assetType' = assetType /\ clock' = clock
          /\ billStatus' \in {"open", "paid", "needs_review"}
          /\ \E reply \in Answers : AnswerOf(h, reply)
      BY <1>3, SettleDid
    <2>2. KeepsThePayment
      BY <2>1, BatchKeepsThePayment
    <2>3. settling' \in [Handlers -> HandlerStates] /\ HandlersKnow'
      BY <2>1, <2>2, Answering
    <2>4. /\ slotRow' \in [status : {"open", "paid", "needs_review"},
                           tx : Transactions \cup {Nil}, at : Nat \cup {Nil}]
          /\ receipts' \in [Transactions -> Receipt \cup {Nil}]
          /\ records' \in [Transactions -> Record \cup {Nil}]
          /\ PaidHasATransaction'
      BY <2>1, BatchKeepsRows
    <2>5. RecordsOfTheirAsset' /\ PaidSlotIsProven'
      BY <2>1, BatchKeepsProofs
    <2> QED  BY <2>1, <2>3, <2>4, <2>5 DEF ReceiptsInv, RowsTyped
  <1>4. ASSUME NEW h \in Handlers, Outage(h) PROVE ReceiptsInv'
    <2>1. UNCHANGED <<assetType, slotRow, billStatus, receipts, records, clock>>
          /\ AnswerOf(h, "error")
      BY <1>4 DEF Outage
    <2>2. settling' \in [Handlers -> HandlerStates] /\ HandlersKnow'
      BY <2>1, Answering DEF KeepsThePayment, Answers
    <2>3. RecordsOfTheirAsset' /\ PaidSlotIsProven'
      BY <2>1, QuietRows
    <2> QED  BY <2>1, <2>2, <2>3 DEF ReceiptsInv, RowsTyped, PaidHasATransaction
  <1>5. CASE (\E own \in BOOLEAN : Review(own)) \/ Release
    <2>1. /\ slotRow' \in [status : {"open", "paid", "needs_review"},
                           tx : Transactions \cup {Nil}, at : Nat \cup {Nil}]
          /\ slotRow'.tx = slotRow.tx /\ slotRow'.at = slotRow.at
          /\ slotRow'.status = "paid" <=> slotRow.status = "paid"
          /\ billStatus' \in {"open", "paid", "needs_review"}
          /\ UNCHANGED <<assetType, receipts, records, clock, settling>>
      BY <1>5, ReviewsKeepTheRows
    <2>2. RecordsOfTheirAsset' /\ PaidSlotIsProven'
      BY <2>1, QuietRows
    <2>3. settling' \in [Handlers -> HandlerStates] /\ HandlersKnow'
      BY <2>1, HandlersRest DEF KeepsThePayment
    <2> QED  BY <2>1, <2>2, <2>3 DEF ReceiptsInv, RowsTyped, PaidHasATransaction
  <1>6. CASE Tick
    <2>1. UNCHANGED <<assetType, slotRow, billStatus, receipts, records, settling>>
          /\ clock' = clock + 1
      BY <1>6 DEF Tick
    <2>2. RecordsOfTheirAsset' /\ PaidSlotIsProven'
      BY <2>1, QuietRows
    <2>3. settling' \in [Handlers -> HandlerStates] /\ HandlersKnow'
      BY <2>1, HandlersRest DEF KeepsThePayment
    <2> QED  BY <2>1, <2>2, <2>3 DEF ReceiptsInv, RowsTyped, PaidHasATransaction
  <1> QED  BY <1>1, <1>2, <1>3, <1>4, <1>5, <1>6 DEF ReceiptsNext

LEMMA ReceiptsStutter ==
    ASSUME ReceiptsInv, UNCHANGED receiptVars
    PROVE  ReceiptsInv'
  <1>1. UNCHANGED <<assetType, slotRow, billStatus, receipts, records, clock, settling>>
    BY DEF receiptVars
  <1>2. RecordsOfTheirAsset' /\ PaidSlotIsProven'
    BY <1>1, QuietRows
  <1>3. settling' \in [Handlers -> HandlerStates] /\ HandlersKnow'
    BY <1>1, HandlersRest DEF KeepsThePayment
  <1> QED  BY <1>1, <1>2, <1>3 DEF ReceiptsInv, RowsTyped, PaidHasATransaction

LEMMA ReceiptsStart ==
    ASSUME ReceiptsInit
    PROVE  ReceiptsInv
  <1> DEFINE old == [at |-> 0, digest |-> Nil]
             copied == [at |-> 0, digest |-> Nil, proof |-> TRUE]
  <1>1. Idle \in HandlerStates /\ Idle.step = "idle"
    BY DEF Idle, HandlerStates
  <1>2. settling \in [Handlers -> HandlerStates] /\ HandlersKnow
    BY <1>1 DEF ReceiptsInit, HandlersKnow, Knows
  <1>3. clock \in Nat /\ assetType \in {"native", "issued"}
    BY DEF ReceiptsInit
  <1>4. CASE slotRow = Open /\ billStatus = "open" /\ receipts = NoRows /\ records = NoRows
    <2>1. Nil \notin Transactions
      BY ReceiptConstants
    <2>2. RowsTyped /\ PaidHasATransaction
      BY <1>2, <1>3, <1>4 DEF RowsTyped, PaidHasATransaction, Open, NoRows
    <2>3. RecordsOfTheirAsset /\ PaidSlotIsProven
      BY <1>4, <2>1 DEF RecordsOfTheirAsset, PaidSlotIsProven, ProgressLoads, Open, NoRows
    <2> QED  BY <1>2, <2>2, <2>3 DEF ReceiptsInv
  <1>5. ASSUME assetType = "native", NEW t \in Transactions, Migrated(t) PROVE ReceiptsInv
    <2>1. /\ old \in Receipt /\ old.at = 0 /\ old.digest = Nil
          /\ copied \in Record /\ copied.at = 0 /\ copied.digest = Nil /\ copied.proof = TRUE
          /\ Nil \notin Receipt /\ Nil \notin Record /\ t # Nil /\ 0 # Nil
      BY ReceiptConstants DEF Receipt, Record
    <2>2. /\ slotRow = [status |-> "paid", tx |-> t, at |-> 0] /\ billStatus = "paid"
          /\ receipts = [NoRows EXCEPT ![t] = old] /\ records = [NoRows EXCEPT ![t] = copied]
      BY <1>5 DEF Migrated
    <2> HIDE DEF old, copied
    <2>3. /\ receipts \in [Transactions -> Receipt \cup {Nil}] /\ receipts[t] = old
          /\ records \in [Transactions -> Record \cup {Nil}] /\ records[t] = copied
          /\ \A u \in Transactions : u # t => receipts[u] = Nil /\ records[u] = Nil
      BY <2>1, <2>2 DEF NoRows
    <2>4. RowsTyped /\ PaidHasATransaction
      BY <1>2, <1>3, <2>1, <2>2, <2>3 DEF RowsTyped, PaidHasATransaction
    <2>5. RecordsOfTheirAsset
      <3>1. ASSUME NEW u \in Transactions, records[u] # Nil PROVE records[u].proof = TRUE
        BY <2>1, <2>3, <3>1
      <3> QED  BY <1>5, <3>1, Zenon DEF RecordsOfTheirAsset
    <2>6. PaidSlotIsProven
      <3>1. slotRow.tx = t
        BY <2>2
      <3>2. ProgressLoads
        BY <2>1, <2>3, <3>1 DEF ProgressLoads
      <3> QED  BY <1>5, <2>1, <2>3, <3>1, <3>2 DEF PaidSlotIsProven, ProofOpens
    <2> QED  BY <1>2, <2>4, <2>5, <2>6 DEF ReceiptsInv
  <1> QED  BY <1>4, <1>5 DEF ReceiptsInit

THEOREM ReceiptsAreInvariant == ReceiptsSpec => []ReceiptsInv
  <1>1. ReceiptsInit => ReceiptsInv
    BY ReceiptsStart
  <1>2. ReceiptsInv /\ [ReceiptsNext]_receiptVars => ReceiptsInv'
    BY ReceiptsStep, ReceiptsStutter
  <1> QED  BY <1>1, <1>2, PTL DEF ReceiptsSpec

\* Who paid can prove it, and nobody else: whichever verifications and reconciliations
\* overlap, the two tables tell the same of the transaction that the slot was marked with,
\* and of no other one (payment-receipts.ts, migrations 0006 and 0007).
THEOREM PaymentsAreProven == ReceiptsSpec => []PaidSlotIsProven
  <1>1. ReceiptsInv => PaidSlotIsProven
    BY DEF ReceiptsInv
  <1> QED  BY <1>1, ReceiptsAreInvariant, PTL

-----------------------------------------------------------------------------
(* Verifying again.                                                        *)

PaymentStays ==
    /\ slotRow.status = "paid" => slotRow' = slotRow
    /\ \A t \in Transactions : records[t] # Nil =>
          /\ records'[t] # Nil /\ records'[t].at = records[t].at
          /\ records[t].digest # Nil => records'[t] = records[t]

LEMMA BatchesKeepThePayment ==
    ASSUME ReceiptsInv, NEW t \in Transactions, BatchDid(t)
    PROVE  PaymentStays
  <1>1. CASE UNCHANGED <<slotRow, receipts, records>>
    BY <1>1 DEF PaymentStays
  <1>2. CASE SettledBy(t)
    <2>1. slotRow.status = "paid" => slotRow' = slotRow
      <3>1. slotRow.status = "paid" => slotRow.tx = t
        BY <1>2 DEF SettledBy, ReceiptsInv, PaidHasATransaction
      <3> QED  BY <1>2, <3>1, MarkedAgain DEF SettledBy, ReceiptsInv
    <2>2. ASSUME NEW u \in Transactions, records[u] # Nil
          PROVE  /\ records'[u] # Nil /\ records'[u].at = records[u].at
                 /\ records[u].digest # Nil => records'[u] = records[u]
      <3>1. CASE u = t
        BY <1>2, <2>2, <3>1, ReceiptConstants DEF SettledBy
      <3>2. CASE u # t
        BY <1>2, <2>2, <3>2 DEF SettledBy
      <3> QED  BY <3>1, <3>2
    <2> QED  BY <2>1, <2>2 DEF PaymentStays
  <1> QED  BY <1>1, <1>2 DEF BatchDid

LEMMA StepsKeepThePayment ==
    ASSUME ReceiptsInv, [ReceiptsNext]_receiptVars
    PROVE  PaymentStays
  <1>1. ASSUME UNCHANGED <<slotRow, records>> PROVE PaymentStays
    BY <1>1 DEF PaymentStays
  <1>2. ASSUME NEW h \in Handlers, Settle(h) PROVE PaymentStays
    BY <1>2, SettleDid, BatchesKeepThePayment
  <1>3. CASE (\E own \in BOOLEAN : Review(own)) \/ Release
    BY <1>3 DEF Review, Release, PaymentStays
  <1>4. CASE Tick \/ UNCHANGED receiptVars
    BY <1>1, <1>4 DEF Tick, receiptVars
  <1>5. ASSUME NEW h \in Handlers,
               Load(h) \/ (\E t \in Transactions : ConfirmOnLedger(h, t)) \/ Outage(h)
        PROVE  PaymentStays
    BY <1>1, <1>5 DEF Load, ConfirmOnLedger, Outage
  <1> QED  BY <1>2, <1>3, <1>4, <1>5 DEF ReceiptsNext

\* A verification of what is settled is acknowledged.
LEMMA RepeatedIsAcknowledged ==
    ASSUME ReceiptsInv, NEW h \in Handlers, Settle(h),
           settling[h].saw = settling[h].tx, TakesPayments
    PROVE  settling'[h].answer = "settled"
  <1> DEFINE t == settling[h].tx
             at == settling[h].at
             written == IF assetType = "native" THEN WriteReceipt(t, at) ELSE receipts
             synced == IF assetType = "native" THEN SyncRecord(t, written) ELSE WriteRecord(t, at)
             changed == Marks(t, at, written, synced)
             slot == IF changed THEN MarkPaid(t) ELSE slotRow
             bill == IF slot.status = "paid" /\ TakesPayments THEN "paid" ELSE billStatus
             wrote == IF assetType = "native" THEN written # receipts ELSE synced # records
  <1>1. t \in Transactions /\ at \in Nat /\ t # Nil /\ slotRow.tx = t
        /\ settling[h] \in HandlerStates /\ settling \in [Handlers -> HandlerStates]
    BY ReceiptConstants DEF Settle, ReceiptsInv, RowsTyped, HandlersKnow, Knows
  <1>2. slot = slotRow /\ slotRow.status = "paid"
    BY <1>1, MarkedAgain DEF ReceiptsInv, PaidHasATransaction
  <1>3. Accepting(t) /\ bill = "paid"
    BY <1>1, <1>2 DEF Accepting
  <1>4. synced[t] # Nil /\ ReadsBack(slot, bill, written, synced)
           /\ Confirms(h, slot, changed, wrote, synced)
    <2> HIDE DEF t, at, slot, bill
    <2>1. ASSUME assetType = "native"
          PROVE  /\ synced[t] # Nil /\ ReadsBack(slot, bill, written, synced)
                 /\ Confirms(h, slot, changed, wrote, synced)
      <3> DEFINE w == WriteReceipt(t, at)
                 y == SyncRecord(t, w)
      <3>1. written = w /\ synced = y
        BY <2>1
      <3>2. w[t] \in Receipt
        BY <1>1, <1>3, ReceiptWritten DEF ReceiptsInv
      <3> HIDE DEF w, written, wrote
      <3>3. y[t] \in Record
        BY <1>1, <1>3, <2>1, RecordSynced DEF w
      <3> HIDE DEF y, synced
      <3>4. w[t] # Nil /\ y[t] # Nil
        BY <3>2, <3>3, ReceiptConstants
      <3>5. changed
        BY <1>1, <1>2, <2>1, <3>1, <3>4 DEF Marks
      <3> HIDE DEF changed
      <3> QED  BY <1>1, <1>2, <1>3, <2>1, <3>1, <3>4, <3>5 DEF ReadsBack, Confirms
    <2>2. ASSUME assetType = "issued"
          PROVE  /\ synced[t] # Nil /\ ReadsBack(slot, bill, written, synced)
                 /\ Confirms(h, slot, changed, wrote, synced)
      <3>1. records[t] # Nil /\ records[t].digest # Nil /\ records[t].proof = FALSE
        BY <1>1, <2>2, OneRecord
      <3>2. synced = records /\ ~wrote
        BY <2>2, <3>1 DEF WriteRecord
      <3>3. settling[h].saw = settling[h].tx
        OBVIOUS
      <3> HIDE DEF synced, wrote, changed, written
      <3>4. ReadsBack(slot, bill, written, synced)
        BY <1>1, <1>2, <1>3, <2>2, <3>1, <3>2 DEF ReadsBack
      <3>5. ~synced[slot.tx].proof
        BY <1>1, <1>2, <3>1, <3>2, Zenon
      <3>6. Confirms(h, slot, changed, wrote, synced)
        BY <2>2, <3>2, <3>3, <3>5, Zenon DEF Confirms
      <3> QED  BY <3>1, <3>2, <3>4, <3>6
    <2> QED  BY <2>1, <2>2 DEF ReceiptsInv, RowsTyped
  <1>5. AnswerOf(h, "settled")
    BY <1>1, <1>2, <1>4, Zenon DEF Settle
  <1>6. settling[h] \in HandlerStates
    BY <1>1
  <1> QED  BY <1>1, <1>5 DEF AnswerOf, HandlerStates

\* Verifying a settled payment again moves no accepted time, transaction or digest, and is
\* acknowledged (settleVerifiedPaymentSlot, settleVerifiedIssuedPaymentSlot).
THEOREM RepeatsChangeNothing == ReceiptsSpec => ReverificationIsIdempotent
  <1>1. ReceiptsInv /\ [ReceiptsNext]_receiptVars =>
            [/\ slotRow.status = "paid" => slotRow' = slotRow
             /\ \A t \in Transactions : records[t] # Nil =>
                   /\ records'[t] # Nil /\ records'[t].at = records[t].at
                   /\ records[t].digest # Nil => records'[t] = records[t]
             /\ \A h \in Handlers :
                   Settle(h) /\ settling[h].saw = settling[h].tx /\ TakesPayments
                      => settling'[h].answer = "settled"]_receiptVars
    BY StepsKeepThePayment, RepeatedIsAcknowledged DEF PaymentStays
  <1> QED  BY <1>1, ReceiptsAreInvariant, PTL DEF ReceiptsSpec, ReverificationIsIdempotent

-----------------------------------------------------------------------------
(* Numbers.                                                                *)

LEMMA LeastNumber ==
    ASSUME NEW T, T \subseteq Nat, T # {}
    PROVE  \E n \in T : \A m \in T : n <= m
  <1>1. \E n \in T : \A m \in T : <<m, n>> \notin OpToRel(<, Nat)
    BY NatLessThanWellFounded, WFMin
  <1>2. PICK n \in T : \A m \in T : <<m, n>> \notin OpToRel(<, Nat)
    BY <1>1
  <1>3. ASSUME NEW m \in T PROVE n <= m
    <2>1. m \in Nat /\ n \in Nat /\ <<m, n>> \notin OpToRel(<, Nat)
      BY <1>2
    <2> QED  BY <2>1 DEF OpToRel
  <1> QED  BY <1>2, <1>3

\* The powers that amounts of MaxDigits digits are aligned by.
LEMMA PowerIsPositive ==
    ASSUME NEW n \in 0..MaxDigits
    PROVE  10^n \in Nat /\ 10^n > 0
  <1> DEFINE T == {m \in 0..MaxDigits : ~(10^m \in Nat /\ 10^m > 0)}
  <1>1. SUFFICES ASSUME n \in T PROVE FALSE
    OBVIOUS
  <1>2. T \subseteq Nat /\ T # {}
    BY <1>1, PowersOfTen
  <1>3. PICK m \in T : \A k \in T : m <= k
    BY <1>2, LeastNumber
  <1>4. m \in 0..MaxDigits /\ ~(10^m \in Nat /\ 10^m > 0)
    BY <1>3
  <1>5. CASE m = 0
    BY <1>4, <1>5, PowersOfTen
  <1>6. CASE m # 0
    <2>1. m \in 1..MaxDigits /\ m - 1 \in 0..MaxDigits /\ ~(m <= m - 1)
      BY <1>4, <1>6, PowersOfTen
    <2>2. 10^(m - 1) \in Nat /\ 10^(m - 1) > 0
      <3>1. m - 1 \notin T
        BY <1>3, <2>1
      <3> QED  BY <2>1, <3>1
    <2>3. 10^m = 10 * 10^(m - 1)
      BY <2>1, PowersOfTen
    <2>4. 10 * 10^(m - 1) \in Nat /\ 10 * 10^(m - 1) > 0
      <3> DEFINE p == 10^(m - 1)
      <3>1. p \in Nat /\ p > 0
        BY <2>2
      <3> HIDE DEF p
      <3>2. 10 * p \in Nat /\ 10 * p > 0
        BY <3>1
      <3> QED  BY <3>2 DEF p
    <2> QED  BY <1>4, <2>3, <2>4
  <1> QED  BY <1>5, <1>6

LEMMA PowersGrow ==
    ASSUME NEW m \in 0..MaxDigits, NEW n \in 0..MaxDigits, m <= n
    PROVE  10^m <= 10^n
  <1> DEFINE T == {k \in m..MaxDigits : ~(10^m <= 10^k)}
  <1>1. SUFFICES ASSUME n \in T PROVE FALSE
    BY PowersOfTen
  <1>2. T \subseteq Nat /\ T # {}
    <2>1. m..MaxDigits \subseteq Nat
      BY PowersOfTen
    <2>2. T \subseteq m..MaxDigits
      BY Zenon
    <2> QED  BY <1>1, <2>1, <2>2, Zenon
  <1>3. PICK k \in T : \A j \in T : k <= j
    BY <1>2, LeastNumber
  <1>4. k \in m..MaxDigits /\ ~(10^m <= 10^k) /\ 10^m \in Nat
    BY <1>3, PowerIsPositive
  <1>5. k # m
    BY <1>4
  <1>6. k \in 1..MaxDigits /\ k - 1 \in m..MaxDigits /\ k - 1 \in 0..MaxDigits /\ ~(k <= k - 1)
    BY <1>4, <1>5, PowersOfTen
  <1>7. k - 1 \notin T
    BY <1>3, <1>6
  <1>8. 10^m <= 10^(k - 1)
    BY <1>6, <1>7
  <1>9. 10^k = 10 * 10^(k - 1) /\ 10^(k - 1) \in Nat
    BY <1>6, PowersOfTen, PowerIsPositive
  <1>10. 10^m <= 10^k
    <2> DEFINE p == 10^(k - 1)
    <2>1. p \in Nat /\ 10^m <= p /\ 10^k = 10 * p
      BY <1>8, <1>9
    <2> HIDE DEF p
    <2> QED  BY <1>4, <2>1
  <1> QED  BY <1>4, <1>10

LEMMA NumberOfDigits ==
    ASSUME NEW c \in Nat, \E d \in 1..MaxDigits : c < 10^d
    PROVE  NumDigits(c) \in 1..MaxDigits /\ c < 10^NumDigits(c)
  <1>1. CASE c = 0
    <2>1. NumDigits(c) = 1
      BY <1>1 DEF NumDigits
    <2>2. 1 \in 1..MaxDigits
      BY PowersOfTen
    <2>3. 10^1 > 0
      BY <2>2, PowerIsPositive
    <2> QED  BY <1>1, <2>1, <2>2, <2>3
  <1>2. CASE c # 0
    <2> DEFINE T == {d \in 1..MaxDigits : c < 10^d}
    <2>1. T \subseteq Nat /\ T # {}
      <3>1. 1..MaxDigits \subseteq Nat
        BY PowersOfTen
      <3>2. T \subseteq 1..MaxDigits /\ T # {}
        BY Zenon
      <3> QED  BY <3>1, <3>2, Zenon
    <2>2. PICK d \in T : \A m \in T : d <= m
      BY <2>1, LeastNumber
    <2>3. d \in 1..MaxDigits /\ c < 10^d /\ d \in Int
      BY <2>2
    <2>4. 10^(d - 1) <= c
      <3>1. CASE d = 1
        BY <1>2, <3>1, PowersOfTen
      <3>2. CASE d # 1
        <4>1. d - 1 \in 1..MaxDigits /\ d - 1 \in 0..MaxDigits /\ ~(d <= d - 1)
          BY <2>3, <3>2, PowersOfTen
        <4>2. d - 1 \notin T
          BY <2>2, <4>1
        <4>3. ~(c < 10^(d - 1))
          BY <4>1, <4>2
        <4>4. 10^(d - 1) \in Nat
          BY <4>1, PowerIsPositive
        <4> QED  BY <4>3, <4>4
      <3> QED  BY <3>1, <3>2
    <2>5. NumDigits(c) = CHOOSE e \in 1..MaxDigits : 10^(e - 1) <= c /\ c < 10^e
      BY <1>2 DEF NumDigits
    <2> QED  BY <2>3, <2>4, <2>5
  <1> QED  BY <1>1, <1>2

LEMMA ExactDivision ==
    ASSUME NEW c \in Nat, NEW p \in Nat, p > 0
    PROVE  /\ c % p = 0 => c = (c \div p) * p
           /\ \A u \in Nat : c = u * p => c % p = 0 /\ c \div p = u
  <1>1. c % p = 0 => c = (c \div p) * p
    BY SMT
  <1>2. ASSUME NEW u \in Nat, c = u * p PROVE c % p = 0 /\ c \div p = u
    BY <1>2, SMT
  <1> QED  BY <1>1, <1>2

\* What an issued amount is read as is what it is worth: nothing is rounded
\* (xrpl-issued-value.ts).
LEMMA UnitsAreWorth ==
    ASSUME NEW v, v.coefficient \in Nat, v.fraction \in Nat, v.exponent \in Int,
           \E d \in 1..MaxDigits : v.coefficient < 10^d,
           NEW units \in Nat, NEW scale \in Nat,
           IssuedValueToUnits(v, scale) = units
    PROVE  Worth(v, units, scale)
  <1> DEFINE c == v.coefficient
             shift == scale - (v.fraction - v.exponent)
             up == v.exponent + scale - v.fraction
  <1>1. shift = up /\ shift \in Int
    OBVIOUS
  <1>2. CASE shift >= 0
    <2>1. c * 10^shift = units
      BY <1>2 DEF IssuedValueToUnits
    <2> QED  BY <1>1, <1>2, <2>1 DEF Worth
  <1>3. CASE shift < 0
    <2> DEFINE p == 10^(-shift)
    <2>1. Invalid # units
      BY DEF Invalid
    <2>2. ~(-shift > NumDigits(c)) /\ c % p = 0 /\ c \div p = units
      BY <1>1, <1>3, <2>1 DEF IssuedValueToUnits
    <2>3. -shift \in 0..MaxDigits
      BY <1>1, <1>3, <2>2, NumberOfDigits, PowersOfTen
    <2>4. p \in Nat /\ p > 0
      BY <2>3, PowerIsPositive
    <2>5. c = units * p
      <3> HIDE DEF p, shift, up, c
      <3>1. c \in Nat
        BY DEF c
      <3> QED  BY <2>2, <2>4, <3>1, ExactDivision
    <2> QED  BY <1>1, <1>3, <2>5 DEF Worth
  <1> QED  BY <1>1, <1>2, <1>3

\* And the other way round, for what the wallet is asked to pay.
LEMMA WorthIsRead ==
    ASSUME NEW v, v.coefficient \in Nat, v.fraction \in Nat, v.exponent \in Int,
           \E d \in 1..MaxDigits : v.coefficient < 10^d,
           v.fraction - v.exponent <= MaxDigits,
           NEW units \in Nat \ {0}, NEW scale \in Nat,
           Worth(v, units, scale)
    PROVE  IssuedValueToUnits(v, scale) = units
  <1> DEFINE c == v.coefficient
             shift == scale - (v.fraction - v.exponent)
             up == v.exponent + scale - v.fraction
  <1>1. shift = up /\ shift \in Int
    OBVIOUS
  <1>2. CASE shift >= 0
    <2>1. c * 10^shift = units
      BY <1>1, <1>2 DEF Worth
    <2> QED  BY <1>2, <2>1 DEF IssuedValueToUnits
  <1>3. CASE shift < 0
    <2> DEFINE p == 10^(-shift)
    <2>1. -shift \in 0..MaxDigits
      BY <1>1, <1>3, PowersOfTen
    <2>2. p \in Nat /\ p > 0
      BY <2>1, PowerIsPositive
    <2>3. c = units * p
      BY <1>1, <1>3 DEF Worth
    <2>4. c % p = 0 /\ c \div p = units
      <3> HIDE DEF p, shift, up, c
      <3>1. c \in Nat
        BY DEF c
      <3> QED  BY <2>2, <2>3, <3>1, ExactDivision
    <2>5. c >= p
      <3> HIDE DEF p, shift, up, c
      <3> QED  BY <2>2, <2>3
    <2>6. ~(-shift > NumDigits(c))
      <3>1. NumDigits(c) \in 1..MaxDigits /\ c < 10^NumDigits(c)
        BY NumberOfDigits
      <3>2. ASSUME -shift > NumDigits(c) PROVE FALSE
        <4>1. 10^NumDigits(c) <= p
          <5> DEFINE d == NumDigits(c)
                     e == -shift
          <5>1. d \in 0..MaxDigits /\ e \in 0..MaxDigits /\ d <= e
            BY <2>1, <3>1, <3>2, PowersOfTen
          <5> HIDE DEF d, e, p, shift
          <5>2. 10^d <= 10^e
            BY <5>1, PowersGrow
          <5> QED  BY <5>2 DEF d, e, p
        <4>2. 10^NumDigits(c) \in Nat
          BY <3>1, PowerIsPositive
        <4> QED  BY <2>2, <2>5, <3>1, <4>1, <4>2
      <3> QED  BY <3>2
    <2> QED  BY <1>1, <1>3, <2>4, <2>6 DEF IssuedValueToUnits
  <1> QED  BY <1>1, <1>2, <1>3

-----------------------------------------------------------------------------
(* The checks of the verifiers.                                            *)

LEMMA TheFirstFailing ==
    ASSUME NEW n \in Nat, NEW checks, DOMAIN checks = 1..n,
           ~\A i \in DOMAIN checks : checks[i].holds
    PROVE  /\ FirstFailing(checks) \in 1..n /\ ~checks[FirstFailing(checks)].holds
           /\ \A j \in 1..(FirstFailing(checks) - 1) : checks[j].holds
  <1> DEFINE T == {i \in 1..n : ~checks[i].holds}
             First(i) == ~checks[i].holds /\ \A j \in 1..(i - 1) : checks[j].holds
  <1>1. T \subseteq Nat /\ T # {}
    <2>1. 1..n \subseteq Nat
      OBVIOUS
    <2>2. T \subseteq 1..n /\ T # {}
      BY Zenon
    <2> QED  BY <2>1, <2>2, Zenon
  <1>2. PICK i \in T : \A j \in T : i <= j
    BY <1>1, LeastNumber
  <1>3. i \in 1..n /\ ~checks[i].holds
    BY <1>2, Zenon
  <1>4. ASSUME NEW j \in 1..(i - 1) PROVE checks[j].holds
    <2>1. j \in 1..n /\ ~(i <= j)
      BY <1>3
    <2>2. j \notin T
      BY <1>2, <2>1, Zenon
    <2> QED  BY <2>1, <2>2, Zenon
  <1>5. First(i)
    BY <1>3, <1>4, Zenon
  <1>6. FirstFailing(checks) = CHOOSE k \in 1..n : First(k)
    BY Zenon DEF FirstFailing
  <1>7. FirstFailing(checks) \in 1..n /\ First(FirstFailing(checks))
    BY <1>3, <1>5, <1>6, Zenon
  <1> QED  BY <1>7, Zenon

\* Three lists of checks, one after another.
Joins(d, a, b, c) ==
    /\ DOMAIN d = 1..(Len(a) + Len(b) + Len(c))
    /\ \A i \in 1..Len(a) : d[i] = a[i]
    /\ \A i \in 1..Len(b) : d[Len(a) + i] = b[i]
    /\ \A i \in 1..Len(c) : d[Len(a) + Len(b) + i] = c[i]

LEMMA ThreeLists ==
    ASSUME NEW S, NEW a \in Seq(S), NEW b \in Seq(S), NEW c \in Seq(S)
    PROVE  Joins(a \o b \o c, a, b, c)
  <1>1. a \o b \in Seq(S) /\ Len(a \o b) = Len(a) + Len(b)
    OBVIOUS
  <1>2. \A i \in 1..Len(a) : (a \o b)[i] = a[i]
    OBVIOUS
  <1>3. \A i \in 1..Len(b) : (a \o b)[Len(a) + i] = b[i]
    OBVIOUS
  <1> DEFINE ab == a \o b
  <1>4. ab \in Seq(S) /\ Len(ab) = Len(a) + Len(b)
    BY <1>1
  <1> HIDE DEF ab
  <1>5. /\ DOMAIN (ab \o c) = 1..(Len(ab) + Len(c))
        /\ \A i \in 1..Len(ab) : (ab \o c)[i] = ab[i]
        /\ \A i \in 1..Len(c) : (ab \o c)[Len(ab) + i] = c[i]
    <2>1. ab \in Seq(S)
      BY <1>4
    <2>2. ab \o c \in Seq(S) /\ Len(ab \o c) = Len(ab) + Len(c)
      BY <2>1
    <2>3. DOMAIN (ab \o c) = 1..Len(ab \o c)
      BY <2>2
    <2>4. \A i \in 1..Len(ab) : (ab \o c)[i] = ab[i]
      BY <2>1
    <2>5. \A i \in 1..Len(c) : (ab \o c)[Len(ab) + i] = c[i]
      BY <2>1
    <2> QED  BY <2>2, <2>3, <2>4, <2>5
  <1>6. Len(a) \in Nat /\ Len(b) \in Nat /\ Len(c) \in Nat
    OBVIOUS
  <1>7. \A i \in 1..Len(a) : (ab \o c)[i] = a[i]
    BY <1>2, <1>4, <1>5, <1>6 DEF ab
  <1>8. ASSUME NEW i \in 1..Len(b) PROVE (ab \o c)[Len(a) + i] = b[i]
    <2>1. Len(a) + i \in 1..Len(ab)
      BY <1>4, <1>6
    <2>2. (ab \o c)[Len(a) + i] = ab[Len(a) + i]
      BY <1>5, <2>1
    <2> QED  BY <1>3, <2>2 DEF ab
  <1> QED  BY <1>4, <1>5, <1>7, <1>8 DEF ab, Joins

CheckSet(intent, tx) ==
    {Common(intent, tx)[i] : i \in 1..8} \cup {XrpAmounts(intent, tx)[i] : i \in 1..4}
    \cup {IssuedAmounts(intent, tx)[i] : i \in 1..6} \cup {Tags(intent, tx)[i] : i \in 1..3}

LEMMA TheLists ==
    ASSUME NEW intent, NEW tx
    PROVE  /\ Common(intent, tx) \in Seq(CheckSet(intent, tx)) /\ Len(Common(intent, tx)) = 8
           /\ XrpAmounts(intent, tx) \in Seq(CheckSet(intent, tx)) /\ Len(XrpAmounts(intent, tx)) = 4
           /\ IssuedAmounts(intent, tx) \in Seq(CheckSet(intent, tx))
           /\ Len(IssuedAmounts(intent, tx)) = 6
           /\ Tags(intent, tx) \in Seq(CheckSet(intent, tx)) /\ Len(Tags(intent, tx)) = 3
  <1> DEFINE S == CheckSet(intent, tx)
  <1>1. /\ \A i \in 1..8 : Common(intent, tx)[i] \in S
        /\ \A i \in 1..4 : XrpAmounts(intent, tx)[i] \in S
        /\ \A i \in 1..6 : IssuedAmounts(intent, tx)[i] \in S
        /\ \A i \in 1..3 : Tags(intent, tx)[i] \in S
    BY Zenon DEF CheckSet
  <1> HIDE DEF S
  <1>2. Common(intent, tx) \in Seq(S) /\ Len(Common(intent, tx)) = 8
    BY <1>1 DEF Common
  <1>3. XrpAmounts(intent, tx) \in Seq(S) /\ Len(XrpAmounts(intent, tx)) = 4
    BY <1>1 DEF XrpAmounts
  <1>4. IssuedAmounts(intent, tx) \in Seq(S) /\ Len(IssuedAmounts(intent, tx)) = 6
    BY <1>1 DEF IssuedAmounts
  <1>5. Tags(intent, tx) \in Seq(S) /\ Len(Tags(intent, tx)) = 3
    BY <1>1 DEF Tags
  <1> QED  BY <1>2, <1>3, <1>4, <1>5 DEF S

Amounts(intent, tx) == IF intent.asset = "XRP" THEN XrpAmounts(intent, tx) ELSE IssuedAmounts(intent, tx)
NumAmounts(intent) == IF intent.asset = "XRP" THEN 4 ELSE 6

LEMMA TheChecks ==
    ASSUME NEW intent, NEW tx
    PROVE  /\ DOMAIN Checks(intent, tx) = 1..(11 + NumAmounts(intent))
           /\ \A i \in 1..8 : Checks(intent, tx)[i] = Common(intent, tx)[i]
           /\ \A i \in 1..NumAmounts(intent) : Checks(intent, tx)[8 + i] = Amounts(intent, tx)[i]
           /\ \A i \in 1..3 : Checks(intent, tx)[8 + NumAmounts(intent) + i] = Tags(intent, tx)[i]
  <1> DEFINE S == CheckSet(intent, tx)
             a == Common(intent, tx)
             b == Amounts(intent, tx)
             c == Tags(intent, tx)
  <1>1. a \in Seq(S) /\ Len(a) = 8 /\ c \in Seq(S) /\ Len(c) = 3
    BY TheLists
  <1>2. b \in Seq(S) /\ Len(b) = NumAmounts(intent)
    BY TheLists DEF Amounts, NumAmounts
  <1>3. Checks(intent, tx) = a \o b \o c /\ NumAmounts(intent) \in Nat
    BY DEF Checks, Amounts, NumAmounts
  <1> HIDE DEF S, a, b, c
  <1> DEFINE d == a \o b \o c
  <1>4. Joins(d, a, b, c)
    BY <1>1, <1>2, ThreeLists, Zenon
  <1> HIDE DEF d
  <1>5. /\ DOMAIN d = 1..(11 + NumAmounts(intent))
        /\ \A i \in 1..8 : d[i] = a[i]
        /\ \A i \in 1..NumAmounts(intent) : d[8 + i] = b[i]
        /\ \A i \in 1..3 : d[8 + NumAmounts(intent) + i] = c[i]
    <2>1. 8 + NumAmounts(intent) + 3 = 11 + NumAmounts(intent)
      BY <1>3
    <2> QED  BY <1>1, <1>2, <1>4, <2>1 DEF Joins
  <1>6. Checks(intent, tx) = d
    BY <1>3 DEF d
  <1> QED  BY <1>5, <1>6 DEF a, b, c

\* What each of them asks.
LEMMA CommonAsks ==
    ASSUME NEW intent, NEW tx
    PROVE  /\ Common(intent, tx)[1].holds <=> tx.validated
           /\ Common(intent, tx)[2].holds <=> (tx.hash = "asked")
           /\ Common(intent, tx)[3].holds <=> (tx.result = "tesSUCCESS")
           /\ Common(intent, tx)[4].holds <=> (tx.type = "Payment")
           /\ Common(intent, tx)[5].holds <=> (tx.account = intent.payer)
           /\ Common(intent, tx)[6].holds <=> (tx.destination = intent.destination)
           /\ Common(intent, tx)[7].holds <=> (~tx.partial)
           /\ Common(intent, tx)[8].holds <=> (~tx.paths)
  BY DEF Common, Check

LEMMA XrpAmountsAsk ==
    ASSUME NEW intent, NEW tx, intent.asset = "XRP"
    PROVE  /\ Amounts(intent, tx)[1].holds <=> (tx.amountFields = 1 /\ tx.amount.asset = "XRP")
           /\ Amounts(intent, tx)[2].holds <=> (tx.amount.value.coefficient = intent.units)
           /\ Amounts(intent, tx)[3].holds <=> (tx.delivered.asset = "XRP")
           /\ Amounts(intent, tx)[4].holds <=> (tx.delivered.value.coefficient = intent.units)
  BY DEF Amounts, XrpAmounts, Check

LEMMA IssuedAmountsAsk ==
    ASSUME NEW intent, NEW tx, intent.asset # "XRP"
    PROVE  /\ Amounts(intent, tx)[1].holds <=>
                 (tx.amountFields = 1 /\ tx.amount.asset \notin {"XRP", None})
           /\ Amounts(intent, tx)[2].holds <=> (tx.amount.asset = intent.asset)
           /\ Amounts(intent, tx)[3].holds <=>
                 (IssuedValueToUnits(tx.amount.value, intent.scale) = intent.units)
           /\ Amounts(intent, tx)[4].holds <=> (tx.delivered.asset \notin {"XRP", None})
           /\ Amounts(intent, tx)[5].holds <=> (tx.delivered.asset = intent.asset)
           /\ Amounts(intent, tx)[6].holds <=>
                 (IssuedValueToUnits(tx.delivered.value, intent.scale) = intent.units)
  BY DEF Amounts, IssuedAmounts, Check

LEMMA TagsAsk ==
    ASSUME NEW intent, NEW tx
    PROVE  /\ Tags(intent, tx)[1].holds <=> (tx.sourceTag = intent.sourceTag)
           /\ Tags(intent, tx)[2].holds <=> (tx.destinationTag = intent.destinationTag)
           /\ Tags(intent, tx)[3].holds <=> (tx.invoice = intent.invoice)
  BY DEF Tags, Check

\* A transaction is verified only if it pays the slot (verifier.ts, issued-verifier.ts).
LEMMA VerifiedPays ==
    ASSUME NEW intent, NEW tx, tx # None, AmountsOf(intent, tx.delivered),
           Verify(intent, tx).status = "verified"
    PROVE  Pays(intent, tx)
  <1> DEFINE checks == Checks(intent, tx)
  <1>1. \A i \in DOMAIN checks : checks[i].holds
    BY DEF Verify, Outcome
  <1>2. \A i \in 1..8 : Common(intent, tx)[i].holds
    <2>1. ASSUME NEW i \in 1..8 PROVE Common(intent, tx)[i].holds
      <3>1. i \in DOMAIN checks /\ checks[i] = Common(intent, tx)[i]
        BY TheChecks DEF NumAmounts
      <3> QED  BY <1>1, <3>1, Zenon
    <2> QED  BY <2>1
  <1>3. \A i \in 1..NumAmounts(intent) : Amounts(intent, tx)[i].holds
    <2>1. ASSUME NEW i \in 1..NumAmounts(intent) PROVE Amounts(intent, tx)[i].holds
      <3>1. 8 + i \in DOMAIN checks /\ checks[8 + i] = Amounts(intent, tx)[i]
        BY TheChecks DEF NumAmounts
      <3> QED  BY <1>1, <3>1, Zenon
    <2> QED  BY <2>1
  <1>4. \A i \in 1..3 : Tags(intent, tx)[i].holds
    <2>1. ASSUME NEW i \in 1..3 PROVE Tags(intent, tx)[i].holds
      <3>1. NumAmounts(intent) \in {4, 6} /\ DOMAIN checks = 1..(11 + NumAmounts(intent))
        BY TheChecks DEF NumAmounts
      <3>2. 8 + NumAmounts(intent) + i \in DOMAIN checks
        BY <3>1
      <3>3. checks[8 + NumAmounts(intent) + i] = Tags(intent, tx)[i]
        BY TheChecks
      <3> QED  BY <1>1, <3>2, <3>3, Zenon
    <2> QED  BY <2>1
  <1> HIDE DEF checks
  <1>5. tx.validated /\ tx.result = "tesSUCCESS" /\ tx.type = "Payment"
        /\ tx.account = intent.payer /\ tx.destination = intent.destination
    <2>1. /\ Common(intent, tx)[1].holds /\ Common(intent, tx)[3].holds
          /\ Common(intent, tx)[4].holds /\ Common(intent, tx)[5].holds
          /\ Common(intent, tx)[6].holds
      BY <1>2
    <2> QED  BY <2>1, CommonAsks, Zenon
  <1>6. tx.invoice = intent.invoice
    <2>1. Tags(intent, tx)[3].holds
      BY <1>4
    <2> QED  BY <2>1, TagsAsk, Zenon
  <1>7. CASE intent.asset = "XRP"
    <2>1. Amounts(intent, tx)[3].holds /\ Amounts(intent, tx)[4].holds
      BY <1>3, <1>7 DEF NumAmounts
    <2>2. tx.delivered.asset = intent.asset /\ tx.delivered.value.coefficient = intent.units
      BY <1>7, <2>1, XrpAmountsAsk, Zenon
    <2>3. /\ tx.delivered.value.fraction = 0 /\ tx.delivered.value.exponent = 0
          /\ intent.scale = 0 /\ intent.units \in Nat
      BY <1>7, <2>2 DEF AmountsOf
    <2>4. Worth(tx.delivered.value, intent.units, intent.scale)
      BY <2>2, <2>3, PowersOfTen DEF Worth
    <2> QED  BY <1>5, <1>6, <2>2, <2>4, Zenon DEF Pays, Arrived
  <1>8. CASE intent.asset # "XRP"
    <2>1. Amounts(intent, tx)[5].holds /\ Amounts(intent, tx)[6].holds
      BY <1>3, <1>8 DEF NumAmounts
    <2>2. /\ tx.delivered.asset = intent.asset
          /\ IssuedValueToUnits(tx.delivered.value, intent.scale) = intent.units
      BY <1>8, <2>1, IssuedAmountsAsk, Zenon
    <2>3. Worth(tx.delivered.value, intent.units, intent.scale)
      BY <2>2, UnitsAreWorth DEF AmountsOf
    <2> QED  BY <1>5, <1>6, <2>2, <2>3, Zenon DEF Pays, Arrived
  <1> QED  BY <1>7, <1>8

\* A failed transaction is called so only if it is validated.
LEMMA FailedIsFinal ==
    ASSUME NEW intent, NEW tx, Verify(intent, tx).reason = "TRANSACTION_FAILED",
           None # "TRANSACTION_FAILED"
    PROVE  tx.validated /\ tx.result # "tesSUCCESS"
  <1> DEFINE checks == Checks(intent, tx)
             n == 11 + NumAmounts(intent)
             first == FirstFailing(checks)
  <1>1. /\ ~\A i \in DOMAIN checks : checks[i].holds
        /\ checks[first].reason = "TRANSACTION_FAILED"
    BY DEF Verify, Outcome
  <1>2. DOMAIN checks = 1..n /\ n \in Nat
    BY TheChecks DEF NumAmounts
  <1> HIDE DEF checks, n
  <1>3. /\ first \in 1..n /\ ~checks[first].holds
        /\ \A j \in 1..(first - 1) : checks[j].holds
    BY <1>1, <1>2, TheFirstFailing
  <1> HIDE DEF first
  <1>4. first = 3
    <2>1. \A i \in 1..8 : Common(intent, tx)[i].reason = "TRANSACTION_FAILED" => i = 3
      BY DEF Common, Check
    <2>2. \A i \in 1..4 : XrpAmounts(intent, tx)[i].reason # "TRANSACTION_FAILED"
      BY DEF XrpAmounts, Check
    <2>3. \A i \in 1..6 : IssuedAmounts(intent, tx)[i].reason # "TRANSACTION_FAILED"
      BY DEF IssuedAmounts, Check
    <2>4. \A i \in 1..NumAmounts(intent) : Amounts(intent, tx)[i].reason # "TRANSACTION_FAILED"
      BY <2>2, <2>3 DEF Amounts, NumAmounts
    <2>5. \A i \in 1..3 : Tags(intent, tx)[i].reason # "TRANSACTION_FAILED"
      BY DEF Tags, Check
    <2>6. NumAmounts(intent) \in Nat
      BY DEF NumAmounts
    <2>7. CASE first \in 1..8
      BY <1>1, <2>1, <2>7, TheChecks DEF checks
    <2>8. CASE first \in 9..(8 + NumAmounts(intent))
      <3> DEFINE i == first - 8
      <3>1. i \in 1..NumAmounts(intent) /\ 8 + i = first
        BY <2>6, <2>8
      <3>2. checks[8 + i] = Amounts(intent, tx)[i]
        BY <3>1, TheChecks DEF checks
      <3> QED  BY <1>1, <2>4, <3>1, <3>2
    <2>9. CASE first \in (9 + NumAmounts(intent))..n
      <3> DEFINE i == first - 8 - NumAmounts(intent)
      <3>1. i \in 1..3 /\ 8 + NumAmounts(intent) + i = first
        BY <2>6, <2>9 DEF n
      <3>2. checks[8 + NumAmounts(intent) + i] = Tags(intent, tx)[i]
        BY <3>1, TheChecks DEF checks
      <3> QED  BY <1>1, <2>5, <3>1, <3>2
    <2> QED  BY <1>3, <2>6, <2>7, <2>8, <2>9 DEF n
  <1>5. checks[1] = Common(intent, tx)[1] /\ checks[3] = Common(intent, tx)[3]
    BY TheChecks DEF checks
  <1>6. tx.validated
    <2>1. 1 \in 1..(first - 1)
      BY <1>4
    <2> QED  BY <1>3, <1>5, <2>1, CommonAsks, Zenon
  <1>7. tx.result # "tesSUCCESS"
    <2>1. ~Common(intent, tx)[3].holds
      BY <1>3, <1>4, <1>5, Zenon
    <2> QED  BY <2>1, CommonAsks, Zenon
  <1> QED  BY <1>6, <1>7

\* What the wallet makes of the request is verified.
LEMMA RequestedIsVerified ==
    ASSUME NEW intent, NEW tx, AsRequested(intent, tx), AmountsOf(intent, tx.delivered),
           tx.delivered.value.fraction - tx.delivered.value.exponent <= MaxDigits
    PROVE  Verify(intent, tx).status = "verified"
  <1> DEFINE checks == Checks(intent, tx)
  <1>1. /\ tx.validated /\ tx.result = "tesSUCCESS" /\ tx.type = "Payment"
        /\ tx.account = intent.payer /\ tx.destination = intent.destination
        /\ tx.invoice = intent.invoice /\ tx.delivered.asset = intent.asset
        /\ ~tx.partial /\ ~tx.paths /\ tx.hash = "asked" /\ tx.amountFields = 1
        /\ tx.amount = tx.delivered /\ tx.sourceTag = intent.sourceTag
        /\ tx.destinationTag = intent.destinationTag
        /\ Worth(tx.delivered.value, intent.units, intent.scale)
    BY DEF AsRequested, Pays, Arrived
  <1>2. ASSUME NEW i \in 1..8 PROVE Common(intent, tx)[i].holds
    <2>1. /\ Common(intent, tx)[1].holds /\ Common(intent, tx)[2].holds
          /\ Common(intent, tx)[3].holds /\ Common(intent, tx)[4].holds
          /\ Common(intent, tx)[5].holds /\ Common(intent, tx)[6].holds
          /\ Common(intent, tx)[7].holds /\ Common(intent, tx)[8].holds
      BY <1>1, CommonAsks, Zenon
    <2>2. i = 1 \/ i = 2 \/ i = 3 \/ i = 4 \/ i = 5 \/ i = 6 \/ i = 7 \/ i = 8
      OBVIOUS
    <2> QED  BY <2>1, <2>2, Zenon
  <1>3. ASSUME NEW i \in 1..3 PROVE Tags(intent, tx)[i].holds
    <2>1. Tags(intent, tx)[1].holds /\ Tags(intent, tx)[2].holds /\ Tags(intent, tx)[3].holds
      BY <1>1, TagsAsk, Zenon
    <2>2. i = 1 \/ i = 2 \/ i = 3
      OBVIOUS
    <2> QED  BY <2>1, <2>2, Zenon
  <1>4. ASSUME NEW i \in 1..NumAmounts(intent) PROVE Amounts(intent, tx)[i].holds
    <2>1. CASE intent.asset = "XRP"
      <3>1. /\ tx.delivered.value.coefficient \in Nat /\ tx.delivered.value.fraction = 0
            /\ tx.delivered.value.exponent = 0 /\ intent.scale = 0 /\ intent.units \in Nat
        BY <1>1, <2>1 DEF AmountsOf
      <3>2. tx.delivered.value.coefficient = intent.units
        BY <1>1, <3>1, PowersOfTen DEF Worth
      <3>3. /\ Amounts(intent, tx)[1].holds /\ Amounts(intent, tx)[2].holds
            /\ Amounts(intent, tx)[3].holds /\ Amounts(intent, tx)[4].holds
        BY <1>1, <2>1, <3>2, XrpAmountsAsk, Zenon
      <3>4. i = 1 \/ i = 2 \/ i = 3 \/ i = 4
        BY <2>1 DEF NumAmounts
      <3> QED  BY <3>3, <3>4, Zenon
    <2>2. CASE intent.asset # "XRP"
      <3>1. IssuedValueToUnits(tx.delivered.value, intent.scale) = intent.units
        BY <1>1, WorthIsRead DEF AmountsOf
      <3>2. intent.asset \notin {"XRP", None}
        BY <2>2 DEF AmountsOf
      <3>3. /\ Amounts(intent, tx)[1].holds /\ Amounts(intent, tx)[2].holds
            /\ Amounts(intent, tx)[3].holds /\ Amounts(intent, tx)[4].holds
            /\ Amounts(intent, tx)[5].holds /\ Amounts(intent, tx)[6].holds
        BY <1>1, <2>2, <3>1, <3>2, IssuedAmountsAsk, Zenon
      <3>4. i = 1 \/ i = 2 \/ i = 3 \/ i = 4 \/ i = 5 \/ i = 6
        BY <2>2 DEF NumAmounts
      <3> QED  BY <3>3, <3>4, Zenon
    <2> QED  BY <2>1, <2>2
  <1>5. NumAmounts(intent) \in Nat
    BY DEF NumAmounts
  <1>6. ASSUME NEW k \in DOMAIN checks PROVE checks[k].holds
    <2>1. k \in 1..(11 + NumAmounts(intent))
      BY TheChecks
    <2> HIDE DEF checks
    <2>2. CASE k \in 1..8
      <3>1. checks[k] = Common(intent, tx)[k]
        BY <2>2, TheChecks DEF checks
      <3> QED  BY <1>2, <2>2, <3>1
    <2>3. CASE k \in 9..(8 + NumAmounts(intent))
      <3> DEFINE i == k - 8
      <3>1. i \in 1..NumAmounts(intent) /\ 8 + i = k
        BY <1>5, <2>3
      <3>2. checks[8 + i] = Amounts(intent, tx)[i]
        BY <3>1, TheChecks DEF checks
      <3> QED  BY <1>4, <3>1, <3>2
    <2>4. CASE k \in (9 + NumAmounts(intent))..(11 + NumAmounts(intent))
      <3> DEFINE i == k - 8 - NumAmounts(intent)
      <3>1. i \in 1..3 /\ 8 + NumAmounts(intent) + i = k
        BY <1>5, <2>4
      <3>2. checks[8 + NumAmounts(intent) + i] = Tags(intent, tx)[i]
        BY <3>1, TheChecks DEF checks
      <3> QED  BY <1>3, <3>1, <3>2
    <2> QED  BY <1>5, <2>1, <2>2, <2>3, <2>4
  <1> QED  BY <1>6 DEF Verify, Outcome

-----------------------------------------------------------------------------
(* The decisions: the inductive invariant.                                 *)

ReadStates ==
    [is : {"waiting", "later", "seen", "notFound", "unavailable", "incomplete"},
     at : 1..Endpoints, page : 1..MaxPages, notFound : BOOLEAN, seen : 0..2]

DecisionsTyped ==
    /\ kind \in Kinds
    /\ \E c \in Cases : kind = c[1] /\ case = c[2]
    /\ now \in 1..2
    /\ sees \in [1..Endpoints -> 1..2] /\ \A e \in 1..Endpoints : sees[e] <= now
    /\ read \in [Reads(kind) -> ReadStates] /\ \A r \in Reads(kind) : read[r].seen <= now

\* The transaction was looked up if there is one, and a read that is over has what the
\* ledger held when it was read.
ReadsAreTrue ==
    /\ kind = "verify" =>
          /\ Seen("provider") /\ ProviderOutcome(case.payload).status = "ask"
                => read["tx"].is \notin {"later", "incomplete"}
          /\ Seen("tx") => read["tx"].seen \in 1..now /\ Ledger("tx").tx # None
    /\ kind = "replace" => read["history"].is # "later"
    /\ kind = "replace" /\ Seen("history") =>
          /\ read["history"].seen \in 1..now
          /\ read["history"].page >= Len(Ledger("history").history)

DecisionsInv ==
    /\ DecisionsTyped /\ ReadsAreTrue
    /\ VerifiedPaysTheSlot /\ RetryIsSafe /\ ReviewIsRecorded

-----------------------------------------------------------------------------
(* One read moves on.                                                      *)

QuietWorld == UNCHANGED <<kind, case, now, sees>>

OnlyReadOf(r) == \A q \in Reads(kind) : q # r => read'[q] = read[q]

LEMMA FreshReads ==
    /\ NewRead \in ReadStates /\ NewRead.is = "waiting" /\ NewRead.seen = 0
    /\ NotNeeded \in ReadStates /\ NotNeeded.seen = 0
    /\ \A at \in 1..Endpoints : [NewRead EXCEPT !.at = at] \in ReadStates
                                 /\ [NewRead EXCEPT !.at = at].seen = 0
  <1>1. NewRead \in ReadStates /\ NewRead.is = "waiting" /\ NewRead.seen = 0
    BY DecisionConstants DEF NewRead, ReadStates
  <1> QED  BY <1>1 DEF NotNeeded, ReadStates

LEMMA OneRead ==
    ASSUME DecisionsTyped, QuietWorld, NEW r \in Reads(kind), NEW x \in ReadStates, x.seen <= now,
           read' = [read EXCEPT ![r] = x]
    PROVE  DecisionsTyped' /\ read'[r] = x /\ OnlyReadOf(r)
  <1>1. read' \in [Reads(kind) -> ReadStates] /\ read'[r] = x /\ OnlyReadOf(r)
    BY DEF DecisionsTyped, OnlyReadOf
  <1>2. \A q \in Reads(kind) : read'[q].seen <= now
    BY <1>1 DEF DecisionsTyped, OnlyReadOf
  <1>3. kind' = kind /\ case' = case /\ now' = now /\ sees' = sees
    BY DEF QuietWorld
  <1> QED  BY <1>1, <1>2, <1>3 DEF DecisionsTyped

LEMMA NextEndpointMoves ==
    ASSUME DecisionsTyped, QuietWorld, NEW r \in Reads(kind), NEW notFound \in BOOLEAN,
           NextEndpoint(r, notFound)
    PROVE  /\ DecisionsTyped' /\ OnlyReadOf(r)
           /\ read'[r].is \in {"waiting", "notFound", "unavailable"}
  <1> DEFINE g == read[r]
  <1>1. g \in ReadStates /\ g.seen <= now /\ now \in 1..2 /\ read \in [Reads(kind) -> ReadStates]
    BY DEF DecisionsTyped
  <1>2. CASE g.at < Endpoints
    <2> DEFINE x == [NewRead EXCEPT !.at = g.at + 1, !.notFound = notFound]
    <2>1. g.at + 1 \in 1..Endpoints
      BY <1>1, <1>2, DecisionConstants DEF ReadStates
    <2>2. x \in ReadStates /\ x.is = "waiting" /\ x.seen = 0
      BY <2>1, FreshReads DEF ReadStates
    <2>3. read' = [read EXCEPT ![r] = x]
      BY <1>1, <1>2 DEF NextEndpoint
    <2> HIDE DEF x, g
    <2>4. x.seen <= now
      BY <1>1, <2>2
    <2>5. DecisionsTyped' /\ read'[r] = x /\ OnlyReadOf(r)
      BY <2>2, <2>3, <2>4, OneRead
    <2> QED  BY <2>2, <2>5
  <1>3. CASE ~(g.at < Endpoints)
    <2> DEFINE is == IF notFound THEN "notFound" ELSE "unavailable"
               x == [g EXCEPT !.is = is]
    <2>1. is \in {"notFound", "unavailable"}
      OBVIOUS
    <2> HIDE DEF is
    <2>2. x \in ReadStates /\ x.is = is /\ x.seen = g.seen
      BY <1>1, <2>1 DEF ReadStates
    <2>3. read' = [read EXCEPT ![r] = x]
      BY <1>1, <1>3 DEF NextEndpoint, is
    <2> HIDE DEF x
    <2> QED  BY <1>1, <2>1, <2>2, <2>3, OneRead
  <1> QED  BY <1>2, <1>3

LEMMA SeeMoves ==
    ASSUME DecisionsTyped, QuietWorld, NEW r \in Reads(kind), NEW state \in 0..2, state <= now,
           See(r, state)
    PROVE  /\ DecisionsTyped' /\ OnlyReadOf(r)
           /\ read'[r].is = "seen" /\ read'[r].seen = state
  <1> DEFINE g == read[r]
             x == [g EXCEPT !.is = "seen", !.seen = state]
  <1>1. g \in ReadStates /\ read \in [Reads(kind) -> ReadStates]
    BY DEF DecisionsTyped
  <1>2. x \in ReadStates /\ x.is = "seen" /\ x.seen = state
    <2> HIDE DEF g
    <2> QED  BY <1>1 DEF ReadStates
  <1>3. read' = [read EXCEPT ![r] = x]
    BY <1>1 DEF See
  <1> HIDE DEF x
  <1> QED  BY <1>2, <1>3, OneRead

\* A read that has no result makes nothing false.
LEMMA NoResultYet ==
    ASSUME DecisionsTyped, ReadsAreTrue, QuietWorld, NEW r \in Reads(kind), OnlyReadOf(r),
           r # "provider", read'[r].is \notin {"seen", "later", "incomplete"}
    PROVE  ReadsAreTrue'
  <1>1. kind' = kind /\ case' = case /\ now' = now
    BY DEF QuietWorld
  <1>2. CASE kind = "verify"
    <2>1. Reads(kind) = {"provider", "tx"}
      BY <1>2 DEF Reads
    <2>2. r = "tx" /\ read'["provider"] = read["provider"]
      BY <2>1 DEF OnlyReadOf
    <2> QED  BY <1>1, <1>2, <2>2 DEF ReadsAreTrue, Seen
  <1>3. CASE kind = "replace"
    <2>1. r = "history"
      BY <1>3 DEF Reads
    <2> QED  BY <1>1, <1>3, <2>1 DEF ReadsAreTrue, Seen
  <1>4. CASE kind \notin {"verify", "replace"}
    BY <1>1, <1>4 DEF ReadsAreTrue
  <1> QED  BY <1>2, <1>3, <1>4

\* Other requests promise nothing here.
LEMMA OtherRequests ==
    ASSUME kind' \notin {"verify", "replace"}
    PROVE  ReadsAreTrue'
  BY DEF ReadsAreTrue

\* Which request a read is of.
LEMMA ReadsOfRequests ==
    ASSUME DecisionsTyped, NEW r, Waiting(r)
    PROVE  /\ r \in Reads(kind) /\ read[r] \in ReadStates /\ read[r].seen <= now
           /\ r \in {"provider", "tx"} => kind = "verify"
           /\ r = "history" => kind = "replace"
           /\ r \in {"state", "fee", "payerFacts", "recipientFacts"} => kind = "accept"
  <1>1. r \in Reads(kind) /\ read[r] \in ReadStates /\ read[r].seen <= now /\ kind \in Kinds
    BY DEF DecisionsTyped, Waiting
  <1>2. /\ Reads("verify") = {"provider", "tx"} /\ Reads("replace") = {"history"}
        /\ Reads("readiness") = {"payerAccount", "reserves", "fees", "payerIssuer", "payerLine",
                                  "recipientAccount", "recipientIssuer", "recipientLine"}
        /\ Reads("prepare") = {"account", "reserves", "fees", "issuer", "line"}
        /\ Reads("accept") = {"state", "fee", "payerFacts", "recipientFacts"}
    BY DEF Reads
  <1> QED  BY <1>1, <1>2 DEF Kinds

\* What an endpoint has.
LEMMA EndpointsAreBehind ==
    ASSUME DecisionsTyped, NEW g \in ReadStates
    PROVE  sees[g.at] \in 1..2 /\ sees[g.at] <= now
  BY DEF DecisionsTyped, ReadStates

-----------------------------------------------------------------------------
(* The reads of the requests.                                              *)

LEMMA ReadingIsQuiet ==
    ASSUME NEW r, Reading(r)
    PROVE  QuietWorld /\ Waiting(r)
  BY DEF Reading, QuietWorld

LEMMA FailedReads ==
    ASSUME DecisionsTyped, ReadsAreTrue, NEW r \in DOMAIN read,
           EndpointFails(r) \/ EndpointRefuses(r)
    PROVE  DecisionsTyped' /\ ReadsAreTrue'
  <1>1. Reading(r) /\ r # "provider"
    BY DEF EndpointFails, EndpointRefuses
  <1>2. QuietWorld /\ Waiting(r)
    BY <1>1, ReadingIsQuiet
  <1>3. r \in Reads(kind) /\ read[r] \in ReadStates /\ read[r].seen <= now
    BY <1>2, ReadsOfRequests
  <1>4. CASE EndpointFails(r)
    <2>1. NextEndpoint(r, read[r].notFound) /\ read[r].notFound \in BOOLEAN
      BY <1>3, <1>4 DEF EndpointFails, ReadStates
    <2>2. /\ DecisionsTyped' /\ OnlyReadOf(r)
          /\ read'[r].is \in {"waiting", "notFound", "unavailable"}
      BY <1>2, <1>3, <2>1, NextEndpointMoves
    <2>3. read'[r].is \notin {"seen", "later", "incomplete"}
      BY <2>2
    <2> QED  BY <1>1, <1>2, <1>3, <2>2, <2>3, NoResultYet
  <1>5. CASE EndpointRefuses(r)
    <2> DEFINE g == read[r]
               x == [g EXCEPT !.is = "unavailable"]
    <2>1. read' = [read EXCEPT ![r] = x]
      BY <1>5 DEF EndpointRefuses
    <2> HIDE DEF g
    <2>2. x \in ReadStates /\ x.is = "unavailable" /\ x.seen = g.seen
      BY <1>3 DEF ReadStates, g
    <2> HIDE DEF x
    <2>3. DecisionsTyped' /\ read'[r] = x /\ OnlyReadOf(r)
      BY <1>2, <1>3, <2>1, <2>2, OneRead DEF g
    <2>4. read'[r].is \notin {"seen", "later", "incomplete"}
      BY <2>2, <2>3
    <2> QED  BY <1>1, <1>2, <1>3, <2>3, <2>4, NoResultYet
  <1> QED  BY <1>4, <1>5

LEMMA ProviderRead ==
    ASSUME DecisionsTyped, ReadsAreTrue, ReadProvider
    PROVE  DecisionsTyped' /\ ReadsAreTrue'
  <1>1. QuietWorld /\ Waiting("provider")
    BY ReadingIsQuiet DEF ReadProvider
  <1>2. kind = "verify" /\ read["provider"] \in ReadStates
    BY <1>1, ReadsOfRequests
  <1>3. Reads(kind) = {"provider", "tx"} /\ read \in [Reads(kind) -> ReadStates]
        /\ \A r \in Reads(kind) : read[r].seen <= now
    BY <1>2 DEF Reads, DecisionsTyped
  <1> DEFINE g == read["provider"]
             x == [g EXCEPT !.is = "seen"]
             asked == ProviderOutcome(case.payload).status = "ask"
             y == IF asked THEN NewRead ELSE read["tx"]
  <1>4. read' = [[read EXCEPT !["provider"] = x] EXCEPT !["tx"] = y]
    BY <1>3 DEF ReadProvider
  <1>5. x \in ReadStates /\ x.seen = g.seen
    <2> HIDE DEF g
    <2> QED  BY <1>2 DEF ReadStates, g
  <1>6. y \in ReadStates /\ y.seen \in {0, read["tx"].seen}
        /\ (asked => y.is = "waiting") /\ (~asked => y = read["tx"])
    BY <1>3, FreshReads
  <1> HIDE DEF x, y, asked
  <1>7. read'["provider"] = x /\ read'["tx"] = y /\ read' \in [Reads(kind) -> ReadStates]
    BY <1>3, <1>4, <1>5, <1>6
  <1>8. kind' = kind /\ case' = case /\ now' = now /\ sees' = sees
    BY <1>1 DEF QuietWorld
  <1>9. \A r \in Reads(kind) : read'[r].seen <= now
    <2>1. x.seen <= now
      BY <1>3, <1>5
    <2>2. y.seen <= now
      BY <1>3, <1>6 DEF DecisionsTyped
    <2> QED  BY <1>3, <1>7, <2>1, <2>2
  <1>10. DecisionsTyped'
    BY <1>7, <1>8, <1>9 DEF DecisionsTyped
  <1>11. ReadsAreTrue'
    <2>1. CASE asked
      BY <1>2, <1>6, <1>7, <1>8, <2>1 DEF ReadsAreTrue, Seen
    <2>2. CASE ~asked
      <3>1. read'["tx"] = read["tx"]
        BY <1>6, <1>7, <2>2
      <3> QED  BY <1>2, <1>8, <2>2, <3>1 DEF ReadsAreTrue, Seen, Ledger, asked
    <2> QED  BY <2>1, <2>2
  <1> QED  BY <1>10, <1>11

LEMMA TransactionRead ==
    ASSUME DecisionsTyped, ReadsAreTrue, ReadTransaction
    PROVE  DecisionsTyped' /\ ReadsAreTrue'
  <1> DEFINE g == read["tx"]
             state == sees[g.at]
  <1>1. QuietWorld /\ Waiting("tx")
    BY ReadingIsQuiet DEF ReadTransaction
  <1>2. kind = "verify" /\ g \in ReadStates /\ "tx" \in Reads(kind) /\ Reads(kind) = {"provider", "tx"}
    BY <1>1, ReadsOfRequests DEF Reads
  <1>3. state \in 1..2 /\ state \in 0..2 /\ state <= now
    <2>1. state \in 1..2 /\ state <= now
      BY <1>2, EndpointsAreBehind
    <2> HIDE DEF state
    <2> QED  BY <2>1
  <1>4. CASE case.ledgers[state].tx = None
    <2>1. NextEndpoint("tx", TRUE)
      BY <1>4 DEF ReadTransaction
    <2>2. /\ DecisionsTyped' /\ OnlyReadOf("tx")
          /\ read'["tx"].is \in {"waiting", "notFound", "unavailable"}
      BY <1>1, <1>2, <2>1, NextEndpointMoves
    <2>3. read'["tx"].is \notin {"seen", "later", "incomplete"}
      BY <2>2
    <2> QED  BY <1>1, <1>2, <2>2, <2>3, NoResultYet
  <1>5. CASE case.ledgers[state].tx # None
    <2>1. See("tx", state)
      BY <1>5 DEF ReadTransaction
    <2> HIDE DEF state, g
    <2>2. /\ DecisionsTyped' /\ OnlyReadOf("tx")
          /\ read'["tx"].is = "seen" /\ read'["tx"].seen = state
      BY <1>1, <1>2, <1>3, <2>1, SeeMoves
    <2>3. kind' = kind /\ case' = case /\ now' = now
      BY <1>1 DEF QuietWorld
    <2>4. state \in 1..now'
      BY <1>3, <2>3 DEF DecisionsTyped
    <2> QED  BY <1>2, <1>5, <2>2, <2>3, <2>4 DEF ReadsAreTrue, Ledger
  <1> QED  BY <1>4, <1>5

LEMMA HistoryRead ==
    ASSUME DecisionsTyped, ReadsAreTrue, ReadHistoryPage
    PROVE  DecisionsTyped' /\ ReadsAreTrue'
  <1> DEFINE g == read["history"]
             anchor == IF g.seen = 0 THEN sees[g.at] ELSE g.seen
             length == Len(case.ledgers[anchor].history)
             page == IF g.page < MaxPages THEN g.page + 1 ELSE g.page
             is == CASE LastPage(length, g.page) -> "seen"
                     [] ~LastPage(length, g.page) /\ g.page < MaxPages -> "waiting"
                     [] OTHER -> "incomplete"
             x == [g EXCEPT !.seen = anchor, !.page = page, !.is = is]
  <1>1. QuietWorld /\ Waiting("history")
    BY ReadingIsQuiet DEF ReadHistoryPage
  <1>2. kind = "replace" /\ g \in ReadStates /\ "history" \in Reads(kind) /\ g.seen <= now
        /\ now \in 1..2
    BY <1>1, ReadsOfRequests DEF DecisionsTyped
  <1>3. anchor \in 1..2 /\ anchor <= now
    <2>1. sees[g.at] \in 1..2 /\ sees[g.at] <= now
      BY <1>2, EndpointsAreBehind
    <2>2. g.seen \in 0..2
      BY <1>2 DEF ReadStates
    <2> HIDE DEF g
    <2> QED  BY <1>2, <2>1, <2>2
  <1>4. page \in 1..MaxPages /\ page >= g.page /\ g.page \in 1..MaxPages
    <2>1. g.page \in 1..MaxPages
      BY <1>2 DEF ReadStates
    <2> HIDE DEF g
    <2> QED  BY <2>1, DecisionConstants
  <1>5. is \in {"seen", "waiting", "incomplete"} /\ (is = "seen" => g.page >= length)
    BY DEF LastPage
  <1>6. read' = [read EXCEPT !["history"] = x]
    BY DEF ReadHistoryPage
  <1> HIDE DEF anchor, page, is, g
  <1>7. x \in ReadStates /\ x.seen = anchor /\ x.page = page /\ x.is = is
    <2>1. anchor \in 0..2
      BY <1>3
    <2> QED  BY <1>2, <1>4, <1>5, <2>1 DEF ReadStates
  <1> HIDE DEF x
  <1>8. DecisionsTyped' /\ read'["history"] = x
    BY <1>1, <1>2, <1>3, <1>6, <1>7, OneRead
  <1>9. kind' = kind /\ case' = case /\ now' = now
    BY <1>1 DEF QuietWorld
  <1>10. anchor \in 1..now'
    BY <1>2, <1>3, <1>9
  <1>11. is = "seen" => page >= length
    <2>1. length \in Int \/ ~(is = "seen" /\ ~(page >= length))
      OBVIOUS
    <2> QED  BY <1>4, <1>5
  <1>12. Ledger("history")' = case.ledgers[anchor]
    BY <1>7, <1>8, <1>9 DEF Ledger
  <1> QED  BY <1>2, <1>5, <1>7, <1>8, <1>9, <1>10, <1>11, <1>12 DEF ReadsAreTrue, Seen

LEMMA FactsRead ==
    ASSUME DecisionsTyped, NEW r \in DOMAIN read, ReadFact(r) \/ ReadOfSnapshot(r)
    PROVE  DecisionsTyped' /\ ReadsAreTrue'
  <1>1. QuietWorld /\ Waiting(r) /\ kind' = kind
    BY ReadingIsQuiet DEF ReadFact, ReadOfSnapshot, QuietWorld
  <1>2. r \in Reads(kind) /\ read[r] \in ReadStates
    BY <1>1, ReadsOfRequests
  <1>3. kind \notin {"verify", "replace"}
    <2>1. r \in {"fee", "payerFacts", "recipientFacts"} => kind = "accept"
      BY <1>1, ReadsOfRequests
    <2> QED  BY <2>1 DEF ReadFact, ReadOfSnapshot
  <1>4. sees[read[r].at] \in 0..2 /\ sees[read[r].at] <= now
    <2>1. sees[read[r].at] \in 1..2 /\ sees[read[r].at] <= now
      BY <1>2, EndpointsAreBehind
    <2> QED  BY <2>1
  <1>5. CASE ReadFact(r)
    <2>1. See(r, sees[read[r].at])
      BY <1>5 DEF ReadFact
    <2> QED  BY <1>1, <1>2, <1>3, <1>4, <2>1, SeeMoves, OtherRequests
  <1>6. CASE ReadOfSnapshot(r)
    <2> DEFINE state == IF r = "fee" THEN sees[read[r].at] ELSE read["state"].seen
    <2>1. See(r, state) /\ kind = "accept"
      BY <1>1, <1>6, ReadsOfRequests DEF ReadOfSnapshot
    <2>2. read["state"] \in ReadStates /\ read["state"].seen <= now
      BY <2>1 DEF DecisionsTyped, Reads
    <2>3. state \in 0..2 /\ state <= now
      BY <1>4, <2>2 DEF ReadStates
    <2> HIDE DEF state
    <2> QED  BY <1>1, <1>2, <1>3, <2>1, <2>3, SeeMoves, OtherRequests
  <1> QED  BY <1>5, <1>6

\* Reads that begin: any of them that keep to the limits may be put in place.
LEMMA AllReads ==
    ASSUME DecisionsTyped, QuietWorld, kind \notin {"verify", "replace"},
           read' \in [Reads(kind) -> ReadStates], \A r \in Reads(kind) : read'[r].seen <= now
    PROVE  DecisionsTyped' /\ ReadsAreTrue'
  BY OtherRequests DEF DecisionsTyped, QuietWorld

LEMMA SnapshotFailed ==
    ASSUME DecisionsTyped, NEW r \in DOMAIN read, SnapshotFails(r)
    PROVE  DecisionsTyped' /\ ReadsAreTrue'
  <1>1. kind = "accept" /\ QuietWorld /\ Waiting(r)
    BY ReadingIsQuiet DEF SnapshotFails
  <1> DEFINE at == read[r].at + 1
  <1>2. read[r].at \in 1..Endpoints /\ now \in 1..2
    BY <1>1, ReadsOfRequests DEF ReadStates, DecisionsTyped
  <1>3. read' = NewSnapshot(at)
    BY DEF SnapshotFails
  <1>4. at \in Int /\ at >= 1
    BY <1>2, DecisionConstants
  <1> HIDE DEF at
  <1>5. NewSnapshot(at) \in [Reads("accept") -> ReadStates]
        /\ \A q \in Reads("accept") : NewSnapshot(at)[q].seen = 0
    <2>1. [NewRead EXCEPT !.is = "unavailable"] \in ReadStates
          /\ [NewRead EXCEPT !.is = "unavailable"].seen = 0
      BY FreshReads DEF ReadStates
    <2>2. ~(at > Endpoints) => /\ [NewRead EXCEPT !.at = at] \in ReadStates
                               /\ [NewRead EXCEPT !.at = at].seen = 0
      <3>1. ~(at > Endpoints) => at \in 1..Endpoints
        BY <1>4, DecisionConstants
      <3> QED  BY <3>1, FreshReads
    <2> DEFINE x(q) == IF at > Endpoints THEN [NewRead EXCEPT !.is = "unavailable"]
                       ELSE IF q = "state" THEN [NewRead EXCEPT !.at = at] ELSE NotNeeded
    <2>3. \A q : x(q) \in ReadStates /\ x(q).seen = 0
      BY <2>1, <2>2, FreshReads
    <2>4. NewSnapshot(at) = [q \in Reads("accept") |-> x(q)]
      BY DEF NewSnapshot
    <2> HIDE DEF x
    <2> QED  BY <2>3, <2>4
  <1>6. \A q \in Reads(kind) : read'[q].seen <= now
    BY <1>1, <1>2, <1>3, <1>5
  <1> QED  BY <1>1, <1>3, <1>5, <1>6, AllReads

LEMMA ServerStateRead ==
    ASSUME DecisionsTyped, ReadServerState
    PROVE  DecisionsTyped' /\ ReadsAreTrue'
  <1> DEFINE g == read["state"]
             state == sees[g.at]
             x == [g EXCEPT !.is = "seen", !.seen = state]
             y == [NewRead EXCEPT !.at = x.at]
  <1>1. QuietWorld /\ Waiting("state")
    BY ReadingIsQuiet DEF ReadServerState
  <1>2. kind = "accept" /\ g \in ReadStates /\ now \in 1..2 /\ DOMAIN read = Reads(kind)
    BY <1>1, ReadsOfRequests DEF DecisionsTyped
  <1>3. sees[g.at] \in 1..2 /\ sees[g.at] <= now
    BY <1>2, EndpointsAreBehind
  <1>4. read' = [q \in DOMAIN read |-> IF q = "state" THEN x ELSE y]
    BY DEF ReadServerState
  <1>5. x \in ReadStates /\ x.seen = state /\ x.at \in 1..Endpoints
    <2>1. state \in 0..2
      BY <1>3
    <2>2. g \in ReadStates
      BY <1>2
    <2> HIDE DEF g, state
    <2> QED  BY <2>1, <2>2 DEF ReadStates
  <1> HIDE DEF x
  <1>6. y \in ReadStates /\ y.seen = 0
    BY <1>5, FreshReads
  <1> HIDE DEF y, g
  <1>7. read' \in [Reads(kind) -> ReadStates]
    BY <1>2, <1>4, <1>5, <1>6
  <1>8. \A q \in Reads(kind) : read'[q].seen <= now
    BY <1>2, <1>3, <1>4, <1>5, <1>6
  <1> QED  BY <1>1, <1>2, <1>7, <1>8, AllReads

LEMMA NextReadOfRole ==
    ASSUME DecisionsTyped, NEW role \in Roles, Continue(role)
    PROVE  DecisionsTyped' /\ ReadsAreTrue'
  <1> DEFINE next == IF Seen(IssuerRead(role)) THEN LineRead(role) ELSE IssuerRead(role)
             g == read[next]
             x == [g EXCEPT !.is = "waiting"]
  <1>1. kind = "readiness" /\ QuietWorld
    BY DEF Continue, QuietWorld
  <1>2. next \in Reads(kind)
    BY <1>1 DEF Reads, LineRead, IssuerRead, Roles
  <1>3. read' = [read EXCEPT ![next] = x]
    BY DEF Continue
  <1> HIDE DEF next
  <1>4. g \in ReadStates /\ g.seen <= now
    BY <1>2 DEF DecisionsTyped
  <1>5. x \in ReadStates /\ x.seen = g.seen
    <2> HIDE DEF g
    <2> QED  BY <1>4 DEF ReadStates
  <1> HIDE DEF x, g
  <1>6. DecisionsTyped'
    BY <1>1, <1>2, <1>3, <1>4, <1>5, OneRead
  <1>7. ReadsAreTrue'
    BY <1>1, OtherRequests DEF QuietWorld
  <1> QED  BY <1>6, <1>7

-----------------------------------------------------------------------------
(* The ledger moves on.                                                    *)

\* The case that is decided keeps to the rules of the ledger.
LEMMA CasesAreLegal ==
    ASSUME DecisionsTyped
    PROVE  /\ kind \in Kinds
           /\ kind = "verify" => LegalVerification(Intent, case.ledgers)
           /\ kind = "replace" =>
                 \A s \in 1..2 : LegalHistory(Intent, case.ledgers[s].history)
  BY DecisionConstants DEF DecisionsTyped, Intent

\* What was validated when it was read is so now, and the same.
LEMMA ValidatedStays ==
    ASSUME DecisionsTyped, kind = "verify", NEW s \in 1..2, NEW t \in 1..2, s <= t,
           case.ledgers[s].tx # None, case.ledgers[s].tx.validated
    PROVE  case.ledgers[t].tx = case.ledgers[s].tx
  <1>1. s = t \/ (s = 1 /\ t = 2)
    OBVIOUS
  <1>2. case.ledgers[1].tx # None /\ case.ledgers[1].tx.validated
           => case.ledgers[2].tx = case.ledgers[1].tx
    BY CasesAreLegal DEF LegalVerification
  <1> QED  BY <1>1, <1>2

LEMMA LedgerCloses ==
    ASSUME DecisionsInv, Close
    PROVE  DecisionsInv'
  <1>1. /\ kind' = kind /\ case' = case /\ sees' = sees /\ read' = read
        /\ answer' = answer /\ recorded' = recorded /\ now = 1 /\ now' = 2
    BY DEF Close
  <1>2. DecisionsTyped
    BY DEF DecisionsInv
  <1>3. DecisionsTyped'
    <2>1. \A e \in 1..Endpoints : sees[e] <= 2
      BY <1>2 DEF DecisionsTyped
    <2>2. \A r \in Reads(kind) : read[r].seen <= 2
      BY <1>2 DEF DecisionsTyped, ReadStates
    <2> QED  BY <1>1, <1>2, <2>1, <2>2 DEF DecisionsTyped
  <1>4. ReadsAreTrue'
    <2>1. \A k : k \in 1..now => k \in 1..now'
      BY <1>1
    <2> QED  BY <1>1, <2>1 DEF DecisionsInv, ReadsAreTrue, Seen, Ledger
  <1>5. VerifiedPaysTheSlot'
    <2> SUFFICES ASSUME kind = "verify", Answered("paid")
                 PROVE  Pays(Intent, case.ledgers[2].tx)
      BY <1>1 DEF VerifiedPaysTheSlot, Answered, PaysTheSlot, Intent
    <2>1. Pays(Intent, case.ledgers[1].tx)
      BY <1>1 DEF DecisionsInv, VerifiedPaysTheSlot, PaysTheSlot
    <2>2. case.ledgers[1].tx # None /\ case.ledgers[1].tx.validated
      BY <2>1 DEF Pays, Arrived
    <2>3. case.ledgers[2].tx = case.ledgers[1].tx
      BY <1>2, <2>2, ValidatedStays
    <2> QED  BY <2>1, <2>3
  <1>6. RetryIsSafe'
    <2>1. ASSUME kind = "verify", Answered("retry_safe"), answer.outcome.txid = "known"
          PROVE  /\ case.ledgers[2].tx # None /\ case.ledgers[2].tx.validated
                 /\ ~Arrived(case.ledgers[2].tx)
      <3>1. /\ case.ledgers[1].tx # None /\ case.ledgers[1].tx.validated
            /\ ~Arrived(case.ledgers[1].tx)
        BY <1>1, <2>1 DEF DecisionsInv, RetryIsSafe
      <3>2. case.ledgers[2].tx = case.ledgers[1].tx
        BY <1>2, <2>1, <3>1, ValidatedStays
      <3> QED  BY <3>1, <3>2
    <2>2. ASSUME kind = "replace", Answered("create")
          PROVE  \A i \in DOMAIN Ledger("history").history :
                     ~PaysTheSlot(Ledger("history").history[i])
      BY <2>2 DEF DecisionsInv, RetryIsSafe
    <2> QED  BY <1>1, <2>1, <2>2 DEF RetryIsSafe, Answered, PaysTheSlot, Intent, Ledger
  <1>7. ReviewIsRecorded'
    BY <1>1 DEF DecisionsInv, ReviewIsRecorded, Answered
  <1> QED  BY <1>3, <1>4, <1>5, <1>6, <1>7 DEF DecisionsInv

LEMMA EndpointFollows ==
    ASSUME DecisionsInv, NEW e \in 1..Endpoints, Follow(e)
    PROVE  DecisionsInv'
  <1>1. /\ kind' = kind /\ case' = case /\ now' = now /\ read' = read
        /\ answer' = answer /\ recorded' = recorded /\ sees' = [sees EXCEPT ![e] = now]
    BY DEF Follow
  <1>2. DecisionsTyped /\ ReadsAreTrue /\ VerifiedPaysTheSlot /\ RetryIsSafe /\ ReviewIsRecorded
    BY DEF DecisionsInv
  <1>3. DecisionsTyped'
    BY <1>1, <1>2 DEF DecisionsTyped
  <1>4. ReadsAreTrue'
    BY <1>1, <1>2 DEF ReadsAreTrue, Seen, Ledger
  <1>5. VerifiedPaysTheSlot' /\ RetryIsSafe' /\ ReviewIsRecorded'
    BY <1>1, <1>2 DEF VerifiedPaysTheSlot, RetryIsSafe, ReviewIsRecorded, Answered, PaysTheSlot,
                      Intent, Ledger
  <1> QED  BY <1>3, <1>4, <1>5 DEF DecisionsInv

\* While there is no answer, or the payer checks again, nothing is promised.
LEMMA NoAnswerYet ==
    ASSUME answer' = None
    PROVE  VerifiedPaysTheSlot' /\ RetryIsSafe' /\ ReviewIsRecorded'
  BY DEF VerifiedPaysTheSlot, RetryIsSafe, ReviewIsRecorded, Answered

LEMMA FirstReadsAreTrue ==
    ASSUME kind \in Kinds
    PROVE  /\ NewReads(kind) \in [Reads(kind) -> ReadStates]
           /\ \A r \in Reads(kind) : NewReads(kind)[r].seen = 0
           /\ kind = "verify" => NewReads(kind)["provider"].is = "waiting"
                                 /\ NewReads(kind)["tx"].is = "later"
           /\ kind = "replace" => NewReads(kind)["history"].is = "waiting"
  <1>1. NotNeeded.is = "later" /\ NewRead.is = "waiting"
    BY DEF NotNeeded, NewRead
  <1>2. /\ "provider" \in FirstReads /\ "history" \in FirstReads /\ "tx" \notin FirstReads
        /\ kind = "verify" => "provider" \in Reads(kind) /\ "tx" \in Reads(kind)
        /\ kind = "replace" => "history" \in Reads(kind)
    BY DEF FirstReads, Reads
  <1> QED  BY <1>1, <1>2, FreshReads DEF NewReads

LEMMA PayerChecksAgain ==
    ASSUME DecisionsInv, Recheck
    PROVE  DecisionsInv'
  <1>1. /\ kind' = kind /\ case' = case /\ now' = now /\ sees' = sees
        /\ kind = "verify" /\ read' = NewReads(kind) /\ answer' = None
    BY DEF Recheck
  <1>2. DecisionsTyped /\ kind \in Kinds /\ now \in 1..2
    BY DEF DecisionsInv, DecisionsTyped
  <1>3. DecisionsTyped'
    BY <1>1, <1>2, FirstReadsAreTrue DEF DecisionsTyped
  <1>4. ReadsAreTrue'
    BY <1>1, <1>2, FirstReadsAreTrue DEF ReadsAreTrue, Seen
  <1> QED  BY <1>1, <1>3, <1>4, NoAnswerYet DEF DecisionsInv

-----------------------------------------------------------------------------
(* The answers of the other requests.                                      *)

\* A decision reads nothing.
LEMMA DecidingIsQuiet ==
    ASSUME DecisionsInv, UNCHANGED <<kind, case, now, sees, read>>
    PROVE  DecisionsTyped' /\ ReadsAreTrue'
  <1>1. DecisionsTyped /\ ReadsAreTrue
    BY DEF DecisionsInv
  <1> QED  BY <1>1 DEF DecisionsTyped, ReadsAreTrue, Seen, Ledger

LEMMA OtherAnswers ==
    ASSUME DecisionsInv, DecideReadiness \/ DecidePlan \/ DecideAccounts
    PROVE  DecisionsInv'
  <1>1. DecisionsTyped' /\ ReadsAreTrue'
    BY DecidingIsQuiet DEF DecideReadiness, DecidePlan, DecideAccounts
  <1>2. kind' \notin {"verify", "replace"}
    BY DEF DecideReadiness, DecidePlan, DecideAccounts
  <1>3. VerifiedPaysTheSlot' /\ RetryIsSafe'
    BY <1>2 DEF VerifiedPaysTheSlot, RetryIsSafe
  <1>4. answer'.view # "review_required"
    <2>1. CASE DecideReadiness
      <3>1. answer'.view = GateCode(Verdict("payer"), Verdict("recipient"))
        BY <2>1 DEF DecideReadiness
      <3>2. \A payer, recipient : GateCode(payer, recipient) # "review_required"
        BY DEF GateCode
      <3> QED  BY <3>1, <3>2
    <2>2. CASE DecidePlan
      <3>1. \A status, limit : Planned(status, limit).view = status
        BY DEF Planned
      <3>2. \A purpose, account, issuer, line, network, units, scale :
                Plan(purpose, account, issuer, line, network, units, scale).view
                    \in {"blocked", "required", "not_required"}
        <4> TAKE purpose, account, issuer, line, network, units, scale
        <4>1. \/ Plan(purpose, account, issuer, line, network, units, scale) = NotPlanned
              \/ \E limit : Plan(purpose, account, issuer, line, network, units, scale)
                               \in {Planned("required", limit), Planned("not_required", limit)}
          BY Zenon DEF Plan
        <4> QED  BY <3>1, <4>1 DEF NotPlanned
      <3> QED  BY <2>2, <3>1, <3>2 DEF DecidePlan
    <2>3. CASE DecideAccounts
      BY <2>3 DEF DecideAccounts
    <2> QED  BY <2>1, <2>2, <2>3
  <1>5. ReviewIsRecorded'
    BY <1>4 DEF ReviewIsRecorded, Answered
  <1> QED  BY <1>1, <1>3, <1>5 DEF DecisionsInv

-----------------------------------------------------------------------------
(* Verification.                                                           *)

LEMMA WalletOutcomes ==
    ASSUME NEW p
    PROVE  \/ ProviderOutcome(p).status = "ask"
           \/ /\ ProviderOutcome(p).status \in {"pending", "failed"}
              /\ ProviderOutcome(p).reason
                    \in {"HANDOFF_NOT_SUBMITTED", "HANDOFF_REJECTED", "HANDOFF_EXPIRED"}
  <1>1. ProviderStatus(p).status \in {"submitted", "rejected", "expired", "signed", "available"}
    BY DEF ProviderStatus
  <1> DEFINE status == ProviderStatus(p).status
  <1> HIDE DEF status
  <1>2. status \in {"submitted", "rejected", "expired", "signed", "available"}
    BY <1>1 DEF status
  <1>3. \A txid : /\ Outcome("pending", "HANDOFF_NOT_SUBMITTED", txid).status = "pending"
                  /\ Outcome("failed", "HANDOFF_REJECTED", txid).status = "failed"
                  /\ Outcome("failed", "HANDOFF_EXPIRED", txid).status = "failed"
                  /\ Outcome("ask", None, txid).status = "ask"
                  /\ Outcome("pending", "HANDOFF_NOT_SUBMITTED", txid).reason = "HANDOFF_NOT_SUBMITTED"
                  /\ Outcome("failed", "HANDOFF_REJECTED", txid).reason = "HANDOFF_REJECTED"
                  /\ Outcome("failed", "HANDOFF_EXPIRED", txid).reason = "HANDOFF_EXPIRED"
    BY DEF Outcome
  <1>4. \E txid : ProviderOutcome(p) \in {Outcome("pending", "HANDOFF_NOT_SUBMITTED", txid),
                                          Outcome("failed", "HANDOFF_REJECTED", txid),
                                          Outcome("failed", "HANDOFF_EXPIRED", txid),
                                          Outcome("ask", None, txid)}
    BY <1>2 DEF ProviderOutcome, status
  <1> QED  BY <1>3, <1>4

\* What the server makes of the transaction is true of the ledger as it was read.
OutcomeIsTrue(outcome) ==
    /\ outcome.status \in {"verified", "pending", "failed", "unavailable"}
    /\ outcome.status = "verified" =>
          \E s \in 1..now : PaysTheSlot(case.ledgers[s].tx)
    /\ outcome.reason = "TRANSACTION_FAILED" =>
          \E s \in 1..now : /\ case.ledgers[s].tx # None /\ case.ledgers[s].tx.validated
                            /\ ~Arrived(case.ledgers[s].tx)

LEMMA OutcomesAreTrue ==
    ASSUME DecisionsInv, kind = "verify", Seen("provider"), ~Waiting("tx")
    PROVE  OutcomeIsTrue(VerifyOutcome)
  <1>1. DecisionsTyped /\ ReadsAreTrue
    BY DEF DecisionsInv
  <1>2. \A reason, txid : /\ Outcome("pending", reason, txid).status = "pending"
                          /\ Outcome("unavailable", reason, txid).status = "unavailable"
                          /\ Outcome("pending", reason, txid).reason = reason
                          /\ Outcome("unavailable", reason, txid).reason = reason
    BY DEF Outcome
  <1>3. None # "TRANSACTION_FAILED"
    BY DecisionConstants
  <1> DEFINE preliminary == ProviderOutcome(case.payload)
  <1>4. CASE preliminary.status # "ask"
    <2>1. VerifyOutcome = preliminary
      BY <1>4 DEF VerifyOutcome
    <2> QED  BY <1>4, <2>1, WalletOutcomes DEF OutcomeIsTrue
  <1>5. CASE preliminary.status = "ask" /\ read["tx"].is = "notFound"
    <2>1. ~Failed("tx")
      BY <1>5 DEF Failed
    <2>2. VerifyOutcome = Outcome("pending", "TRANSACTION_NOT_FOUND", "known")
      BY <1>5, <2>1 DEF VerifyOutcome
    <2> QED  BY <1>2, <2>2 DEF OutcomeIsTrue
  <1>6. CASE preliminary.status = "ask" /\ Failed("tx")
    <2>1. VerifyOutcome = Outcome("unavailable", None, None)
      BY <1>6 DEF VerifyOutcome, Failed
    <2> QED  BY <1>2, <1>3, <2>1 DEF OutcomeIsTrue
  <1>7. CASE preliminary.status = "ask" /\ read["tx"].is # "notFound" /\ ~Failed("tx")
    <2> DEFINE seen == read["tx"].seen
               tx == case.ledgers[seen].tx
    <2>1. VerifyOutcome = Verify(Intent, tx)
      BY <1>7 DEF VerifyOutcome, Ledger
    <2>2. read["tx"] \in ReadStates /\ "tx" \in DOMAIN read /\ now \in 1..2
      BY <1>1 DEF DecisionsTyped, Reads
    <2>3. Seen("tx")
      <3>1. read["tx"].is \in {"waiting", "later", "seen", "notFound", "unavailable", "incomplete"}
        BY <2>2 DEF ReadStates
      <3>2. read["tx"].is \notin {"later", "incomplete"}
        BY <1>1, <1>7 DEF ReadsAreTrue
      <3>3. read["tx"].is \notin {"waiting", "notFound", "unavailable"}
        BY <1>7, <2>2 DEF Waiting, Failed
      <3> QED  BY <3>1, <3>2, <3>3 DEF Seen
    <2>4. seen \in 1..now /\ tx # None
      BY <1>1, <2>3 DEF ReadsAreTrue, Ledger
    <2>5. AmountsOf(Intent, tx.delivered)
      <3>1. seen \in 1..2
        BY <2>2, <2>4
      <3>2. LegalVerification(Intent, case.ledgers)
        BY <1>1, CasesAreLegal
      <3> QED  BY <2>4, <3>1, <3>2 DEF LegalVerification
    <2> HIDE DEF seen, tx
    <2>6. Verify(Intent, tx).status \in {"verified", "pending", "failed"}
      BY DEF Verify, Outcome
    <2>7. ASSUME VerifyOutcome.status = "verified"
          PROVE  \E s \in 1..now : PaysTheSlot(case.ledgers[s].tx)
      <3>1. Pays(Intent, tx)
        BY <2>1, <2>4, <2>5, <2>7, VerifiedPays
      <3> QED  BY <2>4, <3>1 DEF PaysTheSlot, tx
    <2>8. ASSUME VerifyOutcome.reason = "TRANSACTION_FAILED"
          PROVE  \E s \in 1..now : /\ case.ledgers[s].tx # None /\ case.ledgers[s].tx.validated
                                   /\ ~Arrived(case.ledgers[s].tx)
      <3>1. tx.validated /\ tx.result # "tesSUCCESS"
        BY <1>3, <2>1, <2>8, FailedIsFinal
      <3>2. tx.validated /\ ~Arrived(tx)
        BY <3>1 DEF Arrived
      <3> QED  BY <2>4, <3>2 DEF tx
    <2> QED  BY <2>1, <2>6, <2>7, <2>8 DEF OutcomeIsTrue
  <1> QED  BY <1>4, <1>5, <1>6, <1>7

\* Another attempt is offered for a known transaction only if that one has failed.
LEMMA RetriesAfterFailures ==
    ASSUME NEW outcome, outcome.txid = "known",
           ViewOfRecovery(ClassifyPaymentRecovery(outcome)) = "retry_safe"
    PROVE  outcome.reason = "TRANSACTION_FAILED"
  <1>1. "known" # None
    BY DecisionConstants
  <1>2. \A disposition, rule : /\ Recovery(disposition, rule).disposition = disposition
                               /\ Recovery(disposition, rule).rule = rule
    BY DEF Recovery
  <1>3. \A r : ViewOfRecovery(r) = "retry_safe" => r.disposition \in {"safe_retry", "retry_safe"}
    BY DEF ViewOfRecovery
  <1>4. ASSUME outcome.reason # "TRANSACTION_FAILED"
        PROVE  ClassifyPaymentRecovery(outcome).disposition
                   \in {"wait_recheck", "terminal", "review_required"}
    <2>1. \/ ClassifyPaymentRecovery(outcome) = Recovery("wait_recheck", "blocked")
          \/ ClassifyPaymentRecovery(outcome) = ClassifyFailure(outcome.reason, outcome.txid)
      BY DEF ClassifyPaymentRecovery
    <2>2. ClassifyFailure(outcome.reason, outcome.txid)
              \in {Recovery("wait_recheck", "blocked"), Recovery("terminal", "blocked"),
                   Recovery("review_required", "blocked")}
      BY <1>1, <1>4 DEF ClassifyFailure
    <2> QED  BY <1>2, <2>1, <2>2
  <1> QED  BY <1>3, <1>4

LEMMA PaidIsNoRecovery ==
    ASSUME NEW outcome
    PROVE  /\ ViewOfRecovery(ClassifyPaymentRecovery(outcome)) # "paid"
           /\ ClassifyPaymentRecovery(outcome).disposition # "review_required"
                 => ViewOfRecovery(ClassifyPaymentRecovery(outcome)) # "review_required"
  <1>1. \A disposition, rule : Recovery(disposition, rule).disposition = disposition
    BY DEF Recovery
  <1>2. ClassifyPaymentRecovery(outcome)
            \in {Recovery("safe_retry", "reconcile_first"), Recovery("wait_recheck", "blocked"),
                 Recovery("terminal", "blocked"), Recovery("review_required", "blocked")}
    <2>1. \A reason, txid : ClassifyFailure(reason, txid)
            \in {Recovery("safe_retry", "reconcile_first"), Recovery("wait_recheck", "blocked"),
                 Recovery("terminal", "blocked"), Recovery("review_required", "blocked")}
      BY DEF ClassifyFailure
    <2> QED  BY <2>1 DEF ClassifyPaymentRecovery
  <1>3. ClassifyPaymentRecovery(outcome).disposition
            \in {"safe_retry", "wait_recheck", "terminal", "review_required"}
    BY <1>1, <1>2
  <1> QED  BY <1>3 DEF ViewOfRecovery

LEMMA VerificationAnswers ==
    ASSUME DecisionsInv, DecideVerify
    PROVE  DecisionsInv'
  <1>1. DecisionsTyped' /\ ReadsAreTrue'
    BY DecidingIsQuiet DEF DecideVerify
  <1>2. /\ kind' = kind /\ case' = case /\ now' = now /\ read' = read /\ kind = "verify"
        /\ Seen("provider") /\ ~Waiting("tx")
    BY DEF DecideVerify
  <1>3. DecisionsTyped /\ now \in 1..2
    BY DEF DecisionsInv, DecisionsTyped
  <1> DEFINE outcome == VerifyOutcome
             recovery == ClassifyPaymentRecovery(outcome)
  <1>4. OutcomeIsTrue(outcome)
    BY <1>2, OutcomesAreTrue
  <1>5. \A o, view : Answer(o, view) # None => Answer(o, view).view = view /\ Answer(o, view).outcome = o
    BY DEF Answer
  <1>6. \A o, view : Answer(o, view).view = view /\ Answer(o, view).outcome = o
    BY DEF Answer
  <1>7. \/ outcome.status = "verified" /\ answer' = Answer(outcome, "paid")
        \/ outcome.status = "unavailable" /\ answer' = Answer(outcome, "wait_recheck")
        \/ /\ outcome.status \in {"pending", "failed"}
           /\ recovery.disposition = "review_required" /\ RecordReview(outcome)
        \/ /\ outcome.status \in {"pending", "failed"}
           /\ recovery.disposition # "review_required"
           /\ answer' = Answer(outcome, ViewOfRecovery(recovery))
    <2>1. outcome.status \in {"verified", "pending", "failed", "unavailable"}
      BY <1>4 DEF OutcomeIsTrue
    <2> QED  BY <2>1 DEF DecideVerify
  <1> HIDE DEF outcome
  <1>8. CASE outcome.status = "verified" /\ answer' = Answer(outcome, "paid")
    <2>1. answer'.view = "paid"
      BY <1>6, <1>8
    <2>2. PICK s \in 1..now : PaysTheSlot(case.ledgers[s].tx)
      BY <1>4, <1>8 DEF OutcomeIsTrue
    <2>3. s \in 1..2 /\ now \in 1..2 /\ s <= now
      BY <1>3
    <2>4. case.ledgers[s].tx # None /\ case.ledgers[s].tx.validated
      BY <2>2 DEF PaysTheSlot, Pays, Arrived
    <2>5. case.ledgers[now].tx = case.ledgers[s].tx
      BY <1>2, <1>3, <2>3, <2>4, ValidatedStays
    <2>6. PaysTheSlot(case.ledgers[now].tx)
      BY <2>2, <2>5
    <2>7. VerifiedPaysTheSlot'
      BY <1>2, <2>6 DEF VerifiedPaysTheSlot, PaysTheSlot, Intent
    <2>8. RetryIsSafe' /\ ReviewIsRecorded'
      BY <1>2, <2>1 DEF RetryIsSafe, ReviewIsRecorded, Answered
    <2> QED  BY <1>1, <2>7, <2>8 DEF DecisionsInv
  <1>9. CASE outcome.status = "unavailable" /\ answer' = Answer(outcome, "wait_recheck")
    <2>1. answer'.view = "wait_recheck"
      BY <1>6, <1>9
    <2>2. VerifiedPaysTheSlot' /\ RetryIsSafe' /\ ReviewIsRecorded'
      BY <1>2, <2>1 DEF VerifiedPaysTheSlot, RetryIsSafe, ReviewIsRecorded, Answered
    <2> QED  BY <1>1, <2>2 DEF DecisionsInv
  <1>10. CASE RecordReview(outcome)
    <2>1. \/ answer'.view = "review_required" /\ recorded' = TRUE
          \/ answer'.view = "wait_recheck"
      BY <1>6, <1>10 DEF RecordReview
    <2>2. VerifiedPaysTheSlot' /\ RetryIsSafe' /\ ReviewIsRecorded'
      BY <1>2, <2>1 DEF VerifiedPaysTheSlot, RetryIsSafe, ReviewIsRecorded, Answered
    <2> QED  BY <1>1, <2>2 DEF DecisionsInv
  <1>11. CASE recovery.disposition # "review_required"
              /\ answer' = Answer(outcome, ViewOfRecovery(recovery))
    <2>1. answer'.view = ViewOfRecovery(recovery) /\ answer'.outcome = outcome
      BY <1>6, <1>11
    <2>2. answer'.view # "paid" /\ answer'.view # "review_required"
      BY <1>11, <2>1, PaidIsNoRecovery
    <2>3. VerifiedPaysTheSlot' /\ ReviewIsRecorded'
      BY <2>2 DEF VerifiedPaysTheSlot, ReviewIsRecorded, Answered
    <2>4. ASSUME answer'.view = "retry_safe", answer'.outcome.txid = "known"
          PROVE  /\ case.ledgers[now].tx # None /\ case.ledgers[now].tx.validated
                 /\ ~Arrived(case.ledgers[now].tx)
      <3>1. outcome.reason = "TRANSACTION_FAILED"
        BY <2>1, <2>4, RetriesAfterFailures
      <3>2. PICK s \in 1..now : /\ case.ledgers[s].tx # None /\ case.ledgers[s].tx.validated
                                /\ ~Arrived(case.ledgers[s].tx)
        BY <1>4, <3>1 DEF OutcomeIsTrue
      <3>3. s \in 1..2 /\ now \in 1..2 /\ s <= now
        BY <1>3
      <3>4. case.ledgers[now].tx = case.ledgers[s].tx
        BY <1>2, <1>3, <3>2, <3>3, ValidatedStays
      <3> QED  BY <3>2, <3>4
    <2>5. RetryIsSafe'
      <3>1. kind' # "replace"
        BY <1>2
      <3>2. Answered("retry_safe")' => answer'.view = "retry_safe"
        BY DEF Answered
      <3> QED  BY <1>2, <2>4, <3>1, <3>2 DEF RetryIsSafe
    <2> QED  BY <1>1, <2>3, <2>5 DEF DecisionsInv
  <1> QED  BY <1>7, <1>8, <1>9, <1>10, <1>11

-----------------------------------------------------------------------------
(* Reconciliation.                                                         *)

\* A search that is over and finds nothing leaves no payment of the slot.
LEMMA NothingIsMissed ==
    ASSUME DecisionsTyped, ReadsAreTrue, kind = "replace", Seen("history"), Matching = {},
           NEW i \in DOMAIN Ledger("history").history
    PROVE  ~PaysTheSlot(Ledger("history").history[i])
  <1> DEFINE history == Ledger("history").history
             f == history[i]
             tx == [f EXCEPT !.hash = "asked"]
  <1>1. read["history"].seen \in 1..now /\ read["history"].page >= Len(history) /\ now \in 1..2
    BY DEF ReadsAreTrue, DecisionsTyped
  <1>2. LegalHistory(Intent, history)
    <2>1. read["history"].seen \in 1..2
      BY <1>1
    <2> QED  BY <2>1, CasesAreLegal DEF Ledger
  <1>3. "history" \in Reads(kind) /\ read["history"] \in ReadStates
    BY DEF DecisionsTyped, Reads
  <1>4. read["history"].page \in Nat
    BY <1>3, DecisionConstants DEF ReadStates
  <1>5. i \in DOMAIN history
    OBVIOUS
  <1>6. Found = {history[k] : k \in {j \in DOMAIN history : j <= read["history"].page}}
    BY DEF Found
  <1> HIDE DEF history
  <1>7. DOMAIN history = 1..Len(history) /\ Len(history) \in Nat
    BY <1>2 DEF LegalHistory
  <1>8. f \in Found
    <2>1. i <= read["history"].page
      BY <1>1, <1>4, <1>5, <1>7
    <2> QED  BY <1>5, <1>6, <2>1
  <1> SUFFICES ASSUME Pays(Intent, f) PROVE FALSE
    BY DEF PaysTheSlot, history
  <1>9. /\ AsRequested(Intent, tx) /\ AmountsOf(Intent, tx.delivered)
        /\ tx.delivered.value.fraction - tx.delivered.value.exponent <= MaxDigits
    BY <1>2, <1>5, <1>7 DEF LegalHistory
  <1>10. f.invoice = Intent.invoice
    BY DEF Pays
  <1> HIDE DEF f
  <1>11. Verify(Intent, tx).status = "verified"
    <2> HIDE DEF tx
    <2> QED  BY <1>9, RequestedIsVerified
  <1>12. f.hash \in Matching
    BY <1>8, <1>10, <1>11, Zenon DEF Matching
  <1> QED  BY <1>12

LEMMA ReconciliationAnswers ==
    ASSUME DecisionsInv, DecideReplace
    PROVE  DecisionsInv'
  <1>1. DecisionsTyped' /\ ReadsAreTrue'
    BY DecidingIsQuiet DEF DecideReplace
  <1>2. /\ kind' = kind /\ case' = case /\ read' = read /\ kind = "replace"
        /\ DecisionsTyped /\ ReadsAreTrue
    BY DEF DecideReplace, DecisionsInv
  <1> DEFINE view == CASE ~Seen("history") -> "PAYMENT_RECONCILIATION_UNAVAILABLE"
                       [] Seen("history") /\ Matching = {} -> "create"
                       [] Seen("history") /\ Cardinality(Matching) = 1 -> "SLOT_ALREADY_PAID"
                       [] OTHER -> "PAYMENT_REQUIRES_REVIEW"
  <1>3. /\ view = "create" => Seen("history") /\ Matching = {}
        /\ view # "review_required"
    BY Zenon
  <1>4. answer' = [view |-> view]
    BY DEF DecideReplace
  <1> HIDE DEF view
  <1>5. answer'.view = view
    BY <1>4
  <1>6. ASSUME view = "create"
        PROVE  \A i \in DOMAIN Ledger("history").history :
                   ~PaysTheSlot(Ledger("history").history[i])
    BY <1>2, <1>3, <1>6, NothingIsMissed
  <1>7. VerifiedPaysTheSlot' /\ ReviewIsRecorded'
    BY <1>2, <1>3, <1>5 DEF VerifiedPaysTheSlot, ReviewIsRecorded, Answered
  <1>8. RetryIsSafe'
    BY <1>2, <1>5, <1>6 DEF RetryIsSafe, Answered, PaysTheSlot, Intent, Ledger
  <1> QED  BY <1>1, <1>7, <1>8 DEF DecisionsInv

-----------------------------------------------------------------------------
(* The theorems.                                                           *)

LEMMA DecisionsBegin ==
    ASSUME Init
    PROVE  DecisionsInv
  <1>1. kind \in Kinds /\ \E c \in Cases : kind = c[1] /\ case = c[2]
    BY DecisionConstants DEF Init
  <1>2. now = 1 /\ sees = [e \in 1..Endpoints |-> 1] /\ read = NewReads(kind) /\ answer = None
    BY DEF Init
  <1>3. DecisionsTyped
    BY <1>1, <1>2, FirstReadsAreTrue DEF DecisionsTyped
  <1>4. ReadsAreTrue
    BY <1>1, <1>2, FirstReadsAreTrue DEF ReadsAreTrue, Seen
  <1>5. VerifiedPaysTheSlot /\ RetryIsSafe /\ ReviewIsRecorded
    BY <1>2 DEF VerifiedPaysTheSlot, RetryIsSafe, ReviewIsRecorded, Answered
  <1> QED  BY <1>3, <1>4, <1>5 DEF DecisionsInv

LEMMA DecisionsStep ==
    ASSUME DecisionsInv, [Next]_vars
    PROVE  DecisionsInv'
  <1>1. DecisionsTyped /\ ReadsAreTrue
    BY DEF DecisionsInv
  <1>2. ASSUME ReadProvider \/ ReadTransaction \/ ReadHistoryPage \/ ReadServerState
        PROVE  DecisionsInv'
    <2>1. answer' = None
      BY <1>2 DEF ReadProvider, ReadTransaction, ReadHistoryPage, ReadServerState, Reading
    <2>2. DecisionsTyped' /\ ReadsAreTrue'
      BY <1>1, <1>2, ProviderRead, TransactionRead, HistoryRead, ServerStateRead
    <2> QED  BY <2>1, <2>2, NoAnswerYet DEF DecisionsInv
  <1>3. ASSUME NEW r \in DOMAIN read,
               ReadFact(r) \/ ReadOfSnapshot(r) \/ EndpointFails(r) \/ EndpointRefuses(r)
                   \/ SnapshotFails(r)
        PROVE  DecisionsInv'
    <2>1. answer' = None
      BY <1>3 DEF ReadFact, ReadOfSnapshot, EndpointFails, EndpointRefuses, SnapshotFails, Reading
    <2>2. DecisionsTyped' /\ ReadsAreTrue'
      BY <1>1, <1>3, FactsRead, FailedReads, SnapshotFailed
    <2> QED  BY <2>1, <2>2, NoAnswerYet DEF DecisionsInv
  <1>4. ASSUME NEW role \in Roles, Continue(role)
        PROVE  DecisionsInv'
    <2>1. answer' = None
      BY <1>4 DEF Continue
    <2> QED  BY <1>1, <1>4, <2>1, NextReadOfRole, NoAnswerYet DEF DecisionsInv
  <1>5. ASSUME DecideReadiness \/ DecidePlan \/ DecideAccounts
        PROVE  DecisionsInv'
    BY <1>5, OtherAnswers
  <1>6. ASSUME DecideVerify PROVE DecisionsInv'
    BY <1>6, VerificationAnswers
  <1>7. ASSUME DecideReplace PROVE DecisionsInv'
    BY <1>7, ReconciliationAnswers
  <1>8. ASSUME Recheck PROVE DecisionsInv'
    BY <1>8, PayerChecksAgain
  <1>9. ASSUME Advance PROVE DecisionsInv'
    BY <1>9, LedgerCloses, EndpointFollows DEF Advance
  <1>10. CASE UNCHANGED vars
    <2>1. DecisionsTyped' /\ ReadsAreTrue'
      BY <1>10, DecidingIsQuiet DEF vars
    <2>2. VerifiedPaysTheSlot' /\ RetryIsSafe' /\ ReviewIsRecorded'
      BY <1>10 DEF vars, DecisionsInv, VerifiedPaysTheSlot, RetryIsSafe, ReviewIsRecorded,
                   Answered, PaysTheSlot, Intent, Ledger
    <2> QED  BY <2>1, <2>2 DEF DecisionsInv
  <1> QED  BY <1>2, <1>3, <1>4, <1>5, <1>6, <1>7, <1>8, <1>9, <1>10 DEF Next, Serve

\* A read that is over has what the ledger held when it was read, and what the server
\* answers is true of the ledger as it is now: the inductive invariant of a request.
THEOREM DecisionsAreInvariant == Spec => []DecisionsInv
  <1>1. Init => DecisionsInv
    BY DecisionsBegin
  <1>2. DecisionsInv /\ [Next]_vars => DecisionsInv'
    BY DecisionsStep
  <1> QED  BY <1>1, <1>2, PTL DEF Spec

\* verifyAndSettleStoredSlotPayment shows a slot as paid only for a transaction that
\* delivered the frozen amount from its payer to its recipient, whatever amount was
\* frozen, however the ledger spells it and however many endpoints lag behind.
THEOREM PaidMeansDelivered == Spec => []VerifiedPaysTheSlot
  <1>1. DecisionsInv => VerifiedPaysTheSlot
    BY DEF DecisionsInv
  <1> QED  BY <1>1, DecisionsAreInvariant, PTL

\* classifyPaymentRecovery offers another attempt after a known transaction only if that
\* one can bring nothing any more; reconcileReplacementPayment lets a new request be
\* created only if the whole history it searched holds no payment of the slot.
THEOREM RetriesAreSafe == Spec => []RetryIsSafe
  <1>1. DecisionsInv => RetryIsSafe
    BY DEF DecisionsInv
  <1> QED  BY <1>1, DecisionsAreInvariant, PTL

\* The payer is told of a review only after markPaymentSlotNeedsReview has written it.
THEOREM ReviewsAreRecorded == Spec => []ReviewIsRecorded
  <1>1. DecisionsInv => ReviewIsRecorded
    BY DEF DecisionsInv
  <1> QED  BY <1>1, DecisionsAreInvariant, PTL

-----------------------------------------------------------------------------
(* Amounts of account lines.                                               *)

\* Powers multiply, as far as they are known.
LEMMA PowersMultiply ==
    ASSUME NEW m \in 0..MaxDigits, NEW n \in 0..MaxDigits, m + n <= MaxDigits
    PROVE  10^(m + n) = 10^m * 10^n
  <1> DEFINE T == {k \in 0..n : ~(10^(m + k) = 10^m * 10^k)}
  <1>1. SUFFICES ASSUME n \in T PROVE FALSE
    BY PowersOfTen
  <1>2. T \subseteq Nat /\ T # {}
    <2>1. 0..n \subseteq Nat
      BY PowersOfTen
    <2>2. T \subseteq 0..n
      BY Zenon
    <2> QED  BY <1>1, <2>1, <2>2, Zenon
  <1>3. PICK k \in T : \A j \in T : k <= j
    BY <1>2, LeastNumber
  <1>4. k \in 0..n /\ ~(10^(m + k) = 10^m * 10^k) /\ 10^m \in Nat /\ k \in 0..MaxDigits
    BY <1>3, PowerIsPositive, PowersOfTen
  <1>5. k # 0
    <2>1. m + 0 = m /\ 10^m * 1 = 10^m
      BY <1>4
    <2> QED  BY <1>4, <2>1, PowersOfTen
  <1>6. /\ k \in 1..MaxDigits /\ k - 1 \in 0..n /\ k - 1 \in 0..MaxDigits /\ ~(k <= k - 1)
        /\ m + k \in 1..MaxDigits /\ (m + k) - 1 = m + (k - 1)
    BY <1>4, <1>5, PowersOfTen
  <1>7. 10^(m + (k - 1)) = 10^m * 10^(k - 1)
    BY <1>3, <1>6
  <1>8. 10^k = 10 * 10^(k - 1) /\ 10^(k - 1) \in Nat /\ 10^(m + k) = 10 * 10^(m + (k - 1))
    BY <1>6, PowersOfTen, PowerIsPositive
  <1>9. 10^(m + k) = 10^m * 10^k
    <2> DEFINE p == 10^(k - 1)
               a == 10^m
    <2>1. p \in Nat /\ a \in Nat /\ 10^k = 10 * p /\ 10^(m + k) = 10 * (a * p)
      BY <1>4, <1>7, <1>8
    <2>2. 10 * (a * p) = a * (10 * p)
      <3> HIDE DEF a, p
      <3> QED  BY <2>1
    <2> QED  BY <2>1, <2>2
  <1> QED  BY <1>4, <1>9

\* A factor that is positive changes no comparison.
LEMMA FactorsDrop ==
    ASSUME NEW x \in Int, NEW y \in Int, NEW z \in Nat, z > 0
    PROVE  /\ x >= y <=> x * z >= y * z
           /\ x * z = y * z => x = y
  <1>1. x >= y => x * z >= y * z
    <2> SUFFICES ASSUME x >= y PROVE x * z >= y * z
      OBVIOUS
    <2>1. (x - y) * z >= 0
      OBVIOUS
    <2>2. (x - y) * z = x * z - y * z
      OBVIOUS
    <2>3. x * z \in Int /\ y * z \in Int
      OBVIOUS
    <2> DEFINE a == x * z  b == y * z
    <2>4. a \in Int /\ b \in Int /\ a - b >= 0
      BY <2>1, <2>2, <2>3
    <2> HIDE DEF a, b
    <2>5. a >= b
      BY <2>4
    <2> QED BY <2>5 DEF a, b
  <1>2. x < y => x * z < y * z
    <2> SUFFICES ASSUME x < y PROVE x * z < y * z
      OBVIOUS
    <2>1. (y - x) * z > 0
      OBVIOUS
    <2>2. (y - x) * z = y * z - x * z
      OBVIOUS
    <2> DEFINE a == x * z  b == y * z
    <2>4. a \in Int /\ b \in Int /\ b - a > 0
      BY <2>1, <2>2
    <2> HIDE DEF a, b
    <2>5. a < b
      BY <2>4
    <2> QED BY <2>5 DEF a, b
  <1>3. y < x => y * z < x * z
    <2> SUFFICES ASSUME y < x PROVE y * z < x * z
      OBVIOUS
    <2>1. (x - y) * z > 0
      OBVIOUS
    <2>2. (x - y) * z = x * z - y * z
      OBVIOUS
    <2> DEFINE a == x * z  b == y * z
    <2>4. a \in Int /\ b \in Int /\ a - b > 0
      BY <2>1, <2>2
    <2> HIDE DEF a, b
    <2>5. b < a
      BY <2>4
    <2> QED BY <2>5 DEF a, b
  <1>4. x * z \in Int /\ y * z \in Int
    OBVIOUS
  <1> DEFINE a == x * z  b == y * z
  <1>5. a \in Int /\ b \in Int /\ (x >= y => a >= b) /\ (x < y => a < b) /\ (y < x => b < a)
    BY <1>1, <1>2, <1>3, <1>4
  <1> HIDE DEF a, b
  <1>6. (x >= y <=> a >= b) /\ (a = b => x = y)
    BY <1>5
  <1> QED  BY <1>6 DEF a, b

\* parseDecimal and alignDecimal are exact.
LEMMA AlignedIsExact ==
    ASSUME NEW d, LegalDecimal(d), NEW n \in 0..MaxDigits, d.fraction <= n
    PROVE  /\ Align(d, n) \in Int
           /\ Align(d, n) * 10^d.fraction = d.coefficient * 10^n
           /\ 10^n = 10^(n - d.fraction) * 10^d.fraction
  <1> DEFINE f == d.fraction
             c == d.coefficient
             p == 10^(n - f)
             q == 10^f
  <1>1. /\ f \in 0..MaxDigits /\ c \in Int /\ n - f \in 0..MaxDigits
        /\ (n - f) + f = n /\ n <= MaxDigits
    BY PowersOfTen DEF LegalDecimal
  <1>2. 10^n = p * q
    <2> DEFINE m == n - f
    <2>1. m \in 0..MaxDigits /\ m + f <= MaxDigits /\ m + f = n
      BY <1>1
    <2> HIDE DEF m, f
    <2>2. 10^(m + f) = 10^m * 10^f
      BY <1>1, <2>1, PowersMultiply
    <2> QED  BY <2>1, <2>2 DEF m, f
  <1>3. p \in Nat /\ q \in Nat
    <2> HIDE DEF f
    <2> QED  BY <1>1, PowerIsPositive
  <1>4. Align(d, n) = c * p
    BY DEF Align
  <1>5. c * p \in Int /\ (c * p) * q = c * (p * q)
    <2> HIDE DEF c, p, q
    <2> QED  BY <1>1, <1>3
  <1> QED  BY <1>2, <1>4, <1>5

\* Aligned to any scale that is fine enough, a difference compares as the numbers do.
LEMMA DifferencesCompare ==
    ASSUME NEW left, LegalDecimal(left), NEW right, LegalDecimal(right),
           NEW units \in Nat, NEW scale \in 0..MaxDigits,
           NEW n \in 0..MaxDigits, left.fraction <= n, right.fraction <= n, scale <= n
    PROVE  Align(left, n) - Align(right, n) >= units * 10^(n - scale)
               <=> Exceeds(left, right, units, scale)
  <1> DEFINE a == left.coefficient
             b == right.coefficient
             A == 10^left.fraction
             B == 10^right.fraction
             C == 10^scale
             P == 10^n
             x == Align(left, n)
             y == Align(right, n)
             r == 10^(n - scale)
  <1>1. /\ a \in Int /\ b \in Int /\ left.fraction \in 0..MaxDigits
        /\ right.fraction \in 0..MaxDigits
    BY DEF LegalDecimal
  <1>2. /\ A \in Nat /\ A > 0 /\ B \in Nat /\ B > 0 /\ C \in Nat /\ C > 0 /\ P \in Nat /\ P > 0
    BY <1>1, PowerIsPositive
  <1>3. x \in Int /\ x * A = a * P
    BY AlignedIsExact
  <1>4. y \in Int /\ y * B = b * P
    BY AlignedIsExact
  <1>5. r \in Nat /\ r * C = P
    <2> DEFINE one == [coefficient |-> 1, fraction |-> scale]
    <2>1. LegalDecimal(one) /\ one.fraction = scale
      BY DEF LegalDecimal
    <2> HIDE DEF one
    <2>2. P = r * C
      BY <2>1, AlignedIsExact
    <2>3. n - scale \in 0..MaxDigits
      BY PowersOfTen
    <2> QED  BY <2>2, <2>3, PowerIsPositive
  <1>6. Exceeds(left, right, units, scale) <=> (a * B - b * A) * C >= units * (A * B)
    BY DEF Exceeds
  <1> HIDE DEF a, b, A, B, C, P, x, y, r
  <1> DEFINE K == A * (B * C)
             u == units * r
             v == (a * B - b * A) * C
             w == units * (A * B)
  <1>7. K \in Nat /\ K > 0 /\ u \in Int /\ v \in Int /\ w \in Int /\ x - y \in Int
    BY <1>1, <1>2, <1>3, <1>4, <1>5
  <1>8. (x - y) * K = v * P
    <2>1. (x - y) * K = (x * A) * (B * C) - (y * B) * (A * C)
      BY <1>2, <1>3, <1>4
    <2>2. @ = (a * P) * (B * C) - (b * P) * (A * C)
      BY <1>3, <1>4
    <2>3. @ = v * P
      BY <1>1, <1>2
    <2> QED  BY <2>1, <2>2, <2>3
  <1>9. u * K = w * P
    <2>1. u * K = (r * C) * (units * (A * B))
      BY <1>2, <1>5
    <2>2. @ = P * w
      BY <1>5
    <2>3. @ = w * P
      BY <1>2, <1>7
    <2> QED  BY <2>1, <2>2, <2>3
  <1>10. x - y >= u <=> v >= w
    <2> HIDE DEF K, u, v, w
    <2> DEFINE d == x - y
    <2>1. d \in Int
      BY <1>7
    <2> HIDE DEF d
    <2>2. d >= u <=> d * K >= u * K
      BY <1>7, <2>1, FactorsDrop
    <2>3. v >= w <=> v * P >= w * P
      BY <1>2, <1>7, FactorsDrop
    <2>4. d * K = v * P
      BY <1>8 DEF d
    <2> QED  BY <1>9, <2>2, <2>3, <2>4 DEF d
  <1> QED  BY <1>6, <1>10 DEF x, y, u, r, v, w, a, b, A, B, C

\* The greater of two, of three and of four numbers.
LEMMA GreatestOf ==
    ASSUME NEW a \in Int, NEW b \in Int, NEW c \in Int, NEW d \in Int
    PROVE  /\ Max({a, b}) \in {a, b} /\ Max({a, b}) >= a /\ Max({a, b}) >= b
           /\ Max({a, b, c}) \in {a, b, c} /\ \A x \in {a, b, c} : Max({a, b, c}) >= x
           /\ Max({a, b, c, d}) \in {a, b, c, d} /\ \A x \in {a, b, c, d} : Max({a, b, c, d}) >= x
  <1>1. ASSUME NEW S, NEW m \in S, \A x \in S : m >= x
        PROVE  Max(S) \in S /\ \A x \in S : Max(S) >= x
    BY <1>1, Zenon DEF Max
  <1>2. \E m \in {a, b} : \A x \in {a, b} : m >= x
    OBVIOUS
  <1>3. \E m \in {a, b, c} : \A x \in {a, b, c} : m >= x
    OBVIOUS
  <1>4. \E m \in {a, b, c, d} : \A x \in {a, b, c, d} : m >= x
    <2>1. PICK m \in {a, b, c} : \A x \in {a, b, c} : m >= x
      BY <1>3
    <2>2. m \in Int
      BY <2>1
    <2>3. CASE m >= d
      BY <2>1, <2>3
    <2>4. CASE d >= m
      <3>1. \A x \in {a, b, c, d} : d >= x
        BY <2>1, <2>2, <2>4
      <3> QED  BY <3>1
    <2> QED  BY <2>2, <2>3, <2>4
  <1>5. Max({a, b}) \in {a, b} /\ \A x \in {a, b} : Max({a, b}) >= x
    BY <1>1, <1>2, Zenon
  <1>6. Max({a, b, c}) \in {a, b, c} /\ \A x \in {a, b, c} : Max({a, b, c}) >= x
    BY <1>1, <1>3, Zenon
  <1>7. Max({a, b, c, d}) \in {a, b, c, d} /\ \A x \in {a, b, c, d} : Max({a, b, c, d}) >= x
    BY <1>1, <1>4, Zenon
  <1> QED  BY <1>5, <1>6, <1>7, Zenon

LEMMA ZeroIsLegal == LegalDecimal(Zero) /\ Zero.coefficient = 0 /\ Zero.fraction = 0
  <1>1. 0 \in 0..MaxDigits
    BY PowersOfTen
  <1> QED  BY <1>1 DEF Zero, LegalDecimal

\* hasIssuedBalance, hasTrustLineCapacity and the script's comparison ask what the ledger does.
LEMMA BalanceIsCompared ==
    ASSUME NEW line, LegalDecimal(line.balance), NEW units \in Nat, NEW scale \in 0..MaxDigits
    PROVE  HasIssuedBalance(line, units, scale) <=> Exceeds(line.balance, Zero, units, scale)
  <1> DEFINE n == Max({line.balance.fraction, scale})
  <1>1. line.balance.fraction \in 0..MaxDigits /\ line.balance.fraction \in Int /\ scale \in Int
    BY DEF LegalDecimal
  <1>2. n \in {line.balance.fraction, scale} /\ n >= line.balance.fraction /\ n >= scale
    BY <1>1, GreatestOf
  <1>3. n \in 0..MaxDigits /\ line.balance.fraction <= n /\ scale <= n /\ Zero.fraction <= n
    BY <1>1, <1>2, ZeroIsLegal
  <1>4. HasIssuedBalance(line, units, scale)
            <=> Align(line.balance, n) >= units * 10^(n - scale)
    BY DEF HasIssuedBalance
  <1> HIDE DEF n
  <1>5. Align(line.balance, n) - Align(Zero, n) >= units * 10^(n - scale)
            <=> Exceeds(line.balance, Zero, units, scale)
    BY <1>3, ZeroIsLegal, DifferencesCompare
  <1>6. Align(Zero, n) = 0 /\ Align(line.balance, n) \in Int
    <2>1. 10^(n - 0) \in Nat
      <3>1. n - 0 = n
        BY <1>3
      <3> QED  BY <1>3, <3>1, PowerIsPositive
    <2>2. Align(Zero, n) = 0 * 10^(n - 0)
      BY ZeroIsLegal DEF Align
    <2>3. Align(Zero, n) = 0
      BY <2>1, <2>2
    <2> QED  BY <1>3, <2>3, AlignedIsExact
  <1> QED  BY <1>4, <1>5, <1>6

LEMMA CapacityIsCompared ==
    ASSUME NEW line, LegalDecimal(line.balance), LegalDecimal(line.limit),
           NEW units \in Nat, NEW scale \in 0..MaxDigits
    PROVE  HasTrustLineCapacity(line, units, scale)
               <=> Exceeds(line.limit, line.balance, units, scale)
  <1> DEFINE n == Max({line.limit.fraction, line.balance.fraction, scale})
  <1>1. /\ line.balance.fraction \in 0..MaxDigits /\ line.limit.fraction \in 0..MaxDigits
        /\ line.balance.fraction \in Int /\ line.limit.fraction \in Int /\ scale \in Int
    BY DEF LegalDecimal
  <1>2. /\ n \in {line.limit.fraction, line.balance.fraction, scale}
        /\ n >= line.limit.fraction /\ n >= line.balance.fraction /\ n >= scale
    BY <1>1, GreatestOf
  <1>3. HasTrustLineCapacity(line, units, scale)
            <=> Align(line.limit, n) - Align(line.balance, n) >= units * 10^(n - scale)
    BY DEF HasTrustLineCapacity
  <1> HIDE DEF n
  <1>4. /\ n \in 0..MaxDigits /\ line.balance.fraction <= n /\ line.limit.fraction <= n
        /\ scale <= n
    BY <1>1, <1>2
  <1> QED  BY <1>3, <1>4, DifferencesCompare

LEMMA DifferenceIsCompared ==
    ASSUME NEW left, LegalDecimal(left), NEW right, LegalDecimal(right),
           NEW units \in Nat, NEW scale \in 0..MaxDigits
    PROVE  DifferenceAtLeast(left, right, AmountOf(units, scale))
               <=> Exceeds(left, right, units, scale)
  <1> DEFINE n == Max({left.fraction, right.fraction, scale})
  <1>1. /\ left.fraction \in 0..MaxDigits /\ right.fraction \in 0..MaxDigits
        /\ left.fraction \in Int /\ right.fraction \in Int /\ scale \in Int
    BY DEF LegalDecimal
  <1>2. /\ n \in {left.fraction, right.fraction, scale}
        /\ n >= left.fraction /\ n >= right.fraction /\ n >= scale
    BY <1>1, GreatestOf
  <1>3. AmountOf(units, scale).fraction = scale /\ AmountOf(units, scale).coefficient = units
    BY DEF AmountOf
  <1>4. DifferenceAtLeast(left, right, AmountOf(units, scale))
            <=> Align(left, n) - Align(right, n) >= units * 10^(n - scale)
    <2>1. Align(AmountOf(units, scale), n) = units * 10^(n - scale)
      BY <1>3 DEF Align
    <2> QED  BY <1>3, <2>1 DEF DifferenceAtLeast
  <1> HIDE DEF n
  <1>5. /\ n \in 0..MaxDigits /\ left.fraction <= n /\ right.fraction <= n /\ scale <= n
    BY <1>1, <1>2
  <1> QED  BY <1>4, <1>5, DifferencesCompare

\* More than twice is more than once, and twice is what the Bill has.
LEMMA TwiceIsMore ==
    ASSUME NEW left, LegalDecimal(left), NEW right, LegalDecimal(right),
           NEW units \in Nat, NEW scale \in 0..MaxDigits,
           Exceeds(left, right, 2 * units, scale)
    PROVE  Exceeds(left, right, units, scale)
  <1> DEFINE x == (left.coefficient * 10^right.fraction
                   - right.coefficient * 10^left.fraction) * 10^scale
             k == 10^left.fraction * 10^right.fraction
  <1>1. 10^left.fraction \in Nat /\ 10^right.fraction \in Nat /\ 10^scale \in Nat
    BY PowerIsPositive DEF LegalDecimal
  <1>2. x \in Int /\ k \in Nat
    BY <1>1 DEF LegalDecimal
  <1>3. x >= (2 * units) * k
    BY DEF Exceeds
  <1>4. x >= units * k
    <2> HIDE DEF x, k
    <2> QED  BY <1>2, <1>3
  <1> QED  BY <1>4 DEF Exceeds

\* decimalToUnits is exact where it does not refuse.
LEMMA UnitsAreExact ==
    ASSUME NEW d, LegalDecimal(d), NEW scale \in 0..MaxDigits, FitsPrecision(d, scale)
    PROVE  ToUnits(d, scale) \in Int
           /\ ToUnits(d, scale) * 10^d.fraction = d.coefficient * 10^scale
  <1> DEFINE c == d.coefficient
             f == d.fraction
  <1>1. c \in Int /\ f \in 0..MaxDigits
    BY DEF LegalDecimal
  <1>2. CASE f <= scale
    <2>1. ToUnits(d, scale) = Align(d, scale)
      BY <1>2 DEF ToUnits
    <2> QED  BY <1>2, <2>1, AlignedIsExact
  <1>3. CASE ~(f <= scale)
    <2> DEFINE p == 10^(f - scale)
               q == 10^scale
               u == c \div p
    <2>1. f - scale \in 0..MaxDigits /\ (f - scale) + scale = f /\ f <= MaxDigits
      BY <1>1, <1>3, PowersOfTen
    <2>2. p \in Nat /\ p > 0 /\ q \in Nat
      BY <2>1, PowerIsPositive
    <2>3. 10^f = p * q
      <3> DEFINE m == f - scale
      <3>1. m \in 0..MaxDigits /\ m + scale <= MaxDigits /\ m + scale = f
        BY <2>1
      <3> HIDE DEF m
      <3>2. 10^(m + scale) = 10^m * 10^scale
        BY <3>1, PowersMultiply
      <3> QED  BY <3>1, <3>2 DEF m
    <2>4. ToUnits(d, scale) = u /\ c % p = 0
      BY <1>3 DEF ToUnits, FitsPrecision
    <2>5. u \in Int /\ c = u * p
      <3> HIDE DEF c, p
      <3>1. c \div p \in Int
        BY <1>1, <2>2
      <3>2. c = (c \div p) * p
        BY <1>1, <2>2, <2>4
      <3> QED  BY <3>1, <3>2
    <2>6. u * (p * q) = c * q
      <3> HIDE DEF c, p, q, u
      <3>1. u * (p * q) = (u * p) * q
        BY <2>2, <2>5
      <3> QED  BY <2>5, <3>1
    <2> QED  BY <2>3, <2>4, <2>5, <2>6
  <1> QED  BY <1>1, <1>2, <1>3

\* In units of one scale, the rule of the ledger is a comparison of whole numbers.
LEMMA UnitsCompare ==
    ASSUME NEW left, LegalDecimal(left), NEW right, LegalDecimal(right),
           NEW units \in Nat, NEW scale \in 0..MaxDigits,
           NEW x \in Int, x * 10^left.fraction = left.coefficient * 10^scale,
           NEW y \in Int, y * 10^right.fraction = right.coefficient * 10^scale
    PROVE  Exceeds(left, right, units, scale) <=> x - y >= units
  <1> DEFINE a == left.coefficient
             b == right.coefficient
             A == 10^left.fraction
             B == 10^right.fraction
             C == 10^scale
  <1>1. /\ a \in Int /\ b \in Int
        /\ A \in Nat /\ A > 0 /\ B \in Nat /\ B > 0 /\ C \in Nat
    BY PowerIsPositive DEF LegalDecimal
  <1>2. Exceeds(left, right, units, scale) <=> (a * B - b * A) * C >= units * (A * B)
    BY DEF Exceeds
  <1>3. x * A = a * C /\ y * B = b * C
    OBVIOUS
  <1> HIDE DEF a, b, A, B, C
  <1>4. (a * B - b * A) * C = (x - y) * (A * B)
    <2>1. (a * B - b * A) * C = (a * C) * B - (b * C) * A
      BY <1>1
    <2>2. @ = (x * A) * B - (y * B) * A
      BY <1>3
    <2>3. @ = (x - y) * (A * B)
      BY <1>1
    <2> QED  BY <2>1, <2>2, <2>3
  <1> DEFINE d == x - y
             k == A * B
  <1>5. d \in Int /\ k \in Nat /\ k > 0
    BY <1>1
  <1> HIDE DEF d, k
  <1>6. d >= units <=> d * k >= units * k
    BY <1>5, FactorsDrop
  <1> QED  BY <1>2, <1>4, <1>6 DEF d, k

-----------------------------------------------------------------------------
(* What the verdicts say of the payment.                                   *)

LEMMA BlockedIsNotReady ==
    \A reason : Blocked(reason) # Ready /\ Blocked(reason) # Unavailable /\ Ready # Unavailable
  <1>1. /\ \A reason : Blocked(reason).status = "blocked"
        /\ Ready.status = "ready" /\ Unavailable.status = "unavailable"
    BY DEF Blocked, Ready, Unavailable
  <1> QED  BY <1>1

\* The estimated fee is the reference fee, or the answer is cautious.
LEMMA FeesAreCautious ==
    ASSUME NEW network, LegalNetwork(network)
    PROVE  /\ EstimatedFee(network) \in Nat /\ EstimatedFee(network) >= network.base
           /\ network.base > 0
           /\ ~(EstimatedFee(network) > network.base) => EstimatedFee(network) = network.base
  <1>1. /\ network.base \in Int /\ network.minimum \in Int /\ network.openLedger \in Int
        /\ network.base \in Nat /\ network.minimum \in Nat /\ network.openLedger \in Nat
        /\ network.base > 0
    BY DEF LegalNetwork
  <1> DEFINE n == Max({network.base, network.minimum, network.openLedger})
  <1>2. n \in {network.base, network.minimum, network.openLedger} /\ n >= network.base
    BY <1>1, GreatestOf
  <1>3. EstimatedFee(network) = n
    BY DEF EstimatedFee
  <1> HIDE DEF n
  <1> QED  BY <1>1, <1>2, <1>3

LEMMA ReservesAreNumbers ==
    ASSUME NEW account, account # None, LegalAccount(account), NEW network, LegalNetwork(network)
    PROVE  Reserve(account, network) \in Nat /\ account.balance \in Nat
  <1>1. /\ account.balance \in Nat /\ account.owned \in Nat
        /\ network.reserveBase \in Nat /\ network.reserveIncrement \in Nat
    BY DEF LegalAccount, LegalNetwork
  <1> QED  BY <1>1 DEF Reserve

\* checkPayerReadiness up to the issued asset.
LEMMA PayerXrpIsTrue ==
    ASSUME NEW intent, LegalIntent(intent), NEW account, LegalAccount(account),
           NEW network, LegalNetwork(network)
    PROVE  /\ PayerXrpVerdict(intent, account, network) = Ready =>
                 /\ account # None
                 /\ account.balance >= Reserve(account, network) + network.base
                        + (IF intent.asset = "XRP" THEN intent.units ELSE 0)
           /\ /\ account # None
              /\ account.balance >= Reserve(account, network) + network.base
                        + (IF intent.asset = "XRP" THEN intent.units ELSE 0)
              /\ ~(EstimatedFee(network) > network.base)
              => PayerXrpVerdict(intent, account, network) = Ready
  <1> DEFINE fee == EstimatedFee(network)
             xrp == IF intent.asset = "XRP" THEN intent.units ELSE 0
             reserve == Reserve(account, network)
             spendable == Spendable(account, network)
             required == Required(intent, network)
  <1>1. /\ fee \in Nat /\ network.base \in Nat /\ fee >= network.base /\ network.base > 0
        /\ (~(fee > network.base) => fee = network.base)
    BY FeesAreCautious DEF LegalNetwork
  <1>2. xrp \in Nat /\ required = fee + xrp
    BY DEF LegalIntent, Required
  <1>3. PayerXrpVerdict(intent, account, network) = Ready
            <=> account # None /\ ~(spendable < required)
    <2>1. CASE account = None
      BY <2>1, BlockedIsNotReady DEF PayerXrpVerdict
    <2>2. CASE account # None /\ spendable < required
      <3>1. PayerXrpVerdict(intent, account, network) = Blocked("insufficient_spendable_xrp")
        BY <2>2, Zenon DEF PayerXrpVerdict
      <3> QED  BY <2>2, <3>1, BlockedIsNotReady
    <2>3. CASE account # None /\ ~(spendable < required)
      <3>1. PayerXrpVerdict(intent, account, network) = Ready
        BY <2>3, Zenon DEF PayerXrpVerdict
      <3> QED  BY <2>3, <3>1
    <2> QED  BY <2>1, <2>2, <2>3
  <1>4. ASSUME account # None
        PROVE  /\ reserve \in Nat /\ account.balance \in Nat
               /\ spendable = IF account.balance > reserve THEN account.balance - reserve ELSE 0
    BY <1>4, ReservesAreNumbers DEF Spendable
  <1>5. ASSUME account # None
        PROVE  /\ ~(spendable < required) => account.balance >= reserve + network.base + xrp
               /\ account.balance >= reserve + network.base + xrp /\ ~(fee > network.base)
                      => ~(spendable < required)
    <2> DEFINE b == account.balance
    <2>1. b \in Nat /\ reserve \in Nat /\ spendable = IF b > reserve THEN b - reserve ELSE 0
      BY <1>4, <1>5
    <2> HIDE DEF b, reserve, spendable, required, xrp, fee
    <2> QED  BY <1>1, <1>2, <2>1 DEF b
  <1> QED  BY <1>3, <1>5

\* What both roles ask of the issuer and of their line.
LEMMA IssuerIsTrue ==
    ASSUME NEW issuer
    PROVE  IssuerVerdict(issuer) = Ready <=> issuer # None /\ ~issuer.globalFreeze
  <1>1. CASE issuer = None
    BY <1>1, BlockedIsNotReady DEF IssuerVerdict
  <1>2. CASE issuer # None /\ issuer.globalFreeze
    <2>1. IssuerVerdict(issuer) = Blocked("issuer_global_freeze")
      BY <1>2, Zenon DEF IssuerVerdict
    <2> QED  BY <1>2, <2>1, BlockedIsNotReady
  <1>3. CASE issuer # None /\ ~issuer.globalFreeze
    BY <1>3, Zenon DEF IssuerVerdict
  <1> QED  BY <1>1, <1>2, <1>3

LEMMA LineIsTrue ==
    ASSUME NEW issuer, NEW line
    PROVE  /\ LineVerdict(issuer, line) = Ready <=>
                 /\ line # None /\ ~Frozen(line)
                 /\ ~(issuer.requireAuthorization /\ ~line.peerAuthorized)
           /\ LineVerdict(issuer, line) = Ready => LineCarries(issuer, line)
           /\ LineCarries(issuer, line) /\ ~line.freeze => LineVerdict(issuer, line) = Ready
  <1>1. LineVerdict(issuer, line) = Ready <=>
            /\ line # None /\ ~Frozen(line)
            /\ ~(issuer.requireAuthorization /\ ~line.peerAuthorized)
    <2>1. CASE line = None
      BY <2>1, BlockedIsNotReady DEF LineVerdict
    <2>2. CASE line # None /\ Frozen(line)
      <3>1. LineVerdict(issuer, line) = Blocked("trust_line_frozen")
        BY <2>2, Zenon DEF LineVerdict
      <3> QED  BY <2>2, <3>1, BlockedIsNotReady
    <2>3. CASE line # None /\ ~Frozen(line) /\ issuer.requireAuthorization /\ ~line.peerAuthorized
      <3>1. LineVerdict(issuer, line) = Blocked("trust_line_not_authorized")
        BY <2>3, Zenon DEF LineVerdict
      <3> QED  BY <2>3, <3>1, BlockedIsNotReady
    <2>4. CASE line # None /\ ~Frozen(line) /\ ~(issuer.requireAuthorization /\ ~line.peerAuthorized)
      BY <2>4, Zenon DEF LineVerdict
    <2> QED  BY <2>1, <2>2, <2>3, <2>4
  <1> QED  BY <1>1, Zenon DEF Frozen, LineCarries

LEMMA RecipientAccountIsTrue ==
    ASSUME NEW intent, NEW account
    PROVE  RecipientAccountVerdict(intent, account) = Ready <=>
              /\ account # None
              /\ account.requireDestinationTag => intent.destinationTag # None
              /\ ~account.depositAuth
  <1> DEFINE untagged == account.requireDestinationTag /\ intent.destinationTag = None
  <1>1. CASE account = None
    BY <1>1, BlockedIsNotReady DEF RecipientAccountVerdict
  <1>2. CASE account # None /\ untagged
    <2>1. RecipientAccountVerdict(intent, account) = Blocked("destination_tag_required")
      BY <1>2, Zenon DEF RecipientAccountVerdict
    <2> QED  BY <1>2, <2>1, BlockedIsNotReady, Zenon
  <1>3. CASE account # None /\ ~untagged /\ account.depositAuth
    <2>1. RecipientAccountVerdict(intent, account) = Blocked("deposit_authorization_required")
      BY <1>3, Zenon DEF RecipientAccountVerdict
    <2> QED  BY <1>3, <2>1, BlockedIsNotReady, Zenon
  <1>4. CASE account # None /\ ~untagged /\ ~account.depositAuth
    <2>1. RecipientAccountVerdict(intent, account) = Ready
      BY <1>4, Zenon DEF RecipientAccountVerdict
    <2> QED  BY <1>4, <2>1, Zenon
  <1> QED  BY <1>1, <1>2, <1>3, <1>4, Zenon

\* The line of the payer holds the amount, that of the recipient has room for it.
LEMMA PayerLineIsTrue ==
    ASSUME NEW intent, LegalIntent(intent), NEW issuer, NEW line, LegalLine(line)
    PROVE  PayerLineVerdict(intent, issuer, line) = Ready <=>
              /\ LineVerdict(issuer, line) = Ready
              /\ Exceeds(line.balance, Zero, intent.units, intent.scale)
  <1>1. CASE LineVerdict(issuer, line) # Ready
    BY <1>1, Zenon DEF PayerLineVerdict
  <1>2. CASE LineVerdict(issuer, line) = Ready
    <2>1. line # None
      BY <1>2, LineIsTrue
    <2>2. HasIssuedBalance(line, intent.units, intent.scale)
              <=> Exceeds(line.balance, Zero, intent.units, intent.scale)
      BY <2>1, BalanceIsCompared DEF LegalLine, LegalIntent
    <2>3. CASE HasIssuedBalance(line, intent.units, intent.scale)
      BY <1>2, <2>2, <2>3, Zenon DEF PayerLineVerdict
    <2>4. CASE ~HasIssuedBalance(line, intent.units, intent.scale)
      <3>1. PayerLineVerdict(intent, issuer, line) = Blocked("issued_balance_insufficient")
        BY <1>2, <2>4, Zenon DEF PayerLineVerdict
      <3> QED  BY <2>2, <2>4, <3>1, BlockedIsNotReady
    <2> QED  BY <2>3, <2>4
  <1> QED  BY <1>1, <1>2

LEMMA RecipientLineIsTrue ==
    ASSUME NEW intent, LegalIntent(intent), NEW issuer, NEW line, LegalLine(line)
    PROVE  RecipientLineVerdict(intent, issuer, line) = Ready <=>
              /\ LineVerdict(issuer, line) = Ready
              /\ Exceeds(line.limit, line.balance, intent.units, intent.scale)
  <1>1. CASE LineVerdict(issuer, line) # Ready
    BY <1>1, Zenon DEF RecipientLineVerdict
  <1>2. CASE LineVerdict(issuer, line) = Ready
    <2>1. line # None
      BY <1>2, LineIsTrue
    <2>2. ~InvalidLine(line)
      BY <2>1 DEF LegalLine, LegalDecimal, InvalidLine
    <2>3. HasTrustLineCapacity(line, intent.units, intent.scale)
              <=> Exceeds(line.limit, line.balance, intent.units, intent.scale)
      BY <2>1, CapacityIsCompared DEF LegalLine, LegalIntent
    <2>4. CASE HasTrustLineCapacity(line, intent.units, intent.scale)
      BY <1>2, <2>2, <2>3, <2>4, Zenon DEF RecipientLineVerdict
    <2>5. CASE ~HasTrustLineCapacity(line, intent.units, intent.scale)
      <3>1. RecipientLineVerdict(intent, issuer, line) = Blocked("trust_line_limit_insufficient")
        BY <1>2, <2>2, <2>5, Zenon DEF RecipientLineVerdict
      <3> QED  BY <2>3, <2>5, <3>1, BlockedIsNotReady
    <2> QED  BY <2>4, <2>5
  <1> QED  BY <1>1, <1>2

-----------------------------------------------------------------------------
(* The reads of account facts.                                             *)

\* A fact is read at once or when the one before it is known, and what was read is what
\* the ledger had; the script has all its facts from one validated ledger.
FactsAreTrue ==
    /\ kind \in {"readiness", "prepare"} => \A r \in Reads(kind) :
          /\ read[r].is \in {"waiting", "later", "seen", "unavailable"} /\ read[r].notFound = FALSE
          /\ r \in FirstReads => read[r].is # "later"
          /\ read[r].is = "seen" => read[r].seen \in 1..now
    /\ kind = "accept" => \A r \in Reads(kind) :
          /\ read[r].is = "seen" => read[r].seen \in 1..now
          /\ read[r].is \in {"seen", "waiting"} /\ r # "state" => read["state"].is = "seen"
          /\ read[r].is = "seen" /\ r # "fee" => read[r].seen = read["state"].seen

ReadinessInv == FactsAreTrue /\ ReadinessIsTrue /\ PlanIsEnough

\* A request that reads no facts has none that are false.
LEMMA NoFacts ==
    ASSUME kind' \notin {"readiness", "prepare", "accept"}
    PROVE  FactsAreTrue'
  BY DEF FactsAreTrue

\* One read that moves on.
LEMMA OneFactRead ==
    ASSUME DecisionsTyped, FactsAreTrue, QuietWorld, kind \in {"readiness", "prepare"},
           NEW r \in Reads(kind), NEW x, read' = [read EXCEPT ![r] = x],
           x.is \in {"waiting", "seen", "unavailable"}, x.notFound = FALSE,
           x.is = "seen" => x.seen \in 1..now
    PROVE  FactsAreTrue'
  <1>1. kind' = kind /\ now' = now
    BY DEF QuietWorld
  <1>2. read'[r] = x /\ \A q \in Reads(kind) : q # r => read'[q] = read[q]
    BY DEF DecisionsTyped
  <1>3. ASSUME NEW q \in Reads(kind)
        PROVE  /\ read'[q].is \in {"waiting", "later", "seen", "unavailable"}
               /\ read'[q].notFound = FALSE
               /\ q \in FirstReads => read'[q].is # "later"
               /\ read'[q].is = "seen" => read'[q].seen \in 1..now
    <2>1. CASE q = r
      BY <1>2, <2>1
    <2>2. CASE q # r
      BY <1>2, <2>2 DEF FactsAreTrue
    <2> QED  BY <2>1, <2>2
  <1> QED  BY <1>1, <1>3 DEF FactsAreTrue

LEMMA FailedFacts ==
    ASSUME DecisionsTyped, FactsAreTrue, NEW r \in DOMAIN read,
           EndpointFails(r) \/ EndpointRefuses(r)
    PROVE  FactsAreTrue'
  <1>1. Reading(r) /\ kind # "accept" /\ kind \in Kinds
    BY DEF EndpointFails, EndpointRefuses, DecisionsTyped
  <1>2. QuietWorld /\ Waiting(r) /\ kind' = kind
    BY <1>1, ReadingIsQuiet DEF QuietWorld
  <1>3. r \in Reads(kind) /\ read[r] \in ReadStates
    BY <1>2, ReadsOfRequests
  <1>4. CASE kind \notin {"readiness", "prepare"}
    BY <1>1, <1>2, <1>4, NoFacts DEF Kinds
  <1>5. CASE kind \in {"readiness", "prepare"} /\ EndpointFails(r)
    <2>1. read[r].notFound = FALSE
      BY <1>3, <1>5 DEF FactsAreTrue
    <2>2. NextEndpoint(r, FALSE)
      BY <1>5, <2>1 DEF EndpointFails
    <2> DEFINE g == read[r]
               x == IF g.at < Endpoints THEN [NewRead EXCEPT !.at = g.at + 1, !.notFound = FALSE]
                    ELSE [g EXCEPT !.is = "unavailable"]
    <2>3. read' = [read EXCEPT ![r] = x]
      BY <2>2 DEF NextEndpoint, DecisionsTyped
    <2>4. x.is \in {"waiting", "unavailable"} /\ x.notFound = FALSE
      <3> HIDE DEF g
      <3> QED  BY <1>3, <2>1 DEF g, NewRead, ReadStates
    <2> HIDE DEF x, g
    <2> QED  BY <1>2, <1>3, <1>5, <2>3, <2>4, OneFactRead
  <1>6. CASE kind \in {"readiness", "prepare"} /\ EndpointRefuses(r)
    <2> DEFINE g == read[r]
               x == [g EXCEPT !.is = "unavailable"]
    <2>1. read' = [read EXCEPT ![r] = x]
      BY <1>6 DEF EndpointRefuses
    <2>2. g.notFound = FALSE
      BY <1>3, <1>6 DEF FactsAreTrue
    <2> HIDE DEF g
    <2>3. x.is = "unavailable" /\ x.notFound = FALSE
      BY <1>3, <2>2 DEF g, ReadStates
    <2> HIDE DEF x
    <2> QED  BY <1>2, <1>3, <1>6, <2>1, <2>3, OneFactRead
  <1> QED  BY <1>4, <1>5, <1>6

LEMMA FactRead ==
    ASSUME DecisionsTyped, FactsAreTrue, NEW r \in DOMAIN read, ReadFact(r)
    PROVE  FactsAreTrue'
  <1>1. QuietWorld /\ Waiting(r) /\ kind \in {"readiness", "prepare"}
    BY ReadingIsQuiet DEF ReadFact
  <1>2. r \in Reads(kind) /\ read[r] \in ReadStates
    BY <1>1, ReadsOfRequests
  <1> DEFINE g == read[r]
             state == sees[g.at]
             x == [g EXCEPT !.is = "seen", !.seen = state]
  <1>3. state \in 1..2 /\ state <= now /\ now \in 1..2
    BY <1>2, EndpointsAreBehind DEF DecisionsTyped
  <1>4. g.notFound = FALSE
    BY <1>1, <1>2 DEF FactsAreTrue
  <1>5. read' = [read EXCEPT ![r] = x]
    BY <1>2 DEF ReadFact, See, DecisionsTyped
  <1>6. g \in ReadStates
    BY <1>2
  <1> HIDE DEF g, state
  <1>7. x.is = "seen" /\ x.notFound = FALSE /\ x.seen \in 1..now
    BY <1>3, <1>4, <1>6 DEF ReadStates
  <1> HIDE DEF x
  <1> QED  BY <1>1, <1>2, <1>5, <1>7, OneFactRead

LEMMA NextFactOfRole ==
    ASSUME DecisionsTyped, FactsAreTrue, NEW role \in Roles, Continue(role)
    PROVE  FactsAreTrue'
  <1> DEFINE next == IF Seen(IssuerRead(role)) THEN LineRead(role) ELSE IssuerRead(role)
             g == read[next]
             x == [g EXCEPT !.is = "waiting"]
  <1>1. kind = "readiness" /\ QuietWorld
    BY DEF Continue, QuietWorld
  <1>2. next \in Reads(kind)
    BY <1>1 DEF Reads, LineRead, IssuerRead, Roles
  <1>3. read' = [read EXCEPT ![next] = x]
    BY DEF Continue
  <1> HIDE DEF next
  <1>4. g \in ReadStates /\ g.notFound = FALSE
    BY <1>1, <1>2 DEF DecisionsTyped, FactsAreTrue
  <1> HIDE DEF g
  <1>5. x.is = "waiting" /\ x.notFound = FALSE
    BY <1>4 DEF ReadStates
  <1> HIDE DEF x
  <1> QED  BY <1>1, <1>2, <1>3, <1>5, OneFactRead

\* The script: a snapshot is begun anew, opened or filled.
LEMMA SnapshotBegins ==
    ASSUME DecisionsTyped, NEW r \in DOMAIN read, SnapshotFails(r)
    PROVE  FactsAreTrue'
  <1>1. kind = "accept" /\ QuietWorld /\ kind' = kind
    BY ReadingIsQuiet DEF SnapshotFails, QuietWorld, Reading
  <1> DEFINE at == read[r].at + 1
  <1>2. read' = NewSnapshot(at)
    BY DEF SnapshotFails
  <1> HIDE DEF at
  <1>3. /\ [NewRead EXCEPT !.is = "unavailable"].is = "unavailable"
        /\ [NewRead EXCEPT !.at = at].is = "waiting" /\ NotNeeded.is = "later"
    BY DEF NewRead, NotNeeded
  <1>4. \A q \in Reads("accept") :
            /\ NewSnapshot(at)[q].is \in {"unavailable", "waiting", "later"}
            /\ q # "state" => NewSnapshot(at)[q].is # "waiting"
    BY <1>3, Zenon DEF NewSnapshot
  <1> QED  BY <1>1, <1>2, <1>4 DEF FactsAreTrue

LEMMA SnapshotOpens ==
    ASSUME DecisionsTyped, ReadServerState
    PROVE  FactsAreTrue'
  <1> DEFINE g == read["state"]
             state == sees[g.at]
             x == [g EXCEPT !.is = "seen", !.seen = state]
             y == [NewRead EXCEPT !.at = x.at]
  <1>1. QuietWorld /\ Waiting("state")
    BY ReadingIsQuiet DEF ReadServerState
  <1>2. /\ kind = "accept" /\ g \in ReadStates /\ now \in 1..2 /\ DOMAIN read = Reads(kind)
        /\ kind' = kind /\ now' = now /\ "state" \in Reads(kind)
    BY <1>1, ReadsOfRequests DEF DecisionsTyped, QuietWorld
  <1>3. state \in 1..2 /\ state <= now
    BY <1>2, EndpointsAreBehind
  <1>4. read' = [q \in DOMAIN read |-> IF q = "state" THEN x ELSE y]
    BY DEF ReadServerState
  <1>5. x.is = "seen" /\ x.seen = state /\ y.is = "waiting"
    <2> HIDE DEF g, state
    <2> QED  BY <1>2 DEF g, ReadStates, NewRead
  <1> HIDE DEF x, y, g, state
  <1>6. read'["state"] = x /\ \A q \in Reads(kind) : q # "state" => read'[q] = y
    BY <1>2, <1>4
  <1> QED  BY <1>2, <1>3, <1>5, <1>6 DEF FactsAreTrue

LEMMA SnapshotFills ==
    ASSUME DecisionsTyped, FactsAreTrue, NEW r \in DOMAIN read, ReadOfSnapshot(r)
    PROVE  FactsAreTrue'
  <1>1. QuietWorld /\ Waiting(r) /\ r \in {"fee", "payerFacts", "recipientFacts"}
    BY ReadingIsQuiet DEF ReadOfSnapshot
  <1>2. /\ r \in Reads(kind) /\ read[r] \in ReadStates /\ kind = "accept" /\ now \in 1..2
        /\ kind' = kind /\ now' = now /\ "state" \in Reads(kind)
    BY <1>1, ReadsOfRequests DEF Reads, DecisionsTyped, QuietWorld
  <1>3. read["state"].is = "seen" /\ read["state"].seen \in 1..now
    BY <1>1, <1>2 DEF FactsAreTrue, Waiting
  <1> DEFINE g == read[r]
             state == IF r = "fee" THEN sees[g.at] ELSE read["state"].seen
             x == [g EXCEPT !.is = "seen", !.seen = state]
  <1>4. state \in 1..now /\ (r # "fee" => state = read["state"].seen)
    <2>1. sees[g.at] \in 1..2 /\ sees[g.at] <= now
      BY <1>2, EndpointsAreBehind
    <2> QED  BY <1>2, <1>3, <2>1
  <1>5. read' = [read EXCEPT ![r] = x]
    BY <1>2 DEF ReadOfSnapshot, See, DecisionsTyped
  <1>6. x.is = "seen" /\ x.seen = state
    <2> HIDE DEF g, state
    <2> QED  BY <1>2 DEF g, ReadStates
  <1> HIDE DEF x, g, state
  <1>7. read'[r] = x /\ (\A q \in Reads(kind) : q # r => read'[q] = read[q]) /\ r # "state"
    BY <1>1, <1>2, <1>5 DEF DecisionsTyped
  <1>8. ASSUME NEW q \in Reads(kind)
        PROVE  /\ read'[q].is = "seen" => read'[q].seen \in 1..now
               /\ read'[q].is \in {"seen", "waiting"} /\ q # "state" => read'["state"].is = "seen"
               /\ read'[q].is = "seen" /\ q # "fee" => read'[q].seen = read'["state"].seen
    <2>1. read'["state"] = read["state"]
      BY <1>2, <1>7
    <2>2. CASE q = r
      BY <1>3, <1>4, <1>6, <1>7, <2>1, <2>2
    <2>3. CASE q # r
      BY <1>2, <1>7, <2>1, <2>3 DEF FactsAreTrue
    <2> QED  BY <2>2, <2>3
  <1> QED  BY <1>2, <1>8 DEF FactsAreTrue

LEMMA FirstFactsAreTrue ==
    ASSUME Init
    PROVE  FactsAreTrue
  <1>1. NewRead.is = "waiting" /\ NewRead.notFound = FALSE
        /\ NotNeeded.is = "later" /\ NotNeeded.notFound = FALSE
    BY DEF NewRead, NotNeeded
  <1>2. read = [r \in Reads(kind) |-> IF r \in FirstReads THEN NewRead ELSE NotNeeded]
    BY DEF Init, NewReads
  <1>3. \A r \in Reads(kind) : /\ r \in FirstReads => read[r] = NewRead
                               /\ r \notin FirstReads => read[r] = NotNeeded
    BY <1>2
  <1>4. kind = "accept" => \A r \in Reads(kind) : r # "state" => r \notin FirstReads
    BY DEF Reads, FirstReads
  <1> QED  BY <1>1, <1>3, <1>4 DEF FactsAreTrue

-----------------------------------------------------------------------------
(* The verdict of a role.                                                  *)

\* The last question of a role: its own line.
OwnLine(role) ==
    IF role = "payer"
    THEN PayerLineVerdict(Intent, Ledger(IssuerRead(role)).issuer, Ledger(LineRead(role)).payerLine)
    ELSE RecipientLineVerdict(Intent, Ledger(IssuerRead(role)).issuer,
                              Ledger(LineRead(role)).recipientLine)

LEMMA VerdictIsOf ==
    ASSUME NEW role \in Roles, Verdict(role) # None, Verdict(role) # Unavailable
    PROVE  /\ \A r \in AccountReads(role) : ~Failed(r) /\ ~Waiting(r)
           /\ \/ Verdict(role) = Account(role) /\ (Account(role) # Ready \/ ~Issued)
              \/ /\ Account(role) = Ready /\ Issued /\ Seen(IssuerRead(role))
                 /\ IssuerVerdict(Ledger(IssuerRead(role)).issuer) # Ready
                 /\ Verdict(role) = IssuerVerdict(Ledger(IssuerRead(role)).issuer)
              \/ /\ Account(role) = Ready /\ Issued /\ Seen(IssuerRead(role))
                 /\ IssuerVerdict(Ledger(IssuerRead(role)).issuer) = Ready
                 /\ Seen(LineRead(role)) /\ Verdict(role) = OwnLine(role)
  BY Zenon DEF Verdict, OwnLine

LEMMA AccountsWereRead ==
    ASSUME DecisionsTyped, FactsAreTrue, kind = "readiness", NEW role \in Roles,
           \A r \in AccountReads(role) : ~Failed(r) /\ ~Waiting(r)
    PROVE  \A r \in AccountReads(role) : r \in Reads(kind) /\ Seen(r)
  <1>1. ASSUME NEW r \in AccountReads(role)
        PROVE  r \in Reads(kind) /\ r \in FirstReads
    BY <1>1 DEF AccountReads, Roles, Reads, FirstReads
  <1>2. \A r \in Reads(kind) : r \in DOMAIN read
    BY DEF DecisionsTyped
  <1>3. ASSUME NEW r \in AccountReads(role)
        PROVE  Seen(r)
    <2>1. r \in Reads(kind) /\ r \in FirstReads /\ r \in DOMAIN read
      BY <1>1, <1>2
    <2>2. read[r].is \in {"waiting", "later", "seen", "unavailable"} /\ read[r].is # "later"
      BY <2>1 DEF FactsAreTrue
    <2> QED  BY <2>1, <2>2 DEF Failed, Waiting, Seen
  <1> QED  BY <1>1, <1>3

\* A read that is over was of a state the ledger has had.
LEMMA SeenStates ==
    ASSUME DecisionsTyped, FactsAreTrue, kind \in {"readiness", "prepare"},
           NEW r \in Reads(kind), Seen(r)
    PROVE  read[r].seen \in 1..now
  BY DEF FactsAreTrue, Seen

LEMMA FactCases ==
    ASSUME DecisionsTyped, kind \in {"readiness", "prepare", "accept"}
    PROVE  LegalFacts(kind, Intent, case.ledgers) /\ now \in 1..2
  BY DecisionConstants DEF DecisionsTyped, Intent

-----------------------------------------------------------------------------
(* What was read, and the ledgers there were.                              *)

LEMMA ShownIs ==
    ASSUME NEW l
    PROVE  /\ Shown("payerAccount", l) = l.payer /\ Shown("recipientAccount", l) = l.recipient
           /\ Shown("payerIssuer", l) = l.issuer /\ Shown("recipientIssuer", l) = l.issuer
           /\ Shown("payerLine", l) = l.payerLine /\ Shown("recipientLine", l) = l.recipientLine
           /\ Shown("account", l) = l.account /\ Shown("issuer", l) = l.issuer
           /\ Shown("line", l) = l.line
           /\ Shown("reserves", l)
                 = <<l.network.base, l.network.reserveBase, l.network.reserveIncrement>>
           /\ Shown("fees", l) = <<l.network.minimum, l.network.openLedger>>
  BY DEF Shown

LEMMA SameNetworkShown ==
    ASSUME NEW l, NEW m
    PROVE  /\ Shown("reserves", l) = Shown("reserves", m) <=>
                 /\ l.network.base = m.network.base
                 /\ l.network.reserveBase = m.network.reserveBase
                 /\ l.network.reserveIncrement = m.network.reserveIncrement
           /\ Shown("fees", l) = Shown("fees", m) <=>
                 /\ l.network.minimum = m.network.minimum
                 /\ l.network.openLedger = m.network.openLedger
  <1>1. /\ Shown("reserves", l)
              = <<l.network.base, l.network.reserveBase, l.network.reserveIncrement>>
        /\ Shown("reserves", m)
              = <<m.network.base, m.network.reserveBase, m.network.reserveIncrement>>
        /\ Shown("fees", l) = <<l.network.minimum, l.network.openLedger>>
        /\ Shown("fees", m) = <<m.network.minimum, m.network.openLedger>>
    BY ShownIs
  <1> QED  BY <1>1

\* The ledger l has all that was read, but for one of the two reads of the issuer.
Agrees(l, skip) ==
    \A r \in Reads(kind) : Seen(r) /\ r # skip => Shown(r, l) = Shown(r, Ledger(r))

\* A read that shows the same of both ledgers shows that of any.
LEMMA UnchangedIsShown ==
    ASSUME NEW r, ~Changed(r), NEW s \in 1..2, NEW t \in 1..2
    PROVE  Shown(r, case.ledgers[s]) = Shown(r, case.ledgers[t])
  <1>1. Shown(r, case.ledgers[1]) = Shown(r, case.ledgers[2])
    BY DEF Changed
  <1>2. (s = 1 \/ s = 2) /\ (t = 1 \/ t = 2)
    OBVIOUS
  <1> QED  BY <1>1, <1>2

\* Reads that are not torn are those of a ledger there was.
LEMMA UntornAgrees ==
    ASSUME DecisionsTyped, FactsAreTrue, kind \in {"readiness", "prepare"}, ~Torn,
           NEW skip \in {"payerIssuer", "recipientIssuer"}
    PROVE  \E s \in 1..now : Agrees(case.ledgers[s], skip)
  <1>1. now \in 1..2 /\ 1 \in 1..now /\ DOMAIN read = Reads(kind)
    BY DEF DecisionsTyped
  <1>2. \A r \in Reads(kind) : Seen(r) => read[r].seen \in 1..now /\ read[r].seen \in 1..2
    BY <1>1, SeenStates
  <1>3. {IssuerRead(role) : role \in Roles} = {"payerIssuer", "recipientIssuer"}
    BY DEF IssuerRead, Roles
  <1>4. ASSUME NEW q \in Reads(kind), Seen(q), q # skip, Changed(q)
        PROVE  Agrees(case.ledgers[read[q].seen], skip)
    <2> SUFFICES ASSUME NEW r \in Reads(kind), Seen(r), r # skip
                 PROVE  Shown(r, case.ledgers[read[q].seen]) = Shown(r, Ledger(r))
      BY DEF Agrees
    <2>1. CASE read[r].seen = read[q].seen
      BY <2>1 DEF Ledger
    <2>2. CASE read[r].seen # read[q].seen
      <3>1. {q, r} # {IssuerRead(role) : role \in Roles}
        BY <1>3, <1>4
      <3>2. ~Changed(r)
        BY <1>1, <1>4, <2>2, <3>1 DEF Torn
      <3> QED  BY <1>2, <1>4, <3>2, UnchangedIsShown DEF Ledger
    <2> QED  BY <2>1, <2>2
  <1>5. CASE \E q \in Reads(kind) : Seen(q) /\ q # skip /\ Changed(q)
    BY <1>2, <1>4, <1>5
  <1>6. CASE ~\E q \in Reads(kind) : Seen(q) /\ q # skip /\ Changed(q)
    <2>1. Agrees(case.ledgers[1], skip)
      BY <1>2, <1>6, UnchangedIsShown DEF Agrees, Ledger
    <2> QED  BY <1>1, <2>1
  <1> QED  BY <1>5, <1>6

\* A fact counts as that of a ledger of the case, even if it was not read.
LEMMA PastIsLegal ==
    ASSUME DecisionsTyped, FactsAreTrue, kind \in {"readiness", "prepare"}, NEW r \in Reads(kind)
    PROVE  /\ Seen(r) => Past(r) = Ledger(r)
           /\ \E s \in 1..2 : Past(r) = case.ledgers[s]
  <1>1. now \in 1..2
    BY DEF DecisionsTyped
  <1>2. CASE Seen(r)
    <2>1. read[r].seen \in 1..2
      BY <1>1, <1>2, SeenStates
    <2> QED  BY <1>2, <2>1 DEF Past, Ledger
  <1>3. CASE ~Seen(r)
    BY <1>3 DEF Past
  <1> QED  BY <1>2, <1>3

LEMMA NetworkFields ==
    ASSUME NEW x, NEW y
    PROVE  /\ NetworkOf(x, y).base = x.base /\ NetworkOf(x, y).reserveBase = x.reserveBase
           /\ NetworkOf(x, y).reserveIncrement = x.reserveIncrement
           /\ NetworkOf(x, y).minimum = y.minimum /\ NetworkOf(x, y).openLedger = y.openLedger
           /\ LegalNetwork(x) /\ LegalNetwork(y) => LegalNetwork(NetworkOf(x, y))
  BY DEF NetworkOf, LegalNetwork

\* Two networks that agree in what is used of them.
SameNetwork(n, m) ==
    /\ n.base = m.base /\ n.minimum = m.minimum /\ n.openLedger = m.openLedger
    /\ n.reserveBase = m.reserveBase /\ n.reserveIncrement = m.reserveIncrement

LEMMA SameNetworks ==
    ASSUME NEW n, NEW m, SameNetwork(n, m)
    PROVE  /\ EstimatedFee(n) = EstimatedFee(m)
           /\ \A account : Reserve(account, n) = Reserve(account, m)
           /\ \A intent, account : PayerXrpVerdict(intent, account, n)
                                       = PayerXrpVerdict(intent, account, m)
           /\ \A account, line : CanAffordTrustSet(account, line, n)
                                     = CanAffordTrustSet(account, line, m)
  <1>1. EstimatedFee(n) = EstimatedFee(m)
    BY Zenon DEF EstimatedFee, SameNetwork
  <1>2. ASSUME NEW account
        PROVE  Reserve(account, n) = Reserve(account, m)
    BY Zenon DEF Reserve, SameNetwork
  <1>3. ASSUME NEW account
        PROVE  Spendable(account, n) = Spendable(account, m)
    BY <1>2 DEF Spendable
  <1>4. ASSUME NEW intent
        PROVE  Required(intent, n) = Required(intent, m)
    BY <1>1, Zenon DEF Required
  <1>5. ASSUME NEW intent, NEW account
        PROVE  PayerXrpVerdict(intent, account, n) = PayerXrpVerdict(intent, account, m)
    BY <1>3, <1>4 DEF PayerXrpVerdict
  <1>6. ASSUME NEW account, NEW line
        PROVE  CanAffordTrustSet(account, line, n) = CanAffordTrustSet(account, line, m)
    <2>1. n.reserveIncrement = m.reserveIncrement
      BY DEF SameNetwork
    <2> QED  BY <1>1, <1>2, <2>1, Zenon DEF CanAffordTrustSet
  <1> QED  BY <1>1, <1>2, <1>5, <1>6

\* What was read, as a ledger, is a legal one that agrees with what was read.
Other(role) == IF role = "payer" THEN "recipientIssuer" ELSE "payerIssuer"

LEMMA PaymentReadAgrees ==
    ASSUME DecisionsTyped, FactsAreTrue, kind = "readiness", NEW role \in Roles
    PROVE  LegalPayment(PaymentAsRead(role)) /\ Agrees(PaymentAsRead(role), Other(role))
  <1> DEFINE p == PaymentAsRead(role)
  <1>1. Reads(kind) = {"payerAccount", "reserves", "fees", "payerIssuer", "payerLine",
                       "recipientAccount", "recipientIssuer", "recipientLine"}
    BY DEF Reads
  <1>2. \A s \in 1..2 : LegalPayment(case.ledgers[s])
    BY FactCases DEF LegalFacts
  <1>3. \A r \in Reads(kind) : /\ Seen(r) => Past(r) = Ledger(r)
                               /\ \E s \in 1..2 : Past(r) = case.ledgers[s]
    BY PastIsLegal
  <1>4. \A r \in Reads(kind) : LegalPayment(Past(r))
    BY <1>2, <1>3
  <1>5. /\ p.payer = Past("payerAccount").payer /\ p.network = NetworkAsRead
        /\ p.issuer = Past(IssuerRead(role)).issuer /\ p.payerLine = Past("payerLine").payerLine
        /\ p.recipient = Past("recipientAccount").recipient
        /\ p.recipientLine = Past("recipientLine").recipientLine
    BY DEF PaymentAsRead
  <1> HIDE DEF p
  <1>6. LegalNetwork(NetworkAsRead)
    BY <1>1, <1>4, NetworkFields DEF NetworkAsRead, LegalPayment
  <1>7. LegalPayment(p)
    BY <1>1, <1>4, <1>5, <1>6 DEF LegalPayment
  <1>8. ASSUME NEW r \in Reads(kind), Seen(r), r # Other(role)
        PROVE  Shown(r, p) = Shown(r, Ledger(r))
    <2>1. Past(r) = Ledger(r)
      BY <1>3, <1>8
    <2>2. CASE r = "reserves"
      <3>1. /\ p.network.base = Ledger(r).network.base
            /\ p.network.reserveBase = Ledger(r).network.reserveBase
            /\ p.network.reserveIncrement = Ledger(r).network.reserveIncrement
        BY <1>5, <2>1, <2>2, NetworkFields DEF NetworkAsRead
      <3> QED  BY <2>2, <3>1, SameNetworkShown, Zenon
    <2>5. CASE r = "fees"
      <3>1. /\ p.network.minimum = Ledger(r).network.minimum
            /\ p.network.openLedger = Ledger(r).network.openLedger
        BY <1>5, <2>1, <2>5, NetworkFields DEF NetworkAsRead
      <3> QED  BY <2>5, <3>1, SameNetworkShown, Zenon
    <2>3. CASE r \in {"payerIssuer", "recipientIssuer"}
      <3>1. r = IssuerRead(role)
        BY <1>8, <2>3 DEF Other, IssuerRead, Roles
      <3>2. p.issuer = Ledger(r).issuer
        BY <1>5, <2>1, <3>1
      <3> QED  BY <2>3, <3>2, ShownIs
    <2>4. CASE r \in {"payerAccount", "recipientAccount", "payerLine", "recipientLine"}
      <3>1. p.payer = Past("payerAccount").payer /\ p.recipient = Past("recipientAccount").recipient
            /\ p.payerLine = Past("payerLine").payerLine
            /\ p.recipientLine = Past("recipientLine").recipientLine
        BY <1>5
      <3>2. CASE r = "payerAccount"
        BY <2>1, <3>1, <3>2, ShownIs, Zenon
      <3>3. CASE r = "recipientAccount"
        BY <2>1, <3>1, <3>3, ShownIs, Zenon
      <3>4. CASE r = "payerLine"
        BY <2>1, <3>1, <3>4, ShownIs, Zenon
      <3>5. CASE r = "recipientLine"
        BY <2>1, <3>1, <3>5, ShownIs, Zenon
      <3> QED  BY <2>4, <3>2, <3>3, <3>4, <3>5
    <2> QED  BY <1>1, <2>2, <2>3, <2>4, <2>5
  <1> QED  BY <1>7, <1>8 DEF Agrees, p

-----------------------------------------------------------------------------
(* Readiness.                                                              *)

\* What each verdict is of: the accounts first, then the issuer, then the line.
LEMMA AccountsOfRoles ==
    ASSUME DecisionsTyped, FactsAreTrue, kind = "readiness", NEW role \in Roles,
           Verdict(role) # None, Verdict(role) # Unavailable
    PROVE  \A r \in AccountReads(role) : r \in Reads(kind) /\ Seen(r)
  BY VerdictIsOf, AccountsWereRead

LEMMA LinesOfRoles ==
    /\ Account("payer") = PayerXrpVerdict(Intent, Ledger("payerAccount").payer, Network)
    /\ Account("recipient")
          = RecipientAccountVerdict(Intent, Ledger("recipientAccount").recipient)
    /\ OwnLine("payer") = PayerLineVerdict(Intent, Ledger("payerIssuer").issuer,
                                           Ledger("payerLine").payerLine)
    /\ OwnLine("recipient") = RecipientLineVerdict(Intent, Ledger("recipientIssuer").issuer,
                                                   Ledger("recipientLine").recipientLine)
    /\ IssuerRead("payer") = "payerIssuer" /\ IssuerRead("recipient") = "recipientIssuer"
    /\ LineRead("payer") = "payerLine" /\ LineRead("recipient") = "recipientLine"
    /\ AccountReads("payer") = {"payerAccount", "reserves", "fees"}
    /\ AccountReads("recipient") = {"recipientAccount"}
    /\ Other("payer") = "recipientIssuer" /\ Other("recipient") = "payerIssuer"
    /\ "payer" \in Roles /\ "recipient" \in Roles
  BY DEF OwnLine, IssuerRead, LineRead, AccountReads, Account, PayerAccount, RecipientAccount,
         Other, Roles

\* The facts of a ledger that agrees with what was read, as far as each was read.
LEMMA AgreedFacts ==
    ASSUME kind = "readiness", NEW l, NEW skip, Agrees(l, skip)
    PROVE  /\ Seen("payerAccount") /\ skip # "payerAccount" => l.payer = Ledger("payerAccount").payer
           /\ Seen("reserves") /\ Seen("fees") /\ skip \notin {"reserves", "fees"}
                  => SameNetwork(l.network, Network)
           /\ Seen("payerIssuer") /\ skip # "payerIssuer" => l.issuer = Ledger("payerIssuer").issuer
           /\ Seen("recipientIssuer") /\ skip # "recipientIssuer"
                  => l.issuer = Ledger("recipientIssuer").issuer
           /\ Seen("payerLine") /\ skip # "payerLine"
                  => l.payerLine = Ledger("payerLine").payerLine
           /\ Seen("recipientAccount") /\ skip # "recipientAccount"
                  => l.recipient = Ledger("recipientAccount").recipient
           /\ Seen("recipientLine") /\ skip # "recipientLine"
                  => l.recipientLine = Ledger("recipientLine").recipientLine
  <1>1. Reads(kind) = {"payerAccount", "reserves", "fees", "payerIssuer", "payerLine",
                       "recipientAccount", "recipientIssuer", "recipientLine"}
    BY DEF Reads
  <1>2. \A r \in Reads(kind) : Seen(r) /\ r # skip => Shown(r, l) = Shown(r, Ledger(r))
    BY DEF Agrees
  <1>3. ASSUME Seen("reserves"), Seen("fees"), skip \notin {"reserves", "fees"}
        PROVE  SameNetwork(l.network, Network)
    <2>1. /\ Shown("reserves", l) = Shown("reserves", Ledger("reserves"))
          /\ Shown("fees", l) = Shown("fees", Ledger("fees"))
      BY <1>1, <1>2, <1>3
    <2>2. /\ l.network.base = Ledger("reserves").network.base
          /\ l.network.reserveBase = Ledger("reserves").network.reserveBase
          /\ l.network.reserveIncrement = Ledger("reserves").network.reserveIncrement
          /\ l.network.minimum = Ledger("fees").network.minimum
          /\ l.network.openLedger = Ledger("fees").network.openLedger
      BY <2>1, SameNetworkShown, Zenon
    <2> QED  BY <2>2, NetworkFields DEF SameNetwork, Network
  <1> QED  BY <1>1, <1>2, <1>3, ShownIs

\* Both roles ready: the issuer was read twice, and what asks less of the lines is the
\* answer that the payment needs.
LEMMA ReadyPaymentsSucceed ==
    ASSUME DecisionsTyped, FactsAreTrue, kind = "readiness",
           Verdict("payer") # None, Verdict("recipient") # None,
           Verdict("payer") = Ready, Verdict("recipient") = Ready
    PROVE  \E role \in Roles : \A l : LegalPayment(l) /\ Agrees(l, Other(role)) => AtReferenceFee(l)
  <1>1. LegalIntent(Intent) /\ Ready # Unavailable
    BY FactCases, BlockedIsNotReady DEF LegalFacts
  <1>2. /\ Seen("payerAccount") /\ Seen("reserves") /\ Seen("fees") /\ Seen("recipientAccount")
        /\ Account("payer") = Ready /\ Account("recipient") = Ready
    BY <1>1, LinesOfRoles, AccountsOfRoles, VerdictIsOf
  <1>3. ASSUME NEW l, NEW skip \in {"payerIssuer", "recipientIssuer"},
               LegalPayment(l), Agrees(l, skip)
        PROVE  /\ l.payer # None
               /\ l.payer.balance >= Reserve(l.payer, l.network) + l.network.base
                     + (IF Intent.asset = "XRP" THEN Intent.units ELSE 0)
               /\ l.recipient # None
               /\ l.recipient.requireDestinationTag => Intent.destinationTag # None
               /\ ~l.recipient.depositAuth
    <2>1. /\ l.payer = Ledger("payerAccount").payer /\ SameNetwork(l.network, Network)
          /\ l.recipient = Ledger("recipientAccount").recipient
      BY <1>2, <1>3, AgreedFacts
    <2>2. /\ PayerXrpVerdict(Intent, l.payer, l.network) = Ready
          /\ RecipientAccountVerdict(Intent, l.recipient) = Ready
      BY <1>2, <2>1, LinesOfRoles, SameNetworks
    <2>3. LegalAccount(l.payer) /\ LegalNetwork(l.network)
      BY <1>3 DEF LegalPayment
    <2>4. /\ l.payer # None
          /\ l.payer.balance >= Reserve(l.payer, l.network) + l.network.base
                + (IF Intent.asset = "XRP" THEN Intent.units ELSE 0)
      BY <1>1, <2>2, <2>3, PayerXrpIsTrue
    <2> QED  BY <2>2, <2>4, RecipientAccountIsTrue
  <1>4. CASE ~Issued
    <2>1. ASSUME NEW l, LegalPayment(l), Agrees(l, Other("payer"))
          PROVE  AtReferenceFee(l)
      BY <1>3, <1>4, <2>1, LinesOfRoles DEF AtReferenceFee, PaymentSucceeds, Issued
    <2> QED  BY <2>1, LinesOfRoles
  <1>5. CASE Issued
    <2> DEFINE p == Ledger("payerIssuer").issuer
               q == Ledger("recipientIssuer").issuer
               d == Ledger("payerLine").payerLine
               f == Ledger("recipientLine").recipientLine
    <2>1. /\ Seen("payerIssuer") /\ Seen("payerLine") /\ IssuerVerdict(p) = Ready
          /\ PayerLineVerdict(Intent, p, d) = Ready
      BY <1>1, <1>5, VerdictIsOf, LinesOfRoles
    <2>2. /\ Seen("recipientIssuer") /\ Seen("recipientLine") /\ IssuerVerdict(q) = Ready
          /\ RecipientLineVerdict(Intent, q, f) = Ready
      BY <1>1, <1>5, VerdictIsOf, LinesOfRoles
    <2> HIDE DEF p, q, d, f
    <2>3. p # None /\ ~p.globalFreeze /\ q # None /\ ~q.globalFreeze
      BY <2>1, <2>2, IssuerIsTrue
    <2>4. LegalLine(d) /\ LegalLine(f)
      <3>1. "payerLine" \in Reads(kind) /\ "recipientLine" \in Reads(kind)
        BY DEF Reads
      <3>2. now \in 1..2 /\ \A s \in 1..2 : LegalPayment(case.ledgers[s])
        BY FactCases DEF LegalFacts
      <3>3. read["payerLine"].seen \in 1..2 /\ read["recipientLine"].seen \in 1..2
        BY <2>1, <2>2, <3>1, <3>2, SeenStates
      <3> QED  BY <3>2, <3>3 DEF LegalPayment, Ledger, d, f
    <2>5. LineCarries(p, d) /\ Exceeds(d.balance, Zero, Intent.units, Intent.scale)
      BY <1>1, <2>1, <2>4, PayerLineIsTrue, LineIsTrue
    <2>6. LineCarries(q, f) /\ Exceeds(f.limit, f.balance, Intent.units, Intent.scale)
      BY <1>1, <2>2, <2>4, RecipientLineIsTrue, LineIsTrue
    <2>7. PICK role \in Roles : LET c == IF role = "payer" THEN p ELSE q
                                IN  LineCarries(c, d) /\ LineCarries(c, f)
      <3>1. CASE ~p.requireAuthorization
        <4>1. LineCarries(p, d) /\ LineCarries(p, f)
          BY <2>5, <2>6, <3>1, Zenon DEF LineCarries
        <4> QED  BY <4>1 DEF Roles
      <3>2. CASE p.requireAuthorization
        <4>1. LineCarries(q, d) /\ LineCarries(q, f)
          BY <2>5, <2>6, <3>2, Zenon DEF LineCarries
        <4> QED  BY <4>1 DEF Roles
      <3> QED  BY <3>1, <3>2
    <2>8. ASSUME NEW l, LegalPayment(l), Agrees(l, Other(role))
          PROVE  AtReferenceFee(l)
      <3>1. Other(role) \in {"payerIssuer", "recipientIssuer"}
        BY DEF Other
      <3>2. l.payerLine = d /\ l.recipientLine = f
        BY <2>1, <2>2, <2>8, <3>1, AgreedFacts DEF d, f
      <3>3. l.issuer = IF role = "payer" THEN p ELSE q
        BY <2>1, <2>2, <2>8, AgreedFacts, LinesOfRoles DEF Roles, p, q
      <3>4. /\ l.issuer # None /\ ~l.issuer.globalFreeze
            /\ LineCarries(l.issuer, l.payerLine) /\ LineCarries(l.issuer, l.recipientLine)
        BY <2>3, <2>7, <3>2, <3>3
      <3> QED  BY <1>3, <2>5, <2>6, <2>8, <3>1, <3>2, <3>4 DEF AtReferenceFee, PaymentSucceeds
    <2> QED  BY <2>8
  <1> QED  BY <1>4, <1>5

\* A role is blocked for what is so in any ledger that agrees with what the role read.
LEMMA BlockedPaymentsFail ==
    ASSUME DecisionsTyped, FactsAreTrue, kind = "readiness",
           NEW role \in Roles, Verdict(role) \notin {None, Unavailable, Ready},
           NEW l, LegalPayment(l), Agrees(l, Other(role))
    PROVE  Refused(l)
  <1>1. LegalIntent(Intent)
    BY FactCases DEF LegalFacts
  <1>2. SUFFICES ASSUME AtReferenceFee(l), ~Cautious(l)
                 PROVE  FALSE
    BY Zenon DEF Refused
  <1>3. /\ \/ Account(role) # Ready
           \/ /\ Issued /\ Seen(IssuerRead(role))
              /\ IssuerVerdict(Ledger(IssuerRead(role)).issuer) # Ready
           \/ Issued /\ Seen(IssuerRead(role)) /\ Seen(LineRead(role)) /\ OwnLine(role) # Ready
        /\ \A r \in AccountReads(role) : r \in Reads(kind) /\ Seen(r)
    BY VerdictIsOf, AccountsOfRoles
  <1>4. /\ LegalAccount(l.payer) /\ LegalNetwork(l.network)
        /\ LegalLine(l.payerLine) /\ LegalLine(l.recipientLine)
    BY DEF LegalPayment
  <1>5. PayerXrpVerdict(Intent, l.payer, l.network) = Ready
    BY <1>1, <1>2, <1>4, PayerXrpIsTrue DEF AtReferenceFee, PaymentSucceeds, Cautious
  <1>6. RecipientAccountVerdict(Intent, l.recipient) = Ready
    BY <1>2, RecipientAccountIsTrue DEF AtReferenceFee, PaymentSucceeds
  <1>7. ASSUME Issued
        PROVE  /\ IssuerVerdict(l.issuer) = Ready
               /\ PayerLineVerdict(Intent, l.issuer, l.payerLine) = Ready
               /\ RecipientLineVerdict(Intent, l.issuer, l.recipientLine) = Ready
    <2>1. /\ l.issuer # None /\ ~l.issuer.globalFreeze
          /\ LineCarries(l.issuer, l.payerLine) /\ LineCarries(l.issuer, l.recipientLine)
          /\ Exceeds(l.payerLine.balance, Zero, Intent.units, Intent.scale)
          /\ Exceeds(l.recipientLine.limit, l.recipientLine.balance, Intent.units, Intent.scale)
      BY <1>2, <1>7 DEF AtReferenceFee, PaymentSucceeds, Issued
    <2>2. ~l.payerLine.freeze /\ ~l.recipientLine.freeze
      BY <1>2, <2>1 DEF Cautious, LineCarries
    <2>3. /\ LineVerdict(l.issuer, l.payerLine) = Ready
          /\ LineVerdict(l.issuer, l.recipientLine) = Ready
      BY <2>1, <2>2, LineIsTrue
    <2> QED  BY <1>1, <1>4, <2>1, <2>3, IssuerIsTrue, PayerLineIsTrue, RecipientLineIsTrue
  <1>8. CASE role = "payer"
    <2>1. /\ l.payer = Ledger("payerAccount").payer /\ SameNetwork(l.network, Network)
          /\ Seen("payerIssuer") => l.issuer = Ledger("payerIssuer").issuer
          /\ Seen("payerLine") => l.payerLine = Ledger("payerLine").payerLine
      BY <1>3, <1>8, AgreedFacts, LinesOfRoles
    <2>2. Account("payer") = Ready
      BY <1>5, <2>1, LinesOfRoles, SameNetworks
    <2> QED  BY <1>3, <1>7, <1>8, <2>1, <2>2, LinesOfRoles
  <1>9. CASE role = "recipient"
    <2>1. /\ l.recipient = Ledger("recipientAccount").recipient
          /\ Seen("recipientIssuer") => l.issuer = Ledger("recipientIssuer").issuer
          /\ Seen("recipientLine") => l.recipientLine = Ledger("recipientLine").recipientLine
      BY <1>3, <1>9, AgreedFacts, LinesOfRoles
    <2>2. Account("recipient") = Ready
      BY <1>6, <2>1, LinesOfRoles
    <2> QED  BY <1>3, <1>7, <1>9, <2>1, <2>2, LinesOfRoles
  <1> QED  BY <1>8, <1>9 DEF Roles

\* What the answer is compared with stays as it was read.
LEMMA StaysAsRead ==
    ASSUME UNCHANGED <<case, read>>
    PROVE  /\ Torn' <=> Torn
           /\ \A role \in Roles : /\ AtReferenceFee(PaymentAsRead(role))'
                                        <=> AtReferenceFee(PaymentAsRead(role))
                                  /\ Refused(PaymentAsRead(role))' <=> Refused(PaymentAsRead(role))
           /\ \A s : /\ AtReferenceFee(case.ledgers[s])' <=> AtReferenceFee(case.ledgers[s])
                     /\ Refused(case.ledgers[s])' <=> Refused(case.ledgers[s])
           /\ PreparationAsRead' = PreparationAsRead /\ Intent' = Intent
  <1>1. \A r : (Seen(r))' <=> Seen(r)
    BY DEF Seen
  <1>2. \A r : (Changed(r))' <=> Changed(r)
    BY DEF Changed
  <1>3. \A r : Past(r)' = Past(r)
    BY <1>1 DEF Past, Ledger
  <1>4. NetworkAsRead' = NetworkAsRead
    BY <1>3 DEF NetworkAsRead
  <1>5. \A role \in Roles : PaymentAsRead(role)' = PaymentAsRead(role)
    BY <1>3, <1>4 DEF PaymentAsRead
  <1>6. PreparationAsRead' = PreparationAsRead
    BY <1>3, <1>4 DEF PreparationAsRead
  <1>7. Torn' <=> Torn
    BY <1>1, <1>2 DEF Torn
  <1> QED  BY <1>5, <1>6, <1>7 DEF AtReferenceFee, Refused, Cautious, Intent

LEMMA ReadinessAnswers ==
    ASSUME DecisionsTyped, FactsAreTrue, DecideReadiness
    PROVE  ReadinessIsTrue' /\ PlanIsEnough'
  <1> DEFINE payer == Verdict("payer")
             recipient == Verdict("recipient")
  <1>1. /\ kind' = "readiness" /\ kind = "readiness" /\ UNCHANGED <<case, read>> /\ now' = now
        /\ answer'.view = GateCode(payer, recipient) /\ payer # None /\ recipient # None
    BY DEF DecideReadiness, Roles
  <1>2. GateCode(payer, recipient) = "READY" => payer = Ready /\ recipient = Ready
    BY Zenon DEF GateCode
  <1>3. GateCode(payer, recipient) = "PAYMENT_READINESS_BLOCKED"
            => ~(payer = Ready /\ recipient = Ready)
               /\ payer.status # "unavailable" /\ recipient.status # "unavailable"
    <2>1. CASE payer = Ready /\ recipient = Ready
      <3>1. "unavailable" \notin {payer.status, recipient.status}
        BY <2>1 DEF Ready
      <3>2. GateCode(payer, recipient) = "READY"
        BY <2>1, <3>1, Zenon DEF GateCode
      <3> QED  BY <3>2
    <2>2. CASE "unavailable" \in {payer.status, recipient.status} /\ ~(payer = Ready /\ recipient = Ready)
      <3>1. GateCode(payer, recipient) = "PAYMENT_READINESS_UNAVAILABLE"
        BY <2>2, Zenon DEF GateCode
      <3> QED  BY <3>1
    <2> QED  BY <2>1, <2>2
  <1>4. Unavailable.status = "unavailable"
    BY DEF Unavailable
  <1>5. ASSUME NEW role \in Roles, ~Torn
        PROVE  \E s \in 1..now : LegalPayment(case.ledgers[s]) /\ Agrees(case.ledgers[s], Other(role))
    <2>1. now \in 1..2 /\ \A s \in 1..2 : LegalPayment(case.ledgers[s])
      BY <1>1, FactCases DEF LegalFacts
    <2>2. Other(role) \in {"payerIssuer", "recipientIssuer"}
      BY DEF Other
    <2> QED  BY <1>1, <1>5, <2>1, <2>2, UntornAgrees
  <1>6. ASSUME GateCode(payer, recipient) = "READY"
        PROVE  /\ \E role \in Roles : AtReferenceFee(PaymentAsRead(role))
               /\ Torn \/ \E s \in 1..now : AtReferenceFee(case.ledgers[s])
    <2>1. PICK role \in Roles :
              \A l : LegalPayment(l) /\ Agrees(l, Other(role)) => AtReferenceFee(l)
      BY <1>1, <1>2, <1>6, ReadyPaymentsSucceed
    <2>2. AtReferenceFee(PaymentAsRead(role))
      BY <1>1, <2>1, PaymentReadAgrees
    <2>3. Torn \/ \E s \in 1..now : AtReferenceFee(case.ledgers[s])
      BY <1>5, <2>1
    <2> QED  BY <2>2, <2>3
  <1>7. ASSUME GateCode(payer, recipient) = "PAYMENT_READINESS_BLOCKED"
        PROVE  /\ \E role \in Roles : Refused(PaymentAsRead(role))
               /\ Torn \/ \E s \in 1..now : Refused(case.ledgers[s])
    <2>1. PICK role \in Roles : Verdict(role) \notin {None, Unavailable, Ready}
      BY <1>1, <1>3, <1>4, <1>7, Zenon DEF Roles
    <2>2. Refused(PaymentAsRead(role))
      BY <1>1, <2>1, PaymentReadAgrees, BlockedPaymentsFail
    <2>3. Torn \/ \E s \in 1..now : Refused(case.ledgers[s])
      BY <1>1, <1>5, <2>1, BlockedPaymentsFail
    <2> QED  BY <2>2, <2>3
  <1> HIDE DEF payer, recipient
  <1>8. ReadinessIsTrue'
    <2>1. /\ answer'.view = "READY" =>
                 /\ \E role \in Roles : AtReferenceFee(PaymentAsRead(role))'
                 /\ Torn' \/ \E s \in 1..now' : AtReferenceFee(case.ledgers[s])'
          /\ answer'.view = "PAYMENT_READINESS_BLOCKED" =>
                 /\ \E role \in Roles : Refused(PaymentAsRead(role))'
                 /\ Torn' \/ \E s \in 1..now' : Refused(case.ledgers[s])'
      BY <1>1, <1>6, <1>7, StaysAsRead
    <2> QED  BY <1>1, <2>1 DEF ReadinessIsTrue, Answered
  <1>9. PlanIsEnough'
    BY <1>1 DEF PlanIsEnough
  <1> QED  BY <1>8, <1>9

-----------------------------------------------------------------------------
(* The accounts of the acceptance.                                         *)

LEMMA FeesAreInHand ==
    ASSUME NEW fee, LegalNetwork(fee), fee.median \in Nat
    PROVE  FeeHeadroom(fee) \in Nat
  <1>1. fee.base \in Int /\ fee.minimum \in Int /\ fee.median \in Int /\ fee.openLedger \in Int
        /\ fee.base \in Nat /\ fee.minimum \in Nat /\ fee.median \in Nat /\ fee.openLedger \in Nat
    BY DEF LegalNetwork
  <1> DEFINE n == Max({fee.base, fee.minimum, fee.median, fee.openLedger})
  <1>2. n \in {fee.base, fee.minimum, fee.median, fee.openLedger}
    BY <1>1, GreatestOf
  <1>3. FeeHeadroom(fee) = 4 * n
    BY DEF FeeHeadroom
  <1> HIDE DEF n
  <1>4. n \in Nat
    BY <1>1, <1>2
  <1> QED  BY <1>3, <1>4

\* What the script calls ready.
LEMMA ReadyAccountsSuffice ==
    ASSUME NEW intent, LegalIntent(intent), intent.asset # "XRP",
           NEW l, LegalPayment(l), NEW fee, LegalNetwork(fee), fee.median \in Nat,
           AccountsReady(intent, l, fee)
    PROVE  /\ PaymentSucceeds(intent, l, FeeHeadroom(fee))
           /\ RecipientLineVerdict([units |-> BillTotal(intent), scale |-> intent.scale],
                                   l.issuer, l.recipientLine) = Ready
  <1> DEFINE twice == [units |-> BillTotal(intent), scale |-> intent.scale]
  <1>1. /\ intent.units \in Nat \ {0} /\ intent.scale \in 0..MaxDigits
        /\ BillTotal(intent) = 2 * intent.units /\ 2 * intent.units \in Nat \ {0}
    BY DEF LegalIntent, BillTotal
  <1>2. LegalIntent(twice) /\ twice.units = 2 * intent.units /\ twice.scale = intent.scale
    BY <1>1 DEF LegalIntent
  <1>3. /\ LegalAccount(l.payer) /\ LegalNetwork(l.network)
        /\ LegalLine(l.payerLine) /\ LegalLine(l.recipientLine)
    BY DEF LegalPayment
  <1>4. /\ RecipientAccountVerdict(intent, l.recipient) = Ready /\ l.payer # None
        /\ IssuerVerdict(l.issuer) = Ready
        /\ LineVerdict(l.issuer, l.recipientLine) = Ready
        /\ LineVerdict(l.issuer, l.payerLine) = Ready
        /\ DifferenceAtLeast(l.recipientLine.limit, l.recipientLine.balance,
                             AmountOf(2 * intent.units, intent.scale))
        /\ DifferenceAtLeast(l.payerLine.balance, AmountOf(0, 0),
                             AmountOf(intent.units, intent.scale))
        /\ l.payer.balance - Reserve(l.payer, l.network) >= FeeHeadroom(fee)
    BY <1>1 DEF AccountsReady, OfficialTrustLine
  <1>5. /\ l.recipientLine # None /\ l.payerLine # None
        /\ LineCarries(l.issuer, l.recipientLine) /\ LineCarries(l.issuer, l.payerLine)
    BY <1>4, LineIsTrue
  <1>6. /\ LegalDecimal(l.recipientLine.limit) /\ LegalDecimal(l.recipientLine.balance)
        /\ LegalDecimal(l.payerLine.balance) /\ AmountOf(0, 0) = Zero
    BY <1>3, <1>5 DEF LegalLine, AmountOf, Zero
  <1>7. Exceeds(l.recipientLine.limit, l.recipientLine.balance, 2 * intent.units, intent.scale)
    <2> DEFINE u == 2 * intent.units
    <2>1. u \in Nat /\ DifferenceAtLeast(l.recipientLine.limit, l.recipientLine.balance,
                                         AmountOf(u, intent.scale))
      BY <1>1, <1>4
    <2> HIDE DEF u
    <2>2. Exceeds(l.recipientLine.limit, l.recipientLine.balance, u, intent.scale)
      BY <1>1, <1>6, <2>1, DifferenceIsCompared
    <2> QED  BY <2>2 DEF u
  <1>8. Exceeds(l.recipientLine.limit, l.recipientLine.balance, intent.units, intent.scale)
    BY <1>1, <1>6, <1>7, TwiceIsMore
  <1>9. Exceeds(l.payerLine.balance, Zero, intent.units, intent.scale)
    BY <1>1, <1>4, <1>6, ZeroIsLegal, DifferenceIsCompared
  <1>10. l.payer.balance >= Reserve(l.payer, l.network) + FeeHeadroom(fee) + 0
    BY <1>3, <1>4, ReservesAreNumbers, FeesAreInHand
  <1>11. /\ l.recipient # None
         /\ l.recipient.requireDestinationTag => intent.destinationTag # None
         /\ ~l.recipient.depositAuth
    BY <1>4, RecipientAccountIsTrue
  <1>12. l.issuer # None /\ ~l.issuer.globalFreeze
    BY <1>4, IssuerIsTrue
  <1>13. PaymentSucceeds(intent, l, FeeHeadroom(fee))
    BY <1>4, <1>5, <1>8, <1>9, <1>10, <1>11, <1>12 DEF PaymentSucceeds
  <1>14. RecipientLineVerdict(twice, l.issuer, l.recipientLine) = Ready
    <2> HIDE DEF twice
    <2> QED  BY <1>2, <1>3, <1>4, <1>7, RecipientLineIsTrue
  <1> QED  BY <1>13, <1>14

\* Both ask the same of the facts, whoever wrote them down together.
LEMMA SameFacts ==
    ASSUME NEW intent, NEW fee, NEW l, NEW m,
           l.payer = m.payer, l.network = m.network, l.issuer = m.issuer,
           l.payerLine = m.payerLine, l.recipient = m.recipient,
           l.recipientLine = m.recipientLine
    PROVE  AccountsReady(intent, l, fee) = AccountsReady(intent, m, fee)
  BY Zenon DEF AccountsReady

LEMMA AcceptanceAnswers ==
    ASSUME DecisionsTyped, FactsAreTrue, DecideAccounts
    PROVE  ReadinessIsTrue' /\ PlanIsEnough'
  <1>1. kind = "accept" /\ kind' = kind /\ case' = case /\ now' = now
    BY DEF DecideAccounts
  <1>2. SUFFICES ASSUME answer'.view = "ACCOUNTS_READY"
                 PROVE  \E s, t \in 1..now :
          /\ PaymentSucceeds(Intent, case.ledgers[s], FeeHeadroom(case.ledgers[t].network))
          /\ RecipientLineVerdict([units |-> BillTotal(Intent), scale |-> Intent.scale],
                                  case.ledgers[s].issuer, case.ledgers[s].recipientLine) = Ready
    BY <1>1 DEF ReadinessIsTrue, PlanIsEnough, Answered, Intent
  <1>3. /\ \A r \in DOMAIN read : Seen(r)
        /\ AccountsReady(Intent, Snapshot, Ledger("fee").network)
    <2>1. CASE answer' = [view |-> "ACCOUNTS_UNAVAILABLE"]
      BY <1>2, <2>1
    <2>2. CASE /\ \A r \in DOMAIN read : Seen(r)
               /\ answer' = [view |-> IF AccountsReady(Intent, Snapshot, Ledger("fee").network)
                                      THEN "ACCOUNTS_READY" ELSE "ACCOUNTS_BLOCKED"]
      BY <1>2, <2>2
    <2> QED  BY <2>1, <2>2 DEF DecideAccounts
  <1>4. Reads(kind) = {"state", "fee", "payerFacts", "recipientFacts"} /\ DOMAIN read = Reads(kind)
    BY <1>1 DEF Reads, DecisionsTyped
  <1> DEFINE s == read["state"].seen
             t == read["fee"].seen
  <1>5. /\ s \in 1..now /\ t \in 1..now
        /\ read["payerFacts"].seen = s /\ read["recipientFacts"].seen = s
    BY <1>1, <1>3, <1>4 DEF FactsAreTrue, Seen
  <1>6. /\ LegalIntent(Intent) /\ Intent.asset # "XRP" /\ now \in 1..2
        /\ \A x \in 1..now : LegalPayment(case.ledgers[x]) /\ case.ledgers[x].network.median \in Nat
    BY <1>1, FactCases DEF LegalFacts
  <1>7. /\ Snapshot.payer = case.ledgers[s].payer /\ Snapshot.network = case.ledgers[s].network
        /\ Snapshot.issuer = case.ledgers[s].issuer
        /\ Snapshot.payerLine = case.ledgers[s].payerLine
        /\ Snapshot.recipient = case.ledgers[s].recipient
        /\ Snapshot.recipientLine = case.ledgers[s].recipientLine
    BY <1>5 DEF Snapshot, Ledger
  <1>8. AccountsReady(Intent, case.ledgers[s], case.ledgers[t].network)
    <2>1. Ledger("fee").network = case.ledgers[t].network
      BY DEF Ledger
    <2> HIDE DEF s, t
    <2>2. AccountsReady(Intent, Snapshot, case.ledgers[t].network)
      BY <1>3, <2>1
    <2>3. AccountsReady(Intent, Snapshot, case.ledgers[t].network)
              = AccountsReady(Intent, case.ledgers[s], case.ledgers[t].network)
      BY <1>7, SameFacts
    <2> QED  BY <2>2, <2>3
  <1> HIDE DEF s, t
  <1>9. LegalPayment(case.ledgers[s]) /\ LegalNetwork(case.ledgers[t].network)
        /\ case.ledgers[t].network.median \in Nat
    BY <1>5, <1>6 DEF LegalPayment
  <1>10. /\ PaymentSucceeds(Intent, case.ledgers[s], FeeHeadroom(case.ledgers[t].network))
         /\ RecipientLineVerdict([units |-> BillTotal(Intent), scale |-> Intent.scale],
                                 case.ledgers[s].issuer, case.ledgers[s].recipientLine) = Ready
    BY <1>6, <1>8, <1>9, ReadyAccountsSuffice
  <1> QED  BY <1>5, <1>10

-----------------------------------------------------------------------------
(* The plan of a trust line.                                               *)

LEMMA PlannedIs ==
    ASSUME NEW status, NEW limit
    PROVE  Planned(status, limit).view = status /\ Planned(status, limit).limit = limit
  BY DEF Planned

\* What a plan that is not refused has looked at.
LEMMA PlanLookedAt ==
    ASSUME NEW purpose, NEW account, NEW issuer, NEW line, NEW network, NEW units, NEW scale,
           Plan(purpose, account, issuer, line, network, units, scale).view
               \in {"required", "not_required"}
    PROVE  /\ account # None /\ IssuerVerdict(issuer) = Ready
           /\ LineVerdict(issuer, line).reason
                  \notin {"trust_line_frozen", "trust_line_not_authorized"}
           /\ line # None => FitsPrecision(line.balance, scale) /\ FitsPrecision(line.limit, scale)
           /\ Plan(purpose, account, issuer, line, network, units, scale).limit
                  = TargetLimit(purpose, line, units, scale)
           /\ Plan(purpose, account, issuer, line, network, units, scale).view = "not_required"
                  => /\ line # None
                     /\ LimitOf(line, scale) >= TargetLimit(purpose, line, units, scale)
           /\ Plan(purpose, account, issuer, line, network, units, scale).view = "required"
                  => CanAffordTrustSet(account, line, network)
  <1> DEFINE plan == Plan(purpose, account, issuer, line, network, units, scale)
             target == TargetLimit(purpose, line, units, scale)
             bars == LineVerdict(issuer, line).reason
                         \in {"trust_line_frozen", "trust_line_not_authorized"}
             unfit == line # None /\ ~(FitsPrecision(line.balance, scale)
                                        /\ FitsPrecision(line.limit, scale))
  <1>1. NotPlanned.view = "blocked"
    BY DEF NotPlanned, Planned
  <1>2. CASE account = None \/ IssuerVerdict(issuer) # Ready
    <2>1. plan = NotPlanned
      BY <1>2, Zenon DEF Plan
    <2> QED  BY <1>1, <2>1
  <1>3. CASE account # None /\ IssuerVerdict(issuer) = Ready
    <2>1. plan = IF bars \/ unfit THEN NotPlanned
                 ELSE IF line # None /\ LimitOf(line, scale) >= target
                 THEN Planned("not_required", target)
                 ELSE IF CanAffordTrustSet(account, line, network)
                 THEN Planned("required", target) ELSE NotPlanned
      BY <1>3, Zenon DEF Plan
    <2> HIDE DEF plan, target
    <2>2. ~bars /\ ~unfit
      BY <1>1, <2>1 DEF plan
    <2>3. CASE line # None /\ LimitOf(line, scale) >= target
      <3>1. plan = Planned("not_required", target)
        BY <2>1, <2>2, <2>3
      <3>2. plan.view = "not_required" /\ plan.limit = target
        BY <3>1, PlannedIs
      <3> QED  BY <1>3, <2>2, <2>3, <3>2 DEF plan, target
    <2>4. CASE ~(line # None /\ LimitOf(line, scale) >= target)
      <3>1. CanAffordTrustSet(account, line, network) /\ plan = Planned("required", target)
        BY <1>1, <2>1, <2>2, <2>4 DEF plan
      <3>2. plan.view = "required" /\ plan.limit = target
        BY <3>1, PlannedIs
      <3> QED  BY <1>3, <2>2, <3>1, <3>2 DEF plan, target
    <2> QED  BY <2>3, <2>4
  <1> QED  BY <1>2, <1>3

\* A line that has no reason to be blocked is none yet, or ready.
LEMMA LineReasons ==
    ASSUME NEW issuer, NEW line,
           LineVerdict(issuer, line).reason \notin {"trust_line_frozen", "trust_line_not_authorized"}
    PROVE  line = None \/ LineVerdict(issuer, line) = Ready
  <1>1. \A reason : Blocked(reason).reason = reason
    BY DEF Blocked
  <1>2. CASE line # None /\ Frozen(line)
    <2>1. LineVerdict(issuer, line) = Blocked("trust_line_frozen")
      BY <1>2, Zenon DEF LineVerdict
    <2> QED  BY <1>1, <2>1
  <1>3. CASE line # None /\ ~Frozen(line) /\ issuer.requireAuthorization /\ ~line.peerAuthorized
    <2>1. LineVerdict(issuer, line) = Blocked("trust_line_not_authorized")
      BY <1>3, Zenon DEF LineVerdict
    <2> QED  BY <1>1, <2>1
  <1>4. CASE line # None /\ ~Frozen(line) /\ ~(issuer.requireAuthorization /\ ~line.peerAuthorized)
    BY <1>4, LineIsTrue
  <1> QED  BY <1>2, <1>3, <1>4

\* The limit a plan asks for: not below the line's own, the amount and, for a recipient,
\* the amount on top of what is held.
LEMMA TargetsSuffice ==
    ASSUME NEW purpose, NEW line, LegalLine(line), NEW units \in Nat \ {0},
           NEW scale \in 0..MaxDigits,
           line # None => FitsPrecision(line.balance, scale) /\ FitsPrecision(line.limit, scale)
    PROVE  LET target == TargetLimit(purpose, line, units, scale)
           IN  /\ target \in Nat /\ target >= units
               /\ line # None => /\ ToUnits(line.balance, scale) \in Int
                                 /\ ToUnits(line.limit, scale) \in Int
                                 /\ purpose = "recipient"
                                        => target - ToUnits(line.balance, scale) >= units
               /\ line = None \/ target >= LimitOf(line, scale)
  <1> DEFINE held == Held(line, scale)
             own == LimitOf(line, scale)
             asked == units + (IF purpose = "recipient" THEN held ELSE 0)
             target == TargetLimit(purpose, line, units, scale)
  <1>1. ASSUME line # None
        PROVE  ToUnits(line.balance, scale) \in Int /\ ToUnits(line.limit, scale) \in Int
    BY <1>1, UnitsAreExact DEF LegalLine
  <1>2. /\ own \in Int /\ held \in Nat
        /\ line # None => held >= ToUnits(line.balance, scale)
    <2>1. CASE line = None
      BY <2>1 DEF LimitOf, Held
    <2>2. CASE line # None
      <3> DEFINE b == ToUnits(line.balance, scale)
      <3>1. own = ToUnits(line.limit, scale) /\ held = Max({0, b})
        BY <2>2 DEF LimitOf, Held
      <3>2. b \in Int /\ own \in Int
        BY <1>1, <2>2, <3>1
      <3> HIDE DEF b
      <3>3. Max({0, b}) \in {0, b} /\ Max({0, b}) >= 0 /\ Max({0, b}) >= b
        BY <3>2, GreatestOf
      <3> HIDE DEF own, held
      <3>4. held \in Nat /\ held >= b
        BY <3>1, <3>2, <3>3
      <3> QED  BY <3>2, <3>4 DEF b
    <2> QED  BY <2>1, <2>2
  <1>3. target = Max({own, asked})
    BY DEF TargetLimit
  <1> HIDE DEF held, own, target
  <1>4. asked \in Nat /\ asked >= units /\ (purpose = "recipient" => asked = units + held)
    BY <1>2
  <1> HIDE DEF asked
  <1>5. target \in {own, asked} /\ target >= own /\ target >= asked
    <2>1. asked \in Int
      BY <1>4
    <2> QED  BY <1>2, <1>3, <2>1, GreatestOf
  <1>6. target \in Nat /\ target >= units
    BY <1>2, <1>4, <1>5
  <1>7. ASSUME line # None, purpose = "recipient"
        PROVE  target - ToUnits(line.balance, scale) >= units
    <2> DEFINE b == ToUnits(line.balance, scale)
    <2>1. b \in Int /\ held >= b
      BY <1>1, <1>2, <1>7
    <2> HIDE DEF b
    <2> QED  BY <1>2, <1>4, <1>5, <1>6, <1>7, <2>1 DEF b
  <1> QED  BY <1>1, <1>5, <1>6, <1>7 DEF own, target

LEMMA PlansFit ==
    ASSUME NEW intent, LegalIntent(intent), NEW l, LegalPreparation(l), PlannedLine(intent, l) # None, NEW plan,
           plan = Plan(intent.purpose, l.account, l.issuer, l.line, l.network,
                       intent.units, intent.scale),
           plan.view \in {"required", "not_required"}
    PROVE  PlanFits(intent, plan, l)
  <1> DEFINE old == l.line
             units == intent.units
             scale == intent.scale
             target == TargetLimit(intent.purpose, old, units, scale)
             line == IF plan.view = "required" THEN AfterTrustSet(old, plan.limit, scale) ELSE old
             increment == IF old = None THEN l.network.reserveIncrement ELSE 0
  <1>1. /\ units \in Nat \ {0} /\ scale \in 0..MaxDigits /\ scale \in Nat
        /\ LegalLine(old) /\ LegalAccount(l.account) /\ LegalNetwork(l.network)
    BY DEF LegalIntent, LegalPreparation
  <1>2. /\ l.account # None /\ IssuerVerdict(l.issuer) = Ready
        /\ LineVerdict(l.issuer, old).reason \notin {"trust_line_frozen", "trust_line_not_authorized"}
        /\ old # None => FitsPrecision(old.balance, scale) /\ FitsPrecision(old.limit, scale)
        /\ plan.limit = target
        /\ plan.view = "not_required" => old # None /\ LimitOf(old, scale) >= target
        /\ plan.view = "required" => CanAffordTrustSet(l.account, old, l.network)
    BY PlanLookedAt
  <1>3. old = None \/ LineVerdict(l.issuer, old) = Ready
    BY <1>2, LineReasons
  <1>4. l.issuer # None
    BY <1>2, IssuerIsTrue
  <1>5. /\ target \in Nat /\ target >= units
        /\ old # None => /\ ToUnits(old.balance, scale) \in Int /\ ToUnits(old.limit, scale) \in Int
                         /\ intent.purpose = "recipient"
                                => target - ToUnits(old.balance, scale) >= units
    BY <1>1, <1>2, TargetsSuffice
  <1>6. plan.view = "required" =>
            l.account.balance >= Reserve(l.account, l.network) + (increment + l.network.base)
    <2> SUFFICES ASSUME plan.view = "required"
                 PROVE  l.account.balance >= Reserve(l.account, l.network)
                                                + (increment + l.network.base)
      OBVIOUS
    <2>1. l.account.balance >= Reserve(l.account, l.network) + increment + EstimatedFee(l.network)
      BY <1>2 DEF CanAffordTrustSet
    <2>2. /\ EstimatedFee(l.network) \in Nat /\ EstimatedFee(l.network) >= l.network.base
          /\ l.network.base \in Nat /\ increment \in Nat
      BY <1>1, FeesAreCautious DEF LegalNetwork
    <2>3. Reserve(l.account, l.network) \in Nat /\ l.account.balance \in Nat
      BY <1>1, <1>2, ReservesAreNumbers
    <2> HIDE DEF increment
    <2> QED  BY <2>1, <2>2, <2>3
  <1>7. ASSUME old # None \/ ~l.issuer.requireAuthorization
        PROVE  /\ LineCarries(l.issuer, line)
               /\ TrustLineVerdict(l.issuer, line, plan.limit, scale) = "ready"
               /\ intent.purpose = "recipient" => RecipientLineVerdict(intent, l.issuer, line) = Ready
               /\ Exceeds(line.limit, Zero, units, scale)
    <2>1. /\ LegalLine(line) /\ line # None /\ LineVerdict(l.issuer, line) = Ready
          /\ FitsPrecision(line.limit, scale) /\ FitsPrecision(line.balance, scale)
          /\ ToUnits(line.limit, scale) >= target
          /\ old # None => line.balance = old.balance
          /\ old = None => line.balance = Zero
      <3>1. CASE plan.view = "not_required"
        <4>1. line = old /\ old # None /\ LimitOf(old, scale) = ToUnits(old.limit, scale)
          BY <1>2, <3>1 DEF LimitOf
        <4> HIDE DEF line, old, target, scale
        <4> QED  BY <1>1, <1>2, <1>3, <3>1, <4>1
      <3>2. CASE plan.view = "required"
        <4> DEFINE new == AfterTrustSet(old, target, scale)
        <4>1. line = new
          BY <1>2, <3>2
        <4>2. /\ new.limit = [coefficient |-> target, fraction |-> scale]
              /\ new.balance = IF old = None THEN Zero ELSE old.balance
              /\ new.freeze <=> old # None /\ old.freeze
              /\ new.freezePeer <=> old # None /\ old.freezePeer
              /\ new.deepFreeze <=> old # None /\ old.deepFreeze
              /\ new.deepFreezePeer <=> old # None /\ old.deepFreezePeer
              /\ new.peerAuthorized <=> old # None /\ old.peerAuthorized
          BY DEF AfterTrustSet
        <4>3. new # None
          BY DEF PlannedLine
        <4>4. LegalDecimal(new.limit) /\ new.limit.coefficient >= 0
              /\ new.limit.coefficient = target /\ new.limit.fraction = scale
          BY <1>1, <1>5, <4>2 DEF LegalDecimal
        <4>5. LegalDecimal(new.balance) /\ FitsPrecision(new.balance, scale)
          <5>1. CASE old = None
            BY <1>1, <4>2, <5>1, ZeroIsLegal DEF FitsPrecision
          <5>2. CASE old # None
            BY <1>1, <1>2, <4>2, <5>2 DEF LegalLine
          <5> QED  BY <5>1, <5>2
        <4>6. FitsPrecision(new.limit, scale) /\ ToUnits(new.limit, scale) = target
          <5>1. new.limit.fraction <= scale /\ scale - scale = 0
            BY <1>1, <4>4
          <5>2. ToUnits(new.limit, scale) = target * 10^0
            BY <4>4, <5>1 DEF ToUnits, Align
          <5>3. ToUnits(new.limit, scale) = target
            BY <1>5, <5>2, PowersOfTen
          <5> QED  BY <5>1, <5>3 DEF FitsPrecision
        <4>7. LineVerdict(l.issuer, new) = Ready
          <5>1. ~Frozen(new)
            BY <1>3, <4>2, LineIsTrue, Zenon DEF Frozen
          <5>2. ~(l.issuer.requireAuthorization /\ ~new.peerAuthorized)
            BY <1>3, <1>7, <4>2, LineIsTrue, Zenon
          <5> QED  BY <4>3, <5>1, <5>2, LineIsTrue
        <4> HIDE DEF new, target
        <4> QED  BY <1>5, <4>1, <4>2, <4>3, <4>4, <4>5, <4>6, <4>7 DEF LegalLine
      <3> QED  BY <3>1, <3>2
    <2> HIDE DEF line
    <2> DEFINE x == ToUnits(line.limit, scale)
               y == ToUnits(line.balance, scale)
    <2>2. LegalDecimal(line.limit) /\ LegalDecimal(line.balance)
      BY <2>1 DEF LegalLine
    <2>3. /\ x \in Int /\ x * 10^line.limit.fraction = line.limit.coefficient * 10^scale
          /\ y \in Int /\ y * 10^line.balance.fraction = line.balance.coefficient * 10^scale
      BY <1>1, <2>1, <2>2, UnitsAreExact
    <2>4. x >= target
      BY <2>1
    <2>5. LineCarries(l.issuer, line)
      BY <2>1, LineIsTrue
    <2>6. TrustLineVerdict(l.issuer, line, plan.limit, scale) = "ready"
      <3>1. ~(x < plan.limit)
        <4> HIDE DEF x, target
        <4> QED  BY <1>2, <1>5, <2>3, <2>4
      <3> QED  BY <1>2, <2>1, <3>1, Zenon DEF TrustLineVerdict
    <2>7. intent.purpose = "recipient" => RecipientLineVerdict(intent, l.issuer, line) = Ready
      <3> SUFFICES ASSUME intent.purpose = "recipient"
                   PROVE  RecipientLineVerdict(intent, l.issuer, line) = Ready
        OBVIOUS
      <3>1. target - y >= units
        <4>1. CASE old # None
          BY <1>5, <2>1, <4>1
        <4>2. CASE old = None
          <5>1. y = 0
            <6>1. ToUnits(Zero, scale) = 0 * 10^(scale - 0)
              BY <1>1, ZeroIsLegal DEF ToUnits, Align
            <6>2. scale - 0 = scale /\ 10^scale \in Nat
              BY <1>1, PowerIsPositive
            <6> QED  BY <2>1, <4>2, <6>1, <6>2
          <5> HIDE DEF y, target
          <5> QED  BY <1>1, <1>5, <5>1
        <4> QED  BY <4>1, <4>2
      <3>2. x - y >= units
        <4> HIDE DEF x, y, target
        <4> QED  BY <1>1, <1>5, <2>3, <2>4, <3>1
      <3>3. Exceeds(line.limit, line.balance, units, scale)
        <4> HIDE DEF x, y
        <4> QED  BY <1>1, <2>2, <2>3, <3>2, UnitsCompare
      <3> QED  BY <2>1, <3>3, RecipientLineIsTrue
    <2>8. Exceeds(line.limit, Zero, units, scale)
      <3>1. 0 * 10^Zero.fraction = Zero.coefficient * 10^scale
        BY <1>1, PowerIsPositive, ZeroIsLegal, PowersOfTen
      <3>2. x - 0 >= units
        <4> HIDE DEF x, target
        <4> QED  BY <1>1, <1>5, <2>3, <2>4
      <3> HIDE DEF x
      <3> QED  BY <1>1, <2>2, <2>3, <3>1, <3>2, ZeroIsLegal, UnitsCompare
    <2> QED  BY <2>5, <2>6, <2>7, <2>8
  <1>8. \/ old = None /\ l.issuer.requireAuthorization
        \/ /\ LineCarries(l.issuer, line)
           /\ TrustLineVerdict(l.issuer, line, plan.limit, scale) = "ready"
           /\ intent.purpose = "recipient" => RecipientLineVerdict(intent, l.issuer, line) = Ready
           /\ Exceeds(line.limit, Zero, units, scale)
    BY <1>7
  <1> QED  BY <1>2, <1>4, <1>6, <1>8, Zenon DEF PlanFits

\* A plan depends on what is used of the network.
LEMMA SamePlans ==
    ASSUME NEW purpose, NEW account, NEW issuer, NEW line, NEW n, NEW m, NEW units, NEW scale,
           SameNetwork(n, m)
    PROVE  Plan(purpose, account, issuer, line, n, units, scale)
               = Plan(purpose, account, issuer, line, m, units, scale)
  <1>1. CanAffordTrustSet(account, line, n) = CanAffordTrustSet(account, line, m)
    BY SameNetworks
  <1> QED  BY <1>1, Zenon DEF Plan

\* What was read for a preparation, as a ledger, agrees with what was read.
LEMMA PreparationReadAgrees ==
    ASSUME DecisionsTyped, FactsAreTrue, kind = "prepare", \A r \in Reads(kind) : Seen(r)
    PROVE  /\ LegalPreparation(PreparationAsRead)
           /\ PlannedLine(Intent, PreparationAsRead) # None
           /\ Agrees(PreparationAsRead, "payerIssuer")
  <1> DEFINE p == PreparationAsRead
  <1>1. Reads(kind) = {"account", "reserves", "fees", "issuer", "line"}
    BY DEF Reads
  <1>2. \A s \in 1..2 : LegalPreparation(case.ledgers[s])
                       /\ PlannedLine(Intent, case.ledgers[s]) # None
    BY FactCases DEF LegalFacts
  <1>3. \A r \in Reads(kind) : /\ Past(r) = Ledger(r)
                               /\ \E s \in 1..2 : Past(r) = case.ledgers[s]
    BY PastIsLegal
  <1>4. \A r \in Reads(kind) : LegalPreparation(Past(r)) /\ PlannedLine(Intent, Past(r)) # None
    BY <1>2, <1>3
  <1>5. /\ p.account = Past("account").account /\ p.network = NetworkAsRead
        /\ p.issuer = Past("issuer").issuer /\ p.line = Past("line").line
    BY DEF PreparationAsRead
  <1> HIDE DEF p
  <1>6. LegalNetwork(NetworkAsRead)
    BY <1>1, <1>4, NetworkFields DEF NetworkAsRead, LegalPreparation
  <1>7. LegalPreparation(p)
    BY <1>1, <1>4, <1>5, <1>6 DEF LegalPreparation
  <1>8. PlannedLine(Intent, p) = PlannedLine(Intent, Past("line"))
    BY <1>5, Zenon DEF PlannedLine
  <1>9. ASSUME NEW r \in Reads(kind)
        PROVE  Shown(r, p) = Shown(r, Ledger(r))
    <2>1. Past(r) = Ledger(r)
      BY <1>3
    <2>2. CASE r = "reserves"
      <3>1. /\ p.network.base = Ledger(r).network.base
            /\ p.network.reserveBase = Ledger(r).network.reserveBase
            /\ p.network.reserveIncrement = Ledger(r).network.reserveIncrement
        BY <1>5, <2>1, <2>2, NetworkFields DEF NetworkAsRead
      <3> QED  BY <2>2, <3>1, SameNetworkShown, Zenon
    <2>5. CASE r = "fees"
      <3>1. /\ p.network.minimum = Ledger(r).network.minimum
            /\ p.network.openLedger = Ledger(r).network.openLedger
        BY <1>5, <2>1, <2>5, NetworkFields DEF NetworkAsRead
      <3> QED  BY <2>5, <3>1, SameNetworkShown, Zenon
    <2>3. CASE r \in {"account", "issuer", "line"}
      <3>1. p.account = Past("account").account /\ p.issuer = Past("issuer").issuer
            /\ p.line = Past("line").line
        BY <1>5
      <3>2. CASE r = "account"
        BY <2>1, <3>1, <3>2, ShownIs, Zenon
      <3>3. CASE r = "issuer"
        BY <2>1, <3>1, <3>3, ShownIs, Zenon
      <3>4. CASE r = "line"
        BY <2>1, <3>1, <3>4, ShownIs, Zenon
      <3> QED  BY <2>3, <3>2, <3>3, <3>4
    <2> QED  BY <1>1, <2>2, <2>3, <2>5
  <1> QED  BY <1>1, <1>4, <1>7, <1>8, <1>9 DEF Agrees, p

LEMMA PlanAnswers ==
    ASSUME DecisionsTyped, FactsAreTrue, DecidePlan
    PROVE  ReadinessIsTrue' /\ PlanIsEnough'
  <1>1. kind = "prepare" /\ kind' = kind /\ UNCHANGED <<case, read>> /\ now' = now
    BY DEF DecidePlan
  <1>2. SUFFICES ASSUME answer'.view \in {"required", "not_required"}
                 PROVE  /\ PlanFits(Intent, answer', PreparationAsRead)
                        /\ Torn \/ \E s \in 1..now : PlanFits(Intent, answer', case.ledgers[s])
    <2>1. /\ Torn' <=> Torn
          /\ PreparationAsRead' = PreparationAsRead /\ Intent' = Intent
      BY <1>1, StaysAsRead
    <2> QED  BY <1>1, <2>1 DEF ReadinessIsTrue, PlanIsEnough, Answered
  <1>3. /\ \A r \in DOMAIN read : Seen(r)
        /\ answer' = Plan(Intent.purpose, Ledger("account").account, Ledger("issuer").issuer,
                         Ledger("line").line, Network, Intent.units, Intent.scale)
    <2>1. ~(answer' = Planned("unavailable", 0))
      BY <1>2, PlannedIs
    <2> QED  BY <2>1 DEF DecidePlan
  <1>4. Reads(kind) = {"account", "reserves", "fees", "issuer", "line"} /\ DOMAIN read = Reads(kind)
    BY <1>1 DEF Reads, DecisionsTyped
  <1>5. /\ LegalIntent(Intent) /\ now \in 1..2
        /\ \A s \in 1..2 : LegalPreparation(case.ledgers[s])
                          /\ PlannedLine(Intent, case.ledgers[s]) # None
    BY <1>1, FactCases DEF LegalFacts
  <1>6. ASSUME NEW l, LegalPreparation(l), PlannedLine(Intent, l) # None, Agrees(l, "payerIssuer")
        PROVE  PlanFits(Intent, answer', l)
    <2> DEFINE plan == answer'
    <2>1. \A r \in Reads(kind) : Shown(r, l) = Shown(r, Ledger(r))
      BY <1>3, <1>4, <1>6 DEF Agrees
    <2>2. /\ l.account = Ledger("account").account /\ l.issuer = Ledger("issuer").issuer
          /\ l.line = Ledger("line").line
      BY <1>4, <2>1, ShownIs
    <2>3. /\ l.network.base = Ledger("reserves").network.base
          /\ l.network.reserveBase = Ledger("reserves").network.reserveBase
          /\ l.network.reserveIncrement = Ledger("reserves").network.reserveIncrement
          /\ l.network.minimum = Ledger("fees").network.minimum
          /\ l.network.openLedger = Ledger("fees").network.openLedger
      <3>1. /\ Shown("reserves", l) = Shown("reserves", Ledger("reserves"))
            /\ Shown("fees", l) = Shown("fees", Ledger("fees"))
        BY <1>4, <2>1
      <3> QED  BY <3>1, SameNetworkShown, Zenon
    <2>4. SameNetwork(l.network, Network)
      BY <2>3, NetworkFields DEF SameNetwork, Network
    <2>5. /\ plan.view \in {"required", "not_required"}
          /\ plan = Plan(Intent.purpose, l.account, l.issuer, l.line, l.network,
                         Intent.units, Intent.scale)
      <3>1. Plan(Intent.purpose, l.account, l.issuer, l.line, l.network, Intent.units, Intent.scale)
               = Plan(Intent.purpose, l.account, l.issuer, l.line, Network, Intent.units, Intent.scale)
        BY <2>4, SamePlans
      <3> QED  BY <1>2, <1>3, <2>2, <3>1
    <2> HIDE DEF plan
    <2>6. PlanFits(Intent, plan, l)
      BY <1>5, <1>6, <2>5, PlansFit
    <2> QED  BY <2>6 DEF plan
  <1>7. PlanFits(Intent, answer', PreparationAsRead)
    BY <1>1, <1>3, <1>4, <1>6, PreparationReadAgrees
  <1>8. ASSUME ~Torn
        PROVE  \E s \in 1..now : PlanFits(Intent, answer', case.ledgers[s])
    <2>1. PICK s \in 1..now : Agrees(case.ledgers[s], "payerIssuer")
      BY <1>1, <1>8, UntornAgrees
    <2> QED  BY <1>5, <1>6, <2>1
  <1> QED  BY <1>7, <1>8

-----------------------------------------------------------------------------
(* The theorems.                                                           *)

\* While there is no answer, nothing is promised.
LEMMA NothingPromised ==
    ASSUME answer' = None
    PROVE  ReadinessIsTrue' /\ PlanIsEnough'
  BY DEF ReadinessIsTrue, PlanIsEnough, Answered

\* An answer stays true while the ledger closes and the endpoints follow it.
LEMMA AnswersStayTrue ==
    ASSUME DecisionsTyped, ReadinessInv, Advance \/ UNCHANGED vars
    PROVE  ReadinessInv'
  <1>1. /\ kind' = kind /\ case' = case /\ read' = read /\ answer' = answer
        /\ now' \in {now, 2} /\ now \in 1..2
    BY DEF Advance, Close, Follow, vars, DecisionsTyped
  <1>2. \A k \in 1..now : k \in 1..now'
    BY <1>1
  <1>3. FactsAreTrue'
    BY <1>1, <1>2 DEF ReadinessInv, FactsAreTrue
  <1>4. ReadinessIsTrue'
    <2>1. ASSUME kind = "readiness", Answered("READY")
          PROVE  /\ \E role \in Roles : AtReferenceFee(PaymentAsRead(role))'
                 /\ Torn' \/ \E s \in 1..now' : AtReferenceFee(case.ledgers[s])'
      BY <1>1, <1>2, <2>1, StaysAsRead DEF ReadinessInv, ReadinessIsTrue
    <2>2. ASSUME kind = "readiness", Answered("PAYMENT_READINESS_BLOCKED")
          PROVE  /\ \E role \in Roles : Refused(PaymentAsRead(role))'
                 /\ Torn' \/ \E s \in 1..now' : Refused(case.ledgers[s])'
      BY <1>1, <1>2, <2>2, StaysAsRead DEF ReadinessInv, ReadinessIsTrue
    <2>3. ASSUME kind = "accept", Answered("ACCOUNTS_READY")
          PROVE  \E s, t \in 1..now' :
                    /\ PaymentSucceeds(Intent, case.ledgers[s], FeeHeadroom(case.ledgers[t].network))
                    /\ RecipientLineVerdict([units |-> BillTotal(Intent), scale |-> Intent.scale],
                                            case.ledgers[s].issuer,
                                            case.ledgers[s].recipientLine) = Ready
      BY <1>2, <2>3 DEF ReadinessInv, ReadinessIsTrue
    <2>4. \A view : Answered(view)' <=> Answered(view)
      BY <1>1 DEF Answered
    <2> QED  BY <1>1, <2>1, <2>2, <2>3, <2>4 DEF ReadinessIsTrue, Intent
  <1>5. PlanIsEnough'
    <2>1. ASSUME kind = "prepare", Answered("required") \/ Answered("not_required")
          PROVE  /\ PlanFits(Intent, answer, PreparationAsRead)
                 /\ Torn \/ \E s \in 1..now' : PlanFits(Intent, answer, case.ledgers[s])
      BY <1>2, <2>1 DEF ReadinessInv, PlanIsEnough
    <2> QED  BY <1>1, <2>1, StaysAsRead DEF PlanIsEnough, Answered
  <1> QED  BY <1>3, <1>4, <1>5 DEF ReadinessInv

LEMMA ReadinessStep ==
    ASSUME DecisionsTyped, ReadinessInv, [Next]_vars
    PROVE  ReadinessInv'
  <1>1. FactsAreTrue
    BY DEF ReadinessInv
  <1>2. ASSUME ReadProvider \/ ReadTransaction \/ ReadHistoryPage
        PROVE  ReadinessInv'
    <2>1. kind \in {"verify", "replace"} /\ kind' = kind /\ answer' = None
      BY <1>2, ReadsOfRequests DEF ReadProvider, ReadTransaction, ReadHistoryPage, Reading
    <2> QED  BY <2>1, NoFacts, NothingPromised DEF ReadinessInv
  <1>3. ASSUME ReadServerState PROVE ReadinessInv'
    <2>1. answer' = None
      BY <1>3 DEF ReadServerState, Reading
    <2> QED  BY <1>3, <2>1, SnapshotOpens, NothingPromised DEF ReadinessInv
  <1>4. ASSUME NEW r \in DOMAIN read,
               ReadFact(r) \/ ReadOfSnapshot(r) \/ EndpointFails(r) \/ EndpointRefuses(r)
                   \/ SnapshotFails(r)
        PROVE  ReadinessInv'
    <2>1. answer' = None
      BY <1>4 DEF ReadFact, ReadOfSnapshot, EndpointFails, EndpointRefuses, SnapshotFails, Reading
    <2>2. FactsAreTrue'
      BY <1>1, <1>4, FactRead, SnapshotFills, FailedFacts, SnapshotBegins
    <2> QED  BY <2>1, <2>2, NothingPromised DEF ReadinessInv
  <1>5. ASSUME NEW role \in Roles, Continue(role)
        PROVE  ReadinessInv'
    <2>1. answer' = None
      BY <1>5 DEF Continue
    <2> QED  BY <1>1, <1>5, <2>1, NextFactOfRole, NothingPromised DEF ReadinessInv
  <1>6. ASSUME DecideReadiness \/ DecidePlan \/ DecideAccounts
        PROVE  ReadinessInv'
    <2>1. FactsAreTrue'
      BY <1>1, <1>6 DEF DecideReadiness, DecidePlan, DecideAccounts, FactsAreTrue
    <2> QED  BY <1>1, <1>6, <2>1, ReadinessAnswers, PlanAnswers, AcceptanceAnswers
             DEF ReadinessInv
  <1>7. ASSUME DecideVerify \/ DecideReplace \/ Recheck
        PROVE  ReadinessInv'
    <2>1. kind' \in {"verify", "replace"}
      BY <1>7 DEF DecideVerify, DecideReplace, Recheck
    <2> QED  BY <2>1, NoFacts DEF ReadinessInv, ReadinessIsTrue, PlanIsEnough
  <1>8. ASSUME Advance \/ UNCHANGED vars
        PROVE  ReadinessInv'
    BY <1>8, AnswersStayTrue
  <1> QED  BY <1>2, <1>3, <1>4, <1>5, <1>6, <1>7, <1>8 DEF Next, Serve

\* Every account fact was the ledger's when it was read, and what is answered from them is
\* true: the inductive invariant of the readiness reads, on top of DecisionsInv.
THEOREM ReadinessIsInvariant == Spec => []ReadinessInv
  <1>1. Init => ReadinessInv
    <2> SUFFICES ASSUME Init PROVE ReadinessInv
      OBVIOUS
    <2>1. answer = None
      BY DEF Init
    <2> QED  BY <2>1, FirstFactsAreTrue DEF ReadinessInv, ReadinessIsTrue, PlanIsEnough, Answered
  <1>2. DecisionsInv => DecisionsTyped
    BY DEF DecisionsInv
  <1>3. DecisionsTyped /\ ReadinessInv /\ [Next]_vars => ReadinessInv'
    BY ReadinessStep
  <1> QED  BY <1>1, <1>2, <1>3, DecisionsAreInvariant, PTL DEF Spec

\* requirePaymentReadiness lets a payment be prepared only if it would succeed with what was
\* read, and blocks one only for what was read or for caution, whichever facts the ledger
\* changes together between the reads; unless two of those were read on both sides of the
\* change, a ledger that was says the same. What evaluateMainnetRlusdAccountReadiness calls
\* ready carries both parts of the Bill with its fees. Whatever amounts, balances, limits
\* and precisions, while the ledger moves on.
THEOREM ReadinessAnswersAreTrue == Spec => []ReadinessIsTrue
  <1>1. ReadinessInv => ReadinessIsTrue
    BY DEF ReadinessInv
  <1> QED  BY <1>1, ReadinessIsInvariant, PTL

\* planRlusdTrustSetPreparation asks for a limit that is enough for what was read and, unless
\* that is torn, for a ledger that was: the line it leads to is confirmed as ready, carries
\* the amount and passes the recipient's readiness check.
THEOREM PlansAreEnough == Spec => []PlanIsEnough
  <1>1. ReadinessInv => PlanIsEnough
    BY DEF ReadinessInv
  <1> QED  BY <1>1, ReadinessIsInvariant, PTL

=============================================================================
