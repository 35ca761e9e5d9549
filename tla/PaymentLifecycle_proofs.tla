----------------------- MODULE PaymentLifecycle_proofs -----------------------
(***************************************************************************)
(* Theorems of PaymentLifecycle for any sets of slots, requests and        *)
(* workers: types, what the handlers remember, and the rows of the         *)
(* requests.                                                               *)
(***************************************************************************)
EXTENDS PaymentLifecycle, FiniteSetTheorems, TLAPS

\* The account Sequence is a number: there are finitely many requests.
LEMMA SequenceIsNat == \A s : Sequence(s) \in Nat
<1>1. TAKE s
<1> DEFINE applied == {q \in Requests : owner[q] = s /\ ledger[q] \in Validated}
<1>2. IsFiniteSet(applied)
  BY ConstantsOK, FS_Subset
<1> QED
  BY <1>2, FS_CardinalityType DEF Sequence

\* Type correctness of the initial state.
LEMMA TypeInit == Init => TypeOK
<1> SUFFICES ASSUME Init PROVE TypeOK
  OBVIOUS
<1> QED
  BY ConstantsOK DEF Init, TypeOK, Idle, SlotStatuses, BillStatuses, RequestStatuses,
     ActiveStatuses, Unsigned, PayloadStates, LedgerStates, Validated, Steps

(***************************************************************************)
(* Type correctness. The audit trail names slots, so a handler must know   *)
(* the slot it works for: the two invariants are proved together.          *)
(***************************************************************************)
WorkRecord ==
    [step : Steps, slot : Slots \cup {None}, request : Requests \cup {None},
     saw : SlotStatuses \cup RequestStatuses \cup {"nothing"},
     sawBill : BillStatuses \cup {"closed_incomplete", "nothing"}]

SlotRecord == [status : SlotStatuses, paidBy : Requests \cup {None}]
BillRecord == [status : BillStatuses, closure : {"active", "closed_incomplete"}]

LEMMA IdleIsWork == Idle \in WorkRecord
  BY DEF Idle, WorkRecord, Steps

\* Whatever a handler remembers next, the memory of the others is kept.
LEMMA WorkUpdate ==
  ASSUME TypeOK, NEW w \in Workers, NEW memory \in WorkRecord,
         work' = [work EXCEPT ![w] = memory]
  PROVE  work' \in [Workers -> WorkRecord]
  BY DEF TypeOK, WorkRecord

\* A handler that keeps the rest of its memory.
LEMMA Remembers ==
  ASSUME TypeOK, NEW w \in Workers, NEW step \in Steps, NEW q \in Requests
  PROVE  [work[w] EXCEPT !.step = step, !.request = q] \in WorkRecord
<1> DEFINE memory == [work[w] EXCEPT !.step = step]
<1>1. memory \in WorkRecord
  <2>1. work[w] \in WorkRecord
    BY DEF TypeOK, WorkRecord
  <2>2. \A m \in WorkRecord : [m EXCEPT !.step = step] \in WorkRecord
    BY DEF WorkRecord
  <2> QED
    BY <2>1, <2>2
<1>2. [memory EXCEPT !.request = q] \in WorkRecord
  <2> HIDE DEF memory
  <2> QED
    BY <1>1 DEF WorkRecord
<1> QED
  BY <1>2

\* A row status maps to a slot status.
LEMMA HandoffStatusType ==
  \A status \in RequestStatuses : SlotStatusForHandoff(status) \in SlotStatuses
  BY DEF SlotStatusForHandoff, RequestStatuses, ActiveStatuses, Unsigned, SlotStatuses

LEMMA ObservationType ==
  ASSUME TypeOK, NEW q \in Requests, payload[q] # "none"
  PROVE  Observation(q) \in RequestStatuses
  BY DEF TypeOK, Observation, RequestStatuses, ActiveStatuses, Unsigned, PayloadStates

LEMMA BillTypes ==
  ASSUME TypeOK, NEW slots
  PROVE  /\ RecomputeBill(slots) \in BillRecord
         /\ RecomputeBillStatus(slots) \in BillRecord
         /\ BillToReview \in BillRecord
         /\ EffectiveBillStatus \in BillStatuses \cup {"closed_incomplete"}
<1>1. PaidShare(slots) \in BillStatuses
  BY DEF PaidShare, BillStatuses
<1> QED
  BY <1>1 DEF TypeOK, BillRecord, RecomputeBill, RecomputeBillStatus, BillToReview,
     EffectiveBillStatus, BillStatuses

LEMMA SlotFollowsType ==
  ASSUME TypeOK, NEW s, NEW status \in RequestStatuses
  PROVE  SlotFollows(s, status) \in [Slots -> SlotRecord]
<1>1. SlotStatusForHandoff(status) \in SlotStatuses
  BY HandoffStatusType
<1> DEFINE handed == SlotStatusForHandoff(status)
<1> HIDE DEF handed
<1>2. [slot EXCEPT ![s].status = handed] \in [Slots -> SlotRecord]
  <2>1. \A r \in Slots : [slot[r] EXCEPT !.status = handed] \in SlotRecord
    BY <1>1 DEF TypeOK, SlotRecord, handed
  <2>2. slot \in [Slots -> SlotRecord]
    BY DEF TypeOK, SlotRecord
  <2> QED
    BY <2>1, <2>2
<1> QED
  BY <1>2 DEF TypeOK, SlotFollows, SlotRecord, handed

\* The types in one step, variable by variable.
LEMMA TypeStep == TypeOK /\ HandlersAreSound /\ [Next]_vars => TypeOK'
<1> SUFFICES ASSUME TypeOK, HandlersAreSound, [Next]_vars PROVE TypeOK'
  OBVIOUS
<1> DEFINE DbType == /\ slot' \in [Slots -> SlotRecord]
                     /\ bill' \in BillRecord
                     /\ row' \in [Requests -> RequestStatuses \cup {"absent"}]
                     /\ receipts' \subseteq Requests
                     /\ audit' \subseteq {"multiple_validated_matches", "retry_authorized"} \X Slots
           WorldType == /\ owner' \in [Requests -> Slots \cup {None}]
                        /\ payload' \in [Requests -> PayloadStates]
                        /\ elapsed' \subseteq Requests
                        /\ ledger' \in [Requests -> LedgerStates]
                        /\ pin' \in [Requests -> Nat]
           WorkType == work' \in [Workers -> WorkRecord]
<1>a. DbType /\ WorldType /\ WorkType => TypeOK'
  BY DEF TypeOK, WorkRecord, SlotRecord, BillRecord
<1>b. UNCHANGED db => DbType
  BY DEF TypeOK, db, SlotRecord, BillRecord
<1>c. UNCHANGED world => WorldType
  BY DEF TypeOK, world
<1>d. ASSUME NEW w \in Workers, Return(w) PROVE WorkType
  BY <1>d, IdleIsWork, WorkUpdate DEF Return
<1>e. ASSUME NEW w \in Workers, NEW step \in Steps, Go(w, step) PROVE WorkType
  <2>1. [work[w] EXCEPT !.step = step] \in WorkRecord
    BY DEF TypeOK, WorkRecord
  <2> QED
    BY <1>e, <2>1, WorkUpdate DEF Go
<1>f. ASSUME NEW w \in Workers, ProceedIfPayable(w) PROVE WorkType
  <2>1. [Idle EXCEPT !.step = "payable", !.slot = work[w].slot] \in WorkRecord
    BY DEF TypeOK, WorkRecord, Idle, Steps
  <2> QED
    BY <1>f, <2>1, IdleIsWork, WorkUpdate DEF ProceedIfPayable
<1>g. ASSUME NEW s \in Slots, NEW status \in SlotStatuses
      PROVE  [slot EXCEPT ![s].status = status] \in [Slots -> SlotRecord]
  BY DEF TypeOK, SlotRecord
<1>h. ASSUME NEW s \in Slots PROVE SlotToReview(s) \in [Slots -> SlotRecord]
  <2>1. [slot EXCEPT ![s].status = "needs_review"] \in [Slots -> SlotRecord]
    BY <1>g DEF SlotStatuses
  <2> QED
    BY <2>1 DEF SlotToReview, TypeOK, SlotRecord
<1>i. \A w \in Workers : ~At(w, "idle") /\ ~At(w, "close") => work[w].slot \in Slots
  BY DEF HandlersAreSound, IsTrueMemory, At
<1>1. ASSUME NEW w \in Workers, NEW s \in Slots, BeginCreate(w, s) PROVE TypeOK'
  <2>1. [Idle EXCEPT !.step = "details", !.slot = s] \in WorkRecord
    BY DEF WorkRecord, Idle, Steps
  <2>2. WorkType
    BY <1>1, <2>1, WorkUpdate DEF BeginCreate
  <2> QED
    BY <1>1, <2>2, <1>a, <1>b, <1>c DEF BeginCreate
<1>2. ASSUME NEW w \in Workers, LoadSlot(w) PROVE TypeOK'
  <2> DEFINE read == [work[w] EXCEPT !.step = "slot", !.saw = slot[work[w].slot].status,
                                     !.sawBill = EffectiveBillStatus]
  <2>1. slot[work[w].slot].status \in SlotStatuses
    BY <1>2, <1>i DEF LoadSlot, At, TypeOK
  <2>2. read \in WorkRecord
    <3>1. work[w] \in WorkRecord /\ "slot" \in Steps
      BY DEF TypeOK, WorkRecord, Steps
    <3>2. EffectiveBillStatus \in BillStatuses \cup {"closed_incomplete", "nothing"}
      BY BillTypes
    <3> QED
      BY <2>1, <3>1, <3>2 DEF WorkRecord
  <2>3. WorkType
    BY <1>2, <2>2, WorkUpdate DEF LoadSlot
  <2> QED
    BY <1>2, <2>3, <1>a, <1>b, <1>c DEF LoadSlot
<1>3. ASSUME NEW w \in Workers, FindStale(w) PROVE TypeOK'
  <2>1. PICK q \in Requests :
          work' = [work EXCEPT ![w] = [work[w] EXCEPT !.step = "expire", !.request = q]]
    BY <1>3 DEF FindStale, StaleRequests, Active
  <2>2. [work[w] EXCEPT !.step = "expire", !.request = q] \in WorkRecord
    BY Remembers DEF Steps
  <2>3. WorkType
    BY <2>1, <2>2, WorkUpdate
  <2> QED
    BY <1>3, <2>3, <1>a, <1>b, <1>c DEF FindStale
<1>4. ASSUME NEW w \in Workers, ExpireActive(w) PROVE TypeOK'
  <2>1. row' \in [Requests -> RequestStatuses \cup {"absent"}]
    BY <1>4 DEF ExpireActive, TypeOK, RequestStatuses
  <2>2. "expired" \in RequestStatuses
    BY DEF RequestStatuses
  <2>3. slot' \in [Slots -> SlotRecord]
    BY <1>4, <2>2, SlotFollowsType DEF ExpireActive, TypeOK, SlotRecord
  <2>4. DbType
    BY <1>4, <2>1, <2>3 DEF ExpireActive, TypeOK, BillRecord
  <2> QED
    BY <1>4, <2>4, <1>a, <1>c, <1>f DEF ExpireActive
<1>5. ASSUME NEW w \in Workers, ResumeActive(w) PROVE TypeOK'
  BY <1>5, <1>a, <1>b, <1>c, <1>d DEF ResumeActive
<1>6. ASSUME NEW w \in Workers, ContinueCreate(w) PROVE TypeOK'
  BY <1>6, <1>a, <1>b, <1>c, <1>f DEF ContinueCreate
<1>7. ASSUME NEW w \in Workers, Reconcile(w) PROVE TypeOK'
  <2>1. \/ Go(w, "cleared") \/ Go(w, "multiple")
        \/ \E q \in Requests :
              work' = [work EXCEPT ![w] = [work[w] EXCEPT !.step = "settle", !.request = q]]
    BY <1>7 DEF Reconcile, Matching
  <2>2. \A q \in Requests : [work[w] EXCEPT !.step = "settle", !.request = q] \in WorkRecord
    BY Remembers DEF Steps
  <2>3. "cleared" \in Steps /\ "multiple" \in Steps
    BY DEF Steps
  <2>4. WorkType
    BY <2>1, <2>2, <2>3, <1>e, WorkUpdate
  <2> QED
    BY <1>7, <2>4, <1>a, <1>b, <1>c DEF Reconcile
<1>8. ASSUME NEW w \in Workers, CreateHandoff(w) PROVE TypeOK'
  <2>1. PICK q \in Requests :
          /\ owner' = [owner EXCEPT ![q] = work[w].slot]
          /\ payload' = [payload EXCEPT ![q] = "available"]
          /\ pin' = [pin EXCEPT ![q] = Sequence(work[w].slot)]
          /\ work' = [work EXCEPT ![w] = [work[w] EXCEPT !.step = "created", !.request = q]]
    BY <1>8 DEF CreateHandoff
  <2>2. [work[w] EXCEPT !.step = "created", !.request = q] \in WorkRecord
    BY Remembers DEF Steps
  <2>3. WorkType
    BY <2>1, <2>2, WorkUpdate
  <2>4. pin' \in [Requests -> Nat]
    BY <2>1, SequenceIsNat DEF TypeOK
  <2>5. owner' \in [Requests -> Slots \cup {None}]
    BY <1>8, <1>i, <2>1 DEF TypeOK, CreateHandoff, At
  <2>6. WorldType
    BY <1>8, <2>1, <2>4, <2>5 DEF TypeOK, CreateHandoff, PayloadStates
  <2> QED
    BY <1>8, <2>3, <2>6, <1>a, <1>b DEF CreateHandoff
<1>9. ASSUME NEW w \in Workers, PersistRequest(w) PROVE TypeOK'
  <2>1. row' \in [Requests -> RequestStatuses \cup {"absent"}]
    BY <1>9 DEF PersistRequest, TypeOK, RequestStatuses, ActiveStatuses, Unsigned
  <2>2. [slot EXCEPT ![work[w].slot].status = "awaiting_signature"] \in [Slots -> SlotRecord]
    BY <1>9, <1>g, <1>i DEF PersistRequest, At, SlotStatuses
  <2>3. slot' \in [Slots -> SlotRecord]
    BY <1>9, <2>2 DEF PersistRequest, TypeOK, SlotRecord
  <2>4. DbType
    BY <1>9, <2>1, <2>3 DEF PersistRequest, TypeOK, BillRecord
  <2> QED
    BY <1>9, <2>4, <1>a, <1>c, <1>d DEF PersistRequest
<1>10. ASSUME NEW w \in Workers, NEW s \in Slots, NEW q \in Requests, VerifyPayment(w, s, q)
       PROVE  TypeOK'
  <2>1. [Idle EXCEPT !.step = "settle", !.slot = s, !.request = q] \in WorkRecord
    BY DEF WorkRecord, Idle, Steps
  <2>2. [Idle EXCEPT !.step = "review", !.slot = s] \in WorkRecord
    BY DEF WorkRecord, Idle, Steps
  <2>3. \E memory \in WorkRecord : work' = [work EXCEPT ![w] = memory]
    BY <1>10, <2>1, <2>2 DEF VerifyPayment
  <2>4. WorkType
    BY <2>3, WorkUpdate
  <2> QED
    BY <1>10, <2>4, <1>a, <1>b, <1>c DEF VerifyPayment
<1>11. ASSUME NEW w \in Workers, Settle(w) PROVE TypeOK'
  <2> DEFINE s == work[w].slot  q == work[w].request
  <2>1. s \in Slots /\ q \in Requests
    BY <1>11 DEF Settle, At, HandlersAreSound, IsTrueMemory
  <2>2. receipts' \subseteq Requests
    BY <1>11, <2>1 DEF Settle, RecordReceipt, TypeOK
  <2>3. [status |-> "paid", paidBy |-> q] \in SlotRecord
    BY <2>1 DEF SlotRecord, SlotStatuses
  <2>4. slot' \in [Slots -> SlotRecord]
    BY <1>11, <2>1, <2>3 DEF Settle, MarkSlotPaid, TypeOK, SlotRecord
  <2>5. DbType
    BY <1>11, <2>2, <2>4, BillTypes DEF Settle, TypeOK
  <2> QED
    BY <1>11, <2>5, <1>a, <1>c, <1>d DEF Settle
<1>12. ASSUME NEW w \in Workers, MarkReview(w) PROVE TypeOK'
  <2>1. slot' \in [Slots -> SlotRecord]
    BY <1>12, <1>h, <1>i DEF MarkReview, At
  <2>2. DbType
    BY <1>12, <2>1, BillTypes DEF MarkReview, TypeOK
  <2> QED
    BY <1>12, <2>2, <1>a, <1>c, <1>d DEF MarkReview
<1>13. ASSUME NEW w \in Workers, MarkMultiple(w) PROVE TypeOK'
  <2>1. slot' \in [Slots -> SlotRecord] /\ work[w].slot \in Slots
    BY <1>13, <1>h, <1>i DEF MarkMultiple, At
  <2>2. DbType
    <3>1. <<"multiple_validated_matches", work[w].slot>>
             \in {"multiple_validated_matches", "retry_authorized"} \X Slots
      BY <2>1
    <3> QED
      BY <1>13, <2>1, <3>1, BillTypes DEF MarkMultiple, TypeOK
  <2> QED
    BY <1>13, <2>2, <1>a, <1>c, <1>d DEF MarkMultiple
<1>14. ASSUME NEW w \in Workers, NEW q \in Requests, FetchPayload(w, q) PROVE TypeOK'
  <2>1. Observation(q) \in RequestStatuses /\ owner[q] \in Slots \cup {None}
    BY <1>14, ObservationType DEF FetchPayload, HandlersAreSound, IsSoundRequest, TypeOK
  <2>2. [Idle EXCEPT !.step = "sync", !.slot = owner[q], !.request = q, !.saw = Observation(q)]
          \in WorkRecord
    BY <2>1 DEF WorkRecord, Idle, Steps
  <2>3. WorkType
    BY <1>14, <2>2, WorkUpdate DEF FetchPayload
  <2> QED
    BY <1>14, <2>3, <1>a, <1>b, <1>c DEF FetchPayload
<1>15. ASSUME NEW w \in Workers, ApplyObservation(w) PROVE TypeOK'
  <2>1. work[w].saw \in RequestStatuses
    BY <1>15 DEF ApplyObservation, At, HandlersAreSound, IsTrueMemory
  <2>2. row' \in [Requests -> RequestStatuses \cup {"absent"}]
    BY <1>15, <2>1 DEF ApplyObservation, TypeOK
  <2>3. slot' \in [Slots -> SlotRecord]
    BY <1>15, <2>1, SlotFollowsType DEF ApplyObservation, TypeOK, SlotRecord
  <2>4. DbType
    BY <1>15, <2>2, <2>3 DEF ApplyObservation, TypeOK, BillRecord
  <2> QED
    BY <1>15, <2>4, <1>a, <1>c, <1>d DEF ApplyObservation
<1>16. ASSUME NEW w \in Workers, NEW s \in Slots, LoadReview(w, s) PROVE TypeOK'
  <2>1. [Idle EXCEPT !.step = "authorize", !.slot = s] \in WorkRecord
    BY DEF WorkRecord, Idle, Steps
  <2>2. WorkType
    BY <1>16, <2>1, WorkUpdate DEF LoadReview
  <2> QED
    BY <1>16, <2>2, <1>a, <1>b, <1>c DEF LoadReview
<1>17. ASSUME NEW w \in Workers, AuthorizeRetry(w) PROVE TypeOK'
  <2>1. work[w].slot \in Slots
    BY <1>17, <1>i DEF AuthorizeRetry, At
  <2>2. slot' \in [Slots -> SlotRecord]
    BY <1>17, <2>1, <1>g DEF AuthorizeRetry, TypeOK, SlotRecord, SlotStatuses
  <2>3. DbType
    BY <1>17, <2>1, <2>2, BillTypes DEF AuthorizeRetry, TypeOK
  <2> QED
    BY <1>17, <2>3, <1>a, <1>c, <1>d DEF AuthorizeRetry
<1>18. ASSUME NEW w \in Workers, LoadClosure(w) PROVE TypeOK'
  <2>1. [Idle EXCEPT !.step = "close"] \in WorkRecord
    BY DEF WorkRecord, Idle, Steps
  <2>2. WorkType
    BY <1>18, <2>1, WorkUpdate DEF LoadClosure
  <2> QED
    BY <1>18, <2>2, <1>a, <1>b, <1>c DEF LoadClosure
<1>19. ASSUME NEW w \in Workers, CloseBill(w) PROVE TypeOK'
  <2>1. bill' \in BillRecord
    BY <1>19 DEF CloseBill, ClosedBill, TypeOK, BillRecord
  <2>2. DbType
    BY <1>19, <2>1 DEF CloseBill, TypeOK, SlotRecord
  <2> QED
    BY <1>19, <2>2, <1>a, <1>c, <1>d DEF CloseBill
<1>20. ASSUME NEW w \in Workers, Abandon(w) PROVE TypeOK'
  BY <1>20, <1>a, <1>b, <1>c, <1>d DEF Abandon
<1>21. ASSUME NEW q \in Requests, Surroundings(q) PROVE TypeOK'
  <2>1. DbType /\ WorkType
    BY <1>21, <1>b DEF Surroundings, Open, Sign, Resolve, Decline, Validate, Lapse, Elapse,
       TypeOK, WorkRecord
  <2>2. WorldType
    BY <1>21 DEF Surroundings, Open, Sign, Resolve, Decline, Validate, Lapse, Elapse, TypeOK,
       PayloadStates, LedgerStates, Validated
  <2> QED
    BY <2>1, <2>2, <1>a
<1>22. CASE UNCHANGED vars
  <2>1. WorkType
    BY <1>22 DEF vars, TypeOK, WorkRecord
  <2> QED
    BY <1>22, <2>1, <1>a, <1>b, <1>c DEF vars
<1> HIDE DEF DbType, WorldType, WorkType
<1> QED
  BY <1>1, <1>2, <1>3, <1>4, <1>5, <1>6, <1>7, <1>8, <1>9, <1>10, <1>11, <1>12, <1>13, <1>14,
     <1>15, <1>16, <1>17, <1>18, <1>19, <1>20, <1>21, <1>22
     DEF Next, HandlerStep, CreateStep, VerifyStep, SyncStep, OperatorStep

(***************************************************************************)
(* The memory of the handlers.                                             *)
(***************************************************************************)

\* No handler is running and no request exists in the initial state.
LEMMA SoundInit == Init => HandlersAreSound
  BY DEF Init, HandlersAreSound, IsTrueMemory, IsSoundRequest, At, Idle

\* A step of one handler that leaves the requests alone keeps the memory of the
\* others, so only its own new memory matters.
LEMMA OwnMemory ==
  ASSUME TypeOK, HandlersAreSound, NEW w \in Workers, NEW memory,
         work' = [work EXCEPT ![w] = memory],
         UNCHANGED <<row, owner, payload, elapsed, ledger>>,
         IsTrueMemory(memory), memory.step # "created"
  PROVE  HandlersAreSound'
<1>1. \A v \in Workers : work'[v] = IF v = w THEN memory ELSE work[v]
  BY DEF TypeOK
<1>2. \A v \in Workers : IsTrueMemory(work[v])'
  BY <1>1 DEF HandlersAreSound, IsTrueMemory, Mismatches
<1>3. \A q \in Requests : IsSoundRequest(q)'
  BY DEF HandlersAreSound, IsSoundRequest
<1>4. \A u, v \in Workers : u # v /\ At(u, "created")' /\ At(v, "created")' =>
        work'[u].request # work'[v].request
  BY <1>1 DEF HandlersAreSound, At
<1> QED
  BY <1>2, <1>3, <1>4 DEF HandlersAreSound

\* The same when some rows of stored requests change status.
LEMMA RowsChange ==
  ASSUME TypeOK, HandlersAreSound, NEW w \in Workers, NEW memory,
         work' = [work EXCEPT ![w] = memory],
         UNCHANGED <<owner, payload, elapsed, ledger>>,
         \A q \in Requests : row'[q] # row[q] => row[q] # "absent" /\ row'[q] # "absent",
         memory.step \in {"idle", "payable"}, memory.step = "payable" => memory.slot \in Slots
  PROVE  HandlersAreSound'
<1>1. \A v \in Workers : work'[v] = IF v = w THEN memory ELSE work[v]
  BY DEF TypeOK
<1>2. \A v \in Workers : IsTrueMemory(work[v])'
  BY <1>1 DEF HandlersAreSound, IsTrueMemory, Mismatches
<1>3. \A q \in Requests : IsSoundRequest(q)'
  BY DEF HandlersAreSound, IsSoundRequest
<1>4. \A u, v \in Workers : u # v /\ At(u, "created")' /\ At(v, "created")' =>
        work'[u].request # work'[v].request
  BY <1>1 DEF HandlersAreSound, At
<1> QED
  BY <1>2, <1>3, <1>4 DEF HandlersAreSound

\* The handlers are sound after every step.
LEMMA SoundStep == TypeOK /\ HandlersAreSound /\ [Next]_vars => HandlersAreSound'
<1> SUFFICES ASSUME TypeOK, HandlersAreSound, [Next]_vars PROVE HandlersAreSound'
  OBVIOUS
<1> DEFINE Same == UNCHANGED <<row, owner, payload, elapsed, ledger>>
<1>a. IsTrueMemory(Idle) /\ Idle.step = "idle"
  BY DEF IsTrueMemory, Idle
<1>b. \A w \in Workers : ~At(w, "idle") /\ ~At(w, "close") => work[w].slot \in Slots
  BY DEF HandlersAreSound, IsTrueMemory, At
<1>c. ASSUME NEW w \in Workers, Return(w), Same PROVE HandlersAreSound'
  BY <1>a, <1>c, OwnMemory DEF Return
<1>d. ASSUME NEW w \in Workers, NEW step \in {"cleared", "multiple"}, Go(w, step), Same,
             work[w].slot \in Slots
      PROVE  HandlersAreSound'
  <2> DEFINE memory == [work[w] EXCEPT !.step = step]
  <2>1. memory.step = step /\ memory.slot = work[w].slot
    BY DEF TypeOK
  <2>2. IsTrueMemory(memory) /\ memory.step # "created"
    BY <1>d, <2>1 DEF IsTrueMemory
  <2>3. work' = [work EXCEPT ![w] = memory]
    BY <1>d DEF Go
  <2> HIDE DEF memory
  <2> QED
    BY <1>d, <2>2, <2>3, OwnMemory
<1>e. ASSUME NEW w \in Workers, ProceedIfPayable(w), work[w].slot \in Slots
      PROVE  \E memory : /\ work' = [work EXCEPT ![w] = memory]
                         /\ memory.step \in {"idle", "payable"}
                         /\ memory.step = "payable" => memory.slot \in Slots
                         /\ IsTrueMemory(memory)
  <2> DEFINE payable == [Idle EXCEPT !.step = "payable", !.slot = work[w].slot]
  <2>1. payable.step = "payable" /\ payable.slot = work[w].slot
    BY DEF Idle
  <2>2. IsTrueMemory(payable)
    BY <1>e, <2>1 DEF IsTrueMemory
  <2>3. work' = [work EXCEPT ![w] = Idle] \/ work' = [work EXCEPT ![w] = payable]
    BY <1>e DEF ProceedIfPayable
  <2> HIDE DEF payable
  <2> QED
    BY <1>a, <1>e, <2>1, <2>2, <2>3
<1>1. ASSUME NEW w \in Workers, NEW s \in Slots, BeginCreate(w, s) PROVE HandlersAreSound'
  <2> DEFINE memory == [Idle EXCEPT !.step = "details", !.slot = s]
  <2>1. IsTrueMemory(memory) /\ memory.step # "created"
    BY DEF IsTrueMemory, Idle
  <2> QED
    BY <1>1, <2>1, OwnMemory DEF BeginCreate, db, world
<1>2. ASSUME NEW w \in Workers, LoadSlot(w) PROVE HandlersAreSound'
  <2> DEFINE memory == [work[w] EXCEPT !.step = "slot", !.saw = slot[work[w].slot].status,
                                       !.sawBill = EffectiveBillStatus]
  <2>1. memory.step = "slot" /\ memory.slot = work[w].slot
    BY DEF TypeOK
  <2>2. IsTrueMemory(memory) /\ memory.step # "created"
    BY <1>2, <1>b, <2>1 DEF LoadSlot, At, IsTrueMemory
  <2>3. work' = [work EXCEPT ![w] = memory]
    BY <1>2 DEF LoadSlot
  <2> HIDE DEF memory
  <2> QED
    BY <1>2, <2>2, <2>3, OwnMemory DEF LoadSlot, db, world
<1>3. ASSUME NEW w \in Workers, FindStale(w) PROVE HandlersAreSound'
  <2>1. PICK q \in StaleRequests(work[w].slot) :
          work' = [work EXCEPT ![w] = [work[w] EXCEPT !.step = "expire", !.request = q]]
    BY <1>3 DEF FindStale
  <2>2. q \in Requests /\ owner[q] = work[w].slot /\ row[q] # "absent"
    BY DEF StaleRequests, Active, ActiveStatuses, Unsigned
  <2> DEFINE memory == [work[w] EXCEPT !.step = "expire", !.request = q]
  <2>3. memory.step = "expire" /\ memory.slot = work[w].slot /\ memory.request = q
    BY DEF TypeOK
  <2>4. IsTrueMemory(memory) /\ memory.step # "created"
    BY <1>3, <1>b, <2>2, <2>3 DEF FindStale, At, IsTrueMemory
  <2>5. work' = [work EXCEPT ![w] = memory]
    BY <2>1
  <2> HIDE DEF memory
  <2> QED
    BY <1>3, <2>4, <2>5, OwnMemory DEF FindStale, db, world
<1>4. ASSUME NEW w \in Workers, ExpireActive(w) PROVE HandlersAreSound'
  <2>1. PICK memory : /\ work' = [work EXCEPT ![w] = memory]
                      /\ memory.step \in {"idle", "payable"}
                      /\ memory.step = "payable" => memory.slot \in Slots
    BY <1>4, <1>b, <1>e DEF ExpireActive, At
  <2>2. \A q \in Requests : row'[q] # row[q] => row[q] # "absent" /\ row'[q] # "absent"
    BY <1>4 DEF ExpireActive, TypeOK, Unsigned
  <2> QED
    BY <1>4, <2>1, <2>2, RowsChange DEF ExpireActive, world
<1>5. ASSUME NEW w \in Workers, ResumeActive(w) PROVE HandlersAreSound'
  BY <1>5, <1>c DEF ResumeActive, db, world
<1>6. ASSUME NEW w \in Workers, ContinueCreate(w) PROVE HandlersAreSound'
  <2>1. PICK memory : /\ work' = [work EXCEPT ![w] = memory]
                      /\ memory.step # "created" /\ IsTrueMemory(memory)
    BY <1>6, <1>b, <1>e DEF ContinueCreate, At
  <2> QED
    BY <1>6, <2>1, OwnMemory DEF ContinueCreate, db, world
<1>7. ASSUME NEW w \in Workers, Reconcile(w) PROVE HandlersAreSound'
  <2>1. work[w].slot \in Slots /\ Same
    BY <1>7, <1>b DEF Reconcile, At, db, world
  <2>2. CASE Go(w, "cleared") \/ Go(w, "multiple")
    BY <2>1, <2>2, <1>d
  <2>3. ASSUME NEW q \in Matching(work[w].slot),
               work' = [work EXCEPT ![w] = [work[w] EXCEPT !.step = "settle", !.request = q]]
        PROVE  HandlersAreSound'
    <3> DEFINE memory == [work[w] EXCEPT !.step = "settle", !.request = q]
    <3>1. memory.step = "settle" /\ memory.slot = work[w].slot /\ memory.request = q
      BY DEF TypeOK
    <3>2. IsTrueMemory(memory) /\ memory.step # "created"
      BY <2>1, <3>1 DEF Matching, IsTrueMemory
    <3>3. work' = [work EXCEPT ![w] = memory]
      BY <2>3
    <3> HIDE DEF memory
    <3> QED
      BY <2>1, <3>2, <3>3, OwnMemory
  <2> QED
    BY <1>7, <2>2, <2>3 DEF Reconcile
<1>8. ASSUME NEW w \in Workers, CreateHandoff(w) PROVE HandlersAreSound'
  <2>1. PICK q \in Requests :
          /\ owner[q] = None
          /\ owner' = [owner EXCEPT ![q] = work[w].slot]
          /\ payload' = [payload EXCEPT ![q] = "available"]
          /\ work' = [work EXCEPT ![w] = [work[w] EXCEPT !.step = "created", !.request = q]]
    BY <1>8 DEF CreateHandoff
  <2>2. work[w].slot \in Slots /\ work[w].slot # None
    BY <1>8, <1>b, ConstantsOK DEF CreateHandoff, At
  <2>3. UNCHANGED <<row, elapsed, ledger>>
    BY <1>8 DEF CreateHandoff, db
  <2>4. row[q] = "absent" /\ ledger[q] = "unsent" /\ q \notin elapsed
    BY <2>1 DEF HandlersAreSound, IsSoundRequest
  <2>5. owner'[q] = work[w].slot /\ \A p \in Requests : p # q => owner'[p] = owner[p]
    BY <2>1 DEF TypeOK
  <2>6. \A v \in Workers : v # w => work'[v] = work[v]
    BY <2>1 DEF TypeOK
  <2>7. work'[w].step = "created" /\ work'[w].slot = work[w].slot /\ work'[w].request = q
    BY <2>1 DEF TypeOK
  <2>8. \A v \in Workers :
          work[v].step \in {"expire", "created", "settle", "sync"} => work[v].request # q
    BY <2>1, ConstantsOK DEF HandlersAreSound, IsTrueMemory
  <2>9. \A v \in Workers : IsTrueMemory(work[v])'
    <3>1. ASSUME NEW v \in Workers, v # w PROVE IsTrueMemory(work[v])'
      <4>1. IsTrueMemory(work[v]) /\ work'[v] = work[v]
        BY <3>1, <2>6 DEF HandlersAreSound
      <4>2. \A p \in Requests : Mismatches(work[v].slot, p) => owner'[p] = owner[p]
        BY <2>4, <2>5 DEF Mismatches
      <4> QED
        BY <4>1, <4>2, <2>3, <2>5, <2>8 DEF IsTrueMemory, Mismatches
    <3>2. IsTrueMemory(work[w])'
      BY <2>2, <2>3, <2>4, <2>5, <2>7 DEF IsTrueMemory
    <3> QED
      BY <3>1, <3>2
  <2>10. \A p \in Requests : IsSoundRequest(p)'
    BY <2>1, <2>2, <2>3, <2>4, <2>5 DEF HandlersAreSound, IsSoundRequest, TypeOK
  <2>11. \A u, v \in Workers : u # v /\ At(u, "created")' /\ At(v, "created")' =>
          work'[u].request # work'[v].request
    BY <2>6, <2>7, <2>8 DEF HandlersAreSound, At
  <2> QED
    BY <2>9, <2>10, <2>11 DEF HandlersAreSound
<1>9. ASSUME NEW w \in Workers, PersistRequest(w) PROVE HandlersAreSound'
  <2> DEFINE q == work[w].request
  <2>1. UNCHANGED <<owner, payload, elapsed, ledger>>
    BY <1>9 DEF PersistRequest, world
  <2>2. q \in Requests /\ owner[q] = work[w].slot /\ owner[q] # None
    BY <1>9, <1>b, ConstantsOK DEF PersistRequest, At, HandlersAreSound, IsTrueMemory
  <2>3. work'[w] = Idle /\ \A v \in Workers : v # w => work'[v] = work[v]
    BY <1>9 DEF PersistRequest, Return, TypeOK
  <2>4. \A p \in Requests : p # q => row'[p] = row[p]
    BY <1>9 DEF PersistRequest, TypeOK
  <2>5. row'[q] = row[q] \/ row'[q] # "absent"
    BY <1>9, <2>2 DEF PersistRequest, TypeOK
  <2>6. \A v \in Workers : v # w /\ At(v, "created") => work[v].request # q
    BY <1>9 DEF PersistRequest, At, HandlersAreSound
  <2> HIDE DEF q
  <2>7. \A v \in Workers : IsTrueMemory(work[v])'
    <3>1. ASSUME NEW v \in Workers, v # w PROVE IsTrueMemory(work[v])'
      BY <3>1, <2>1, <2>3, <2>4, <2>5, <2>6 DEF HandlersAreSound, IsTrueMemory, Mismatches, At
    <3>2. IsTrueMemory(work[w])'
      BY <2>3 DEF IsTrueMemory, Idle
    <3> QED
      BY <3>1, <3>2
  <2>8. \A p \in Requests : IsSoundRequest(p)'
    BY <2>1, <2>2, <2>4, <2>5 DEF HandlersAreSound, IsSoundRequest
  <2>9. \A u, v \in Workers : u # v /\ At(u, "created")' /\ At(v, "created")' =>
          work'[u].request # work'[v].request
    BY <2>3 DEF HandlersAreSound, At, Idle
  <2> QED
    BY <2>7, <2>8, <2>9 DEF HandlersAreSound
<1>10. ASSUME NEW w \in Workers, NEW s \in Slots, NEW q \in Requests, VerifyPayment(w, s, q)
       PROVE  HandlersAreSound'
  <2> DEFINE matched == [Idle EXCEPT !.step = "settle", !.slot = s, !.request = q]
             questioned == [Idle EXCEPT !.step = "review", !.slot = s]
  <2>1. Same
    BY <1>10 DEF VerifyPayment, db, world
  <2>2. CASE q \in Matching(s) /\ work' = [work EXCEPT ![w] = matched]
    <3>1. matched.step = "settle" /\ matched.slot = s /\ matched.request = q
      BY DEF Idle
    <3>2. IsTrueMemory(matched) /\ matched.step # "created"
      BY <2>2, <3>1 DEF IsTrueMemory, Matching
    <3> HIDE DEF matched
    <3> QED
      BY <2>1, <2>2, <3>2, OwnMemory
  <2>3. CASE Mismatches(s, q) /\ work' = [work EXCEPT ![w] = questioned]
    <3>1. questioned.step = "review" /\ questioned.slot = s
      BY DEF Idle
    <3>2. IsTrueMemory(questioned) /\ questioned.step # "created"
      BY <2>3, <3>1 DEF IsTrueMemory
    <3> HIDE DEF questioned
    <3> QED
      BY <2>1, <2>3, <3>2, OwnMemory
  <2> QED
    BY <1>10, <2>2, <2>3 DEF VerifyPayment
<1>11. ASSUME NEW w \in Workers, Settle(w) PROVE HandlersAreSound'
  BY <1>11, <1>c DEF Settle, world
<1>12. ASSUME NEW w \in Workers, MarkReview(w) PROVE HandlersAreSound'
  BY <1>12, <1>c DEF MarkReview, world
<1>13. ASSUME NEW w \in Workers, MarkMultiple(w) PROVE HandlersAreSound'
  BY <1>13, <1>c DEF MarkMultiple, world
<1>14. ASSUME NEW w \in Workers, NEW q \in Requests, FetchPayload(w, q) PROVE HandlersAreSound'
  <2> DEFINE saw == Observation(q)
             memory == [Idle EXCEPT !.step = "sync", !.slot = owner[q], !.request = q, !.saw = saw]
  <2>1. owner[q] \in Slots /\ saw \in RequestStatuses
    BY <1>14, ObservationType DEF FetchPayload, HandlersAreSound, IsSoundRequest, TypeOK
  <2>2. work' = [work EXCEPT ![w] = memory]
    BY <1>14 DEF FetchPayload
  <2>3. row[q] # "absent" /\ Same
    BY <1>14 DEF FetchPayload, db, world
  <2> HIDE DEF saw
  <2>4. memory.step = "sync" /\ memory.slot = owner[q] /\ memory.request = q /\ memory.saw = saw
    BY DEF Idle
  <2>5. IsTrueMemory(memory) /\ memory.step # "created"
    BY <2>1, <2>3, <2>4 DEF IsTrueMemory
  <2> HIDE DEF memory
  <2> QED
    BY <2>2, <2>3, <2>5, OwnMemory
<1>15. ASSUME NEW w \in Workers, ApplyObservation(w) PROVE HandlersAreSound'
  <2>1. /\ work[w].request \in Requests /\ row[work[w].request] # "absent"
        /\ work[w].saw \in RequestStatuses
    BY <1>15 DEF ApplyObservation, At, HandlersAreSound, IsTrueMemory
  <2>2. work[w].saw # "absent"
    BY <2>1 DEF RequestStatuses, ActiveStatuses, Unsigned
  <2>3. \A q \in Requests : row'[q] # row[q] => row[q] # "absent" /\ row'[q] # "absent"
    BY <1>15, <2>1, <2>2 DEF ApplyObservation, TypeOK
  <2>4. work' = [work EXCEPT ![w] = Idle]
    BY <1>15 DEF ApplyObservation, Return
  <2> QED
    BY <1>15, <1>a, <2>3, <2>4, RowsChange DEF ApplyObservation, world
<1>16. ASSUME NEW w \in Workers, NEW s \in Slots, LoadReview(w, s) PROVE HandlersAreSound'
  <2> DEFINE memory == [Idle EXCEPT !.step = "authorize", !.slot = s]
  <2>1. IsTrueMemory(memory) /\ memory.step # "created"
    BY DEF IsTrueMemory, Idle
  <2> QED
    BY <1>16, <2>1, OwnMemory DEF LoadReview, db, world
<1>17. ASSUME NEW w \in Workers, AuthorizeRetry(w) PROVE HandlersAreSound'
  BY <1>17, <1>c DEF AuthorizeRetry, world
<1>18. ASSUME NEW w \in Workers, LoadClosure(w) PROVE HandlersAreSound'
  <2> DEFINE memory == [Idle EXCEPT !.step = "close"]
  <2>1. IsTrueMemory(memory) /\ memory.step # "created"
    BY DEF IsTrueMemory, Idle
  <2> QED
    BY <1>18, <2>1, OwnMemory DEF LoadClosure, db, world
<1>19. ASSUME NEW w \in Workers, CloseBill(w) PROVE HandlersAreSound'
  BY <1>19, <1>c DEF CloseBill, world
<1>20. ASSUME NEW w \in Workers, Abandon(w) PROVE HandlersAreSound'
  BY <1>20, <1>c DEF Abandon, db, world
<1>21. ASSUME NEW q \in Requests, Surroundings(q) PROVE HandlersAreSound'
  <2>1. UNCHANGED <<work, row, owner>>
    BY <1>21 DEF Surroundings, Open, Sign, Resolve, Decline, Validate, Lapse, Elapse, db
  <2>2. \A p \in Requests : ledger[p] \in Validated => ledger'[p] = ledger[p]
    BY <1>21 DEF Surroundings, Open, Sign, Resolve, Decline, Validate, Lapse, Elapse, TypeOK, Validated
  <2>3. \A p \in Requests : IsSoundRequest(p)'
    <3>1. owner[q] # None
      BY <1>21 DEF Surroundings, Open, Sign, Resolve, Decline, Validate, Lapse, Elapse, Reached,
         HandlersAreSound, IsSoundRequest
    <3>2. \A p \in Requests : p # q =>
            payload'[p] = payload[p] /\ ledger'[p] = ledger[p] /\ (p \in elapsed' <=> p \in elapsed)
      BY <1>21 DEF Surroundings, Open, Sign, Resolve, Decline, Validate, Lapse, Elapse, TypeOK
    <3>3. payload'[q] # "none"
      BY <1>21, <3>1 DEF Surroundings, Open, Sign, Resolve, Decline, Validate, Lapse, Elapse,
         TypeOK, HandlersAreSound, IsSoundRequest
    <3>4. row[q] = "absent" => ledger'[q] \in {"unsent", "lapsed"}
      BY <1>21 DEF Surroundings, Open, Sign, Resolve, Decline, Validate, Lapse, Elapse, Reached,
         TypeOK, HandlersAreSound, IsSoundRequest
    <3> QED
      BY <2>1, <3>1, <3>2, <3>3, <3>4 DEF HandlersAreSound, IsSoundRequest
  <2> QED
    BY <2>1, <2>2, <2>3 DEF HandlersAreSound, IsTrueMemory, Mismatches, At, Validated
<1>22. CASE UNCHANGED vars
  BY <1>22 DEF vars, db, world, HandlersAreSound, IsTrueMemory, Mismatches, IsSoundRequest, At
<1> QED
  BY <1>1, <1>2, <1>3, <1>4, <1>5, <1>6, <1>7, <1>8, <1>9, <1>10, <1>11, <1>12, <1>13, <1>14,
     <1>15, <1>16, <1>17, <1>18, <1>19, <1>20, <1>21, <1>22
     DEF Next, HandlerStep, CreateStep, VerifyStep, SyncStep, OperatorStep

\* Every variable keeps its type.
THEOREM TypeCorrect == Spec => []TypeOK
<1>1. Init => TypeOK /\ HandlersAreSound
  BY TypeInit, SoundInit
<1>2. TypeOK /\ HandlersAreSound /\ [Next]_vars => (TypeOK /\ HandlersAreSound)'
  BY TypeStep, SoundStep
<1> QED
  BY <1>1, <1>2, PTL DEF Spec

\* What a handler read before an await about the owner, the row and the verdict of
\* its request is still true when it uses it.
THEOREM HandlersSound == Spec => []HandlersAreSound
<1>1. Init => TypeOK /\ HandlersAreSound
  BY TypeInit, SoundInit
<1>2. TypeOK /\ HandlersAreSound /\ [Next]_vars => (TypeOK /\ HandlersAreSound)'
  BY TypeStep, SoundStep
<1> QED
  BY <1>1, <1>2, PTL DEF Spec

-----------------------------------------------------------------------------
(* The rows of the requests: one active request per slot, rows that only   *)
(* move forward, slots that are backed by their rows and, when the clocks  *)
(* are timely, at most one payment per slot.                               *)

\* What the provider told stays true until it is written: a payload that was
\* resolved or rejected stays so, and time does not go back.
IsTrueReport(q, status) ==
    /\ status = "submitted" => payload[q] = "resolved"
    /\ status = "rejected" => payload[q] = "rejected"
    /\ status = "expired" => q \in elapsed
    /\ status # "failed"

ReportsAreTrue ==
    /\ \A w \in Workers : At(w, "expire") => work[w].request \in elapsed
    /\ \A w \in Workers : At(w, "sync") => IsTrueReport(work[w].request, work[w].saw)
    /\ \A q \in Requests : IsTrueReport(q, row[q])

RowsKept ==
    /\ row' = row
    /\ \A s \in Slots : slot'[s].status # slot[s].status =>
        slot'[s].status \notin {"awaiting_signature", "submitted"}

Expired(q) ==
    /\ row[q] \in Unsigned /\ q \in elapsed
    /\ row' = [row EXCEPT ![q] = "expired"]
    /\ slot' = SlotFollows(owner[q], "expired")

Stored(q) ==
    /\ owner[q] # None /\ row[q] = "absent" /\ Active(owner[q]) = {}
    /\ \E w \in Workers : work[w].step = "created" /\ work[w].slot = owner[q]
    /\ row' = [row EXCEPT ![q] = "available"]
    /\ slot' \in {slot, [slot EXCEPT ![owner[q]].status = "awaiting_signature"]}

Observed(q, status) ==
    /\ row[q] # "absent" /\ status \in RequestStatuses
    /\ ShouldApply(row[q], status) /\ ~Collides(q, status)
    /\ IsTrueReport(q, status)
    /\ row' = [row EXCEPT ![q] = status]
    /\ slot' = SlotFollows(owner[q], status)

\* What one step can do to the rows.
LEMMA RowCases ==
  ASSUME TypeOK, HandlersAreSound, ReportsAreTrue, [Next]_vars
  PROVE  \/ RowsKept
         \/ \E q \in Requests : Expired(q)
         \/ \E q \in Requests : Stored(q)
         \/ \E q \in Requests, status \in RequestStatuses : Observed(q, status)
<1> DEFINE Cases == \/ RowsKept
                    \/ \E q \in Requests : Expired(q)
                    \/ \E q \in Requests : Stored(q)
                    \/ \E q \in Requests, status \in RequestStatuses : Observed(q, status)
<1>a. slot \in [Slots -> SlotRecord]
  BY DEF TypeOK, SlotRecord
<1>1. ASSUME UNCHANGED db PROVE Cases
  BY <1>1 DEF db, RowsKept
<1>2. ASSUME NEW w \in Workers, ExpireActive(w) PROVE Cases
  <2> DEFINE q == work[w].request
  <2>1. q \in Requests /\ owner[q] = work[w].slot /\ row[q] # "absent" /\ q \in elapsed
    BY <1>2 DEF ExpireActive, At, HandlersAreSound, IsTrueMemory, ReportsAreTrue
  <2>2. CASE row[q] \in Unsigned
    <3>1. row' = [row EXCEPT ![q] = "expired"]
      BY <1>2, <2>2 DEF ExpireActive
    <3>2. row'[q] = "expired"
      BY <2>1, <3>1 DEF TypeOK
    <3>3. Expired(q)
      BY <1>2, <2>1, <2>2, <3>1, <3>2 DEF ExpireActive, Expired
    <3> QED
      BY <2>1, <3>3
  <2>3. CASE row[q] \notin Unsigned
    <3>1. row' = row /\ slot' \in {slot, SlotFollows(work[w].slot, "expired")}
      BY <1>2, <2>3 DEF ExpireActive
    <3>2. SlotStatusForHandoff("expired") = "expired"
      BY DEF SlotStatusForHandoff, Unsigned
    <3>3. RowsKept
      BY <1>a, <3>1, <3>2 DEF RowsKept, SlotFollows, SlotRecord
    <3> QED
      BY <3>3
  <2> QED
    BY <2>2, <2>3
<1>3. ASSUME NEW w \in Workers, PersistRequest(w) PROVE Cases
  <2> DEFINE q == work[w].request
  <2>1. /\ q \in Requests /\ owner[q] = work[w].slot /\ row[q] = "absent"
        /\ work[w].slot # None
    BY <1>3, ConstantsOK DEF PersistRequest, At, HandlersAreSound, IsTrueMemory
  <2>2. CASE Active(work[w].slot) = {}
    <3>1. Stored(q)
      BY <1>3, <2>1, <2>2 DEF PersistRequest, Stored, At
    <3> QED
      BY <2>1, <3>1
  <2>3. CASE Active(work[w].slot) # {}
    BY <1>3, <2>3 DEF PersistRequest, RowsKept
  <2> QED
    BY <2>2, <2>3
<1>4. ASSUME NEW w \in Workers, ApplyObservation(w) PROVE Cases
  <2> DEFINE q == work[w].request
  <2>1. /\ q \in Requests /\ row[q] # "absent" /\ work[w].saw \in RequestStatuses
        /\ IsTrueReport(q, work[w].saw)
    BY <1>4 DEF ApplyObservation, At, HandlersAreSound, IsTrueMemory, ReportsAreTrue
  <2> QED
    BY <1>4, <2>1 DEF ApplyObservation, RowsKept, Observed
<1>5. ASSUME NEW w \in Workers, Settle(w) PROVE Cases
  BY <1>5, <1>a DEF Settle, MarkSlotPaid, RowsKept, SlotRecord
<1>6. ASSUME NEW w \in Workers, MarkReview(w) \/ MarkMultiple(w) PROVE Cases
  BY <1>6, <1>a DEF MarkReview, MarkMultiple, SlotToReview, RowsKept, SlotRecord
<1>7. ASSUME NEW w \in Workers, AuthorizeRetry(w) PROVE Cases
  BY <1>7, <1>a DEF AuthorizeRetry, RowsKept, SlotRecord
<1>8. ASSUME NEW w \in Workers, CloseBill(w) PROVE Cases
  BY <1>8 DEF CloseBill, RowsKept
<1>9. ASSUME NEW q \in Requests, Surroundings(q) PROVE Cases
  BY <1>1, <1>9 DEF Surroundings, Open, Sign, Resolve, Decline, Validate, Lapse, Elapse
<1>10. ASSUME UNCHANGED vars PROVE Cases
  BY <1>1, <1>10 DEF vars, db
<1>11. ASSUME NEW w \in Workers, CreateStep(w) PROVE Cases
  <2>1. CASE ~ExpireActive(w) /\ ~PersistRequest(w)
    BY <1>1, <1>11, <2>1 DEF CreateStep, BeginCreate, LoadSlot, FindStale, ResumeActive,
       ContinueCreate, Reconcile, CreateHandoff
  <2> QED
    BY <1>2, <1>3, <2>1
<1>12. ASSUME NEW w \in Workers, NEW q \in Requests,
              (\E s \in Slots : VerifyPayment(w, s, q)) \/ FetchPayload(w, q)
       PROVE  Cases
  BY <1>1, <1>12 DEF VerifyPayment, FetchPayload
<1>13. ASSUME NEW w \in Workers, (\E s \in Slots : LoadReview(w, s)) \/ LoadClosure(w) \/ Abandon(w)
       PROVE  Cases
  BY <1>1, <1>13 DEF LoadReview, LoadClosure, Abandon
<1> HIDE DEF Cases
<1>14. ASSUME NEW w \in Workers, HandlerStep(w) PROVE Cases
  BY <1>4, <1>5, <1>6, <1>7, <1>8, <1>11, <1>12, <1>13, <1>14
     DEF HandlerStep, VerifyStep, SyncStep, OperatorStep
<1>15. Cases
  BY <1>9, <1>10, <1>14 DEF Next
<1> QED
  BY <1>15 DEF Cases

\* Payloads that ended stay so, and so do the owners and the passing of time.
LEMMA ProviderStays ==
  ASSUME TypeOK, HandlersAreSound, [Next]_vars
  PROVE  \A q \in Requests :
           /\ payload[q] \in {"resolved", "rejected"} => payload'[q] = payload[q]
           /\ q \in elapsed => q \in elapsed'
           /\ owner[q] # None => owner'[q] = owner[q]
<1> DEFINE Stays == \A q \in Requests :
                      /\ payload[q] \in {"resolved", "rejected"} => payload'[q] = payload[q]
                      /\ q \in elapsed => q \in elapsed'
                      /\ owner[q] # None => owner'[q] = owner[q]
<1>1. ASSUME UNCHANGED <<owner, payload, elapsed>> PROVE Stays
  BY <1>1
<1>2. ASSUME NEW w \in Workers, CreateHandoff(w) PROVE Stays
  <2>1. PICK p \in Requests : /\ owner[p] = None
                              /\ owner' = [owner EXCEPT ![p] = work[w].slot]
                              /\ payload' = [payload EXCEPT ![p] = "available"]
    BY <1>2 DEF CreateHandoff
  <2>2. elapsed' = elapsed /\ payload[p] = "none"
    BY <1>2, <2>1 DEF CreateHandoff, HandlersAreSound, IsSoundRequest
  <2> QED
    BY <2>1, <2>2 DEF TypeOK
<1>3. ASSUME NEW p \in Requests, Surroundings(p) PROVE Stays
  BY <1>3 DEF Surroundings, Open, Sign, Resolve, Decline, Validate, Lapse, Elapse, TypeOK
<1>4. ASSUME NEW w \in Workers, CreateStep(w) PROVE Stays
  <2>1. CASE ~CreateHandoff(w)
    BY <1>1, <1>4, <2>1 DEF CreateStep, BeginCreate, LoadSlot, FindStale, ExpireActive, ResumeActive,
     ContinueCreate, Reconcile, PersistRequest, world
  <2> QED
    BY <1>2, <2>1
<1>5. ASSUME NEW w \in Workers, VerifyStep(w) \/ SyncStep(w) \/ OperatorStep(w) \/ Abandon(w)
      PROVE  Stays
  BY <1>1, <1>5 DEF VerifyStep, VerifyPayment, Settle, MarkReview, MarkMultiple, SyncStep,
     FetchPayload, ApplyObservation, OperatorStep, LoadReview, AuthorizeRetry, LoadClosure, CloseBill,
     Abandon, world
<1>6. ASSUME UNCHANGED vars PROVE Stays
  BY <1>1, <1>6 DEF vars, world
<1> HIDE DEF Stays
<1>7. Stays
  BY <1>3, <1>4, <1>5, <1>6 DEF Next, HandlerStep
<1> QED
  BY <1>7 DEF Stays

\* A handler that reads a report reads the truth; the others keep what they read.
LEMMA ReportReads ==
  ASSUME TypeOK, HandlersAreSound, [Next]_vars, NEW v \in Workers
  PROVE  \/ work'[v] = work[v]
         \/ work'[v].step \notin {"expire", "sync"}
         \/ /\ work'[v].step = "expire" /\ work'[v].request \in elapsed
            /\ UNCHANGED world
         \/ /\ work'[v].step = "sync" /\ IsTrueReport(work'[v].request, work'[v].saw)
            /\ UNCHANGED world
<1> DEFINE Cases == \/ work'[v] = work[v]
                    \/ work'[v].step \notin {"expire", "sync"}
                    \/ /\ work'[v].step = "expire" /\ work'[v].request \in elapsed
                       /\ UNCHANGED world
                    \/ /\ work'[v].step = "sync" /\ IsTrueReport(work'[v].request, work'[v].saw)
                       /\ UNCHANGED world
<1>1. ASSUME NEW w \in Workers, NEW memory, work' = [work EXCEPT ![w] = memory],
             memory.step \notin {"expire", "sync"}
      PROVE  Cases
  BY <1>1 DEF TypeOK
<1>2. ASSUME NEW w \in Workers, Return(w) PROVE Cases
  BY <1>1, <1>2 DEF Return, Idle
<1>3. ASSUME NEW w \in Workers, NEW step \in {"cleared", "multiple"}, Go(w, step) PROVE Cases
  BY <1>3 DEF Go, TypeOK
<1>4. ASSUME NEW w \in Workers, ProceedIfPayable(w) PROVE Cases
  BY <1>4 DEF ProceedIfPayable, Idle, TypeOK
<1>5. ASSUME NEW w \in Workers, CreateStep(w) PROVE Cases
  <2>1. ASSUME FindStale(w) PROVE Cases
    <3>1. PICK q \in StaleRequests(work[w].slot) :
            work' = [work EXCEPT ![w] = [work[w] EXCEPT !.step = "expire", !.request = q]]
      BY <2>1 DEF FindStale
    <3>2. q \in elapsed /\ UNCHANGED world
      BY <2>1 DEF StaleRequests, FindStale
    <3>3. work'[w].step = "expire" /\ work'[w].request = q /\ \A u \in Workers : u # w => work'[u] = work[u]
      BY <3>1 DEF TypeOK
    <3> QED
      BY <3>2, <3>3
  <2>2. ASSUME LoadSlot(w) PROVE Cases
    BY <2>2 DEF LoadSlot, TypeOK
  <2>3. ASSUME \E s \in Slots : BeginCreate(w, s) PROVE Cases
    BY <2>3 DEF BeginCreate, Idle, TypeOK
  <2>4. ASSUME ExpireActive(w) \/ ContinueCreate(w) PROVE Cases
    BY <2>4, <1>4 DEF ExpireActive, ContinueCreate
  <2>5. ASSUME ResumeActive(w) \/ PersistRequest(w) PROVE Cases
    BY <2>5, <1>2 DEF ResumeActive, PersistRequest
  <2>6. ASSUME Reconcile(w) PROVE Cases
    <3>1. ASSUME NEW q,
                 work' = [work EXCEPT ![w] = [work[w] EXCEPT !.step = "settle", !.request = q]]
          PROVE  Cases
      BY <3>1 DEF TypeOK
    <3> HIDE DEF Cases
    <3> QED
      BY <2>6, <3>1, <1>3 DEF Reconcile
  <2>7. ASSUME CreateHandoff(w) PROVE Cases
    <3>1. PICK q \in Requests :
            work' = [work EXCEPT ![w] = [work[w] EXCEPT !.step = "created", !.request = q]]
      BY <2>7 DEF CreateHandoff
    <3> QED
      BY <3>1 DEF TypeOK
  <2> HIDE DEF Cases
  <2> QED
    BY <1>5, <2>1, <2>2, <2>3, <2>4, <2>5, <2>6, <2>7 DEF CreateStep
<1>6. ASSUME NEW w \in Workers, VerifyStep(w) PROVE Cases
  <2>1. ASSUME NEW s \in Slots, NEW q \in Requests, VerifyPayment(w, s, q) PROVE Cases
    <3> DEFINE matched == [Idle EXCEPT !.step = "settle", !.slot = s, !.request = q]
               questioned == [Idle EXCEPT !.step = "review", !.slot = s]
    <3>1. matched.step = "settle" /\ questioned.step = "review"
      BY DEF Idle
    <3>2. work' = [work EXCEPT ![w] = matched] \/ work' = [work EXCEPT ![w] = questioned]
      BY <2>1 DEF VerifyPayment
    <3> HIDE DEF matched, questioned, Cases
    <3> QED
      BY <3>1, <3>2, <1>1
  <2> QED
    BY <1>2, <1>6, <2>1 DEF VerifyStep, Settle, MarkReview, MarkMultiple
<1>7. ASSUME NEW w \in Workers, SyncStep(w) PROVE Cases
  <2>1. ASSUME NEW q \in Requests, FetchPayload(w, q) PROVE Cases
    <3>1. owner[q] # None /\ payload[q] \in PayloadStates \ {"none"}
      BY <2>1 DEF FetchPayload, HandlersAreSound, IsSoundRequest, TypeOK
    <3> DEFINE saw == Observation(q)
    <3>2. IsTrueReport(q, saw)
      BY <3>1 DEF IsTrueReport, Observation, PayloadStates
    <3>3. work' = [work EXCEPT ![w] = [Idle EXCEPT !.step = "sync", !.slot = owner[q],
                                                   !.request = q, !.saw = saw]]
          /\ UNCHANGED world
      BY <2>1 DEF FetchPayload
    <3> HIDE DEF saw
    <3> QED
      BY <3>2, <3>3 DEF Idle, TypeOK
  <2> QED
    BY <1>2, <1>7, <2>1 DEF SyncStep, ApplyObservation
<1>8. ASSUME NEW w \in Workers, OperatorStep(w) PROVE Cases
  <2>1. ASSUME LoadClosure(w) \/ \E s \in Slots : LoadReview(w, s) PROVE Cases
    <3>1. /\ [Idle EXCEPT !.step = "close"].step = "close"
          /\ \A s : [Idle EXCEPT !.step = "authorize", !.slot = s].step = "authorize"
      BY DEF Idle
    <3> QED
      BY <2>1, <3>1, <1>1 DEF LoadClosure, LoadReview
  <2> QED
    BY <1>2, <1>8, <2>1 DEF OperatorStep, AuthorizeRetry, CloseBill
<1>9. ASSUME NEW w \in Workers, Abandon(w) PROVE Cases
  BY <1>2, <1>9 DEF Abandon
<1>10. ASSUME NEW q \in Requests, Surroundings(q) PROVE Cases
  BY <1>10 DEF Surroundings, Open, Sign, Resolve, Decline, Validate, Lapse, Elapse
<1>11. ASSUME UNCHANGED vars PROVE Cases
  BY <1>11 DEF vars
<1> HIDE DEF Cases
<1>12. Cases
  BY <1>5, <1>6, <1>7, <1>8, <1>9, <1>10, <1>11 DEF Next, HandlerStep
<1> QED
  BY <1>12 DEF Cases

\* The inductive invariant of the rows.
RowsInv ==
    /\ TypeOK /\ HandlersAreSound /\ ReportsAreTrue
    /\ RequestsAreSound /\ SlotStatusIsBacked

\* Reports stay true after every step.
LEMMA ReportsStep ==
  ASSUME TypeOK, HandlersAreSound, ReportsAreTrue, [Next]_vars
  PROVE  ReportsAreTrue'
<1>a. \A q \in Requests :
        /\ payload[q] \in {"resolved", "rejected"} => payload'[q] = payload[q]
        /\ q \in elapsed => q \in elapsed'
  BY ProviderStays
<1>b. \A q \in Requests : \A status : IsTrueReport(q, status) => IsTrueReport(q, status)'
  BY <1>a DEF IsTrueReport
<1>1. \A v \in Workers : At(v, "expire")' => work'[v].request \in elapsed'
  BY <1>a, ReportReads DEF ReportsAreTrue, HandlersAreSound, IsTrueMemory, At, world
<1>2. ASSUME NEW v \in Workers, At(v, "sync")'
      PROVE  IsTrueReport(work[v].request, work[v].saw)'
  <2>1. CASE work'[v] = work[v]
    <3>1. work[v].request \in Requests /\ IsTrueReport(work[v].request, work[v].saw)
      BY <1>2, <2>1 DEF ReportsAreTrue, HandlersAreSound, IsTrueMemory, At
    <3> QED
      BY <2>1, <3>1, <1>b DEF IsTrueReport
  <2>2. CASE work'[v] # work[v]
    <3>1. IsTrueReport(work'[v].request, work'[v].saw) /\ UNCHANGED world
      BY <1>2, <2>2, ReportReads DEF At
    <3> QED
      BY <3>1 DEF IsTrueReport, world
  <2> QED
    BY <2>1, <2>2
<1>3. \A q \in Requests : IsTrueReport(q, row[q])'
  <2>1. ASSUME RowsKept PROVE \A q \in Requests : IsTrueReport(q, row'[q])
    BY <2>1 DEF RowsKept, ReportsAreTrue
  <2>2. ASSUME NEW p \in Requests, Expired(p) PROVE \A q \in Requests : IsTrueReport(q, row'[q])
    BY <2>2 DEF Expired, ReportsAreTrue, IsTrueReport, TypeOK
  <2>3. ASSUME NEW p \in Requests, Stored(p) PROVE \A q \in Requests : IsTrueReport(q, row'[q])
    BY <2>3 DEF Stored, ReportsAreTrue, IsTrueReport, TypeOK
  <2>4. ASSUME NEW p \in Requests, NEW status \in RequestStatuses, Observed(p, status)
        PROVE  \A q \in Requests : IsTrueReport(q, row'[q])
    BY <2>4 DEF Observed, ReportsAreTrue, TypeOK
  <2>5. \A q \in Requests : IsTrueReport(q, row'[q])
    BY <2>1, <2>2, <2>3, <2>4, RowCases
  <2> QED
    BY <2>5, <1>b DEF IsTrueReport
<1> QED
  BY <1>1, <1>2, <1>3 DEF ReportsAreTrue, IsTrueReport

\* Rows only move forward, and never two of a slot are active.
LEMMA RequestsStep ==
  ASSUME RowsInv, [Next]_vars
  PROVE  RequestsAreSound'
<1>a. TypeOK /\ HandlersAreSound /\ ReportsAreTrue /\ ReportsAreTrue' /\ TypeOK'
  BY TypeStep, ReportsStep DEF RowsInv
<1>b. \A q \in Requests : owner[q] # None => owner'[q] = owner[q]
  BY <1>a, ProviderStays
<1>c. \A q \in Requests : owner[q] = None => row[q] = "absent"
  BY <1>a DEF HandlersAreSound, IsSoundRequest
<1> DEFINE OneActive == \A p, q \in Requests :
             row'[p] \in ActiveStatuses /\ row'[q] \in ActiveStatuses /\ owner[p] = owner[q] => p = q
           IsNext(q) == row'[q] # "absent" => owner[q] # None
<1>0. "absent" \notin ActiveStatuses /\ "expired" \notin ActiveStatuses
  BY DEF ActiveStatuses, Unsigned
<1>1. ASSUME RowsKept PROVE OneActive /\ \A q \in Requests : IsNext(q)
  BY <1>1, <1>c DEF RowsKept, RowsInv, RequestsAreSound
<1>2. ASSUME NEW r \in Requests, Expired(r) PROVE OneActive /\ \A q \in Requests : IsNext(q)
  <2>1. \A q \in Requests : row'[q] = IF q = r THEN "expired" ELSE row[q]
    BY <1>2 DEF Expired, TypeOK, RowsInv
  <2>2. row[r] # "absent"
    BY <1>2 DEF Expired, Unsigned
  <2> QED
    BY <2>1, <2>2, <1>0, <1>c DEF RowsInv, RequestsAreSound
<1>3. ASSUME NEW r \in Requests, Stored(r) PROVE OneActive /\ \A q \in Requests : IsNext(q)
  <2>1. \A q \in Requests : row'[q] = IF q = r THEN "available" ELSE row[q]
    BY <1>3 DEF Stored, TypeOK, RowsInv
  <2>2. \A q \in Requests : owner[q] = owner[r] => row[q] \notin ActiveStatuses
    BY <1>3 DEF Stored, Active
  <2> QED
    BY <1>3, <2>1, <2>2, <1>c DEF Stored, RowsInv, RequestsAreSound
<1>4. ASSUME NEW r \in Requests, NEW status \in RequestStatuses, Observed(r, status)
      PROVE  OneActive /\ \A q \in Requests : IsNext(q)
  <2>1. \A q \in Requests : row'[q] = IF q = r THEN status ELSE row[q]
    BY <1>4 DEF Observed, TypeOK, RowsInv
  <2>2. status \in ActiveStatuses =>
          \A q \in Requests : q # r /\ owner[q] = owner[r] => row[q] \notin ActiveStatuses
    BY <1>4 DEF Observed, Collides, Active
  <2> QED
    BY <1>4, <2>1, <2>2, <1>c DEF Observed, RowsInv, RequestsAreSound
<1> HIDE DEF OneActive, IsNext
<1>5. OneActive /\ \A q \in Requests : IsNext(q)
  BY <1>a, <1>1, <1>2, <1>3, <1>4, RowCases
<1>6. \A p, q \in Requests :
        row'[p] \in ActiveStatuses /\ row'[q] \in ActiveStatuses /\ owner'[p] = owner'[q] => p = q
  BY <1>0, <1>5, <1>b DEF OneActive, IsNext
<1>7. \A q \in Requests : IsTrueReport(q, row[q])'
  BY <1>a DEF ReportsAreTrue
<1> QED
  BY <1>6, <1>7 DEF RequestsAreSound, IsTrueReport

\* A slot that waits or is submitted keeps a row that says so.
LEMMA BackedStep ==
  ASSUME RowsInv, [Next]_vars
  PROVE  SlotStatusIsBacked'
<1>a. /\ TypeOK /\ HandlersAreSound /\ ReportsAreTrue /\ TypeOK'
      /\ slot \in [Slots -> SlotRecord]
  BY TypeStep DEF RowsInv, TypeOK, SlotRecord
<1>b. \A q \in Requests : row[q] # "absent" => owner[q] \in Slots /\ owner'[q] = owner[q]
  BY <1>a, ProviderStays DEF HandlersAreSound, IsSoundRequest, TypeOK
<1> DEFINE Backed(s) ==
             /\ slot'[s].status = "awaiting_signature" =>
                  \E q \in Requests : owner'[q] = s /\ row'[q] \in ActiveStatuses
             /\ slot'[s].status = "submitted" =>
                  \E q \in Requests : owner'[q] = s /\ row'[q] = "submitted"
           \* the slot is unchanged, and so is what backs it
           Untouched(s) ==
             /\ slot'[s].status \in {"awaiting_signature", "submitted"} => slot'[s].status = slot[s].status
             /\ \A q \in Requests : owner[q] = s /\ row[q] \in ActiveStatuses => row'[q] = row[q]
<1>c. ASSUME NEW s \in Slots, Untouched(s) PROVE Backed(s)
  <2>1. CASE slot'[s].status = "awaiting_signature"
    <3>1. PICK q \in Requests : owner[q] = s /\ row[q] \in ActiveStatuses
      BY <1>c, <2>1 DEF RowsInv, SlotStatusIsBacked, Active
    <3>2. row'[q] = row[q] /\ owner'[q] = s
      BY <1>b, <1>c, <3>1 DEF ActiveStatuses, Unsigned
    <3> QED
      BY <2>1, <3>1, <3>2
  <2>2. CASE slot'[s].status = "submitted"
    <3>1. PICK q \in Requests : owner[q] = s /\ row[q] = "submitted"
      BY <1>c, <2>2 DEF RowsInv, SlotStatusIsBacked
    <3>2. row'[q] = row[q] /\ owner'[q] = s
      BY <1>b, <1>c, <3>1 DEF ActiveStatuses, Unsigned
    <3> QED
      BY <2>2, <3>1, <3>2
  <2> QED
    BY <2>1, <2>2
<1>1. ASSUME RowsKept PROVE \A s \in Slots : Backed(s)
  BY <1>1, <1>c DEF RowsKept
<1>2. ASSUME NEW r \in Requests, NEW status \in RequestStatuses,
             row[r] # "absent", row' = [row EXCEPT ![r] = status],
             slot' = SlotFollows(owner[r], status),
             row[r] = "submitted" => status = "submitted"
      PROVE  \A s \in Slots : Backed(s)
  <2>1. \A q \in Requests : row'[q] = IF q = r THEN status ELSE row[q]
    BY <1>2, <1>a DEF TypeOK
  <2>2. ASSUME NEW s \in Slots, s # owner[r] PROVE Untouched(s)
    BY <1>2, <1>a, <2>1, <2>2 DEF SlotFollows, SlotRecord
  <2>3. Backed(owner[r])
    <3> DEFINE handed == SlotStatusForHandoff(status)
    <3>1. CASE slot[owner[r]].status \in {"paid", "needs_review"}
      BY <1>2, <3>1 DEF SlotFollows
    <3>2. CASE slot[owner[r]].status \notin {"paid", "needs_review"}
      <4>1. slot'[owner[r]].status = handed
        BY <1>2, <1>a, <1>b, <3>2 DEF SlotFollows, SlotRecord
      <4>2. handed = "awaiting_signature" => status \in ActiveStatuses
        BY DEF SlotStatusForHandoff, RequestStatuses, ActiveStatuses, Unsigned
      <4>3. handed = "submitted" => status = "submitted"
        BY DEF SlotStatusForHandoff
      <4>4. owner'[r] = owner[r] /\ row'[r] = status
        BY <1>2, <1>b, <2>1
      <4> HIDE DEF handed
      <4> QED
        BY <4>1, <4>2, <4>3, <4>4
    <3> QED
      BY <3>1, <3>2
  <2> QED
    BY <1>c, <2>2, <2>3
<1>3. ASSUME NEW r \in Requests, Expired(r) PROVE \A s \in Slots : Backed(s)
  <2>1. row[r] # "absent" /\ row[r] # "submitted" /\ "expired" \in RequestStatuses
    BY <1>3 DEF Expired, Unsigned, RequestStatuses
  <2> HIDE DEF Backed, Untouched
  <2> QED
    BY <1>2, <1>3, <2>1 DEF Expired
<1>4. ASSUME NEW r \in Requests, NEW status \in RequestStatuses, Observed(r, status)
      PROVE  \A s \in Slots : Backed(s)
  <2>1. row[r] = "submitted" => status = "submitted"
    BY <1>4 DEF Observed, ShouldApply
  <2> HIDE DEF Backed, Untouched
  <2> QED
    BY <1>2, <1>4, <2>1 DEF Observed
<1>5. ASSUME NEW r \in Requests, Stored(r) PROVE \A s \in Slots : Backed(s)
  <2>1. /\ \A q \in Requests : row'[q] = IF q = r THEN "available" ELSE row[q]
        /\ row[r] = "absent" /\ owner[r] \in Slots /\ owner'[r] = owner[r]
    BY <1>5, <1>a, ProviderStays DEF Stored, TypeOK
  <2>2. \A s \in Slots : s # owner[r] => slot'[s] = slot[s]
    BY <1>5, <1>a DEF Stored
  <2>3. ASSUME NEW s \in Slots, s # owner[r] PROVE Untouched(s)
    BY <2>1, <2>2, <2>3
  <2>4. slot[owner[r]].status # "submitted"
    BY <1>5, <2>1 DEF Stored, Active, RowsInv, SlotStatusIsBacked, ActiveStatuses
  <2>5. slot'[owner[r]].status # "submitted"
    BY <1>5, <1>a, <2>1, <2>4 DEF Stored, SlotRecord
  <2>6. Backed(owner[r])
    BY <2>1, <2>5 DEF ActiveStatuses, Unsigned
  <2> QED
    BY <1>c, <2>3, <2>6
<1> HIDE DEF Backed
<1>6. \A s \in Slots : Backed(s)
  BY <1>a, <1>1, <1>3, <1>4, <1>5, RowCases
<1> QED
  BY <1>6 DEF Backed, SlotStatusIsBacked, Active

LEMMA RowsInit == Init => RowsInv
<1> SUFFICES ASSUME Init PROVE RowsInv
  OBVIOUS
<1>1. ReportsAreTrue /\ RequestsAreSound /\ SlotStatusIsBacked
  BY DEF Init, ReportsAreTrue, IsTrueReport, At, Idle, RequestsAreSound, SlotStatusIsBacked,
     ActiveStatuses, Unsigned
<1> QED
  BY <1>1, TypeInit, SoundInit DEF RowsInv

LEMMA RowsNext == RowsInv /\ [Next]_vars => RowsInv'
<1> SUFFICES ASSUME RowsInv, [Next]_vars PROVE RowsInv'
  OBVIOUS
<1>1. TypeOK' /\ HandlersAreSound' /\ ReportsAreTrue'
  BY TypeStep, SoundStep, ReportsStep DEF RowsInv
<1> QED
  BY <1>1, RequestsStep, BackedStep DEF RowsInv

\* Never two active requests of one slot, and a terminal row tells the truth about
\* the provider's payload.
THEOREM RequestsCorrect == Spec => []RequestsAreSound
<1>1. RowsInv => RequestsAreSound
  BY DEF RowsInv
<1> QED
  BY <1>1, RowsInit, RowsNext, PTL DEF Spec

\* A slot that waits for a signature has an active request, a submitted one a
\* submitted request.
THEOREM SlotsAreBacked == Spec => []SlotStatusIsBacked
<1>1. RowsInv => SlotStatusIsBacked
  BY DEF RowsInv
<1> QED
  BY <1>1, RowsInit, RowsNext, PTL DEF Spec

\* Out-of-order observations never move a row backwards.
THEOREM RowsNeverRegress == Spec => RowNeverRegresses
<1> DEFINE Forward == \A q \in Requests : row'[q] # row[q] =>
        \/ row[q] = "absent"
        \/ row'[q] = "submitted"
        \/ /\ row[q] \in ActiveStatuses \ {"submitted"}
           /\ row'[q] \in ActiveStatuses => ActiveRank[row'[q]] > ActiveRank[row[q]]
<1>1. ASSUME RowsInv, [Next]_vars PROVE Forward
  <2>1. ASSUME RowsKept PROVE Forward
    BY <2>1 DEF RowsKept
  <2>2. ASSUME NEW r \in Requests, Expired(r) PROVE Forward
    BY <1>1, <2>2 DEF Expired, RowsInv, TypeOK, ActiveStatuses, Unsigned
  <2>3. ASSUME NEW r \in Requests, Stored(r) PROVE Forward
    BY <1>1, <2>3 DEF Stored, RowsInv, TypeOK
  <2>4. ASSUME NEW r \in Requests, NEW status \in RequestStatuses, Observed(r, status) PROVE Forward
    <3>1. \A q \in Requests : row'[q] = IF q = r THEN status ELSE row[q]
      BY <1>1, <2>4 DEF Observed, RowsInv, TypeOK
    <3>2. ASSUME row[r] \in ActiveStatuses, status \in ActiveStatuses, status # row[r],
                 ActiveRank[status] >= ActiveRank[row[r]]
          PROVE  ActiveRank[status] > ActiveRank[row[r]]
      BY <3>2 DEF ActiveRank, ActiveStatuses, Unsigned
    <3> QED
      BY <2>4, <3>1, <3>2 DEF Observed, ShouldApply
  <2> HIDE DEF Forward
  <2> QED
    BY <1>1, <2>1, <2>2, <2>3, <2>4, RowCases DEF RowsInv
<1>2. RowsInv /\ [Next]_vars => [Forward]_vars
  BY <1>1
<1> QED
  BY <1>2, RowsInit, RowsNext, PTL DEF Spec, RowNeverRegresses

-----------------------------------------------------------------------------
(***************************************************************************)
(* When the clocks are timely, no slot is paid twice on the ledger, for    *)
(* any sets of slots, requests and workers. The argument:                  *)
(*   - a request that elapsed is decided on the ledger;                    *)
(*   - a handler that found no payment and creates a replacement therefore *)
(*     knows that every payment made meanwhile belongs to a request that   *)
(*     has not elapsed, so its row is active still and the index refuses   *)
(*     the replacement;                                                    *)
(*   - of the requests that are stored before the payment, none can be     *)
(*     applied after it: the payment used their Sequence up.               *)
(***************************************************************************)

Applied(s) == {q \in Requests : owner[q] = s /\ ledger[q] \in Validated}

\* The Sequence counts the applied requests, which only become more.
LEMMA SequenceGrows ==
  ASSUME NEW s, Applied(s) \subseteq Applied(s)'
  PROVE  Sequence(s) \in Nat /\ Sequence(s)' \in Nat /\ Sequence(s) <= Sequence(s)'
<1>1. IsFiniteSet(Applied(s)) /\ IsFiniteSet(Applied(s)')
  BY ConstantsOK, FS_Subset DEF Applied
<1>2. Cardinality(Applied(s)) <= Cardinality(Applied(s)')
  BY <1>1, FS_Subset
<1> QED
  BY <1>1, <1>2, FS_CardinalityType DEF Sequence, Applied

LEMMA SequenceSteps ==
  ASSUME NEW s, NEW q \in Requests, q \notin Applied(s), Applied(s)' = Applied(s) \cup {q}
  PROVE  Sequence(s)' = Sequence(s) + 1
<1>1. IsFiniteSet(Applied(s))
  BY ConstantsOK, FS_Subset DEF Applied
<1>2. Cardinality(Applied(s)') = Cardinality(Applied(s)) + 1
  BY <1>1, FS_AddElement
<1> QED
  BY <1>2 DEF Sequence, Applied

-----------------------------------------------------------------------------
\* An elapsed request is decided.
ElapsedIsDecided == \A q \in Requests : q \in elapsed => ledger[q] \notin {"unsent", "pending"}

\* Nothing is on the ledger that was not signed.
UnsignedIsUnsent ==
    \A q \in Requests :
        payload[q] \in {"none", "available", "opened", "rejected"} => ledger[q] \in {"unsent", "lapsed"}

\* A payment that a replacing handler does not know of has not elapsed.
ReplacingIsFresh ==
    \A w \in Workers : work[w].step \in {"cleared", "created"} =>
        \A q \in Matching(work[w].slot) : q \notin elapsed

\* No request is pinned to a Sequence of the future.
PinsAreSequences ==
    \A s \in Slots, q \in Requests : owner[q] = s => pin[q] <= Sequence(s)

\* Once a slot is paid on the ledger, its other stored requests are dead.
OthersAreDead ==
    \A s \in Slots : \A p, q \in Requests :
        p # q /\ owner[p] = s /\ owner[q] = s /\ ledger[p] = "success" /\ row[q] # "absent" =>
            ledger[q] # "success" /\ pin[q] < Sequence(s)

PaymentInv ==
    /\ RowsInv
    /\ ElapsedIsDecided /\ UnsignedIsUnsent /\ ReplacingIsFresh
    /\ PinsAreSequences /\ OthersAreDead

-----------------------------------------------------------------------------
Created(w, q) ==
    /\ work[w].slot \in Slots /\ owner[q] = None
    /\ row[q] = "absent" /\ ledger[q] = "unsent" /\ q \notin elapsed
    /\ owner' = [owner EXCEPT ![q] = work[w].slot]
    /\ payload' = [payload EXCEPT ![q] = "available"]
    /\ pin' = [pin EXCEPT ![q] = Sequence(work[w].slot)]
    /\ UNCHANGED <<row, elapsed, ledger>>

\* What one step can do to the world.
LEMMA WorldCases ==
  ASSUME TypeOK, HandlersAreSound, [Next]_vars
  PROVE  \/ UNCHANGED world
         \/ \E w \in Workers, q \in Requests : Created(w, q)
         \/ \E q \in Requests : Surroundings(q) /\ UNCHANGED <<db, work, owner, pin>>
<1> DEFINE Cases == \/ UNCHANGED world
                    \/ \E w \in Workers, q \in Requests : Created(w, q)
                    \/ \E q \in Requests : Surroundings(q) /\ UNCHANGED <<db, work, owner, pin>>
<1>1. ASSUME NEW w \in Workers, CreateHandoff(w) PROVE Cases
  <2>1. PICK q \in Requests :
          /\ owner[q] = None
          /\ owner' = [owner EXCEPT ![q] = work[w].slot]
          /\ payload' = [payload EXCEPT ![q] = "available"]
          /\ pin' = [pin EXCEPT ![q] = Sequence(work[w].slot)]
    BY <1>1 DEF CreateHandoff
  <2>2. work[w].slot \in Slots /\ row[q] = "absent" /\ ledger[q] = "unsent" /\ q \notin elapsed
    BY <1>1, <2>1 DEF CreateHandoff, At, HandlersAreSound, IsTrueMemory, IsSoundRequest
  <2>3. UNCHANGED <<row, elapsed, ledger>>
    BY <1>1 DEF CreateHandoff, db
  <2>4. Created(w, q)
    BY <2>1, <2>2, <2>3 DEF Created
  <2> QED
    BY <2>4
<1>2. ASSUME NEW w \in Workers, CreateStep(w) PROVE Cases
  <2>1. CASE ~CreateHandoff(w)
    BY <1>2, <2>1 DEF CreateStep, BeginCreate, LoadSlot, FindStale, ExpireActive, ResumeActive,
       ContinueCreate, Reconcile, PersistRequest
  <2> QED
    BY <1>1, <2>1
<1>3. ASSUME NEW w \in Workers, VerifyStep(w) \/ SyncStep(w) \/ OperatorStep(w) \/ Abandon(w)
      PROVE  Cases
  BY <1>3 DEF VerifyStep, VerifyPayment, Settle, MarkReview, MarkMultiple, SyncStep, FetchPayload,
     ApplyObservation, OperatorStep, LoadReview, AuthorizeRetry, LoadClosure, CloseBill, Abandon
<1>4. ASSUME NEW q \in Requests, Surroundings(q) PROVE Cases
  <2>1. UNCHANGED <<db, work, owner, pin>>
    BY <1>4 DEF Surroundings, Open, Sign, Resolve, Decline, Validate, Lapse, Elapse
  <2> QED
    BY <1>4, <2>1
<1>5. ASSUME UNCHANGED vars PROVE Cases
  BY <1>5 DEF vars
<1> HIDE DEF Cases
<1>6. Cases
  BY <1>2, <1>3, <1>4, <1>5 DEF Next, HandlerStep
<1> QED
  BY <1>6 DEF Cases

\* How a handler comes to replace a request.
LEMMA ReplacingCases ==
  ASSUME TypeOK, HandlersAreSound, [Next]_vars, NEW v \in Workers,
         work'[v].step \in {"cleared", "created"}
  PROVE  \/ work'[v] = work[v]
         \/ /\ work'[v].slot = work[v].slot /\ work[v].step = "cleared"
         \/ /\ work'[v].slot = work[v].slot /\ Matching(work[v].slot) = {}
            /\ UNCHANGED <<world, row>>
<1> DEFINE Cases == \/ work'[v] = work[v]
                    \/ /\ work'[v].slot = work[v].slot /\ work[v].step = "cleared"
                    \/ /\ work'[v].slot = work[v].slot /\ Matching(work[v].slot) = {}
                       /\ UNCHANGED <<world, row>>
<1>1. ASSUME NEW w \in Workers, NEW memory, work' = [work EXCEPT ![w] = memory],
             memory.step \notin {"cleared", "created"}
      PROVE  Cases
  BY <1>1 DEF TypeOK
<1>2. ASSUME NEW w \in Workers, Return(w) PROVE Cases
  BY <1>1, <1>2 DEF Return, Idle
<1>3. ASSUME NEW w \in Workers, ProceedIfPayable(w) PROVE Cases
  <2>1. Idle.step = "idle" /\ \A s : [Idle EXCEPT !.step = "payable", !.slot = s].step = "payable"
    BY DEF Idle
  <2> HIDE DEF Cases
  <2> QED
    BY <1>1, <1>3, <2>1 DEF ProceedIfPayable
<1>a. ASSUME NEW w \in Workers, NEW step, Go(w, step)
      PROVE  /\ work'[w].step = step /\ work'[w].slot = work[w].slot
             /\ \A u \in Workers : u # w => work'[u] = work[u]
  BY <1>a DEF Go, TypeOK
<1>4. ASSUME NEW w \in Workers, CreateStep(w) PROVE Cases
  <2>1. ASSUME FindStale(w) PROVE Cases
    <3>1. PICK q \in StaleRequests(work[w].slot) :
            work' = [work EXCEPT ![w] = [work[w] EXCEPT !.step = "expire", !.request = q]]
      BY <2>1 DEF FindStale
    <3> QED
      BY <3>1 DEF TypeOK
  <2>2. ASSUME LoadSlot(w) PROVE Cases
    BY <2>2 DEF LoadSlot, TypeOK
  <2>3. ASSUME NEW s \in Slots, BeginCreate(w, s) PROVE Cases
    <3>1. [Idle EXCEPT !.step = "details", !.slot = s].step = "details"
      BY DEF Idle
    <3> HIDE DEF Cases
    <3> QED
      BY <2>3, <3>1, <1>1 DEF BeginCreate
  <2>4. ASSUME ExpireActive(w) \/ ContinueCreate(w) PROVE Cases
    BY <2>4, <1>3 DEF ExpireActive, ContinueCreate
  <2>5. ASSUME ResumeActive(w) \/ PersistRequest(w) PROVE Cases
    BY <2>5, <1>2 DEF ResumeActive, PersistRequest
  <2>6. ASSUME Reconcile(w) PROVE Cases
    <3>1. UNCHANGED <<world, row>>
      BY <2>6 DEF Reconcile, db
    <3>2. CASE ~HasPriorRequest(work[w].slot)
      <4>1. Matching(work[w].slot) = {}
        BY <3>2 DEF HasPriorRequest, Matching, HandlersAreSound, IsSoundRequest
      <4>2. Go(w, "cleared") \/ Go(w, "multiple")
        BY <2>6, <3>2 DEF Reconcile
      <4> QED
        BY <1>a, <3>1, <4>1, <4>2
    <3>3. CASE Matching(work[w].slot) = {}
      <4>1. Go(w, "cleared") \/ Go(w, "multiple")
        BY <2>6, <3>3 DEF Reconcile
      <4> QED
        BY <1>a, <3>1, <3>3, <4>1
    <3>4. CASE HasPriorRequest(work[w].slot) /\ Matching(work[w].slot) # {}
      <4>1. \/ Go(w, "multiple")
            \/ \E q : work' = [work EXCEPT ![w] = [work[w] EXCEPT !.step = "settle", !.request = q]]
        BY <2>6, <3>4 DEF Reconcile
      <4>2. ASSUME NEW q,
                   work' = [work EXCEPT ![w] = [work[w] EXCEPT !.step = "settle", !.request = q]]
            PROVE  Cases
        BY <4>2 DEF TypeOK
      <4> QED
        BY <1>a, <4>1, <4>2
    <3> QED
      BY <3>2, <3>3, <3>4
  <2>7. ASSUME CreateHandoff(w) PROVE Cases
    <3>1. PICK q \in Requests :
            work' = [work EXCEPT ![w] = [work[w] EXCEPT !.step = "created", !.request = q]]
      BY <2>7 DEF CreateHandoff
    <3>2. work[w].step = "cleared"
      BY <2>7 DEF CreateHandoff, At
    <3> QED
      BY <3>1, <3>2 DEF TypeOK
  <2> HIDE DEF Cases
  <2> QED
    BY <1>4, <2>1, <2>2, <2>3, <2>4, <2>5, <2>6, <2>7 DEF CreateStep
<1>5. ASSUME NEW w \in Workers, VerifyStep(w) PROVE Cases
  <2>1. ASSUME NEW s \in Slots, NEW q \in Requests, VerifyPayment(w, s, q) PROVE Cases
    <3> DEFINE matched == [Idle EXCEPT !.step = "settle", !.slot = s, !.request = q]
               questioned == [Idle EXCEPT !.step = "review", !.slot = s]
    <3>1. matched.step = "settle" /\ questioned.step = "review"
      BY DEF Idle
    <3>2. work' = [work EXCEPT ![w] = matched] \/ work' = [work EXCEPT ![w] = questioned]
      BY <2>1 DEF VerifyPayment
    <3> HIDE DEF matched, questioned, Cases
    <3> QED
      BY <3>1, <3>2, <1>1
  <2> QED
    BY <1>2, <1>5, <2>1 DEF VerifyStep, Settle, MarkReview, MarkMultiple
<1>6. ASSUME NEW w \in Workers, SyncStep(w) PROVE Cases
  <2>1. ASSUME NEW q \in Requests, FetchPayload(w, q) PROVE Cases
    <3> DEFINE saw == Observation(q)
               memory == [Idle EXCEPT !.step = "sync", !.slot = owner[q], !.request = q, !.saw = saw]
    <3> HIDE DEF saw
    <3>1. memory.step = "sync"
      BY DEF Idle
    <3>2. work' = [work EXCEPT ![w] = memory]
      BY <2>1 DEF FetchPayload, saw
    <3> HIDE DEF memory, Cases
    <3> QED
      BY <3>1, <3>2, <1>1
  <2> QED
    BY <1>2, <1>6, <2>1 DEF SyncStep, ApplyObservation
<1>7. ASSUME NEW w \in Workers, OperatorStep(w) PROVE Cases
  <2>1. /\ [Idle EXCEPT !.step = "close"].step = "close"
        /\ \A s : [Idle EXCEPT !.step = "authorize", !.slot = s].step = "authorize"
    BY DEF Idle
  <2>2. ASSUME LoadClosure(w) \/ \E s \in Slots : LoadReview(w, s) PROVE Cases
    BY <2>1, <2>2, <1>1 DEF LoadClosure, LoadReview
  <2> QED
    BY <1>2, <1>7, <2>2 DEF OperatorStep, AuthorizeRetry, CloseBill
<1>8. ASSUME NEW w \in Workers, Abandon(w) PROVE Cases
  BY <1>2, <1>8 DEF Abandon
<1>9. ASSUME NEW q \in Requests, Surroundings(q) PROVE Cases
  BY <1>9 DEF Surroundings, Open, Sign, Resolve, Decline, Validate, Lapse, Elapse
<1>10. ASSUME UNCHANGED vars PROVE Cases
  BY <1>10 DEF vars
<1> HIDE DEF Cases
<1>11. Cases
  BY <1>4, <1>5, <1>6, <1>7, <1>8, <1>9, <1>10 DEF Next, HandlerStep
<1> QED
  BY <1>11 DEF Cases

-----------------------------------------------------------------------------
\* Surroundings change the ledger of one request only, and only Validate applies it.
LEMMA LedgerMoves ==
  ASSUME TypeOK, NEW q \in Requests, Surroundings(q)
  PROVE  /\ \A p \in Requests : p # q => ledger'[p] = ledger[p] /\ payload'[p] = payload[p]
                                      /\ (p \in elapsed' <=> p \in elapsed)
         /\ \/ Validate(q)
            \/ ledger'[q] = ledger[q]
            \/ ledger[q] \notin Validated /\ ledger'[q] \notin Validated
  BY DEF Surroundings, Open, Sign, Resolve, Decline, Validate, Lapse, Elapse, TypeOK, Validated

LEMMA DecidedStep ==
  ASSUME Timely, PaymentInv, [Next]_vars
  PROVE  ElapsedIsDecided' /\ UnsignedIsUnsent'
<1>a. TypeOK /\ HandlersAreSound /\ ElapsedIsDecided /\ UnsignedIsUnsent
  BY DEF PaymentInv, RowsInv
<1>1. CASE UNCHANGED world
  BY <1>1, <1>a DEF world, ElapsedIsDecided, UnsignedIsUnsent
<1>2. ASSUME NEW w \in Workers, NEW q \in Requests, Created(w, q)
      PROVE  ElapsedIsDecided' /\ UnsignedIsUnsent'
  BY <1>2, <1>a DEF Created, ElapsedIsDecided, UnsignedIsUnsent, TypeOK
<1>3. ASSUME NEW q \in Requests, Surroundings(q)
      PROVE  ElapsedIsDecided' /\ UnsignedIsUnsent'
  <2>1. q \in elapsed' => ledger'[q] \notin {"unsent", "pending"}
    BY <1>3, <1>a DEF Surroundings, Open, Sign, Resolve, Decline, Validate, Lapse, Elapse,
       TypeOK, Validated, ElapsedIsDecided
  <2>2. payload'[q] \in {"none", "available", "opened", "rejected"} =>
          ledger'[q] \in {"unsent", "lapsed"}
    BY <1>3, <1>a DEF Surroundings, Open, Sign, Resolve, Decline, Validate, Lapse, Elapse,
       TypeOK, UnsignedIsUnsent
  <2> QED
    BY <1>3, <1>a, <2>1, <2>2, LedgerMoves DEF ElapsedIsDecided, UnsignedIsUnsent
<1> QED
  BY <1>a, <1>1, <1>2, <1>3, WorldCases

LEMMA FreshStep ==
  ASSUME Timely, PaymentInv, [Next]_vars
  PROVE  ReplacingIsFresh'
<1>a. /\ TypeOK /\ HandlersAreSound /\ ElapsedIsDecided /\ ReplacingIsFresh
      /\ \A w \in Workers : work[w].step \in {"cleared", "created"} => work[w].slot # None
  BY ConstantsOK DEF PaymentInv, RowsInv, HandlersAreSound, IsTrueMemory
<1> SUFFICES ASSUME NEW v \in Workers, work'[v].step \in {"cleared", "created"},
                    NEW p \in Requests, owner'[p] = work'[v].slot, ledger'[p] = "success"
             PROVE  p \notin elapsed'
  BY DEF ReplacingIsFresh, Matching
<1>1. CASE UNCHANGED world
  BY <1>1, <1>a, ReplacingCases DEF world, ReplacingIsFresh, Matching
<1>2. ASSUME NEW w \in Workers, NEW q \in Requests, Created(w, q) PROVE p \notin elapsed'
  <2>1. p # q /\ owner'[p] = owner[p] /\ ledger'[p] = ledger[p] /\ elapsed' = elapsed
    BY <1>2, <1>a DEF Created, TypeOK
  <2> QED
    BY <1>a, <2>1, ReplacingCases DEF ReplacingIsFresh, Matching
<1>3. ASSUME NEW q \in Requests, Surroundings(q), UNCHANGED <<work, owner>> PROVE p \notin elapsed'
  <2>1. CASE Elapse(q) /\ p = q
    BY <1>3, <2>1, <1>a DEF Elapse, TypeOK, ReplacingIsFresh
  <2>2. CASE Validate(q) /\ p = q
    BY <2>2, <1>a DEF Validate, ElapsedIsDecided
  <2>3. CASE p # q \/ (~Elapse(q) /\ ~Validate(q))
    <3>1. elapsed' = elapsed \/ Elapse(q)
      BY <1>3 DEF Surroundings, Open, Sign, Resolve, Decline, Validate, Lapse
    <3>2. ledger'[p] = ledger[p] /\ (p \in elapsed' => p \in elapsed)
      BY <1>3, <1>a, <2>3, <3>1, LedgerMoves DEF Validated
    <3> QED
      BY <1>3, <1>a, <3>2 DEF ReplacingIsFresh, Matching
  <2> QED
    BY <2>1, <2>2, <2>3
<1> QED
  BY <1>a, <1>1, <1>2, <1>3, WorldCases

LEMMA PinsStep ==
  ASSUME Timely, PaymentInv, [Next]_vars
  PROVE  PinsAreSequences' /\ \A s \in Slots : Applied(s) \subseteq Applied(s)'
<1>a. TypeOK /\ TypeOK' /\ HandlersAreSound /\ PinsAreSequences
  BY TypeStep DEF PaymentInv, RowsInv
<1>1. CASE UNCHANGED world
  BY <1>1, <1>a DEF world, PinsAreSequences, Sequence, Applied
<1>2. ASSUME NEW w \in Workers, NEW q \in Requests, Created(w, q)
      PROVE  PinsAreSequences' /\ \A s \in Slots : Applied(s) \subseteq Applied(s)'
  <2>1. /\ \A p \in Requests : p # q => owner'[p] = owner[p] /\ pin'[p] = pin[p]
        /\ ledger' = ledger /\ ledger[q] = "unsent"
        /\ owner'[q] = work[w].slot /\ pin'[q] = Sequence(work[w].slot)
    BY <1>2, <1>a DEF Created, TypeOK
  <2>2. \A s : Applied(s)' = Applied(s)
    BY <2>1 DEF Applied, Validated
  <2>3. \A s : Sequence(s)' = Sequence(s) /\ Sequence(s) \in Nat
    BY <2>2, SequenceIsNat DEF Sequence, Applied
  <2> QED
    BY <1>a, <2>1, <2>2, <2>3 DEF PinsAreSequences
<1>3. ASSUME NEW q \in Requests, Surroundings(q), UNCHANGED <<owner, pin>>
      PROVE  PinsAreSequences' /\ \A s \in Slots : Applied(s) \subseteq Applied(s)'
  <2>1. \A p \in Requests : ledger[p] \in Validated => ledger'[p] \in Validated
    BY <1>3, <1>a, LedgerMoves DEF Validate, Validated
  <2>2. \A s : Applied(s) \subseteq Applied(s)'
    BY <1>3, <2>1 DEF Applied
  <2>3. \A s : Sequence(s) \in Nat /\ Sequence(s)' \in Nat /\ Sequence(s) <= Sequence(s)'
    BY <2>2, SequenceGrows
  <2>4. \A p \in Requests : pin[p] \in Nat
    BY <1>a DEF TypeOK
  <2>5. ASSUME NEW s \in Slots, NEW p \in Requests, owner'[p] = s PROVE pin'[p] <= Sequence(s)'
    <3>1. pin[p] <= Sequence(s) /\ pin'[p] = pin[p]
      BY <1>3, <1>a, <2>5 DEF PinsAreSequences
    <3> QED
      BY <2>3, <2>4, <3>1
  <2> QED
    BY <2>2, <2>5 DEF PinsAreSequences
<1> QED
  BY <1>a, <1>1, <1>2, <1>3, WorldCases

\* A replacement is stored only when no payment of the slot exists.
LEMMA StoredIsFirst ==
  ASSUME PaymentInv, NEW r \in Requests, Stored(r),
         NEW p \in Requests, owner[p] = owner[r]
  PROVE  ledger[p] # "success"
<1> SUFFICES ASSUME ledger[p] = "success" PROVE FALSE
  OBVIOUS
<1>1. row[p] \in RequestStatuses /\ payload[p] # "rejected"
  BY DEF PaymentInv, RowsInv, TypeOK, HandlersAreSound, IsSoundRequest, UnsignedIsUnsent
<1>2. row[p] \notin ActiveStatuses
  BY DEF Stored, Active
<1>3. IsTrueReport(p, row[p])
  BY DEF PaymentInv, RowsInv, ReportsAreTrue
<1>4. p \notin elapsed
  BY DEF Stored, PaymentInv, ReplacingIsFresh, Matching
<1> QED
  BY <1>1, <1>2, <1>3, <1>4 DEF IsTrueReport, RequestStatuses

LEMMA DeadStep ==
  ASSUME Timely, PaymentInv, [Next]_vars
  PROVE  OthersAreDead'
<1>a. TypeOK /\ HandlersAreSound /\ ReportsAreTrue /\ OthersAreDead /\ PinsAreSequences
  BY DEF PaymentInv, RowsInv
<1>b. \A s \in Slots : Sequence(s) \in Nat /\ Sequence(s)' \in Nat /\ Sequence(s) <= Sequence(s)'
  BY PinsStep, SequenceGrows
<1>c. \A q \in Requests : pin[q] \in Nat
  BY <1>a DEF TypeOK
<1> SUFFICES ASSUME NEW s \in Slots, NEW p \in Requests, NEW q \in Requests, p # q,
                    owner'[p] = s, owner'[q] = s, ledger'[p] = "success", row'[q] # "absent"
             PROVE  ledger'[q] # "success" /\ pin'[q] < Sequence(s)'
  BY DEF OthersAreDead
\* nothing new happens to the two requests
<1>d. ASSUME owner[p] = s, owner[q] = s, ledger[p] = "success", row[q] # "absent",
             ledger'[q] = ledger[q], pin'[q] = pin[q]
      PROVE  ledger'[q] # "success" /\ pin'[q] < Sequence(s)'
  <2>1. ledger[q] # "success" /\ pin[q] < Sequence(s)
    BY <1>a, <1>d DEF OthersAreDead
  <2> QED
    BY <1>b, <1>c, <1>d, <2>1
<1>1. CASE UNCHANGED world
  <2>1. CASE row[q] # "absent"
    BY <1>1, <1>d, <2>1 DEF world
  <2>2. CASE row[q] = "absent"
    <3>1. Stored(q)
      <4>1. \A r \in Requests : row'[q] = row[q] \/ r = q \/ ~(Expired(r) \/ Stored(r))
        BY <1>a DEF Expired, Stored, TypeOK
      <4>2. \A r \in Requests, status \in RequestStatuses :
              row'[q] = row[q] \/ r = q \/ ~Observed(r, status)
        BY <1>a DEF Observed, TypeOK
      <4>3. ~Expired(q) /\ \A status \in RequestStatuses : ~Observed(q, status)
        BY <2>2 DEF Expired, Observed, Unsigned
      <4> QED
        BY <1>a, <2>2, <4>1, <4>2, <4>3, RowCases DEF RowsKept
    <3>2. ledger[p] # "success"
      BY <1>1, <3>1, StoredIsFirst DEF world
    <3> QED
      BY <1>1, <3>2 DEF world
  <2> QED
    BY <2>1, <2>2
<1>2. ASSUME NEW w \in Workers, NEW r \in Requests, Created(w, r)
      PROVE  ledger'[q] # "success" /\ pin'[q] < Sequence(s)'
  <2>1. /\ ledger' = ledger /\ row' = row /\ ledger[r] = "unsent" /\ row[r] = "absent"
        /\ \A t \in Requests : t # r => owner'[t] = owner[t] /\ pin'[t] = pin[t]
    BY <1>2, <1>a DEF Created, TypeOK
  <2>2. p # r /\ q # r
    BY <2>1
  <2> QED
    BY <1>d, <2>1, <2>2
<1>3. ASSUME NEW r \in Requests, Surroundings(r), UNCHANGED <<db, work, owner, pin>>
      PROVE  ledger'[q] # "success" /\ pin'[q] < Sequence(s)'
  <2>0. row' = row
    BY <1>3 DEF db
  <2>1. CASE p # r /\ q # r
    BY <1>3, <1>a, <1>d, <2>0, <2>1, LedgerMoves
  <2>2. CASE ~Validate(r)
    <3>1. ledger[p] = "success"
      BY <1>3, <1>a, <2>2, LedgerMoves DEF Validated
    <3>2. ledger[q] # "success" /\ pin[q] < Sequence(s)
      BY <1>3, <1>a, <2>0, <3>1 DEF OthersAreDead
    <3>3. ledger'[q] # "success"
      BY <1>3, <1>a, <2>2, <3>2, LedgerMoves DEF Validated
    <3> QED
      BY <1>3, <1>b, <1>c, <3>2, <3>3
  <2>3. CASE Validate(r) /\ q = r
    \* q was dead before, so its Sequence is not the next one
    <3>1. ledger[p] = "success"
      BY <1>3, <1>a, <2>3, LedgerMoves
    <3>2. pin[q] < Sequence(s)
      BY <1>3, <1>a, <2>0, <3>1 DEF OthersAreDead
    <3>3. pin[q] = Sequence(s)
      BY <1>3, <2>3 DEF Validate
    <3> QED
      BY <1>b, <1>c, <3>2, <3>3
  <2>4. CASE Validate(r) /\ p = r
    \* the payment is made now: it uses up the Sequence of q
    <3>1. /\ ledger[r] = "pending" /\ pin[r] = Sequence(s)
          /\ ledger'[r] \in Validated /\ \A t \in Requests : t # r => ledger'[t] = ledger[t]
      BY <1>3, <1>a, <2>4 DEF Validate, TypeOK
    <3>2. r \notin Applied(s) /\ Applied(s)' = Applied(s) \cup {r}
      BY <1>3, <2>4, <3>1 DEF Applied, Validated
    <3>3. Sequence(s)' = Sequence(s) + 1
      BY <3>2, SequenceSteps
    <3>4. pin[q] <= Sequence(s)
      BY <1>3, <1>a DEF PinsAreSequences
    <3>5. pin'[q] < Sequence(s)'
      BY <1>3, <1>b, <1>c, <3>3, <3>4
    <3>6. ledger[q] # "success"
      <4>1. row[r] # "absent"
        BY <1>a, <3>1 DEF HandlersAreSound, IsSoundRequest
      <4>2. ledger[q] = "success" => pin[r] < Sequence(s)
        BY <1>3, <1>a, <2>4, <4>1 DEF OthersAreDead
      <4> QED
        BY <1>b, <1>c, <3>1, <4>2
    <3> QED
      BY <2>4, <3>1, <3>5, <3>6
  <2> QED
    BY <2>1, <2>2, <2>3, <2>4
<1> QED
  BY <1>a, <1>1, <1>2, <1>3, WorldCases

LEMMA PaymentInit == Init => PaymentInv
<1> SUFFICES ASSUME Init PROVE PaymentInv
  OBVIOUS
<1>1. PinsAreSequences
  BY SequenceIsNat, ConstantsOK DEF Init, PinsAreSequences
<1>2. ElapsedIsDecided /\ UnsignedIsUnsent /\ ReplacingIsFresh /\ OthersAreDead
  BY DEF Init, ElapsedIsDecided, UnsignedIsUnsent, ReplacingIsFresh, OthersAreDead, Idle
<1> QED
  BY <1>1, <1>2, RowsInit DEF PaymentInv

\* When the clocks are timely, no slot is paid twice on the ledger.
THEOREM OnePaymentPerSlot ==
  ASSUME Timely
  PROVE  Spec => []AtMostOnePayment
<1>1. PaymentInv /\ [Next]_vars => PaymentInv'
  <2> SUFFICES ASSUME PaymentInv, [Next]_vars PROVE PaymentInv'
    OBVIOUS
  <2> QED
    BY RowsNext, DecidedStep, FreshStep, PinsStep, DeadStep DEF PaymentInv
<1>2. PaymentInv => AtMostOnePayment
  <2> SUFFICES ASSUME PaymentInv, NEW p \in Requests, NEW q \in Requests,
                      ledger[p] = "success", ledger[q] = "success", owner[p] = owner[q], p # q
               PROVE  FALSE
    BY DEF AtMostOnePayment
  <2>1. row[q] # "absent" /\ owner[q] \in Slots
    BY DEF PaymentInv, RowsInv, TypeOK, HandlersAreSound, IsSoundRequest
  <2> QED
    BY <2>1 DEF PaymentInv, OthersAreDead
<1> QED
  BY <1>1, <1>2, PaymentInit, PTL DEF Spec

=============================================================================
