------------------------ MODULE TrustSetPage_proofs -------------------------
(***************************************************************************)
(* Proofs about TrustSetPreparation and TrustSetPage, for any payloads and *)
(* any number of handlers and calls: a verification is kept, nothing is    *)
(* verified unsigned, and the page says ready only when it is.             *)
(***************************************************************************)
EXTENDS TrustSetPage, TLAPS

USE PreparationConstantsOK

\* What a handler hears of a payload.
Heard == {"awaiting_signature", "submitted", "rejected", "expired", "failed"}

Given(p, states) == p \in Payloads /\ states[p] \notin {"none", "created"}

\* The payload a handler synchronizes was given to the holder, and what it heard
\* of a submission stays true.
IsTrueMemory(m, states) ==
    /\ m.step = "store" => m.payload \in Payloads /\ states[m.payload] = "created"
    /\ m.step \in {"load", "fetch", "apply"} => Given(m.payload, states)
    /\ m.step = "apply" =>
        /\ m.heard \in Heard
        /\ m.heard = "submitted" => states[m.payload] = "resolved"
    /\ m.step \in {"reload", "verify", "conclude", "recheck", "fallback"} =>
        m.payload \in Payloads /\ states[m.payload] = "resolved"
    /\ m.step = "conclude" => m.heard \in Verdicts

\* No two handlers are about to store the same payload.
MemoryIsTrue ==
    /\ \A w \in Workers : IsTrueMemory(work[w], payload)
    /\ \A v, w \in Workers : v # w /\ At(v, "store") /\ At(w, "store") =>
        work[v].payload # work[w].payload

\* The inductive invariant.
PreparationInv ==
    TypeOK /\ MemoryIsTrue /\ RowIsBacked /\ VerificationFollowsSignature

RowRecord == [status : Statuses, payload : Payloads \cup {None},
              tx : Payloads \cup {None}]

Memory == [step : Steps, payload : Payloads \cup {None}, saw : Statuses,
           heard : Statuses \cup Verdicts \cup {"nothing"}]

LEMMA IdleIsMemory == Idle \in Memory
  BY DEF Idle, Memory, Steps, Statuses

\* Two ways a handler's memory changes.
LEMMA MemoryUpdates ==
  ASSUME NEW m \in Memory, NEW step \in Steps
  PROVE  /\ [m EXCEPT !.step = step] \in Memory
         /\ \A p \in Payloads : [m EXCEPT !.step = step, !.payload = p] \in Memory
         /\ \A status \in Statuses : [m EXCEPT !.step = step, !.saw = status] \in Memory
         /\ \A heard \in Heard \cup Verdicts :
                [m EXCEPT !.step = step, !.heard = heard] \in Memory
  BY DEF Memory, Heard, Statuses, Ended, InVerification

\* One write of UPDATE_STATUS, by a handler whose payload was given to the holder.
LEMMA UpdateKeepsRow ==
  ASSUME TypeOK, RowIsBacked, VerificationFollowsSignature,
         NEW saw \in Statuses, NEW next \in Statuses \ {"required", "not_required"},
         NEW p, Given(p, payload),
         next \in InVerification \cup {"ready"} => payload[p] = "resolved",
         prep.payload # None, UpdateStatus(saw, next, p), payload' = payload
  PROVE  prep' \in RowRecord /\ RowIsBacked' /\ VerificationFollowsSignature'
<1>1. CASE prep' = prep
  BY <1>1 DEF TypeOK, RowIsBacked, VerificationFollowsSignature, RowRecord
<1>2. CASE prep' # prep
  <2>1. /\ prep'.status = next /\ prep'.payload = prep.payload
        /\ prep'.tx \in {prep.tx, p} /\ prep' \in RowRecord
    BY <1>2 DEF UpdateStatus, TypeOK, RowRecord, Given
  <2>2. RowIsBacked'
    BY <2>1 DEF RowIsBacked, Given
  <2>3. VerificationFollowsSignature'
    BY <2>1 DEF VerificationFollowsSignature, Given
  <2> QED
    BY <2>1, <2>2, <2>3
<1> QED
  BY <1>1, <1>2

\* Who changes the payloads, and who writes the row.
LEMMA WritersOfPayloads ==
  ASSUME Next
  PROVE  \/ payload' = payload
         \/ \E w \in Workers : CreatePayload(w) \/ StoreHandoff(w)
         \/ \E q \in Payloads : Open(q) \/ Sign(q) \/ Resolve(q) \/ Decline(q)
  BY DEF Next, HandoffStep, SyncStep, Surroundings, BeginHandoff, BeginStatus, Load, Reload,
         LoadInto, Fetch, Apply, Verify, Conclude, Recheck, Fallback, Abandon, Elapse,
         ChangeLine, world

LEMMA WritersOfTheRow ==
  ASSUME Next
  PROVE  \/ prep' = prep
         \/ \E w \in Workers : StoreHandoff(w) \/ Apply(w) \/ Conclude(w) \/ Fallback(w)
  BY DEF Next, HandoffStep, SyncStep, Surroundings, BeginHandoff, CreatePayload, BeginStatus,
         Load, Reload, LoadInto, Fetch, Verify, Recheck, Abandon, Open, Sign, Resolve, Decline,
         Elapse, ChangeLine

\* The provider takes no payload back from the holder, a resolved payload stays
\* resolved, and only the handler that stores a new payload hands it out.
LEMMA PayloadsMoveOn ==
  ASSUME TypeOK, MemoryIsTrue, Next, NEW p \in Payloads
  PROVE  /\ payload'[p] \in PayloadStates
         /\ Given(p, payload) => Given(p, payload')
         /\ payload[p] = "resolved" => payload'[p] = "resolved"
         /\ payload[p] = "created" /\ payload'[p] # "created" =>
                \E w \in Workers : /\ At(w, "store") /\ work[w].payload = p
                                  /\ work' = [work EXCEPT ![w] = Idle]
<1> USE DEF Given, TypeOK, PayloadStates
<1>1. CASE payload' = payload
  BY <1>1
<1>2. ASSUME NEW w \in Workers, CreatePayload(w)
      PROVE  /\ payload'[p] \in PayloadStates
             /\ Given(p, payload) => Given(p, payload')
             /\ payload[p] = "resolved" => payload'[p] = "resolved"
             /\ payload[p] = "created" => payload'[p] = "created"
  BY <1>2 DEF CreatePayload
<1>3. ASSUME NEW w \in Workers, StoreHandoff(w), payload' # payload
      PROVE  /\ payload'[p] \in PayloadStates
             /\ Given(p, payload) => Given(p, payload')
             /\ payload[p] = "resolved" => payload'[p] = "resolved"
             /\ payload[p] # payload'[p] => At(w, "store") /\ work[w].payload = p
             /\ work' = [work EXCEPT ![w] = Idle]
  BY <1>3 DEF StoreHandoff, MemoryIsTrue, IsTrueMemory, At, Return
<1>4. ASSUME NEW q \in Payloads, Open(q) \/ Sign(q) \/ Resolve(q) \/ Decline(q)
      PROVE  /\ payload'[p] \in PayloadStates
             /\ Given(p, payload) => Given(p, payload')
             /\ payload[p] = "resolved" => payload'[p] = "resolved"
             /\ payload[p] = "created" => payload'[p] = "created"
  BY <1>4 DEF Open, Sign, Resolve, Decline
<1> QED
  BY <1>1, <1>2, <1>3, <1>4, WritersOfPayloads

\* The memory of the handlers that do not move stays true.
LEMMA OthersRemember ==
  ASSUME TypeOK, MemoryIsTrue, Next, NEW w \in Workers, NEW m \in Memory,
         work' = [work EXCEPT ![w] = m], IsTrueMemory(m, payload'),
         m.step = "store" => payload[m.payload] = "none"
  PROVE  work' \in [Workers -> Memory] /\ MemoryIsTrue'
<1>1. work' \in [Workers -> Memory]
  BY DEF TypeOK, Memory
<1>2. ASSUME NEW v \in Workers PROVE IsTrueMemory(work'[v], payload')
  <2>1. CASE v = w
    BY <2>1 DEF TypeOK
  <2>2. CASE v # w
    <3>1. work'[v] = work[v] /\ IsTrueMemory(work[v], payload)
      BY <2>2 DEF TypeOK, MemoryIsTrue
    <3>2. At(v, "store") => payload'[work[v].payload] = "created"
      <4> SUFFICES ASSUME At(v, "store"), payload'[work[v].payload] # "created" PROVE FALSE
        OBVIOUS
      <4>1. work[v].payload \in Payloads /\ payload[work[v].payload] = "created"
        BY <3>1 DEF IsTrueMemory, At
      <4>2. PICK u \in Workers : /\ At(u, "store") /\ work[u].payload = work[v].payload
                                /\ work' = [work EXCEPT ![u] = Idle]
        BY <4>1, PayloadsMoveOn
      <4>3. u = v
        BY <4>2 DEF MemoryIsTrue
      <4> QED
        BY <4>2, <4>3, <3>1 DEF TypeOK, At, Idle
    <3> QED
      BY <3>1, <3>2, PayloadsMoveOn DEF IsTrueMemory, At, Given
  <2> QED
    BY <2>1, <2>2
<1>3. ASSUME NEW u \in Workers, NEW v \in Workers, u # v, At(u, "store")', At(v, "store")'
      PROVE  work'[u].payload # work'[v].payload
  <2>1. CASE u # w /\ v # w
    BY <1>3, <2>1 DEF TypeOK, MemoryIsTrue, At
  <2>2. CASE u = w
    <3>1. work'[u] = m /\ work'[v] = work[v]
      BY <1>3, <2>2 DEF TypeOK
    <3>2. payload[work[v].payload] = "created" /\ payload[m.payload] = "none"
      BY <1>3, <3>1 DEF MemoryIsTrue, IsTrueMemory, At
    <3> QED
      BY <3>1, <3>2
  <2>3. CASE v = w
    <3>1. work'[v] = m /\ work'[u] = work[u]
      BY <1>3, <2>3 DEF TypeOK
    <3>2. payload[work[u].payload] = "created" /\ payload[m.payload] = "none"
      BY <1>3, <3>1 DEF MemoryIsTrue, IsTrueMemory, At
    <3> QED
      BY <3>1, <3>2
  <2> QED
    BY <2>1, <2>2, <2>3
<1> QED
  BY <1>1, <1>2, <1>3 DEF MemoryIsTrue

\* Every step of a handler leaves it with a true memory.
LEMMA MemoryStep ==
  ASSUME PreparationInv, NEW w \in Workers,
         HandoffStep(w) \/ SyncStep(w) \/ Abandon(w), Next
  PROVE  work' \in [Workers -> Memory] /\ MemoryIsTrue'
<1> DEFINE old == work[w]
<1>0. old \in Memory /\ IsTrueMemory(old, payload) /\ TypeOK /\ MemoryIsTrue /\ RowIsBacked
  BY DEF PreparationInv, TypeOK, Memory, MemoryIsTrue
<1>i. IsTrueMemory(Idle, payload') /\ Idle.step # "store"
  BY DEF IsTrueMemory, Idle
<1>r. CASE Return(w)
  BY <1>r, <1>0, <1>i, IdleIsMemory, OthersRemember DEF Return
<1>1. CASE BeginHandoff(w) \/ BeginStatus(w)
  <2> DEFINE load == [Idle EXCEPT !.step = "load", !.payload = prep.payload]
             create == [Idle EXCEPT !.step = "create"]
  <2>1. \/ work' = [work EXCEPT ![w] = load] /\ Given(prep.payload, payload)
        \/ work' = [work EXCEPT ![w] = create]
    BY <1>1, <1>0 DEF BeginHandoff, BeginStatus, Resumable, RowIsBacked, Given, TypeOK
  <2>2. create \in Memory /\ IsTrueMemory(create, payload') /\ create.step # "store"
    BY IdleIsMemory, MemoryUpdates DEF Steps, IsTrueMemory, Idle
  <2>3. Given(prep.payload, payload) => load \in Memory /\ IsTrueMemory(load, payload') /\ load.step # "store"
    <3>1. payload' = payload
      BY <1>1 DEF BeginHandoff, BeginStatus, world
    <3> QED
      BY <3>1, IdleIsMemory, MemoryUpdates DEF Steps, IsTrueMemory, Idle, Given
  <2> QED
    BY <2>1, <2>2, <2>3, <1>0, OthersRemember
<1>2. CASE CreatePayload(w)
  <2>1. PICK p \in Payloads :
            /\ payload[p] = "none"
            /\ payload' = [payload EXCEPT ![p] = "created"]
            /\ work' = [work EXCEPT ![w] = [old EXCEPT !.step = "store", !.payload = p]]
    BY <1>2 DEF CreatePayload
  <2> DEFINE m == [old EXCEPT !.step = "store", !.payload = p]
  <2>2. m \in Memory
    BY <1>0, MemoryUpdates DEF Steps
  <2>3. m.step = "store" /\ m.payload = p
    BY <1>0 DEF Memory
  <2>4. payload'[p] = "created"
    BY <2>1, <1>0 DEF TypeOK
  <2>5. IsTrueMemory(m, payload')
    BY <2>3, <2>4 DEF IsTrueMemory
  <2> HIDE DEF m
  <2> QED
    BY <2>1, <2>2, <2>3, <2>5, <1>0, OthersRemember DEF m
<1>3. CASE StoreHandoff(w) \/ Abandon(w) \/ Fallback(w)
  BY <1>3, <1>r DEF StoreHandoff, Abandon, Fallback
<1>4. CASE Load(w) \/ Reload(w)
  <2>1. PICK step \in {"fetch", "verify"} :
            /\ step = "fetch" => old.step = "load"
            /\ step = "verify" => old.step = "reload"
            /\ LoadInto(w, step)
    BY <1>4 DEF Load, Reload, At
  <2> DEFINE m == [old EXCEPT !.step = step, !.saw = prep.status]
  <2>2. m \in Memory
    BY <1>0, MemoryUpdates, <2>1 DEF Steps, TypeOK
  <2>3. m.step = step /\ m.payload = old.payload /\ payload' = payload
    BY <1>0, <2>1 DEF Memory, LoadInto, world
  <2>4. IsTrueMemory(m, payload')
    BY <2>1, <2>3, <1>0 DEF IsTrueMemory, Given
  <2>5. Return(w) \/ work' = [work EXCEPT ![w] = m]
    BY <2>1 DEF LoadInto
  <2> HIDE DEF m
  <2> QED
    BY <2>1, <2>2, <2>3, <2>4, <2>5, <1>r, <1>0, OthersRemember
<1>5. CASE Fetch(w)
  <2>1. PICK heard \in {Observation(old.payload), "failed"} :
            work' = [work EXCEPT ![w] = [old EXCEPT !.step = "apply", !.heard = heard]]
    BY <1>5 DEF Fetch
  <2> DEFINE m == [old EXCEPT !.step = "apply", !.heard = heard]
  <2>2. Given(old.payload, payload) /\ payload' = payload
    BY <1>5, <1>0 DEF Fetch, At, IsTrueMemory, world
  <2>3. heard \in Heard /\ (heard = "submitted" => payload[old.payload] = "resolved")
    BY <2>1, <2>2, <1>0 DEF Observation, Given, Heard, TypeOK, PayloadStates
  <2>4. m \in Memory
    BY <1>0, <2>3, MemoryUpdates DEF Steps
  <2>5. m.step = "apply" /\ m.payload = old.payload /\ m.heard = heard
    BY <1>0 DEF Memory
  <2>6. IsTrueMemory(m, payload')
    BY <2>2, <2>3, <2>5 DEF IsTrueMemory, Given
  <2> HIDE DEF m
  <2> QED
    BY <2>1, <2>4, <2>5, <2>6, <1>0, OthersRemember DEF m
<1>6. CASE Apply(w)
  <2> DEFINE next == old.heard
             again == [old EXCEPT !.step = "reload"]
             known == IF CanTransition(old.saw, next) THEN next ELSE old.saw
             m == [old EXCEPT !.step = "verify", !.saw = known]
  <2>0. old.heard \in Heard /\ payload' = payload /\ Given(old.payload, payload)
    BY <1>6, <1>0 DEF Apply, At, IsTrueMemory, world
  <2>1. CASE next # "submitted"
    BY <2>1, <1>6, <1>r DEF Apply, Return
  <2>2. CASE next = "submitted"
    <3>1. payload[old.payload] = "resolved"
      BY <2>0, <2>2, <1>6, <1>0 DEF Apply, At, IsTrueMemory
    <3>2. known \in Statuses
      BY <2>2, <1>0 DEF Memory, Statuses, InVerification
    <3>3. again \in Memory /\ m \in Memory
      <4> HIDE DEF known
      <4> QED
        BY <1>0, <3>2, MemoryUpdates DEF Steps
    <3>4. /\ again.step = "reload" /\ again.payload = old.payload
          /\ m.step = "verify" /\ m.payload = old.payload
      BY <1>0 DEF Memory
    <3>5. IsTrueMemory(again, payload') /\ IsTrueMemory(m, payload')
      <4> HIDE DEF again, m
      <4> QED
        BY <3>1, <3>4, <2>0 DEF IsTrueMemory, Given
    <3>6. work' = [work EXCEPT ![w] = again] \/ work' = [work EXCEPT ![w] = m]
      BY <1>6, <2>2 DEF Apply
    <3> HIDE DEF again, m
    <3> QED
      BY <3>3, <3>4, <3>5, <3>6, <1>0, OthersRemember
  <2> QED
    BY <2>1, <2>2
<1>7. CASE Verify(w)
  <2>1. PICK verdict \in {line, "pending"} :
            work' = [work EXCEPT ![w] = [old EXCEPT !.step = "conclude", !.heard = verdict]]
    BY <1>7 DEF Verify
  <2> DEFINE m == [old EXCEPT !.step = "conclude", !.heard = verdict]
  <2>2. verdict \in Verdicts
    BY <2>1, <1>0 DEF TypeOK, Verdicts
  <2>3. m \in Memory /\ m.step = "conclude" /\ m.payload = old.payload /\ m.heard = verdict
    BY <1>0, <2>2 DEF Memory, Steps
  <2>4. payload' = payload /\ old.payload \in Payloads /\ payload[old.payload] = "resolved"
    BY <1>7, <1>0 DEF Verify, At, IsTrueMemory, world
  <2> HIDE DEF m
  <2>5. IsTrueMemory(m, payload')
    BY <2>2, <2>3, <2>4 DEF IsTrueMemory
  <2> QED
    BY <2>1, <2>3, <2>5, <1>0, OthersRemember DEF m
<1>8. CASE Conclude(w) \/ Recheck(w)
  <2>1. PICK step \in {"recheck", "fallback"} : Return(w) \/ Go(w, step)
    BY <1>8 DEF Conclude, Recheck
  <2> DEFINE m == [old EXCEPT !.step = step]
  <2>2. m \in Memory /\ m.step = step /\ m.payload = old.payload
    BY <1>0, <2>1 DEF Memory, Steps
  <2>3. payload' = payload /\ old.payload \in Payloads /\ payload[old.payload] = "resolved"
    BY <1>8, <1>0 DEF Conclude, Recheck, At, IsTrueMemory, world
  <2>4. Go(w, step) => work' = [work EXCEPT ![w] = m]
    BY DEF Go
  <2> HIDE DEF m
  <2>5. IsTrueMemory(m, payload')
    BY <2>1, <2>2, <2>3 DEF IsTrueMemory
  <2> QED
    BY <2>1, <2>2, <2>4, <2>5, <1>r, <1>0, OthersRemember
<1> QED
  BY <1>1, <1>2, <1>3, <1>4, <1>5, <1>6, <1>7, <1>8 DEF HandoffStep, SyncStep

LEMMA PayloadsDomain ==
  ASSUME TypeOK, Next
  PROVE  payload' \in [Payloads -> PayloadStates]
<1> USE DEF TypeOK, PayloadStates
<1>1. CASE payload' = payload
  BY <1>1
<1>2. ASSUME NEW w \in Workers, CreatePayload(w) \/ StoreHandoff(w)
      PROVE  payload' \in [Payloads -> PayloadStates]
  BY <1>2 DEF CreatePayload, StoreHandoff
<1>3. ASSUME NEW q \in Payloads, Open(q) \/ Sign(q) \/ Resolve(q) \/ Decline(q)
      PROVE  payload' \in [Payloads -> PayloadStates]
  BY <1>3 DEF Open, Sign, Resolve, Decline
<1> QED
  BY <1>1, <1>2, <1>3, WritersOfPayloads

LEMMA ClockAndLine ==
  ASSUME TypeOK, Next
  PROVE  elapsed' \subseteq Payloads /\ line' \in Verdicts
  BY DEF TypeOK, Next, HandoffStep, SyncStep, Surroundings, BeginHandoff, CreatePayload,
         StoreHandoff, BeginStatus, Load, Reload, LoadInto, Fetch, Apply, Verify, Conclude,
         Recheck, Fallback, Abandon, Open, Sign, Resolve, Decline, Elapse, ChangeLine, world

\* What happens around the handlers leaves them what they know.
LEMMA SurroundingsRemember ==
  ASSUME PreparationInv, Surroundings, Next
  PROVE  work' \in [Workers -> Memory] /\ MemoryIsTrue'
<1> USE DEF PreparationInv
<1>1. work' = work /\ work \in [Workers -> Memory]
  BY DEF Surroundings, Open, Sign, Resolve, Decline, Elapse, ChangeLine, TypeOK, Memory
<1>2. ASSUME NEW v \in Workers PROVE IsTrueMemory(work[v], payload')
  <2>1. IsTrueMemory(work[v], payload)
    BY DEF MemoryIsTrue
  <2>2. At(v, "store") => payload'[work[v].payload] = "created"
    BY <1>1, <2>1, PayloadsMoveOn DEF At, IsTrueMemory, Idle, Memory, TypeOK
  <2> QED
    BY <2>1, <2>2, PayloadsMoveOn DEF IsTrueMemory, At, Given
<1> QED
  BY <1>1, <1>2 DEF MemoryIsTrue, At

\* A payload reaches the holder by a store that makes the row name it.
LEMMA UngivenStay ==
  ASSUME PreparationInv, Next, prep' = prep, prep.payload = None, NEW p \in Payloads
  PROVE  payload'[p] \in {"none", "created"}
<1> USE DEF PreparationInv
<1>1. payload[p] \in {"none", "created"} /\ payload \in [Payloads -> PayloadStates]
  BY DEF RowIsBacked, TypeOK
<1>2. CASE payload' = payload
  BY <1>1, <1>2
<1>3. ASSUME NEW w \in Workers, CreatePayload(w) PROVE payload'[p] \in {"none", "created"}
  BY <1>1, <1>3 DEF CreatePayload
<1>4. ASSUME NEW w \in Workers, StoreHandoff(w) PROVE payload' = payload
  <2>1. work[w].payload \in Payloads
    BY <1>4 DEF StoreHandoff, MemoryIsTrue, IsTrueMemory, At
  <2> QED
    BY <1>4, <2>1 DEF StoreHandoff
<1>5. ASSUME NEW q \in Payloads, Open(q) \/ Sign(q) \/ Resolve(q) \/ Decline(q) PROVE FALSE
  BY <1>5 DEF RowIsBacked, Open, Sign, Resolve, Decline
<1> QED
  BY <1>1, <1>2, <1>3, <1>4, <1>5, WritersOfPayloads

\* The row keeps its shape while only the provider moves.
LEMMA RowStays ==
  ASSUME PreparationInv, Next, prep' = prep
  PROVE  prep' \in RowRecord /\ RowIsBacked' /\ VerificationFollowsSignature'
<1> USE DEF PreparationInv
<1>1. prep \in RowRecord
  BY DEF TypeOK, RowRecord
<1>2. \A p \in Payloads :
        /\ Given(p, payload) => Given(p, payload')
        /\ payload[p] = "resolved" => payload'[p] = "resolved"
  BY PayloadsMoveOn
<1>3. RowIsBacked'
  BY <1>1, <1>2, UngivenStay DEF RowIsBacked, RowRecord, Given
<1>4. VerificationFollowsSignature'
  BY <1>2 DEF VerificationFollowsSignature
<1> QED
  BY <1>1, <1>3, <1>4

\* The row is written by the store of a handoff and by UPDATE_STATUS only.
LEMMA RowStep ==
  ASSUME PreparationInv, Next
  PROVE  prep' \in RowRecord /\ RowIsBacked' /\ VerificationFollowsSignature'
<1> USE DEF PreparationInv
<1>0. CASE prep' = prep
  BY <1>0, RowStays
<1>1. ASSUME NEW w \in Workers, StoreHandoff(w), prep' # prep
      PROVE  prep' \in RowRecord /\ RowIsBacked' /\ VerificationFollowsSignature'
  <2> DEFINE p == work[w].payload
  <2>1. /\ p \in Payloads /\ payload' = [payload EXCEPT ![p] = "available"]
        /\ prep' = [status |-> "awaiting_signature", payload |-> p, tx |-> None]
    BY <1>1 DEF StoreHandoff, MemoryIsTrue, IsTrueMemory, At
  <2>2. payload'[p] = "available"
    BY <2>1 DEF TypeOK
  <2> QED
    BY <2>1, <2>2 DEF RowRecord, RowIsBacked, VerificationFollowsSignature, Statuses,
                      InVerification
<1>2. ASSUME NEW w \in Workers, Apply(w) \/ Conclude(w) \/ Fallback(w), prep' # prep
      PROVE  prep' \in RowRecord /\ RowIsBacked' /\ VerificationFollowsSignature'
  <2> DEFINE m == work[w]
             next == IF At(w, "apply") THEN m.heard
                     ELSE IF At(w, "conclude") THEN Conclusion[m.heard] ELSE "verifying"
  <2>1. UpdateStatus(m.saw, next, m.payload) /\ payload' = payload
    BY <1>2 DEF Apply, Conclude, Fallback, At, world
  <2>2. IsTrueMemory(m, payload) /\ m \in Memory
    BY DEF MemoryIsTrue, TypeOK, Memory
  <2>3. /\ Given(m.payload, payload)
        /\ next \in Statuses \ {"required", "not_required"}
        /\ next \in InVerification \cup {"ready"} => payload[m.payload] = "resolved"
    <3>1. CASE At(w, "apply")
      BY <2>2, <3>1 DEF IsTrueMemory, At, Heard, Statuses, Settled,
                        Ended, InVerification
    <3>2. CASE At(w, "conclude")
      BY <2>2, <3>2 DEF IsTrueMemory, At, Conclusion, Verdicts, Statuses, Settled,
                        Ended, InVerification, Given
    <3>3. CASE At(w, "fallback")
      BY <2>2, <3>3 DEF IsTrueMemory, At, Statuses, InVerification, Given
    <3> QED
      BY <1>2, <3>1, <3>2, <3>3 DEF Apply, Conclude, Fallback
  <2>4. prep.payload # None
    BY <2>3 DEF RowIsBacked, Given
  <2> QED
    BY <2>1, <2>2, <2>3, <2>4, UpdateKeepsRow DEF Memory
<1> QED
  BY <1>0, <1>1, <1>2, WritersOfTheRow

LEMMA InvInit == Init => PreparationInv
<1> SUFFICES ASSUME Init PROVE PreparationInv
  OBVIOUS
<1>1. TypeOK
  BY IdleIsMemory DEF Init, TypeOK, Statuses, Settled, PayloadStates, Memory
<1> QED
  BY <1>1 DEF Init, PreparationInv, MemoryIsTrue, IsTrueMemory, RowIsBacked,
              VerificationFollowsSignature, InVerification, At, Idle

LEMMA InvStep == PreparationInv /\ [Next]_vars => PreparationInv'
<1> SUFFICES ASSUME PreparationInv, [Next]_vars PROVE PreparationInv'
  OBVIOUS
<1>1. CASE UNCHANGED vars
  BY <1>1 DEF vars, world, PreparationInv, TypeOK, MemoryIsTrue, IsTrueMemory, RowIsBacked,
              VerificationFollowsSignature, At, Given
<1>2. CASE Next
  <2>1. prep' \in RowRecord /\ RowIsBacked' /\ VerificationFollowsSignature'
    BY <1>2, RowStep
  <2>2. payload' \in [Payloads -> PayloadStates]
    BY <1>2, PayloadsDomain DEF PreparationInv
  <2>3. elapsed' \subseteq Payloads /\ line' \in Verdicts
    BY <1>2, ClockAndLine DEF PreparationInv
  <2>4. work' \in [Workers -> Memory] /\ MemoryIsTrue'
    <3>1. ASSUME NEW w \in Workers, HandoffStep(w) \/ SyncStep(w) \/ Abandon(w)
          PROVE  work' \in [Workers -> Memory] /\ MemoryIsTrue'
      BY <1>2, <3>1, MemoryStep
    <3>2. CASE Surroundings
      BY <1>2, <3>2, SurroundingsRemember
    <3> QED
      BY <1>2, <3>1, <3>2 DEF Next
  <2> QED
    BY <2>1, <2>2, <2>3, <2>4 DEF PreparationInv, TypeOK, RowRecord, Memory
<1> QED
  BY <1>1, <1>2

\* The row, the payloads and the memory of every handler keep their types.
THEOREM PreparationTypeCorrect == Spec => []TypeOK
<1>1. PreparationInv => TypeOK
  BY DEF PreparationInv
<1> QED
  BY <1>1, InvInit, InvStep, PTL DEF Spec

\* No preparation is verified or ready before one of its payloads was signed.
THEOREM SignatureComesFirst == Spec => []VerificationFollowsSignature
<1>1. PreparationInv => VerificationFollowsSignature
  BY DEF PreparationInv
<1> QED
  BY <1>1, InvInit, InvStep, PTL DEF Spec

\* The row names only payloads that the holder was given.
THEOREM RowsAreBacked == Spec => []RowIsBacked
<1>1. PreparationInv => RowIsBacked
  BY DEF PreparationInv
<1> QED
  BY <1>1, InvInit, InvStep, PTL DEF Spec

\* What a row in verification can become, whatever status its writers have read.
LEMMA KeepsVerification ==
  ASSUME PreparationInv, Next, prep.status \in InVerification \cup Settled
  PROVE  /\ prep'.payload = prep.payload
         /\ prep'.status = prep.status \/ rank[prep'.status] > rank[prep.status]
<1> USE DEF PreparationInv
<1>1. ASSUME NEW saw, NEW next \in Statuses, NEW p,
             UpdateStatus(saw, next, p)
      PROVE  /\ prep'.payload = prep.payload
             /\ prep'.status = prep.status \/ rank[prep'.status] > rank[prep.status]
  <2>1. CASE prep' = prep
    BY <2>1
  <2>2. CASE prep' # prep
    <3>1. /\ prep.status = saw /\ CanTransition(saw, next)
          /\ prep'.payload = prep.payload /\ prep'.status = next
      BY <1>1, <2>2 DEF UpdateStatus, TypeOK
    <3>2. CASE next # saw
      <4>1. saw \in InVerification /\ rank[next] >= rank[saw]
        BY <3>1, <3>2 DEF CanTransition, InVerification, Ended, Settled
      <4> QED
        BY <3>1, <3>2, <4>1 DEF rank, Statuses, InVerification, Ended, Settled
    <3> QED
      BY <3>1, <3>2
  <2> QED
    BY <2>1, <2>2
<1>2. ASSUME NEW w \in Workers, StoreHandoff(w) PROVE prep' = prep
  BY <1>2 DEF StoreHandoff, Replaceable, Ended, InVerification, Settled
<1>3. ASSUME NEW w \in Workers, Apply(w) \/ Conclude(w) \/ Fallback(w)
      PROVE  \E saw, p : \E next \in Statuses : UpdateStatus(saw, next, p)
  <2>1. IsTrueMemory(work[w], payload)
    BY DEF MemoryIsTrue
  <2>2. At(w, "apply") => work[w].heard \in Statuses
    BY <2>1 DEF At, IsTrueMemory, Heard, Statuses, Ended, InVerification
  <2>3. At(w, "conclude") => Conclusion[work[w].heard] \in Statuses
    BY <2>1 DEF At, IsTrueMemory, Conclusion, Verdicts, Statuses, Ended, InVerification, Settled
  <2>4. "verifying" \in Statuses
    BY DEF Statuses, InVerification
  <2> QED
    BY <1>3, <2>2, <2>3, <2>4 DEF Apply, Conclude, Fallback
<1>4. \/ prep' = prep
      \/ \E w \in Workers : StoreHandoff(w) \/ Apply(w) \/ Conclude(w) \/ Fallback(w)
  BY WritersOfTheRow
<1> QED
  BY <1>1, <1>2, <1>3, <1>4

\* A verification is never abandoned for another payload and never moves back.
THEOREM VerificationsAreKept == Spec => VerificationIsKept
<1>1. PreparationInv /\ [Next]_vars =>
        [prep.status \in InVerification \cup Settled =>
            /\ prep'.payload = prep.payload
            /\ prep'.status = prep.status \/ rank[prep'.status] > rank[prep.status]]_vars
  BY KeepsVerification DEF vars
<1> QED
  BY <1>1, InvInit, InvStep, PTL DEF Spec, VerificationIsKept

-----------------------------------------------------------------------------
(***************************************************************************)
(* Proofs about TrustSetPage, for any number of overlapping calls and any  *)
(* number of other pages: the page drives the preparation as it may be     *)
(* driven, and what it shows as ready is ready.                            *)
(***************************************************************************)

USE PageConstantsOK

Calls == [kind : {"none", "details", "check", "start"}, row : Statuses \ Settled]

PageTyped ==
    /\ screen \in Screens
    /\ call \in [Workers -> Calls]
    /\ reply \in [Workers -> Statuses \cup {"error"} \cup Payloads \cup {None}]

\* What a handler remembers as settled is so.
RemembersSettled ==
    \A w \in Workers : work[w].saw \in Settled => prep.status = work[w].saw

PageInv == PageTyped /\ RemembersSettled /\ ReadyScreenIsTrue

-----------------------------------------------------------------------------
\* Every step of the page's specification is one of the preparation's, or none.
LEMMA PageStepIsAStep == [NextPage]_pageVars => [Next]_vars
<1> SUFFICES ASSUME [NextPage]_pageVars PROVE [Next]_vars
  OBVIOUS
<1>1. CASE UNCHANGED pageVars
  BY <1>1 DEF pageVars
<1>2. CASE Surroundings
  BY <1>2 DEF Next
<1>3. ASSUME NEW w \in Workers,
             \/ LoadDetails(w) \/ ChangeLanguage(w) \/ Check(w) \/ Start(w) \/ OtherPage(w)
             \/ HandlerStep(w) \/ Reread(w) \/ Receive(w)
      PROVE  \/ HandoffStep(w) \/ SyncStep(w) \/ Abandon(w)
             \/ UNCHANGED vars
  <2>1. CASE HandlerStep(w)
    BY <2>1 DEF HandlerStep, HandoffStep, SyncStep
  <2>2. CASE Check(w) \/ Start(w) \/ OtherPage(w)
    BY <2>2 DEF Check, Start, OtherPage, HandoffStep, SyncStep
  <2> QED
    BY <1>3, <2>1, <2>2 DEF LoadDetails, ChangeLanguage, CallDetails, Reread, Receive
<1> QED
  BY <1>1, <1>2, <1>3 DEF NextPage, Next

\* A settled preparation stays as it is.
LEMMA SettledStays ==
  ASSUME PreparationInv, [Next]_vars, prep.status \in Settled
  PROVE  prep'.status = prep.status
<1>1. CASE UNCHANGED vars
  BY <1>1 DEF vars
<1>2. CASE Next
  <2>1. prep'.status = prep.status \/ rank[prep'.status] > rank[prep.status]
    BY <1>2, KeepsVerification
  <2>2. prep'.status \in Statuses
    BY <1>2, RowStep DEF RowRecord
  <2> QED
    BY <2>1, <2>2 DEF rank, Settled, Statuses, Ended, InVerification
<1> QED
  BY <1>1, <1>2

\* The status in a handler's memory after each kind of step.
LEMMA SawAfter ==
  ASSUME NEW m \in Memory, NEW step, NEW x
  PROVE  /\ [m EXCEPT !.step = step].saw = m.saw
         /\ [m EXCEPT !.step = step, !.payload = x].saw = m.saw
         /\ [m EXCEPT !.step = step, !.heard = x].saw = m.saw
         /\ [m EXCEPT !.step = step, !.saw = x].saw = x
  BY DEF Memory

\* A handler comes to remember a status by reading the row, or as one that is
\* not settled.
LEMMA HandlersRemember ==
  ASSUME PreparationInv, RemembersSettled, [Next]_vars
  PROVE  RemembersSettled'
<1> SUFFICES ASSUME NEW w \in Workers, work'[w].saw \in Settled
             PROVE  prep'.status = work'[w].saw
  BY DEF RemembersSettled
<1>0. work \in [Workers -> Memory] /\ Idle.saw = "required"
  BY DEF PreparationInv, TypeOK, Memory, Idle
<1>1. work'[w].saw \in {work[w].saw, "required", "submitted", prep.status}
  <2>0. ASSUME NEW v \in Workers, NEW m, work' = [work EXCEPT ![v] = m],
               m.saw \in {work[v].saw, "required", "submitted", prep.status}
        PROVE  work'[w].saw \in {work[w].saw, "required", "submitted", prep.status}
    BY <2>0, <1>0
  <2>1. ASSUME NEW v \in Workers, HandoffStep(v)
        PROVE  work'[w].saw \in {work[w].saw, "required", "submitted", prep.status}
    <3>1. CASE BeginHandoff(v)
      BY <3>1, <2>0 DEF BeginHandoff, Idle
    <3>2. CASE CreatePayload(v)
      BY <3>2, <2>0, <1>0, SawAfter DEF CreatePayload
    <3>3. CASE StoreHandoff(v)
      BY <3>3, <2>0, <1>0 DEF StoreHandoff, Return
    <3> QED
      BY <2>1, <3>1, <3>2, <3>3 DEF HandoffStep
  <2>2. ASSUME NEW v \in Workers, SyncStep(v)
        PROVE  work'[w].saw \in {work[w].saw, "required", "submitted", prep.status}
    <3>1. CASE BeginStatus(v)
      BY <3>1, <2>0 DEF BeginStatus, Idle
    <3>2. CASE Load(v) \/ Reload(v)
      <4>1. \/ work' = [work EXCEPT ![v] = Idle]
            \/ \E step : work' = [work EXCEPT ![v] = [work[v] EXCEPT !.step = step,
                                                                 !.saw = prep.status]]
        BY <3>2 DEF Load, Reload, LoadInto, Return
      <4>2. CASE work' = [work EXCEPT ![v] = Idle]
        BY <4>2, <2>0, <1>0
      <4>3. ASSUME NEW step, work' = [work EXCEPT ![v] = [work[v] EXCEPT !.step = step, !.saw = prep.status]]
            PROVE  work'[w].saw \in {work[w].saw, "required", "submitted", prep.status}
        <5>1. [work[v] EXCEPT !.step = step, !.saw = prep.status].saw = prep.status
          BY <1>0, SawAfter
        <5> QED
          BY <4>3, <5>1, <2>0
      <4> QED
        BY <4>1, <4>2, <4>3
    <3>3. CASE Fetch(v) \/ Verify(v)
      <4>1. \E step, heard : work' = [work EXCEPT ![v] = [work[v] EXCEPT !.step = step,
                                                                   !.heard = heard]]
        BY <3>3 DEF Fetch, Verify
      <4> QED
        BY <4>1, <2>0, <1>0, SawAfter
    <3>4. CASE Apply(v)
      <4> DEFINE old == work[v]
      <4>1. \/ work' = [work EXCEPT ![v] = Idle]
            \/ work' = [work EXCEPT ![v] = [old EXCEPT !.step = "reload"]]
            \/ work' = [work EXCEPT ![v] = [old EXCEPT !.step = "verify",
                           !.saw = IF CanTransition(old.saw, old.heard) THEN old.heard
                                   ELSE old.saw]] /\ old.heard = "submitted"
        BY <3>4 DEF Apply
      <4>2. CASE work' = [work EXCEPT ![v] = Idle]
        BY <4>2, <2>0, <1>0
      <4>3. CASE work' = [work EXCEPT ![v] = [old EXCEPT !.step = "reload"]]
        BY <4>3, <2>0, <1>0, SawAfter
      <4>4. ASSUME NEW saw \in {old.saw, "submitted"},
                   work' = [work EXCEPT ![v] = [old EXCEPT !.step = "verify", !.saw = saw]]
            PROVE  work'[w].saw \in {work[w].saw, "required", "submitted", prep.status}
        <5>1. [old EXCEPT !.step = "verify", !.saw = saw].saw = saw
          BY <1>0, SawAfter
        <5> QED
          BY <4>4, <5>1, <2>0
      <4> QED
        BY <4>1, <4>2, <4>3, <4>4
    <3>5. CASE Conclude(v) \/ Recheck(v) \/ Fallback(v)
      <4>1. \/ work' = [work EXCEPT ![v] = Idle]
            \/ \E step : work' = [work EXCEPT ![v] = [work[v] EXCEPT !.step = step]]
        BY <3>5, <1>0 DEF Conclude, Recheck, Fallback, Return, Go
      <4>2. CASE work' = [work EXCEPT ![v] = Idle]
        BY <4>2, <2>0, <1>0
      <4>3. ASSUME NEW step, work' = [work EXCEPT ![v] = [work[v] EXCEPT !.step = step]]
            PROVE  work'[w].saw \in {work[w].saw, "required", "submitted", prep.status}
        <5>1. [work[v] EXCEPT !.step = step].saw = work[v].saw
          BY <1>0, SawAfter
        <5> QED
          BY <4>3, <5>1, <2>0
      <4> QED
        BY <4>1, <4>2, <4>3
    <3> QED
      BY <2>2, <3>1, <3>2, <3>3, <3>4, <3>5 DEF SyncStep
  <2>3. ASSUME NEW v \in Workers, Abandon(v)
        PROVE  work'[w].saw \in {work[w].saw, "required", "submitted", prep.status}
    BY <2>3, <2>0, <1>0 DEF Abandon, Return
  <2>4. CASE Surroundings \/ UNCHANGED vars
    BY <2>4 DEF Surroundings, Open, Sign, Resolve, Decline, Elapse, ChangeLine, vars
  <2> QED
    BY <2>1, <2>2, <2>3, <2>4 DEF Next
<1>2. work'[w].saw \in {work[w].saw, prep.status}
  BY <1>1 DEF Settled
<1>3. prep.status = work'[w].saw
  BY <1>2 DEF RemembersSettled
<1> QED
  BY <1>3, SettledStays

\* What the row holds after a handler's update, if the handler takes it for settled.
LEMMA UpdatesAreTrue ==
  ASSUME PreparationInv, RemembersSettled, [Next]_vars,
         NEW w \in Workers, NEW next \in Statuses, NEW p,
         UpdateStatus(work[w].saw, next, p)
  PROVE  /\ Updated(w, next) \in Statuses \cup Payloads \cup {None}
         /\ Updated(w, next) \in Settled => prep'.status = Updated(w, next)
<1> DEFINE saw == work[w].saw
<1>0. saw \in Statuses /\ work[w].payload \in Payloads \cup {None}
  BY DEF PreparationInv, TypeOK
<1>1. CASE NotSwapped(saw, next)
  BY <1>0, <1>1 DEF Updated, Settled, Statuses
<1>2. CASE CanTransition(saw, next) /\ ~NotSwapped(saw, next)
  <2>1. prep.status = saw /\ Updated(w, next) = next
    BY <1>2 DEF NotSwapped, Updated
  <2>2. prep'.status = next
    BY <1>2, <2>1 DEF UpdateStatus, PreparationInv, TypeOK
  <2> QED
    BY <2>1, <2>2
<1>3. CASE ~CanTransition(saw, next)
  <2>1. Updated(w, next) = saw
    BY <1>3 DEF NotSwapped, Updated
  <2> QED
    BY <1>0, <2>1, SettledStays DEF RemembersSettled
<1> QED
  BY <1>1, <1>2, <1>3

-----------------------------------------------------------------------------
\* What a finished handler answers is settled only if the row is.
LEMMA AnswersAreTrue ==
  ASSUME PreparationInv, PageInv, [Next]_vars, NEW w \in Workers, HandlerStep(w),
         reply' # reply
  PROVE  \E answer \in Statuses \cup {"error"} \cup Payloads \cup {None} :
            /\ reply' = [reply EXCEPT ![w] = answer]
            /\ answer \in Settled => prep'.status = answer
<1> DEFINE Sound(answer) ==
             /\ answer \in Statuses \cup {"error"} \cup Payloads \cup {None}
             /\ answer \in Settled => prep'.status = answer
<1>0. Sound("error")
  BY DEF Settled
<1>1. ASSUME NEW answers, Answers(w, answers), \A answer \in answers : Sound(answer)
      PROVE  \E answer : Sound(answer) /\ reply' = [reply EXCEPT ![w] = answer]
  BY <1>1 DEF Answers, Owes
<1>m. IsTrueMemory(work[w], payload) /\ work[w] \in Memory
  BY DEF PreparationInv, MemoryIsTrue, TypeOK, Memory
<1>p. prep.status \in Statuses /\ (prep.status \in Settled => prep'.status = prep.status)
  BY SettledStays DEF PreparationInv, TypeOK
<1>2. CASE Answers(w, {"error"})
  BY <1>2, <1>0, <1>1
<1>3. CASE StoreHandoff(w)
           /\ Answers(w, {IF prep.status \in Replaceable THEN work[w].payload ELSE "error"})
  <2>1. Sound(work[w].payload)
    BY <1>3, <1>m DEF IsTrueMemory, StoreHandoff, At, Settled, Statuses
  <2> QED
    BY <1>3, <2>1, <1>0, <1>1
<1>4. CASE Apply(w) /\ Answers(w, {Updated(w, work[w].heard)}
                                  \cup (IF work[w].heard = "failed" THEN {"error"} ELSE {}))
  <2>1. UpdateStatus(work[w].saw, work[w].heard, work[w].payload)
    BY <1>4 DEF Apply
  <2>2. work[w].heard \in Statuses
    BY <1>4, <1>m DEF Apply, At, IsTrueMemory, Heard, Statuses, Ended, InVerification
  <2>3. Sound(Updated(w, work[w].heard))
    BY <2>1, <2>2, UpdatesAreTrue DEF PageInv
  <2> QED
    BY <1>4, <2>3, <1>0, <1>1
<1>5. CASE Conclude(w) /\ Answers(w, {Updated(w, Conclusion[work[w].heard])})
  <2>1. UpdateStatus(work[w].saw, Conclusion[work[w].heard], work[w].payload)
    BY <1>5 DEF Conclude
  <2>2. Conclusion[work[w].heard] \in Statuses
    BY <1>5, <1>m DEF Conclude, At, IsTrueMemory, Conclusion, Verdicts, Statuses, Ended,
                      InVerification, Settled
  <2>3. Sound(Updated(w, Conclusion[work[w].heard]))
    BY <2>1, <2>2, UpdatesAreTrue DEF PageInv
  <2> QED
    BY <1>5, <2>3, <1>1
<1>6. CASE Recheck(w) /\ Answers(w, {prep.status})
  BY <1>6, <1>p, <1>1
<1>7. CASE Fallback(w) /\ Answers(w, {Updated(w, "verifying")})
  <2>1. UpdateStatus(work[w].saw, "verifying", work[w].payload)
    BY <1>7 DEF Fallback
  <2>2. "verifying" \in Statuses
    BY DEF Statuses, InVerification
  <2>3. Sound(Updated(w, "verifying"))
    BY <2>1, <2>2, UpdatesAreTrue DEF PageInv
  <2> QED
    BY <1>7, <2>3, <1>1
<1>8. CASE Abandon(w) /\ Answers(w, AfterFailure(w))
  <2>1. call[w].row \in Statuses \ Settled
    BY DEF PageInv, PageTyped, Calls
  <2>2. \A answer \in AfterFailure(w) : Sound(answer)
    BY <2>1, <1>0 DEF AfterFailure
  <2> QED
    BY <1>8, <2>2, <1>1
<1> QED
  <2> HIDE DEF Sound
  <2> QED
    BY <1>2, <1>3, <1>4, <1>5, <1>6, <1>7, <1>8 DEF HandlerStep

LEMMA PageInvInit == InitPage => PageInv
  BY DEF InitPage, Init, PageInv, PageTyped, RemembersSettled, ReadyScreenIsTrue, Screens,
         Calls, NoCall, Idle, Settled, Statuses, Ended, InVerification

\* Each step of the page or of a handler.
LEMMA PageInvStep ==
  ASSUME PreparationInv, PageInv, [NextPage]_pageVars
  PROVE  PageInv'
<1>1. [Next]_vars
  BY PageStepIsAStep
<1>2. RemembersSettled'
  BY <1>1, HandlersRemember DEF PageInv
<1>3. prep.status \in Statuses /\ (prep.status \in Settled => prep'.status = prep.status)
  BY <1>1, SettledStays DEF PreparationInv, TypeOK
<1>t. PageTyped /\ ReadyScreenIsTrue
  BY DEF PageInv
<1>4. ASSUME UNCHANGED page
      PROVE  PageTyped' /\ ReadyScreenIsTrue'
  BY <1>4, <1>3, <1>t DEF page, PageTyped, ReadyScreenIsTrue
<1>5. ASSUME NEW w \in Workers, NEW answer \in Statuses \cup {"error"} \cup Payloads \cup {None},
             reply' = [reply EXCEPT ![w] = answer], answer \in Settled => prep'.status = answer,
             screen' = screen, call' \in [Workers -> Calls]
      PROVE  PageTyped' /\ ReadyScreenIsTrue'
  BY <1>5, <1>3, <1>t DEF PageTyped, ReadyScreenIsTrue
<1>6. ASSUME NEW w \in Workers, CallDetails(w) \/ Check(w) \/ Start(w)
      PROVE  PageTyped' /\ ReadyScreenIsTrue'
  <2>1. call' \in [Workers -> Calls] /\ screen' = screen
    <3>1. "required" \in Statuses \ Settled /\ (Resumable => prep.status \in Statuses \ Settled)
      BY <1>3 DEF Resumable, Statuses, Settled, InVerification
    <3> QED
      BY <1>6, <3>1, <1>t DEF CallDetails, Check, Start, Place, PageTyped, Calls
  <2>2. reply' = reply \/ reply' = [reply EXCEPT ![w] = prep.status]
    BY <1>6 DEF CallDetails, Check, Start, Owes
  <2>3. CASE reply' = reply
    BY <2>1, <2>3, <1>3, <1>t DEF PageTyped, ReadyScreenIsTrue
  <2>4. CASE reply' = [reply EXCEPT ![w] = prep.status]
    BY <2>1, <2>4, <1>3, <1>5
  <2> QED
    BY <2>2, <2>3, <2>4
<1>7. ASSUME NEW w \in Workers, HandlerStep(w)
      PROVE  PageTyped' /\ ReadyScreenIsTrue'
  <2>0. screen' = screen /\ working' = working /\ call' = call
    BY <1>7 DEF HandlerStep
  <2>1. CASE reply' = reply
    BY <2>0, <2>1, <1>4 DEF page
  <2>2. CASE reply' # reply
    <3>1. PICK answer \in Statuses \cup {"error"} \cup Payloads \cup {None} :
            /\ reply' = [reply EXCEPT ![w] = answer]
            /\ answer \in Settled => prep'.status = answer
      BY <2>2, <1>1, <1>7, AnswersAreTrue
    <3> QED
      BY <2>0, <3>1, <1>5, <1>t DEF PageTyped
  <2> QED
    BY <2>1, <2>2
<1>8. ASSUME NEW w \in Workers, Reread(w)
      PROVE  PageTyped' /\ ReadyScreenIsTrue'
  <2>1. /\ screen' = screen /\ call' = call
        /\ reply' = [reply EXCEPT ![w] = IF prep.payload = reply[w] THEN prep.status ELSE "error"]
    BY <1>8 DEF Reread, Owes
  <2> QED
    BY <2>1, <1>3, <1>5, <1>t DEF PageTyped, Settled
<1>9. ASSUME NEW w \in Workers, Receive(w)
      PROVE  PageTyped' /\ ReadyScreenIsTrue'
  <2>1. /\ reply[w] \in Statuses \cup {"error"} /\ screen' \in {reply[w], "error"}
        /\ call' = [call EXCEPT ![w] = NoCall] /\ reply' = [reply EXCEPT ![w] = None]
        /\ prep' = prep
    BY <1>9 DEF Receive, Owes, vars
  <2>2. NoCall \in Calls
    BY DEF NoCall, Calls, Statuses, Settled
  <2>3. None \notin Settled /\ "error" \notin Settled
    BY DEF Settled, Statuses
  <2> QED
    BY <2>1, <2>2, <2>3, <1>t DEF PageTyped, ReadyScreenIsTrue, Screens
<1>10. PageTyped' /\ ReadyScreenIsTrue'
  BY <1>4, <1>6, <1>7, <1>8, <1>9 DEF NextPage, LoadDetails, ChangeLanguage, OtherPage, pageVars
<1> QED
  BY <1>2, <1>10 DEF PageInv

-----------------------------------------------------------------------------
\* What the page and other pages make of a preparation is what its handlers allow,
\* so the theorems about the preparation hold of it.
THEOREM PageDrivesThePreparation == PageSafety => Spec
<1>1. InitPage => Init
  BY DEF InitPage
<1> QED
  BY <1>1, PageStepIsAStep, PTL DEF PageSafety, Spec

\* The page says ready only of a preparation that is, whatever calls overlap.
THEOREM ReadyScreensAreTrue == PageSafety => []ReadyScreenIsTrue
<1>1. InitPage => PreparationInv /\ PageInv
  BY InvInit, PageInvInit DEF InitPage
<1>2. PreparationInv /\ PageInv /\ [NextPage]_pageVars => PreparationInv' /\ PageInv'
  BY InvStep, PageStepIsAStep, PageInvStep
<1>3. PageInv => ReadyScreenIsTrue
  BY DEF PageInv
<1> QED
  BY <1>1, <1>2, <1>3, PTL DEF PageSafety

=============================================================================
