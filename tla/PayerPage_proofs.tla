--------------------------- MODULE PayerPage_proofs ---------------------------
(***************************************************************************)
(* Proofs about PayerPage, for any number of payloads and of overlapping   *)
(* calls: the page says paid only of a slot that is, verifies a payload    *)
(* once at a time, and shows no screen without a button that nothing will  *)
(* replace.                                                                *)
(***************************************************************************)
EXTENDS PayerPage, FiniteSetTheorems, TLAPS

USE PageConstants

Kinds == {"idle", "details", "readiness"} \cup FlowKinds
Answers ==
    {"none", "lost", "error", "loaded", "allowed", "blocked", "created", "waiting",
     "submitted", "rejected", "expired", "absent", "signed", "verified", "conflict", "mismatch",
     "failed", "pending", "SLOT_ALREADY_PAID", "BILL_NOT_PAYABLE",
     "PAYMENT_READINESS_BLOCKED", "PAYMENT_RECONCILIATION_UNAVAILABLE"}
CallRecords ==
    [kind : Kinds, payload : Payloads \cup {None}, page : {"mounted", "left", "closed"},
     by : {"page", "button"}, answer : Answers]
Loads == {"unread", "loading", "loaded"} \cup Lifecycles
Views == {"ready", "creating", "waiting", "verifying", "verified"} \cup Lifecycles

ShellStates ==
    [details : Loads, readiness : {"unknown", "allowed", "blocked"}, loading : BOOLEAN,
     error : Answers]

FlowStates ==
    [details : Loads, view : Views, payload : Payloads \cup {None}, submitted : BOOLEAN,
     confirming : BOOLEAN, working : BOOLEAN, verifying : SUBSET Payloads]

\* What names a payload does: calls about one, and screens of one.
NamesPayload ==
    /\ \A c \in Calls :
        /\ call[c].kind \in {"status", "verify"} => call[c].payload \in Payloads
        /\ call[c].kind = "payload" /\ call[c].answer = "created" => call[c].payload \in Payloads
        /\ call[c].kind = "flowDetails" => call[c].payload = None
    /\ flow.view = "waiting" => flow.payload \in Payloads

PageTyped ==
    /\ slot \in {"payable", "review", "paid"}
    /\ active \in Payloads \cup {None} /\ seen \subseteq Payloads
    /\ provider \in [Payloads -> {"absent", "waiting", "signed", "submitted", "rejected"}]
    /\ elapsed \subseteq Payloads
    /\ tx \in [Payloads -> {"none", "pending", "success", "mismatch", "failed", "lapsed"}]
    /\ call \in [Calls -> CallRecords]
    /\ shell \in ShellStates
    /\ flow \in FlowStates

\* A flow that is not mounted remembers nothing and waits for nothing.
FlowInOrder ==
    /\ \A c \in Calls : call[c].kind \in FlowKinds /\ Mounted(c) => FlowMounted
    /\ \A c \in Calls : call[c].by = "button" => call[c].kind \in FlowKinds \ {"payload"}
    /\ ~FlowMounted => flow = NewFlow

VerifiesOnce ==
    /\ \A c \in Calls : call[c].kind = "verify" /\ Mounted(c) => call[c].payload \in flow.verifying
    /\ \A p \in flow.verifying :
        \E c \in Calls : call[c].kind = "verify" /\ Mounted(c) /\ call[c].payload = p
    /\ \A c, d \in Calls :
        call[c].kind = "verify" /\ Mounted(c) /\ call[d].kind = "verify" /\ Mounted(d)
        /\ call[c].payload = call[d].payload => c = d

\* Every message that says paid, on its way or on the page, is true.
SaysPaid(c) ==
    \/ call[c].kind = "verify" /\ call[c].answer = "verified"
    \/ call[c].kind # "status" /\ call[c].answer = "SLOT_ALREADY_PAID"

PaidIsTrue ==
    /\ \A c \in Calls : SaysPaid(c) => slot = "paid"
    /\ \/ shell.details = "already_paid" \/ shell.error = "SLOT_ALREADY_PAID"
       \/ flow.details = "already_paid" \/ flow.view \in {"already_paid", "verified"}
       => slot = "paid"

PageInv ==
    /\ PageTyped /\ NamesPayload /\ FlowInOrder
    /\ VerifiesOnce /\ PaidIsTrue /\ BusyScreensEnd


-----------------------------------------------------------------------------
(* Types.                                                                  *)

\* Every code that can answer a call is the message of a screen.
LEMMA ScreensOfAnswers ==
  ASSUME NEW a \in Answers
  PROVE  /\ LifecycleFromApiError(a) \in Lifecycles
         /\ LifecycleFromVerification(a) \in Lifecycles
         /\ LifecycleFromApiError(a) = "already_paid" => a = "SLOT_ALREADY_PAID"
         /\ LifecycleFromVerification(a) # "already_paid"
  BY DEF LifecycleFromApiError, LifecycleFromVerification, Lifecycles, Answers, Temporary

\* The steps of the server, of the ledger and of the world change no screen.
Quiet ==
    \/ \E c \in Calls : Served(c) \/ Lose(c) \/ Outage(c)
    \/ \E p \in Payloads : Sign(p) \/ Resolve(p) \/ Reject(p) \/ Elapse(p) \/ Validate(p)
    \/ LoseReadiness \/ GainReadiness \/ AuthorizeRetry

LEMMA InitTyped == Init => PageInv
<1> SUFFICES ASSUME Init PROVE PageInv
  OBVIOUS
<1>1. PageTyped
  BY DEF Init, PageTyped, CallRecords, NoCall, NewShell, NewFlow, FlowStates, ShellStates, Kinds,
         Answers, Loads, Views
<1>2. ~FlowMounted /\ \A c \in Calls : call[c] = NoCall
  BY DEF Init, FlowMounted, NewShell
<1> QED
  BY <1>1, <1>2 DEF Init, PageInv, NamesPayload, FlowInOrder, VerifiesOnce,
     PaidIsTrue, SaysPaid, BusyScreensEnd, NoCall, NewShell, NewFlow, FlowKinds

\* What an answer leaves of the calls.
LEMMA Answering ==
  ASSUME call \in [Calls -> CallRecords], NEW c \in Calls, NEW a \in Answers,
         NEW p \in Payloads \cup {None},
         \/ call' = [call EXCEPT ![c].answer = a] /\ p = call[c].payload
         \/ call' = [call EXCEPT ![c].answer = a, ![c].payload = p]
  PROVE  /\ call' \in [Calls -> CallRecords]
         /\ \A d \in Calls : call'[d].kind = call[d].kind
                             /\ call'[d].page = call[d].page /\ call'[d].by = call[d].by
         /\ \A d \in Calls \ {c} : call'[d] = call[d]
         /\ call'[c].answer = a /\ call'[c].payload = p
<1>1. call[c] \in CallRecords
  OBVIOUS
<1>2. CASE call' = [call EXCEPT ![c] = [call[c] EXCEPT !.answer = a]] /\ p = call[c].payload
  BY <1>1, <1>2 DEF CallRecords
<1>3. CASE call' = [call EXCEPT ![c] = [call[c] EXCEPT !.answer = a, !.payload = p]]
  BY <1>1, <1>3 DEF CallRecords
<1> QED
  BY <1>2, <1>3

\* What such a step keeps.
QuietKeeps ==
    /\ PageTyped' /\ NamesPayload'
    /\ UNCHANGED page
    /\ \A d \in Calls :
        /\ call'[d].kind = call[d].kind /\ call'[d].page = call[d].page /\ call'[d].by = call[d].by
        /\ call[d].kind # "payload" => call'[d].payload = call[d].payload
        /\ SaysPaid(d)' => SaysPaid(d) \/ slot' = "paid"
    /\ slot = "paid" => slot' = "paid"

\* A call is answered, and what is stored meanwhile agrees with the answer.
AnswerStep(c, a, p) ==
    /\ \/ call' = [call EXCEPT ![c].answer = a] /\ p = call[c].payload
       \/ call' = [call EXCEPT ![c].answer = a, ![c].payload = p]
    /\ p = call[c].payload \/ (call[c].kind = "payload" /\ p \in Payloads)
    /\ a = "created" => p \in Payloads
    /\ a \in {"verified", "SLOT_ALREADY_PAID"} => slot' = "paid"
    /\ slot' \in {"payable", "review", "paid"} /\ (slot = "paid" => slot' = "paid")
    /\ active' \in Payloads \cup {None} /\ seen' \subseteq Payloads
    /\ UNCHANGED <<elapsed, tx, ready, page>>
    /\ provider' \in [Payloads -> {"absent", "waiting", "signed", "submitted", "rejected"}]

LEMMA AnswerKeeps ==
  ASSUME PageTyped, NamesPayload, NEW c \in Calls, NEW a \in Answers, NEW p \in Payloads \cup {None},
         AnswerStep(c, a, p)
  PROVE  QuietKeeps
<1> USE DEF AnswerStep
<1>1. /\ call' \in [Calls -> CallRecords]
      /\ \A d \in Calls : call'[d].kind = call[d].kind
                          /\ call'[d].page = call[d].page /\ call'[d].by = call[d].by
      /\ \A d \in Calls \ {c} : call'[d] = call[d]
      /\ call'[c].answer = a /\ call'[c].payload = p
  BY Answering DEF PageTyped
<1>2. PageTyped'
  BY <1>1 DEF PageTyped, page
<1>3. NamesPayload'
  BY <1>1 DEF NamesPayload, page
<1>4. \A d \in Calls : SaysPaid(d)' => SaysPaid(d) \/ slot' = "paid"
  BY <1>1 DEF SaysPaid
<1> QED
  BY <1>1, <1>2, <1>3, <1>4 DEF QuietKeeps

LEMMA QuietSteps ==
  ASSUME PageInv, Quiet PROVE QuietKeeps
<1>0. /\ PageTyped /\ NamesPayload
      /\ \A c \in Calls : call[c].payload \in Payloads \cup {None}
  BY DEF PageInv, PageTyped, CallRecords
<1>a. ASSUME NEW c \in Calls, NEW a \in Answers \ {"created"}, Serve(c, a),
             a \in {"verified", "SLOT_ALREADY_PAID"} => slot' = "paid",
             slot' \in {"payable", "review", "paid"}, slot = "paid" => slot' = "paid",
             active' \in Payloads \cup {None}, seen' \subseteq Payloads,
             UNCHANGED <<elapsed, tx, ready, page, provider>>
      PROVE  QuietKeeps
  <2>1. AnswerStep(c, a, call[c].payload)
    <3>1. provider' \in [Payloads -> {"absent", "waiting", "signed", "submitted", "rejected"}]
      BY <1>0, <1>a DEF PageTyped
    <3>2. a # "created" /\ UNCHANGED <<elapsed, tx, ready, page>>
      BY <1>a
    <3> QED
      BY <1>a, <3>1, <3>2, Zenon DEF Serve, AnswerStep
  <2> QED
    BY <1>0, <2>1, AnswerKeeps
<1>b. /\ slot \in {"payable", "review", "paid"}
      /\ active \in Payloads \cup {None} /\ seen \subseteq Payloads
  BY <1>0 DEF PageTyped
<1>1. ASSUME NEW c \in Calls, ServeDetails(c) PROVE QuietKeeps
  <2>1. PICK a \in {"loaded", "SLOT_ALREADY_PAID", "BILL_NOT_PAYABLE"} :
            Serve(c, a) /\ (a = "SLOT_ALREADY_PAID" => slot = "paid")
    BY <1>1, <1>0, Zenon DEF ServeDetails, SlotError
  <2> QED
    BY <1>1, <1>a, <1>b, <2>1 DEF ServeDetails, server, world, page, Answers
<1>2. ASSUME NEW c \in Calls, ServeReadiness(c) PROVE QuietKeeps
  <2>1. PICK a \in {"allowed", "blocked", "SLOT_ALREADY_PAID", "BILL_NOT_PAYABLE"} :
            Serve(c, a) /\ (a = "SLOT_ALREADY_PAID" => slot = "paid")
    <3>1. CASE slot # "payable"
      BY <1>2, <3>1, Zenon DEF ServeReadiness, SlotError
    <3>2. CASE slot = "payable" /\ ready
      BY <1>2, <3>2, Zenon DEF ServeReadiness
    <3>3. CASE slot = "payable" /\ ~ready
      BY <1>2, <3>3, Zenon DEF ServeReadiness
    <3> QED
      BY <3>1, <3>2, <3>3
  <2> QED
    BY <1>2, <1>a, <1>b, <2>1 DEF ServeReadiness, server, world, page, Answers
<1>3. ASSUME NEW c \in Calls, ServePayload(c) PROVE QuietKeeps
  <2>0. call[c].kind = "payload" /\ UNCHANGED <<elapsed, tx, ready, page, trouble>>
    BY <1>3 DEF ServePayload
  <2>1. ASSUME NEW code \in {"SLOT_ALREADY_PAID", "BILL_NOT_PAYABLE", "PAYMENT_READINESS_BLOCKED"},
               RefuseHandoff(c, code), code = "SLOT_ALREADY_PAID" => slot = "paid"
        PROVE  QuietKeeps
    BY <1>a, <1>b, <2>0, <2>1 DEF RefuseHandoff, server, Answers
  <2>2. CASE StillActive /\ Resume(c)
    <3>1. AnswerStep(c, "created", active)
      BY <1>0, <1>b, <2>0, <2>2 DEF Resume, StillActive, AnswerStep, PageTyped, server
    <3> QED
      BY <1>0, <1>b, <3>1, AnswerKeeps DEF Answers
  <2>3. CASE SettleEarlier(c)
    BY <1>a, <1>b, <2>0, <2>3 DEF SettleEarlier, Answers
  <2>4. ASSUME NEW p \in Payloads, CreateNew(c, p) PROVE QuietKeeps
    <3>1. AnswerStep(c, "created", p)
      BY <1>0, <1>b, <2>0, <2>4 DEF CreateNew, AnswerStep, PageTyped
    <3> QED
      BY <1>0, <3>1, AnswerKeeps DEF Answers
  <2> QED
    BY <1>3, <2>1, <2>2, <2>3, <2>4 DEF ServePayload, SlotError
<1>4. ASSUME NEW c \in Calls, ServeStatus(c) PROVE QuietKeeps
  <2>1. call[c].payload \in Payloads /\ call[c].kind = "status"
    BY <1>0, <1>4 DEF ServeStatus, NamesPayload
  <2>2. Status(call[c].payload) \in {"absent", "waiting", "expired", "submitted", "rejected"}
    BY <1>0, <2>1 DEF Status, PageTyped
  <2>3. PICK a \in {"error", "absent", "waiting", "expired", "submitted", "rejected"} : Serve(c, a)
    BY <1>4, <2>2, Zenon DEF ServeStatus
  <2>4. /\ active' \in Payloads \cup {None} /\ seen' \subseteq Payloads /\ slot' = slot
        /\ UNCHANGED <<world, page>>
    BY <1>b, <1>4, <2>1 DEF ServeStatus, server
  <2> QED
    BY <1>a, <1>b, <2>3, <2>4 DEF world, Answers
<1>5. ASSUME NEW c \in Calls, ServeVerify(c) PROVE QuietKeeps
  <2>1. PICK a \in {"conflict", "verified", "mismatch", "failed", "pending"} :
            /\ Serve(c, a) /\ (a = "verified" => slot' = "paid")
            /\ slot' \in {"payable", "review", "paid"} /\ (slot = "paid" => slot' = "paid")
    <3> DEFINE verdict == tx[call[c].payload]
    <3>1. CASE verdict = "success" /\ slot = "review" /\ Serve(c, "conflict") /\ slot' = slot
      BY <3>1, Zenon
    <3>2. CASE verdict = "success" /\ slot # "review" /\ Serve(c, "verified") /\ slot' = "paid"
      BY <3>2, Zenon
    <3>3. CASE verdict = "mismatch" /\ Serve(c, "mismatch")
               /\ slot' = IF slot = "paid" THEN slot ELSE "review"
      BY <3>3, Zenon
    <3>4. CASE Serve(c, "failed") /\ UNCHANGED slot
      BY <1>b, <3>4, Zenon
    <3>5. CASE Serve(c, "pending") /\ UNCHANGED slot
      BY <1>b, <3>5, Zenon
    <3> QED
      BY <1>5, <3>1, <3>2, <3>3, <3>4, <3>5, Zenon DEF ServeVerify
  <2> QED
    BY <1>5, <1>a, <1>b, <2>1 DEF ServeVerify, world, Answers
<1>6. ASSUME NEW c \in Calls, Lose(c) \/ Outage(c) PROVE QuietKeeps
  <2>1. PICK a \in {"lost", "PAYMENT_RECONCILIATION_UNAVAILABLE"} : Serve(c, a)
    BY <1>6, Zenon DEF Lose, Outage
  <2> QED
    BY <1>6, <1>a, <1>b, <2>1 DEF Lose, Outage, server, world, Answers
<1>7. ASSUME UNCHANGED <<call, page>>, PageTyped',
             slot' = slot \/ (slot = "review" /\ slot' = "payable")
      PROVE  QuietKeeps
  BY <1>0, <1>7 DEF QuietKeeps, NamesPayload, SaysPaid, page
<1>8. ASSUME NEW p \in Payloads, Sign(p) \/ Resolve(p) \/ Reject(p) \/ Elapse(p) \/ Validate(p)
      PROVE  QuietKeeps
  <2>1. UNCHANGED <<call, page, server>>
    BY <1>8 DEF Sign, Resolve, Reject, Elapse, Validate
  <2>2. /\ provider' \in [Payloads -> {"absent", "waiting", "signed", "submitted", "rejected"}]
        /\ elapsed' \subseteq Payloads
        /\ tx' \in [Payloads -> {"none", "pending", "success", "mismatch", "failed", "lapsed"}]
    BY <1>0, <1>8 DEF Sign, Resolve, Reject, Elapse, Validate, PageTyped
  <2>3. PageTyped'
    BY <1>0, <2>1, <2>2 DEF PageTyped, page, server
  <2> QED
    BY <1>7, <2>1, <2>3 DEF server
<1>9. CASE LoseReadiness \/ GainReadiness \/ AuthorizeRetry
  <2>1. /\ UNCHANGED <<call, page, active, seen, provider, elapsed, tx>>
        /\ slot' = slot \/ (slot = "review" /\ slot' = "payable")
    BY <1>9, Zenon DEF LoseReadiness, GainReadiness, AuthorizeRetry, server, world
  <2>2. PageTyped'
    BY <1>0, <2>1 DEF PageTyped, page
  <2> QED
    BY <1>7, <2>1, <2>2
<1> QED
  BY <1>1, <1>2, <1>3, <1>4, <1>5, <1>6, <1>8, <1>9 DEF Quiet, Served

LEMMA AskedCall ==
  ASSUME NEW k \in Kinds, NEW p \in Payloads \cup {None}, NEW b \in {"page", "button"}
  PROVE  /\ Ask(k, p, b) \in CallRecords /\ NoCall \in CallRecords
         /\ Ask(k, p, b).kind = k /\ Ask(k, p, b).payload = p /\ Ask(k, p, b).by = b
         /\ Ask(k, p, b).page = "mounted" /\ Ask(k, p, b).answer = "none"
<1>1. "none" \in Answers /\ "idle" \in Kinds
  BY DEF Answers, Kinds
<1>2. /\ NoCall \in CallRecords
      /\ NoCall.page = "mounted" /\ NoCall.answer = "none"
  BY <1>1 DEF NoCall, CallRecords
<1>3. ASSUME NEW m \in CallRecords, NEW n, n = [m EXCEPT !.kind = k, !.payload = p, !.by = b]
      PROVE  /\ n \in CallRecords
             /\ n.kind = k /\ n.payload = p /\ n.by = b
             /\ n.page = m.page /\ n.answer = m.answer
  BY <1>3 DEF CallRecords
<1> QED
  BY <1>2, <1>3 DEF Ask

\* What a component that goes away leaves of a call.
LEMMA LeftCall ==
  ASSUME NEW m \in CallRecords
  PROVE  /\ Leave(m) \in CallRecords
         /\ Leave(m).kind = m.kind /\ Leave(m).payload = m.payload /\ Leave(m).by = m.by
         /\ Leave(m).answer = m.answer
         /\ Leave(m).page = IF m.kind \in FlowKinds /\ m.page = "mounted" THEN "left" ELSE m.page
  BY DEF Leave, CallRecords

\* The screens with a button are screens of the mounted flow.
LEMMA ScreensOfTheFlow ==
  ASSUME PageTyped
  PROVE  /\ Screen \in {"ready", "confirming", "waiting"} => FlowMounted /\ flow.details = "loaded"
         /\ Screen \in {"ready", "waiting"} => flow.view = Screen
         /\ FlowMounted /\ flow.details = "loaded" /\ Screen \in Lifecycles =>
                flow.view = Screen /\ ~flow.confirming
  BY DEF PageTyped, Screen, FlowMounted, Loads, Lifecycles, FlowStates, ShellStates, Views

-----------------------------------------------------------------------------
(* What starts or ends a call of the mounted flow.                         *)

\* A handler of the flow replaces what call c was by m, and says nothing that is not
\* true and nothing that has no call to end it.
FlowStep(c, m) ==
    /\ UNCHANGED <<server, world, shell>> /\ FlowMounted
    /\ call' = [call EXCEPT ![c] = m]
    /\ call[c].kind = "idle" \/ (call[c].kind \in FlowKinds /\ Mounted(c))
    /\ m \in CallRecords
    /\ m = NoCall \/ (m.kind \in FlowKinds /\ m.page = "mounted" /\ m.answer = "none")
    /\ m.kind \in {"status", "verify"} => m.payload \in Payloads
    /\ m.kind = "flowDetails" => m.payload = None
    /\ m.kind = "payload" => m.by = "page"
    /\ flow' \in FlowStates
    /\ flow'.view = "waiting" => flow'.payload \in Payloads

VerifyingFollows(c, m) ==
    \/ /\ call[c].kind # "verify" /\ m.kind # "verify" /\ flow'.verifying = flow.verifying
    \/ /\ call[c].kind # "verify" /\ m.kind = "verify" /\ m.payload \notin flow.verifying
       /\ flow'.verifying = flow.verifying \cup {m.payload}
    \/ /\ call[c].kind = "verify" /\ m = NoCall
       /\ flow'.verifying = flow.verifying \ {call[c].payload}

PaidIsFounded ==
    flow'.details = "already_paid" \/ flow'.view \in {"already_paid", "verified"} => slot = "paid"

BusyHasACall(c, m) ==
    /\ flow'.details = "loading" =>
        m.kind = "flowDetails" \/ (flow.details = "loading" /\ call[c].kind # "flowDetails")
    /\ flow'.view = "creating" =>
        m.kind = "payload" \/ (flow.view = "creating" /\ call[c].kind # "payload")
    /\ flow'.view = "verifying" =>
        \/ m.kind = "verify" /\ m.payload = flow'.payload
        \/ flow.view = "verifying" /\ flow'.payload = flow.payload /\ call[c].kind # "verify"
    /\ flow'.working => m.by = "button" \/ (flow.working /\ call[c].by # "button")

LEMMA FlowStepKeeps ==
  ASSUME PageInv, NEW c \in Calls, NEW m, FlowStep(c, m), VerifyingFollows(c, m), PaidIsFounded,
         BusyHasACall(c, m)
  PROVE  PageInv'
<1>1. /\ call' \in [Calls -> CallRecords] /\ call'[c] = m
      /\ \A d \in Calls \ {c} : call'[d] = call[d]
      /\ shell' = shell /\ FlowMounted /\ FlowMounted' /\ slot' = slot
      /\ call \in [Calls -> CallRecords]
  BY DEF FlowStep, PageInv, PageTyped, FlowMounted, server
<1>2. /\ m.kind = "idle" \/ (m.kind \in FlowKinds /\ m.page = "mounted" /\ m.answer = "none")
      /\ call[c].kind = "idle" \/ (call[c].kind \in FlowKinds /\ Mounted(c))
      /\ m.kind = "idle" => m = NoCall
      /\ m \in CallRecords
      /\ NoCall.by = "page" /\ NoCall.kind = "idle" /\ NoCall.answer = "none"
  BY DEF FlowStep, NoCall, FlowKinds
<1>3. PageTyped' /\ NamesPayload'
  BY <1>1, <1>2 DEF FlowStep, PageInv, PageTyped, NamesPayload, server, world, NoCall
<1>4. FlowInOrder'
  BY <1>1, <1>2 DEF FlowStep, PageInv, FlowInOrder, Mounted, FlowKinds, NoCall
<1>5. VerifiesOnce'
  BY <1>1, <1>2 DEF PageInv, VerifiesOnce, VerifyingFollows, Mounted, FlowKinds
<1>6. PaidIsTrue'
  BY <1>1, <1>2 DEF PageInv, PaidIsTrue, SaysPaid, PaidIsFounded
<1>7. BusyScreensEnd'
  <2> USE <1>1, <1>2 DEF PageInv, BusyScreensEnd, BusyHasACall, Running, Mounted
  <2>1. (shell.details = "loading" => \E d \in Calls : call[d].kind = "details" /\ Mounted(d))'
    BY DEF FlowKinds
  <2>2. (flow.details = "loading" => Running("flowDetails", None) # {})'
    BY DEF FlowStep
  <2>3. (flow.view = "creating" => \E d \in Calls : call[d].kind = "payload" /\ Mounted(d))'
    OBVIOUS
  <2>4. (flow.view = "verifying" => Running("verify", flow.payload) # {})'
    OBVIOUS
  <2>5. (flow.working => \E d \in Calls : call[d].by = "button" /\ Mounted(d))'
    OBVIOUS
  <2> QED
    BY <2>1, <2>2, <2>3, <2>4, <2>5
<1> QED
  BY <1>3, <1>4, <1>5, <1>6, <1>7 DEF PageInv

\* What the functions that compose a state of the flow change of it.
LEMMA FlowFunctions ==
  ASSUME NEW f \in FlowStates, NEW p \in Payloads
  PROVE  /\ Verifying(f, p) \in FlowStates
         /\ Verifying(f, p).view = "verifying" /\ Verifying(f, p).payload = p
         /\ Verifying(f, p).verifying = f.verifying \cup {p}
         /\ Verifying(f, p).details = f.details /\ Verifying(f, p).working = f.working
         /\ Verified(f, p) \in FlowStates
         /\ Verified(f, p).view = f.view /\ Verified(f, p).payload = f.payload
         /\ Verified(f, p).verifying = f.verifying \ {p}
         /\ Verified(f, p).details = f.details /\ Verified(f, p).working = f.working
<1>1. ASSUME NEW g, g = Verifying(f, p)
      PROVE  /\ g \in FlowStates /\ g.view = "verifying" /\ g.payload = p
             /\ g.verifying = f.verifying \cup {p}
             /\ g.details = f.details /\ g.working = f.working
  BY <1>1 DEF Verifying, FlowStates, Views
<1>2. ASSUME NEW g, g = Verified(f, p)
      PROVE  /\ g \in FlowStates /\ g.view = f.view /\ g.payload = f.payload
             /\ g.verifying = f.verifying \ {p}
             /\ g.details = f.details /\ g.working = f.working
  BY <1>2 DEF Verified, FlowStates
<1> QED
  BY <1>1, <1>2

LEMMA FinishedFlow ==
  ASSUME NEW f \in FlowStates, NEW c \in Calls
  PROVE  /\ Finish(c, f) \in FlowStates
         /\ Finish(c, f).view = f.view /\ Finish(c, f).payload = f.payload
         /\ Finish(c, f).verifying = f.verifying /\ Finish(c, f).details = f.details
         /\ Finish(c, f).working = IF call[c].by = "button" THEN FALSE ELSE f.working
<1> DEFINE g == [f EXCEPT !.working = FALSE]
<1>1. /\ g \in FlowStates /\ g.view = f.view /\ g.payload = f.payload
      /\ g.verifying = f.verifying /\ g.details = f.details /\ g.working = FALSE
  BY DEF FlowStates
<1>2. Finish(c, f) = IF call[c].by = "button" THEN g ELSE f
  BY DEF Finish
<1> HIDE DEF g
<1> QED
  BY <1>1, <1>2

LEMMA RecoveredFlow ==
  ASSUME flow \in FlowStates, NEW v \in Lifecycles, NEW p \in Payloads \cup {None}, NEW b \in BOOLEAN
  PROVE  /\ Recovery(v, p, b) \in FlowStates
         /\ Recovery(v, p, b).view = v /\ Recovery(v, p, b).payload = p
         /\ Recovery(v, p, b).verifying = flow.verifying
         /\ Recovery(v, p, b).details = flow.details /\ Recovery(v, p, b).working = flow.working
<1>1. ASSUME NEW g, g = Recovery(v, p, b)
      PROVE  /\ g \in FlowStates /\ g.view = v /\ g.payload = p
             /\ g.verifying = flow.verifying /\ g.details = flow.details /\ g.working = flow.working
  BY <1>1 DEF Recovery, FlowStates, Views
<1> QED
  BY <1>1

LEMMA OutcomeFlow ==
  ASSUME flow \in FlowStates, NEW a \in Answers, NEW p \in Payloads
  PROVE  /\ Outcome(a, p) \in FlowStates
         /\ Outcome(a, p).view \in {"verified"} \cup (Lifecycles \ {"already_paid"})
         /\ Outcome(a, p).view = "verified" => a = "verified"
         /\ Outcome(a, p).payload = p /\ Outcome(a, p).verifying = flow.verifying
         /\ Outcome(a, p).details = flow.details /\ Outcome(a, p).working = flow.working
<1>1. CASE a = "verified"
  <2>1. ASSUME NEW g, g = [flow EXCEPT !.view = "verified", !.payload = p, !.submitted = TRUE]
        PROVE  /\ g \in FlowStates /\ g.view = "verified" /\ g.payload = p
               /\ g.verifying = flow.verifying /\ g.details = flow.details
               /\ g.working = flow.working
    BY <2>1 DEF FlowStates, Views
  <2> QED
    BY <1>1, <2>1 DEF Outcome
<1>2. CASE a # "verified"
  <2>1. Outcome(a, p) = Recovery(LifecycleFromVerification(a), p, TRUE)
    BY <1>2 DEF Outcome
  <2>2. PICK v \in Lifecycles \ {"already_paid"} : v = LifecycleFromVerification(a)
    BY ScreensOfAnswers
  <2>3. Outcome(a, p) = Recovery(v, p, TRUE) /\ v # "verified" /\ v \in Lifecycles
    BY <2>1, <2>2 DEF Lifecycles
  <2>4. /\ Recovery(v, p, TRUE) \in FlowStates
        /\ Recovery(v, p, TRUE).view = v /\ Recovery(v, p, TRUE).payload = p
        /\ Recovery(v, p, TRUE).verifying = flow.verifying
        /\ Recovery(v, p, TRUE).details = flow.details
        /\ Recovery(v, p, TRUE).working = flow.working
    BY <2>3, RecoveredFlow
  <2> QED
    BY <2>2, <2>3, <2>4
<1> QED
  BY <1>1, <1>2

LEMMA ReloadedFlowIs ==
  ASSUME flow \in FlowStates
  PROVE  /\ ReloadedFlow \in FlowStates
         /\ ReloadedFlow.view = "ready" /\ ReloadedFlow.details = "loading"
         /\ ReloadedFlow.verifying = flow.verifying /\ ReloadedFlow.working = flow.working
<1>1. ASSUME NEW g, g = ReloadedFlow
      PROVE  /\ g \in FlowStates /\ g.view = "ready" /\ g.details = "loading"
             /\ g.verifying = flow.verifying /\ g.working = flow.working
  BY <1>1 DEF ReloadedFlow, FlowStates, Views, Loads
<1> QED
  BY <1>1

-----------------------------------------------------------------------------
(* The handlers of the flow.                                               *)

\* A call of the flow that is not gone belongs to a flow that is mounted.
LEMMA CallOfTheFlow ==
  ASSUME PageInv, NEW c \in Calls, call[c].kind \in FlowKinds, Mounted(c)
  PROVE  FlowMounted
  BY DEF PageInv, FlowInOrder

LEMMA StartedCalls ==
  ASSUME PageInv, NEW c \in Calls,
         \/ LoadDetails(c) \/ Confirm(c) \/ RefreshSilently(c) \/ CheckStatus(c) \/ Recheck(c)
  PROVE  PageInv'
<1>0. /\ flow \in FlowStates /\ PageTyped /\ NamesPayload /\ PaidIsTrue
      /\ {"details", "readiness", "flowDetails", "payload", "status", "verify"} \subseteq Kinds
      /\ flow.payload \in Payloads \cup {None}
  BY DEF PageInv, PageTyped, Kinds, FlowKinds, FlowStates
<1>a. ASSUME NEW k \in FlowKinds, NEW p \in Payloads \cup {None}, NEW b \in {"page", "button"},
             Start(c, k, p, b), FlowMounted, UNCHANGED <<server, world, shell>>,
             k \in {"status", "verify"} => p \in Payloads,
             k = "flowDetails" => p = None,
             k = "payload" => b = "page",
             flow' \in FlowStates, flow'.view = "waiting" => flow'.payload \in Payloads
      PROVE  /\ FlowStep(c, Ask(k, p, b))
             /\ Ask(k, p, b).kind = k /\ Ask(k, p, b).payload = p /\ Ask(k, p, b).by = b
             /\ call[c].kind = "idle" /\ call[c].by = "page"
  <2>1. k \in Kinds
    BY DEF Kinds
  <2>2. PICK m : /\ m = Ask(k, p, b) /\ m \in CallRecords /\ m.kind = k /\ m.payload = p
                 /\ m.by = b /\ m.page = "mounted" /\ m.answer = "none"
    BY <2>1, AskedCall
  <2>3. call[c].kind = "idle" /\ call[c].by = "page" /\ call' = [call EXCEPT ![c] = m]
    BY <1>a, <2>2 DEF Start, NoCall
  <2>4. FlowStep(c, m)
    BY <1>a, <2>2, <2>3 DEF FlowStep
  <2> QED
    BY <2>2, <2>3, <2>4
<1>1. CASE LoadDetails(c)
  <2>1. /\ FlowStep(c, Ask("flowDetails", None, "page"))
        /\ Ask("flowDetails", None, "page").kind = "flowDetails"
        /\ call[c].kind = "idle" /\ call[c].by = "page"
    BY <1>0, <1>1, <1>a, ReloadedFlowIs DEF LoadDetails, FlowKinds
  <2>2. flow' = ReloadedFlow
    BY <1>1 DEF LoadDetails
  <2> QED
    BY <1>0, <2>1, <2>2, ReloadedFlowIs, FlowStepKeeps
       DEF VerifyingFollows, PaidIsFounded, BusyHasACall
<1>2. CASE Confirm(c)
  <2> DEFINE m == Ask("payload", None, "page")
  <2>1. /\ flow' \in FlowStates /\ flow'.view = "creating"
        /\ flow'.verifying = flow.verifying /\ flow'.details = flow.details
        /\ flow'.working = flow.working
    BY <1>0, <1>2 DEF Confirm, FlowStates, Views
  <2>2. FlowMounted
    BY <1>0, <1>2, ScreensOfTheFlow DEF Confirm
  <2>3. /\ FlowStep(c, m) /\ m.kind = "payload"
        /\ call[c].kind = "idle" /\ call[c].by = "page"
    BY <1>0, <1>2, <1>a, <2>1, <2>2 DEF Confirm, FlowKinds
  <2> QED
    BY <1>0, <2>1, <2>3, FlowStepKeeps
       DEF VerifyingFollows, PaidIsFounded, BusyHasACall, PaidIsTrue
<1>3. ASSUME NEW p \in Payloads, NEW b \in {"page", "button"}, Start(c, "status", p, b),
             FlowMounted, UNCHANGED <<server, world, shell>>,
             flow' \in FlowStates, flow'.view = flow.view, flow'.payload = flow.payload,
             flow'.verifying = flow.verifying, flow'.details = flow.details,
             flow'.working => flow.working \/ b = "button"
      PROVE  PageInv'
  <2>1. /\ FlowStep(c, Ask("status", p, b)) /\ Ask("status", p, b).kind = "status"
        /\ Ask("status", p, b).by = b /\ call[c].kind = "idle" /\ call[c].by = "page"
    BY <1>0, <1>3, <1>a DEF FlowKinds, NamesPayload
  <2> QED
    BY <1>0, <1>3, <2>1, FlowStepKeeps
       DEF VerifyingFollows, PaidIsFounded, BusyHasACall, PaidIsTrue
<1>4. CASE RefreshSilently(c)
  BY <1>0, <1>3, <1>4 DEF RefreshSilently, NamesPayload, page
<1>5. CASE CheckStatus(c)
  <2>1. /\ flow' \in FlowStates /\ flow'.view = flow.view /\ flow'.payload = flow.payload
        /\ flow'.verifying = flow.verifying /\ flow'.details = flow.details
    BY <1>0, <1>5 DEF CheckStatus, FlowStates
  <2>2. FlowMounted /\ flow.payload \in Payloads
    BY <1>0, <1>5, ScreensOfTheFlow DEF CheckStatus, NamesPayload
  <2> QED
    BY <1>3, <1>5, <2>1, <2>2 DEF CheckStatus
<1>6. CASE Recheck(c)
  <2> DEFINE p == flow.payload
  <2>0. PICK f : /\ f = [flow EXCEPT !.working = TRUE]
                 /\ f \in FlowStates /\ f.verifying = flow.verifying /\ f.details = flow.details
                 /\ f.view = flow.view /\ f.payload = p
    <3> DEFINE g == [flow EXCEPT !.working = TRUE]
    <3>1. /\ g \in FlowStates /\ g.verifying = flow.verifying /\ g.details = flow.details
          /\ g.view = flow.view /\ g.payload = p
      BY <1>0 DEF FlowStates
    <3> HIDE DEF g
    <3> QED
      BY <3>1 DEF g
  <2>4. FlowMounted /\ UNCHANGED <<server, world, shell>>
    BY <1>6 DEF Recheck
  <2>1. CASE p # None /\ ~InFlight(p) /\ Start(c, "verify", p, "button") /\ flow' = Verifying(f, p)
    <3>1. p \in Payloads
      BY <1>0, <2>1
    <3>2. /\ flow' \in FlowStates /\ flow'.view = "verifying" /\ flow'.payload = p
          /\ flow'.verifying = flow.verifying \cup {p} /\ flow'.details = flow.details
      <4>1. f \in FlowStates /\ flow' = Verifying(f, p)
        BY <2>0, <2>1
      <4>2. /\ Verifying(f, p) \in FlowStates /\ Verifying(f, p).view = "verifying"
            /\ Verifying(f, p).payload = p /\ Verifying(f, p).verifying = f.verifying \cup {p}
            /\ Verifying(f, p).details = f.details
        BY <3>1, <4>1, FlowFunctions
      <4> QED
        BY <2>0, <4>1, <4>2
    <3>3. /\ FlowStep(c, Ask("verify", p, "button")) /\ Ask("verify", p, "button").kind = "verify"
          /\ Ask("verify", p, "button").payload = p /\ Ask("verify", p, "button").by = "button"
          /\ call[c].kind = "idle"
      BY <1>0, <1>a, <2>1, <2>4, <3>1, <3>2 DEF FlowKinds
    <3> QED
      BY <1>0, <2>1, <3>2, <3>3, FlowStepKeeps
         DEF VerifyingFollows, PaidIsFounded, BusyHasACall, PaidIsTrue, InFlight
  <2>2. CASE p # None /\ Start(c, "status", p, "button") /\ flow' = f
    BY <1>0, <1>3, <2>0, <2>2, <2>4
  <2>3. CASE Start(c, "flowDetails", None, "button") /\ flow' = [ReloadedFlow EXCEPT !.working = TRUE]
    <3>1. /\ flow' \in FlowStates /\ flow'.view = "ready" /\ flow'.details = "loading"
          /\ flow'.verifying = flow.verifying
      BY <1>0, <2>3, ReloadedFlowIs DEF FlowStates
    <3>2. /\ FlowStep(c, Ask("flowDetails", None, "button"))
          /\ Ask("flowDetails", None, "button").kind = "flowDetails"
          /\ Ask("flowDetails", None, "button").by = "button"
          /\ call[c].kind = "idle"
      BY <1>0, <1>a, <2>3, <2>4, <3>1 DEF FlowKinds
    <3> QED
      BY <1>0, <3>1, <3>2, FlowStepKeeps DEF VerifyingFollows, PaidIsFounded, BusyHasACall
  <2> QED
    BY <1>6, <2>0, <2>1, <2>2, <2>3 DEF Recheck
<1> QED
  BY <1>1, <1>2, <1>4, <1>5, <1>6

LEMMA EndedCalls ==
  ASSUME PageInv, NEW c \in Calls,
         DeliverFlowDetails(c) \/ DeliverPayload(c) \/ DeliverStatus(c) \/ DeliverVerify(c)
  PROVE  PageInv'
<1>0. /\ flow \in FlowStates /\ PageTyped /\ NamesPayload /\ PaidIsTrue
      /\ call[c] \in CallRecords
      /\ call[c].answer \in Answers /\ call[c].payload \in Payloads \cup {None}
      /\ call[c].by \in {"page", "button"}
  BY DEF PageInv, PageTyped, CallRecords
<1>1. /\ call[c].kind \in FlowKinds /\ Mounted(c) /\ FlowMounted
      /\ UNCHANGED <<server, world, shell>>
  <2>1. call[c].kind \in FlowKinds /\ Mounted(c) /\ UNCHANGED <<server, world, shell>>
    BY DEF DeliverFlowDetails, DeliverPayload, DeliverStatus, DeliverVerify, Answered, FlowKinds
  <2> QED
    BY <2>1, CallOfTheFlow
<1>2. NoCall \in CallRecords /\ NoCall.kind = "idle" /\ NoCall.by = "page"
  BY <1>0, AskedCall DEF NoCall, Kinds
<1>3. ASSUME Done(c), flow' \in FlowStates, flow'.view = "waiting" => flow'.payload \in Payloads
      PROVE  FlowStep(c, NoCall)
  BY <1>1, <1>2, <1>3 DEF Done, FlowStep
<1>4. CASE DeliverFlowDetails(c)
  <2>1. PICK d \in {"loaded"} \cup Lifecycles :
            /\ flow' = Finish(c, [flow EXCEPT !.details = d])
            /\ d = "already_paid" => call[c].answer = "SLOT_ALREADY_PAID"
    <3>1. CASE call[c].answer = "loaded"
      BY <1>4, <3>1 DEF DeliverFlowDetails, Lifecycles
    <3>2. CASE call[c].answer # "loaded"
      BY <1>0, <1>4, <3>2, ScreensOfAnswers DEF DeliverFlowDetails
    <3> QED
      BY <3>1, <3>2
  <2>2. PICK f : /\ f = [flow EXCEPT !.details = d]
                 /\ f \in FlowStates /\ f.verifying = flow.verifying /\ f.details = d
                 /\ f.view = flow.view /\ f.payload = flow.payload /\ f.working = flow.working
    <3> DEFINE g == [flow EXCEPT !.details = d]
    <3>1. /\ g \in FlowStates /\ g.verifying = flow.verifying /\ g.details = d
          /\ g.view = flow.view /\ g.payload = flow.payload /\ g.working = flow.working
      BY <1>0 DEF FlowStates, Loads
    <3> HIDE DEF g
    <3> QED
      BY <3>1 DEF g
  <2>3. /\ flow' \in FlowStates /\ flow'.verifying = flow.verifying /\ flow'.details = d
        /\ flow'.view = flow.view /\ flow'.payload = flow.payload
        /\ flow'.working = IF call[c].by = "button" THEN FALSE ELSE flow.working
    BY <2>1, <2>2, FinishedFlow
  <2>4. FlowStep(c, NoCall) /\ call[c].kind = "flowDetails"
    BY <1>0, <1>3, <1>4, <2>3 DEF DeliverFlowDetails, Answered, NamesPayload
  <2>5. PaidIsFounded
    BY <1>0, <2>1, <2>3, <2>4 DEF PaidIsFounded, PaidIsTrue, SaysPaid
  <2>6. d # "loading"
    BY DEF Lifecycles
  <2> QED
    BY <1>0, <1>2, <2>3, <2>4, <2>5, <2>6, FlowStepKeeps DEF VerifyingFollows, BusyHasACall
<1>5. CASE DeliverPayload(c)
  <2>1. CASE call[c].answer = "created"
    <3>1. /\ flow' \in FlowStates /\ flow'.verifying = flow.verifying
          /\ flow'.details = flow.details /\ flow'.view = "waiting"
          /\ flow'.payload = call[c].payload /\ flow'.working = flow.working
      BY <1>0, <1>5, <2>1 DEF DeliverPayload, FlowStates, Views
    <3>2. FlowStep(c, NoCall) /\ call[c].kind = "payload"
      BY <1>0, <1>3, <1>5, <2>1, <3>1 DEF DeliverPayload, Answered, NamesPayload
    <3> QED
      BY <1>0, <1>2, <3>1, <3>2, FlowStepKeeps
         DEF VerifyingFollows, BusyHasACall, PaidIsFounded, PaidIsTrue, FlowInOrder, PageInv,
             FlowKinds
  <2>2. CASE call[c].answer # "created"
    <3>1. PICK v \in Lifecycles :
              /\ flow' = Recovery(v, None, FALSE)
              /\ v = "already_paid" => call[c].answer = "SLOT_ALREADY_PAID"
      BY <1>0, <1>5, <2>2, ScreensOfAnswers DEF DeliverPayload
    <3>2. /\ flow' \in FlowStates /\ flow'.verifying = flow.verifying
          /\ flow'.details = flow.details /\ flow'.view = v /\ flow'.working = flow.working
      <4> DEFINE g == Recovery(v, None, FALSE)
      <4>1. /\ g \in FlowStates /\ g.verifying = flow.verifying
            /\ g.details = flow.details /\ g.view = v /\ g.working = flow.working
        BY <1>0, RecoveredFlow
      <4>2. flow' = g
        BY <3>1
      <4> HIDE DEF g
      <4> QED  BY <4>1, <4>2
    <3>3. v \notin {"waiting", "creating", "verifying", "verified"}
      BY DEF Lifecycles
    <3>4. FlowStep(c, NoCall) /\ call[c].kind = "payload"
      BY <1>3, <1>5, <3>2, <3>3 DEF DeliverPayload, Answered
    <3>5. PaidIsFounded
      BY <1>0, <3>1, <3>2, <3>3, <3>4 DEF PaidIsFounded, PaidIsTrue, SaysPaid
    <3>6. call[c].by # "button"
      BY <3>4 DEF PageInv, FlowInOrder
    <3> QED
      BY <1>0, <1>2, <3>2, <3>3, <3>4, <3>5, <3>6, FlowStepKeeps
         DEF VerifyingFollows, BusyHasACall
  <2> QED
    BY <2>1, <2>2
<1>6. CASE DeliverStatus(c)
  <2> DEFINE p == call[c].payload
  <2>0. p \in Payloads /\ call[c].kind = "status"
    BY <1>0, <1>6 DEF DeliverStatus, Answered, NamesPayload
  <2>1. CASE ~InFlight(p) /\ flow' = Verifying(flow, p)
             /\ call' = [call EXCEPT ![c] = Ask("verify", p, @.by)]
    <3> DEFINE m == Ask("verify", p, call[c].by)
    <3>1. /\ flow' \in FlowStates /\ flow'.view = "verifying" /\ flow'.payload = p
          /\ flow'.verifying = flow.verifying \cup {p} /\ flow'.details = flow.details
          /\ flow'.working = flow.working
      BY <1>0, <2>0, <2>1, FlowFunctions
    <3>2. /\ m \in CallRecords /\ m.kind = "verify" /\ m.payload = p /\ m.by = call[c].by
          /\ m.page = "mounted" /\ m.answer = "none"
      BY <1>0, AskedCall DEF Kinds, FlowKinds
    <3>3. call' = [call EXCEPT ![c] = m]
      BY <2>1
    <3>4. p \notin flow.verifying
      BY <2>1 DEF InFlight
    <3> HIDE DEF m
    <3>5. FlowStep(c, m)
      BY <1>1, <2>0, <3>1, <3>2, <3>3 DEF FlowStep, FlowKinds
    <3> QED
      BY <1>0, <2>0, <3>1, <3>2, <3>4, <3>5, FlowStepKeeps
         DEF VerifyingFollows, BusyHasACall, PaidIsFounded, PaidIsTrue
  <2>2. CASE flow' = Finish(c, Recovery("retry_safe", p, FALSE)) /\ Done(c)
    <3> DEFINE f == Recovery("retry_safe", p, FALSE)
    <3>1. /\ f \in FlowStates /\ f.view = "retry_safe" /\ f.payload = p
          /\ f.verifying = flow.verifying /\ f.details = flow.details /\ f.working = flow.working
      <4>1. PICK v \in Lifecycles : v = "retry_safe"
        BY DEF Lifecycles
      <4> QED
        BY <1>0, <4>1, RecoveredFlow
    <3>2. flow' = Finish(c, f)
      BY <2>2
    <3> HIDE DEF f
    <3>3. /\ flow' \in FlowStates /\ flow'.view = "retry_safe"
          /\ flow'.verifying = flow.verifying /\ flow'.details = flow.details
          /\ flow'.working = IF call[c].by = "button" THEN FALSE ELSE flow.working
      BY <3>1, <3>2, FinishedFlow
    <3>4. FlowStep(c, NoCall)
      BY <1>3, <2>2, <3>3
    <3> QED
      BY <1>0, <1>2, <2>0, <3>3, <3>4, FlowStepKeeps
         DEF VerifyingFollows, BusyHasACall, PaidIsFounded, PaidIsTrue
  <2>3. CASE flow' = Finish(c, flow) /\ Done(c)
    <3>3. /\ flow' \in FlowStates /\ flow'.view = flow.view /\ flow'.payload = flow.payload
          /\ flow'.verifying = flow.verifying /\ flow'.details = flow.details
          /\ flow'.working = IF call[c].by = "button" THEN FALSE ELSE flow.working
      BY <1>0, <2>3, FinishedFlow
    <3>4. FlowStep(c, NoCall)
      BY <1>0, <1>3, <2>3, <3>3 DEF NamesPayload
    <3> QED
      BY <1>0, <1>2, <2>0, <3>3, <3>4, FlowStepKeeps
         DEF VerifyingFollows, BusyHasACall, PaidIsFounded, PaidIsTrue
  <2> QED
    BY <1>6, <2>1, <2>2, <2>3 DEF DeliverStatus
<1>7. CASE DeliverVerify(c)
  <2> DEFINE p == call[c].payload
             a == call[c].answer
             f == Outcome(a, p)
  <2>0. p \in Payloads /\ call[c].kind = "verify"
    BY <1>0, <1>7 DEF DeliverVerify, Answered, NamesPayload
  <2>1. /\ f \in FlowStates /\ f.payload = p /\ f.verifying = flow.verifying
        /\ f.view \in {"verified"} \cup (Lifecycles \ {"already_paid"})
        /\ f.view = "verified" => a = "verified"
        /\ f.details = flow.details /\ f.working = flow.working
    BY <1>0, <2>0, OutcomeFlow
  <2>2. flow' = Finish(c, Verified(f, p)) /\ Done(c)
    BY <1>7 DEF DeliverVerify
  <2> HIDE DEF f
  <2>3. PICK g : /\ g = Verified(f, p)
                 /\ g \in FlowStates /\ g.view = f.view /\ g.verifying = flow.verifying \ {p}
                 /\ g.details = flow.details /\ g.working = flow.working
    BY <2>0, <2>1, FlowFunctions
  <2>4. /\ flow' \in FlowStates /\ flow'.view = f.view
        /\ flow'.verifying = flow.verifying \ {p} /\ flow'.details = flow.details
        /\ flow'.working = IF call[c].by = "button" THEN FALSE ELSE flow.working
    BY <2>2, <2>3, FinishedFlow
  <2>5. flow'.view \notin {"waiting", "creating", "verifying", "already_paid"}
    BY <2>1, <2>4 DEF Lifecycles
  <2>6. FlowStep(c, NoCall)
    BY <1>3, <2>2, <2>4, <2>5
  <2>7. PaidIsFounded
    BY <1>0, <2>0, <2>1, <2>4, <2>5 DEF PaidIsFounded, PaidIsTrue, SaysPaid
  <2> QED
    BY <1>0, <1>2, <2>0, <2>4, <2>5, <2>6, <2>7, FlowStepKeeps
       DEF VerifyingFollows, BusyHasACall
<1> QED
  BY <1>4, <1>5, <1>6, <1>7

-----------------------------------------------------------------------------
(* The other steps of the flow, and the steps of the shell.                *)

\* Continue, Back and Retry start no call.
LEMMA ButtonsWithoutACall ==
  ASSUME PageInv, Continue \/ Back \/ Retry PROVE PageInv'
<1>0. flow \in FlowStates /\ PageTyped
  BY DEF PageInv, PageTyped
<1>1. UNCHANGED <<server, world, call, shell>>
  BY DEF Continue, Back, Retry
<1>2. FlowMounted
  BY <1>0, ScreensOfTheFlow DEF Continue, Back, Retry
<1>3. /\ flow' \in FlowStates /\ flow'.details = flow.details /\ flow'.working = flow.working
      /\ flow'.verifying = flow.verifying
      /\ \/ flow'.view = flow.view /\ flow'.payload = flow.payload
         \/ flow'.view = "ready"
  BY <1>0 DEF Continue, Back, Retry, FlowStates, Views
<1>4. PageTyped' /\ NamesPayload'
  BY <1>1, <1>3 DEF PageInv, PageTyped, NamesPayload, server, world
<1>5. FlowInOrder' /\ VerifiesOnce' /\ PaidIsTrue'
  BY <1>1, <1>2, <1>3
     DEF PageInv, FlowInOrder, VerifiesOnce, PaidIsTrue, SaysPaid, FlowMounted,
         Mounted, server
<1>6. BusyScreensEnd'
  BY <1>1, <1>2, <1>3 DEF PageInv, BusyScreensEnd, FlowMounted, Running, Mounted
<1> QED
  BY <1>4, <1>5, <1>6 DEF PageInv

\* What a step of the shell, or of the page as a whole, does to call d: it is over,
\* the shell asks with it, nobody shows its answer any more, or it goes on.
ShellCall(d) ==
    \/ call'[d] = NoCall
    \/ /\ call'[d].kind \in {"details", "readiness"}
       /\ call'[d].by = "page" /\ call'[d].answer = "none"
    \/ /\ call'[d].page # "mounted"
       /\ call'[d].kind \in {"status", "verify"} => call'[d].payload \in Payloads
       /\ call'[d].kind = "payload" /\ call'[d].answer = "created" => call'[d].payload \in Payloads
       /\ call'[d].kind = "flowDetails" => call'[d].payload = None
       /\ call'[d].by = "button" => call'[d].kind \in FlowKinds \ {"payload"}
       /\ SaysPaid(d)' => SaysPaid(d)
    \/ call'[d] = call[d]

\* The flow is as it was, with its calls, mounted if it was mounted; or it is gone or
\* new, without any.
ShellStep ==
    /\ UNCHANGED <<server, world>>
    /\ call' \in [Calls -> CallRecords]
    /\ shell' \in ShellStates
    /\ \A d \in Calls : ShellCall(d)
    /\ \/ /\ flow' = NewFlow
          /\ \A d \in Calls : call'[d].kind \in FlowKinds => call'[d].page # "mounted"
       \/ /\ flow' = flow /\ (FlowMounted => FlowMounted')
          /\ \A d \in Calls : call[d].kind \in FlowKinds /\ Mounted(d) => call'[d] = call[d]
    /\ (shell.details = "loading" => \E d \in Calls : call[d].kind = "details" /\ Mounted(d))'
    /\ shell'.details = "already_paid" \/ shell'.error = "SLOT_ALREADY_PAID" => slot = "paid"

LEMMA ShellStepKeeps ==
  ASSUME PageInv, ShellStep PROVE PageInv'
<1>1. /\ UNCHANGED <<slot, active, seen, provider, elapsed, tx, ready>>
      /\ call' \in [Calls -> CallRecords] /\ shell' \in ShellStates
      /\ \A d \in Calls : ShellCall(d)
  BY DEF ShellStep, server, world
<1>2. /\ NewFlow \in FlowStates /\ NewFlow.view = "ready" /\ NewFlow.details = "unread"
      /\ NewFlow.verifying = {} /\ NewFlow.working = FALSE /\ NewFlow.payload = None
      /\ NoCall.kind = "idle" /\ NoCall.by = "page" /\ NoCall.answer = "none"
  BY DEF NewFlow, NoCall, FlowStates, Loads, Views
<1>3. \A d \in Calls : call'[d].kind \in FlowKinds /\ call'[d].page = "mounted" => call'[d] = call[d]
  BY <1>1, <1>2 DEF ShellCall, FlowKinds
<1>4. flow' \in FlowStates
  BY <1>2 DEF ShellStep, PageInv, PageTyped
<1>5. PageTyped'
  BY <1>1, <1>4 DEF PageInv, PageTyped
<1>6. NamesPayload'
  <2>1. flow'.view = "waiting" => flow'.payload \in Payloads
    BY <1>2 DEF ShellStep, PageInv, NamesPayload
  <2>2. \A d \in Calls :
        /\ call'[d].kind \in {"status", "verify"} => call'[d].payload \in Payloads
        /\ call'[d].kind = "payload" /\ call'[d].answer = "created" => call'[d].payload \in Payloads
        /\ call'[d].kind = "flowDetails" => call'[d].payload = None
    BY <1>1, <1>2 DEF ShellCall, PageInv, NamesPayload
  <2> QED
    BY <2>1, <2>2 DEF NamesPayload
<1>7. \A d \in Calls : call'[d].by = "button" => call'[d].kind \in FlowKinds \ {"payload"}
  BY <1>1, <1>2 DEF ShellCall, PageInv, FlowInOrder
<1>8. PaidIsTrue'
  <2>1. \A d \in Calls : SaysPaid(d)' => SaysPaid(d)
    BY <1>1, <1>2 DEF ShellCall, SaysPaid
  <2>2. flow'.details = "already_paid" \/ flow'.view \in {"already_paid", "verified"} => slot = "paid"
    BY <1>2 DEF ShellStep, PageInv, PaidIsTrue
  <2> QED
    BY <1>1, <2>1, <2>2 DEF ShellStep, PageInv, PaidIsTrue
<1>9. CASE flow' = NewFlow /\ \A d \in Calls : call'[d].kind \in FlowKinds => call'[d].page # "mounted"
  <2>1. FlowInOrder'
    BY <1>7, <1>9 DEF FlowInOrder, Mounted
  <2>2. VerifiesOnce'
    BY <1>2, <1>9 DEF VerifiesOnce, Mounted, FlowKinds
  <2>3. BusyScreensEnd'
    BY <1>2, <1>9 DEF ShellStep, BusyScreensEnd
  <2> QED
    BY <1>5, <1>6, <1>8, <2>1, <2>2, <2>3 DEF PageInv
<1>10. CASE /\ flow' = flow /\ (FlowMounted => FlowMounted')
            /\ \A d \in Calls : call[d].kind \in FlowKinds /\ Mounted(d) => call'[d] = call[d]
  <2>1. FlowInOrder'
    BY <1>3, <1>7, <1>10 DEF PageInv, FlowInOrder, Mounted
  <2>2. VerifiesOnce'
    BY <1>3, <1>10 DEF PageInv, VerifiesOnce, Mounted, FlowKinds
  <2>3. BusyScreensEnd'
    <3>1. \A d \in Calls : call[d].by = "button" => call[d].kind \in FlowKinds
      BY DEF PageInv, FlowInOrder
    <3>2. CASE FlowMounted
      BY <1>3, <1>10, <3>1, <3>2
         DEF ShellStep, PageInv, BusyScreensEnd, Running, Mounted, FlowKinds
    <3>3. CASE ~FlowMounted
      BY <1>2, <1>10, <3>3 DEF ShellStep, PageInv, FlowInOrder, BusyScreensEnd
    <3> QED
      BY <3>2, <3>3
  <2> QED
    BY <1>5, <1>6, <1>8, <2>1, <2>2, <2>3 DEF PageInv
<1> QED
  BY <1>9, <1>10 DEF ShellStep

\* A call that nobody's component waits for any more.
LEMMA AbandonedCall ==
  ASSUME PageInv, NEW d \in Calls, call'[d].page # "mounted",
         call'[d].kind = call[d].kind, call'[d].payload = call[d].payload,
         call'[d].by = call[d].by, call'[d].answer = call[d].answer
  PROVE  ShellCall(d)
  BY DEF PageInv, NamesPayload, FlowInOrder, ShellCall, SaysPaid

LEMMA LeftCalls ==
  ASSUME PageInv, NEW d \in Calls, call'[d] = Leave(call[d])
  PROVE  /\ call'[d] \in CallRecords /\ ShellCall(d)
         /\ call'[d].kind = call[d].kind
         /\ call'[d].kind \in FlowKinds => call'[d].page # "mounted"
         /\ call'[d].kind \notin FlowKinds => call'[d].page = call[d].page
<1>1. call[d] \in CallRecords
  BY DEF PageInv, PageTyped
<1>2. /\ call'[d] \in CallRecords
      /\ call'[d].kind = call[d].kind /\ call'[d].payload = call[d].payload
      /\ call'[d].by = call[d].by /\ call'[d].answer = call[d].answer
      /\ call'[d].page = IF call[d].kind \in FlowKinds /\ call[d].page = "mounted"
                         THEN "left" ELSE call[d].page
  BY <1>1, LeftCall
<1>3. CASE call[d].kind \in FlowKinds
  BY <1>2, <1>3, AbandonedCall
<1>4. CASE call[d].kind \notin FlowKinds
  <2>1. Leave(call[d]) = call[d]
    BY <1>4 DEF Leave
  <2> QED
    BY <1>2, <1>4, <2>1 DEF ShellCall
<1> QED
  BY <1>2, <1>3, <1>4

LEMMA ShellSteps ==
  ASSUME PageInv, NEW c \in Calls,
         Load(c) \/ DeliverDetails(c) \/ RecheckReadiness(c) \/ DeliverReadiness(c) \/ Setup(c)
         \/ ChangeLanguage(c)
  PROVE  ShellStep
<1>0. /\ PageTyped /\ PaidIsTrue /\ FlowInOrder
      /\ call \in [Calls -> CallRecords] /\ shell \in ShellStates
      /\ call[c] \in CallRecords /\ call[c].answer \in Answers
  BY DEF PageInv, PageTyped, CallRecords
<1>1. /\ NoCall \in CallRecords /\ NoCall.kind = "idle" /\ NoCall.by = "page"
      /\ NoCall.answer = "none" /\ NoCall.page = "mounted"
  BY AskedCall DEF NoCall, Kinds
<1>2. PICK md : /\ md = Ask("details", None, "page") /\ md \in CallRecords
                /\ md.kind = "details" /\ md.by = "page" /\ md.page = "mounted"
                /\ md.answer = "none"
  BY AskedCall DEF Kinds
<1>3. PICK mr : /\ mr = Ask("readiness", None, "page") /\ mr \in CallRecords
                /\ mr.kind = "readiness" /\ mr.by = "page" /\ mr.page = "mounted"
                /\ mr.answer = "none"
  BY AskedCall DEF Kinds
<1>4. UNCHANGED <<server, world>>
  BY DEF Load, DeliverDetails, RecheckReadiness, DeliverReadiness, Setup, ChangeLanguage
<1>a. ASSUME NEW m \in {NoCall, md, mr}, call' = [call EXCEPT ![c] = m],
             call[c].kind \notin FlowKinds, flow' = flow, FlowMounted => FlowMounted',
             shell' \in ShellStates,
             (shell.details = "loading" => \E d \in Calls : call[d].kind = "details" /\ Mounted(d))',
             shell'.details = "already_paid" \/ shell'.error = "SLOT_ALREADY_PAID" => slot = "paid"
      PROVE  ShellStep
  <2>1. call' \in [Calls -> CallRecords] /\ call'[c] = m /\ \A d \in Calls \ {c} : call'[d] = call[d]
    BY <1>0, <1>1, <1>2, <1>3, <1>a
  <2>2. \A d \in Calls : ShellCall(d)
    BY <1>1, <1>2, <1>3, <2>1 DEF ShellCall
  <2>3. \A d \in Calls : call[d].kind \in FlowKinds /\ Mounted(d) => call'[d] = call[d]
    BY <1>a, <2>1
  <2> QED
    BY <1>4, <1>a, <2>1, <2>2, <2>3 DEF ShellStep
<1>5. CASE Load(c)
  <2>1. /\ call[c] = NoCall /\ call' = [call EXCEPT ![c] = md] /\ flow' = flow
        /\ shell.details \in {"unread", "wait_recheck"}
    BY <1>2, <1>5 DEF Load, Start
  <2>2. /\ shell' \in ShellStates /\ shell'.details = "loading" /\ shell'.readiness = "unknown"
        /\ shell'.error = shell.error
    BY <1>0, <1>5 DEF Load, ShellStates, Loads
  <2>3. call'[c] = md /\ \A d \in Calls \ {c} : call'[d] = call[d]
    BY <1>0, <2>1
  <2>4. ~FlowMounted
    BY <2>1 DEF FlowMounted
  <2> QED
    BY <1>0, <1>1, <1>2, <1>a, <2>1, <2>2, <2>3, <2>4 DEF FlowKinds, Mounted, PaidIsTrue
<1>6. CASE DeliverDetails(c)
  <2>0. call[c].kind = "details" /\ Mounted(c)
    BY <1>6 DEF DeliverDetails, Answered
  <2>1. CASE call[c].answer = "loaded"
    <3>1. call' = [call EXCEPT ![c] = mr] /\ flow' = flow
      BY <1>3, <1>6, <2>1 DEF DeliverDetails
    <3>2. /\ shell' \in ShellStates /\ shell'.details = "loaded"
          /\ shell'.readiness = shell.readiness /\ shell'.error = "none"
      BY <1>0, <1>6, <2>1 DEF DeliverDetails, ShellStates, Loads, Answers
    <3>3. FlowMounted => FlowMounted'
      BY <3>2 DEF FlowMounted
    <3> QED
      BY <1>a, <2>0, <3>1, <3>2, <3>3 DEF FlowKinds
  <2>2. CASE call[c].answer # "loaded"
    <3> DEFINE v == LifecycleFromApiError(call[c].answer)
    <3>0. /\ v \in Lifecycles /\ (v = "already_paid" => call[c].answer = "SLOT_ALREADY_PAID")
          /\ shell' = [shell EXCEPT !.details = v]
      BY <1>0, <1>6, <2>2, ScreensOfAnswers DEF DeliverDetails
    <3> HIDE DEF v
    <3>1. /\ flow' = NewFlow
          /\ call' = [d \in Calls |-> IF d = c THEN NoCall ELSE Leave(call[d])]
      BY <1>6, <2>2 DEF DeliverDetails
    <3>2. /\ shell' \in ShellStates /\ shell'.details = v /\ shell'.error = shell.error
          /\ v # "loading"
      BY <1>0, <3>0 DEF ShellStates, Loads, Lifecycles
    <3>3. call'[c] = NoCall /\ \A d \in Calls \ {c} : call'[d] = Leave(call[d])
      BY <3>1
    <3>4. \A d \in Calls :
            /\ call'[d] \in CallRecords /\ ShellCall(d)
            /\ call'[d].kind \in FlowKinds => call'[d].page # "mounted"
      BY <1>1, <3>3, LeftCalls DEF ShellCall, FlowKinds
    <3>5. call' \in [Calls -> CallRecords]
      BY <3>1, <3>4
    <3>6. v = "already_paid" \/ shell'.error = "SLOT_ALREADY_PAID" => slot = "paid"
      BY <1>0, <2>0, <3>0, <3>2 DEF PaidIsTrue, SaysPaid
    <3> QED
      BY <1>4, <3>1, <3>2, <3>4, <3>5, <3>6 DEF ShellStep
  <2> QED
    BY <2>1, <2>2
<1>7. CASE RecheckReadiness(c)
  <2>1. call[c] = NoCall /\ call' = [call EXCEPT ![c] = mr] /\ flow' = flow
    BY <1>3, <1>7 DEF RecheckReadiness, Start
  <2>2. /\ shell' \in ShellStates /\ shell'.details = shell.details
        /\ shell'.readiness = shell.readiness /\ shell'.error = "none"
    BY <1>0, <1>7 DEF RecheckReadiness, ShellStates, Answers
  <2>3. call'[c] = mr /\ \A d \in Calls \ {c} : call'[d] = call[d]
    BY <1>0, <2>1
  <2>4. FlowMounted => FlowMounted'
    BY <2>2 DEF FlowMounted
  <2>5. (shell.details = "loading" => \E d \in Calls : call[d].kind = "details" /\ Mounted(d))'
    BY <1>1, <2>1, <2>2, <2>3 DEF PageInv, BusyScreensEnd, Mounted
  <2> QED
    BY <1>0, <1>1, <1>a, <2>1, <2>2, <2>4, <2>5 DEF FlowKinds, PaidIsTrue
<1>8. CASE DeliverReadiness(c)
  <2> DEFINE known == call[c].answer \in {"allowed", "blocked"}
             keeps == FlowMounted /\ call[c].answer = "allowed"
  <2>1. call[c].kind = "readiness" /\ Mounted(c)
    BY <1>8 DEF DeliverReadiness, Answered
  <2>2. /\ shell' \in ShellStates /\ shell'.details = shell.details
        /\ shell'.readiness = IF known THEN call[c].answer ELSE "unknown"
        /\ shell'.error = IF known THEN shell.error ELSE call[c].answer
    BY <1>0, <1>8 DEF DeliverReadiness, ShellStates
  <2>3. shell'.error = "SLOT_ALREADY_PAID" => slot = "paid"
    BY <1>0, <2>1, <2>2 DEF PaidIsTrue, SaysPaid
  <2>4. ASSUME \A d \in Calls : /\ call[d].kind = "details" => call'[d].kind = "details"
                                /\ call[d].kind = "details" => call'[d].page = call[d].page
        PROVE  (shell.details = "loading"
                    => \E d \in Calls : call[d].kind = "details" /\ Mounted(d))'
    BY <2>2, <2>4 DEF PageInv, BusyScreensEnd, Mounted
  <2>5. CASE keeps
    <3>1. flow' = flow /\ call' = [d \in Calls |-> IF d = c THEN NoCall ELSE call[d]]
      BY <1>8, <2>5 DEF DeliverReadiness
    <3>2. call' = [call EXCEPT ![c] = NoCall] /\ call'[c] = NoCall
          /\ \A d \in Calls \ {c} : call'[d] = call[d]
      BY <1>0, <3>1
    <3>3. FlowMounted => FlowMounted'
      BY <2>2, <2>5 DEF FlowMounted
    <3> QED
      BY <1>0, <1>1, <1>a, <2>1, <2>2, <2>3, <2>4, <3>1, <3>2, <3>3 DEF FlowKinds, PaidIsTrue
  <2>6. CASE ~keeps
    <3>1. flow' = NewFlow /\ call'[c] = NoCall
          /\ call' = [d \in Calls |-> IF d = c THEN NoCall ELSE Leave(call[d])]
      BY <1>8, <2>6 DEF DeliverReadiness
    <3>2. \A d \in Calls \ {c} : call'[d] = Leave(call[d])
      BY <3>1
    <3>3. \A d \in Calls :
            /\ call'[d] \in CallRecords /\ ShellCall(d)
            /\ call'[d].kind \in FlowKinds => call'[d].page # "mounted"
            /\ call[d].kind = "details" => call'[d].kind = "details"
            /\ call[d].kind = "details" => call'[d].page = call[d].page
      BY <1>1, <2>1, <3>1, <3>2, LeftCalls DEF ShellCall, FlowKinds
    <3>4. call' \in [Calls -> CallRecords]
      BY <3>1, <3>3
    <3> QED
      BY <1>0, <1>4, <2>1, <2>2, <2>3, <2>4, <3>1, <3>3, <3>4 DEF ShellStep, PaidIsTrue
  <2> QED
    BY <2>5, <2>6
<1>9. CASE Setup(c)
  <2>1. /\ flow' = NewFlow /\ call[c] = NoCall
        /\ call' = [d \in Calls |-> IF d = c THEN mr ELSE Leave(call[d])]
    BY <1>3, <1>9 DEF Setup
  <2>2. /\ shell.details = "loaded"
        /\ shell' \in ShellStates /\ shell'.details = shell.details
        /\ shell'.readiness = "unknown" /\ shell'.error = "none"
    BY <1>0, <1>9 DEF Setup, ShellStates, FlowMounted, Answers
  <2>3. /\ call'[c] = mr
        /\ \A d \in Calls \ {c} : call'[d] = Leave(call[d])
    BY <2>1
  <2>4. \A d \in Calls :
          /\ call'[d] \in CallRecords /\ ShellCall(d)
          /\ call'[d].kind \in FlowKinds => call'[d].page # "mounted"
    BY <1>3, <2>3, LeftCalls DEF ShellCall, FlowKinds
  <2>5. call' \in [Calls -> CallRecords]
    BY <2>1, <2>4
  <2> QED
    BY <1>0, <1>4, <2>1, <2>2, <2>4, <2>5 DEF ShellStep, PaidIsTrue
<1>10. CASE ChangeLanguage(c)
  <2>1. /\ flow' = NewFlow
        /\ call' = [d \in Calls |-> IF d = c THEN md ELSE Leave(call[d])]
    BY <1>2, <1>10 DEF ChangeLanguage
  <2>2. /\ shell' \in ShellStates /\ shell'.details = "loading" /\ shell'.error = shell.error
    BY <1>0, <1>10 DEF ChangeLanguage, ShellStates, Loads
  <2>3. /\ call'[c] = md
        /\ \A d \in Calls \ {c} : call'[d] = Leave(call[d])
    BY <2>1
  <2>4. \A d \in Calls :
          /\ call'[d] \in CallRecords /\ ShellCall(d)
          /\ call'[d].kind \in FlowKinds => call'[d].page # "mounted"
    BY <1>2, <2>3, LeftCalls DEF ShellCall, FlowKinds
  <2>5. call' \in [Calls -> CallRecords]
    BY <2>1, <2>4
  <2>6. (shell.details = "loading" => \E d \in Calls : call[d].kind = "details" /\ Mounted(d))'
    BY <1>2, <2>3 DEF Mounted
  <2> QED
    BY <1>0, <1>4, <2>1, <2>2, <2>4, <2>5, <2>6 DEF ShellStep, PaidIsTrue
<1> QED
  BY <1>5, <1>6, <1>7, <1>8, <1>9, <1>10

LEMMA PageSteps ==
  ASSUME PageInv, Reload \/ \E c \in Calls : DeliverLate(c)
  PROVE  ShellStep
<1>0. /\ PageTyped /\ PaidIsTrue /\ FlowInOrder /\ NamesPayload
      /\ call \in [Calls -> CallRecords] /\ shell \in ShellStates
  BY DEF PageInv, PageTyped
<1>1. /\ NoCall \in CallRecords /\ NoCall.kind = "idle"
  BY AskedCall DEF NoCall, Kinds
<1>2. CASE Reload
  <2>0. /\ UNCHANGED <<server, world>> /\ shell' = NewShell /\ flow' = NewFlow
        /\ call' = [d \in Calls |-> IF call[d].kind = "idle" THEN NoCall
                                    ELSE [call[d] EXCEPT !.page = "closed"]]
    BY <1>2 DEF Reload
  <2>1. \A d \in Calls : call'[d] = IF call[d].kind = "idle" THEN NoCall
                                   ELSE [call[d] EXCEPT !.page = "closed"]
    BY <2>0, Zenon
  <2>2. ASSUME NEW d \in Calls
        PROVE  /\ call'[d] \in CallRecords /\ ShellCall(d)
               /\ call'[d].kind # "idle" => call'[d].page # "mounted"
    <3>1. CASE call[d].kind = "idle"
      BY <1>1, <2>1, <3>1 DEF ShellCall
    <3>2. CASE call[d].kind # "idle"
      <4>1. call[d] \in CallRecords
        BY <1>0
      <4>2. /\ call'[d] \in CallRecords /\ call'[d].page = "closed"
            /\ call'[d].kind = call[d].kind /\ call'[d].payload = call[d].payload
            /\ call'[d].by = call[d].by /\ call'[d].answer = call[d].answer
        <5>1. call'[d] = [call[d] EXCEPT !.page = "closed"]
          BY <2>1, <3>2, Zenon
        <5> QED
          BY <4>1, <5>1 DEF CallRecords
      <4> QED
        BY <4>2, AbandonedCall
    <3> QED
      BY <3>1, <3>2
  <2>3. call' \in [Calls -> CallRecords]
    BY <2>0, <2>2, Zenon
  <2>4. /\ shell' \in ShellStates /\ shell'.details = "unread" /\ shell'.readiness = "unknown"
        /\ shell'.error = "none"
    BY <2>0 DEF NewShell, ShellStates, Loads, Answers
  <2> QED
    BY <2>0, <2>2, <2>3, <2>4 DEF ShellStep, FlowKinds
<1>3. ASSUME NEW c \in Calls, DeliverLate(c) PROVE ShellStep
  <2>1. /\ UNCHANGED <<server, world, page>> /\ ~Mounted(c)
    BY <1>3 DEF DeliverLate
  <2>2. call[c] \in CallRecords
    BY <1>0
  <2>a. ASSUME NEW m \in CallRecords, call' = [call EXCEPT ![c] = m], ShellCall(c),
               m.kind = "idle" \/ m.page # "mounted"
        PROVE  ShellStep
    <3>1. call' \in [Calls -> CallRecords] /\ call'[c] = m
          /\ \A d \in Calls \ {c} : call'[d] = call[d]
      BY <1>0, <2>a
    <3>2. \A d \in Calls : ShellCall(d)
      BY <2>a, <3>1 DEF ShellCall
    <3>3. shell' = shell /\ flow' = flow /\ FlowMounted' = FlowMounted
      BY <2>1 DEF page, FlowMounted
    <3>4. (shell.details = "loading" => \E d \in Calls : call[d].kind = "details" /\ Mounted(d))'
      BY <2>1, <3>1, <3>3 DEF PageInv, BusyScreensEnd, Mounted
    <3>5. \A d \in Calls : call[d].kind \in FlowKinds /\ Mounted(d) => call'[d] = call[d]
      BY <2>1, <3>1
    <3> QED
      BY <1>0, <2>1, <3>1, <3>2, <3>3, <3>4, <3>5 DEF ShellStep, PaidIsTrue
  <2>3. CASE Done(c)
    BY <1>0, <1>1, <2>3, <2>a DEF Done, ShellCall
  <2>4. CASE /\ call[c].kind = "status"
             /\ call' = [call EXCEPT ![c] =
                    [Ask("verify", call[c].payload, call[c].by) EXCEPT !.page = "left"]]
    <3> DEFINE n == Ask("verify", call[c].payload, call[c].by)
               m == [n EXCEPT !.page = "left"]
    <3>1. call[c].payload \in Payloads /\ call[c].by \in {"page", "button"}
      BY <1>0, <2>2, <2>4 DEF NamesPayload, CallRecords
    <3>2. /\ n \in CallRecords /\ n.kind = "verify" /\ n.payload = call[c].payload
          /\ n.answer = "none"
      BY <3>1, AskedCall DEF Kinds, FlowKinds
    <3>3. call' = [call EXCEPT ![c] = m]
      BY <2>4
    <3> HIDE DEF n
    <3>4. /\ m \in CallRecords /\ m.kind = "verify" /\ m.payload = call[c].payload
          /\ m.answer = "none" /\ m.page = "left"
      BY <3>2 DEF CallRecords
    <3> HIDE DEF m
    <3>5. call'[c] = m
      BY <1>0, <3>3
    <3>6. ShellCall(c)
      BY <3>1, <3>4, <3>5 DEF ShellCall, SaysPaid, FlowKinds
    <3> QED
      BY <2>a, <3>3, <3>4, <3>6
  <2> QED
    BY <1>3, <2>3, <2>4 DEF DeliverLate, Answered
<1> QED
  BY <1>2, <1>3

-----------------------------------------------------------------------------
(* The theorems.                                                           *)

LEMMA InvariantKept ==
  ASSUME PageInv, [Next]_vars PROVE PageInv'
<1>1. CASE Quiet
  <2>1. QuietKeeps
    BY <1>1, QuietSteps
  <2>2. /\ shell' = shell /\ flow' = flow /\ FlowMounted' = FlowMounted
        /\ PageTyped' /\ NamesPayload'
    BY <2>1 DEF QuietKeeps, page, FlowMounted
  <2>3. FlowInOrder' /\ PaidIsTrue'
    BY <2>1, <2>2
       DEF QuietKeeps, PageInv, FlowInOrder, PaidIsTrue, Mounted
  <2>4. VerifiesOnce'
    BY <2>1, <2>2 DEF QuietKeeps, PageInv, VerifiesOnce, Mounted
  <2>5. BusyScreensEnd'
    BY <2>1, <2>2 DEF QuietKeeps, PageInv, BusyScreensEnd, Running, Mounted
  <2> QED
    BY <2>2, <2>3, <2>4, <2>5 DEF PageInv
<1>2. CASE UNCHANGED vars
  <2>1. UNCHANGED <<slot, active, seen, provider, elapsed, tx, call, shell, flow>>
    BY <1>2 DEF vars, server, world, page
  <2>2. PageTyped' /\ NamesPayload'
    BY <2>1 DEF PageInv, PageTyped, NamesPayload
  <2>3. FlowInOrder' /\ VerifiesOnce' /\ PaidIsTrue'
    BY <2>1 DEF PageInv, FlowInOrder, VerifiesOnce, PaidIsTrue, SaysPaid, FlowMounted,
                Mounted
  <2>4. BusyScreensEnd'
    BY <2>1 DEF PageInv, BusyScreensEnd, FlowMounted, Running, Mounted
  <2> QED
    BY <2>2, <2>3, <2>4 DEF PageInv
<1>3. ASSUME NEW c \in Calls,
             \/ LoadDetails(c) \/ Confirm(c) \/ RefreshSilently(c) \/ CheckStatus(c) \/ Recheck(c)
      PROVE  PageInv'
  BY <1>3, StartedCalls
<1>4. ASSUME NEW c \in Calls,
             DeliverFlowDetails(c) \/ DeliverPayload(c) \/ DeliverStatus(c) \/ DeliverVerify(c)
      PROVE  PageInv'
  BY <1>4, EndedCalls
<1>5. CASE Continue \/ Back \/ Retry
  BY <1>5, ButtonsWithoutACall
<1>6. ASSUME NEW c \in Calls,
             Load(c) \/ DeliverDetails(c) \/ RecheckReadiness(c) \/ DeliverReadiness(c) \/ Setup(c)
             \/ ChangeLanguage(c)
      PROVE  PageInv'
  BY <1>6, ShellSteps, ShellStepKeeps
<1>7. CASE Reload \/ \E c \in Calls : DeliverLate(c)
  BY <1>7, PageSteps, ShellStepKeeps
<1> QED
  BY <1>1, <1>2, <1>3, <1>4, <1>5, <1>6, <1>7 DEF Next, Quiet, Delivered

THEOREM PageIsInvariant == Spec => []PageInv
<1>1. PageInv /\ [Next]_vars => PageInv'
  BY InvariantKept
<1> QED
  BY InitTyped, <1>1, PTL DEF Spec

\* The page says paid only of a slot that is, whichever of its overlapping answers put
\* the message there and whatever was lost, unmounted or reloaded before: for every
\* number of payloads and of calls in flight.
THEOREM PaidScreensAreTrue == Spec => []PaidScreenIsTrue
<1>1. PageInv => PaidScreenIsTrue
  <2> SUFFICES ASSUME PageInv, ShowsPaid PROVE slot = "paid"
    BY DEF PaidScreenIsTrue
  <2>1. \/ shell.details = "already_paid" \/ shell.error = "SLOT_ALREADY_PAID"
        \/ flow.details = "already_paid" \/ flow.view \in {"already_paid", "verified"}
    BY DEF ShowsPaid, Screen, Lifecycles
  <2> QED
    BY <2>1 DEF PageInv, PaidIsTrue
<1> QED
  BY <1>1, PageIsInvariant, PTL

\* The ref of verifySubmittedPayment names exactly the verifications in flight, one per
\* payload, whatever starts them (a poll, a button, a recovery) and however they end.
THEOREM VerificationsAreSingle == Spec => []OneVerificationPerPayload
<1>1. ASSUME PageInv, NEW p \in Payloads
      PROVE  Cardinality(Running("verify", p)) = (IF p \in flow.verifying THEN 1 ELSE 0)
  <2> USE <1>1 DEF PageInv, VerifiesOnce
  <2>1. CASE p \in flow.verifying
    <3>1. PICK c \in Calls : call[c].kind = "verify" /\ Mounted(c) /\ call[c].payload = p
      BY <2>1
    <3>2. Running("verify", p) = {c}
      BY <3>1 DEF Running
    <3> QED
      BY <2>1, <3>2, FS_Singleton
  <2>2. CASE p \notin flow.verifying
    <3>1. Running("verify", p) = {}
      BY <2>2 DEF Running
    <3> QED
      BY <2>2, <3>1, FS_EmptySet
  <2> QED
    BY <2>1, <2>2
<1>2. PageInv => OneVerificationPerPayload
  BY <1>1 DEF OneVerificationPerPayload
<1> QED
  BY <1>2, PageIsInvariant, PTL

\* A screen without a button always has a call in flight that will replace it, although
\* every answer may overwrite the screen of another call.
THEOREM BusyScreensAlwaysEnd == Spec => []BusyScreensEnd
<1>1. PageInv => BusyScreensEnd
  BY DEF PageInv
<1> QED
  BY <1>1, PageIsInvariant, PTL

=============================================================================
