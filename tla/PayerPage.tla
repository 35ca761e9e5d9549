------------------------------ MODULE PayerPage ------------------------------
(***************************************************************************)
(* The payer's page for one slot: the readiness shell                      *)
(* (PayerReadyPaymentFlow) and, inside it while the accounts are ready,    *)
(* the payment flow (PayerLifecyclePaymentFlow).                           *)
(*                                                                         *)
(* Every button, page listener and mount effect starts a call; its answer  *)
(* is applied to whatever the page shows when it arrives. A call is a      *)
(* request, the server's step (Serve...) and the delivery of its answer,   *)
(* so answers overtake one another, arrive at a component that was         *)
(* unmounted since, or are lost after the server did its part.             *)
(*                                                                         *)
(* The server is here what PaymentLifecycle proves of it, one step per     *)
(* request; "review" stands for every state of the Bill in which the slot  *)
(* accepts no payment. Texts and amounts are left out.                     *)
(***************************************************************************)
EXTENDS Naturals, FiniteSets

CONSTANTS
    Payloads,    \* wallet requests; a bound
    Calls,       \* calls that can be in flight at once, at least two; a bound
    MaxTrouble,  \* lost answers, outages, needless reloads and changes of the
                 \* language; a bound
    Funded,      \* the payer still passes the readiness checks after paying
    None

ASSUME PageConstants ==
    /\ None \notin Payloads
    /\ MaxTrouble \in Nat
    /\ Funded \in BOOLEAN

VARIABLES
    slot,       \* "payable", "review" or "paid"
    active,     \* the payload of the slot's active wallet_handoffs row
    seen,       \* payloads whose row says submitted
    provider,   \* state of each payload at the wallet provider
    elapsed,    \* payloads past their expiry
    tx,         \* state of each payload's transaction
    ready,      \* the accounts pass the readiness checks
    call,       \* what each call asks, and its answer
    shell,      \* state of PayerReadyPaymentFlow
    flow,       \* state of PayerLifecyclePaymentFlow, while it is mounted
    trouble

server == <<slot, active, seen>>
world == <<provider, elapsed, tx, ready>>
page == <<shell, flow>>
vars == <<server, world, call, page, trouble>>

-----------------------------------------------------------------------------
(* payer-lifecycle.ts                                                      *)

Lifecycles == {"retry_safe", "wait_recheck", "setup_required",
               "review_required", "already_paid", "terminal"}

Temporary == {"PAYMENT_RECONCILIATION_UNAVAILABLE", "ACTIVE_HANDOFF_EXISTS",
              "PAYMENT_READINESS_UNAVAILABLE", "PAYMENT_SERVICE_UNAVAILABLE",
              "WALLET_PROVIDER_ERROR"}

ClosedIsPaid(code) ==                                                \* mutant
    IF code \in {"SLOT_ALREADY_PAID", "BILL_NOT_PAYABLE"} THEN "already_paid"
    ELSE IF code \in Temporary THEN "wait_recheck" ELSE "terminal"

\* payerLifecycleFromApiError; a call that never answered has no code.
LifecycleFromApiError(code) ==
    CASE code = "SLOT_ALREADY_PAID" -> "already_paid"
      [] code = "PAYMENT_REQUIRES_REVIEW" -> "review_required"
      [] code = "TRANSACTION_FAILED" -> "retry_safe"
      [] code = "PAYMENT_READINESS_BLOCKED" -> "setup_required"
      [] code \in Temporary -> "wait_recheck"
      [] OTHER -> "terminal"

\* payerLifecycleFromVerification, and the page's catch: an outcome that could
\* not be had is VERIFICATION_UNAVAILABLE, a refused one SERVICE_UNAVAILABLE.
LifecycleFromVerification(answer) ==
    CASE answer = "failed" -> "retry_safe"
      [] answer = "mismatch" -> "review_required"
      [] OTHER -> "wait_recheck"

-----------------------------------------------------------------------------
NoCall == [kind |-> "idle", payload |-> None, page |-> "mounted",
           by |-> "page", answer |-> "none"]

FlowKinds == {"flowDetails", "payload", "status", "verify"}

NewShell == [details |-> "unread", readiness |-> "unknown", loading |-> FALSE, error |-> "none"]

NewFlow == [details |-> "unread", view |-> "ready", payload |-> None, submitted |-> FALSE,
            confirming |-> FALSE, working |-> FALSE, verifying |-> {}]

FlowMounted == shell.details = "loaded" /\ shell.readiness = "allowed"

\* What the payer sees: the final confirmation hides the state under it.
Screen ==
    CASE shell.details \in {"unread", "loading"} -> "loading"
      [] shell.details \in Lifecycles -> shell.details
      [] shell.details = "loaded" /\ ~FlowMounted -> "readiness"
      [] FlowMounted /\ flow.details \in {"unread", "loading"} -> "loading"
      [] FlowMounted /\ flow.details \in Lifecycles -> flow.details
      [] FlowMounted /\ flow.details = "loaded" /\ flow.confirming -> "confirming"
      [] OTHER -> flow.view

Waits(c) == call[c].kind # "idle" /\ call[c].answer = "none"
Answered(c, kind) == call[c].kind = kind /\ call[c].answer # "none"
Ask(kind, p, by) == [NoCall EXCEPT !.kind = kind, !.payload = p, !.by = by]
Start(c, kind, p, by) ==
    /\ call[c] = NoCall
    /\ call' = [call EXCEPT ![c] = Ask(kind, p, by)]
\* Listeners leave a call for the buttons, so that the bound never stops a payer.
Spare(c) == \E d \in Calls \ {c} : call[d] = NoCall
Done(c) == call' = [call EXCEPT ![c] = NoCall]
Mounted(c) == call[c].page = "mounted"

\* setState({ kind: "recovery", ... })
Recovery(lifecycle, p, submitted) ==
    [flow EXCEPT !.view = lifecycle, !.payload = p, !.submitted = submitted]

KeepWorking(c, f) == f                                               \* mutant

\* The finally of a handler that a button started.
Finish(c, f) == IF call[c].by = "button" THEN [f EXCEPT !.working = FALSE] ELSE f

Init ==
    /\ slot = "payable" /\ active = None /\ seen = {}
    /\ provider = [p \in Payloads |-> "absent"]
    /\ elapsed = {}
    /\ tx = [p \in Payloads |-> "none"]
    /\ ready \in BOOLEAN
    /\ call = [c \in Calls |-> NoCall]
    /\ shell = NewShell /\ flow = NewFlow
    /\ trouble = 0

-----------------------------------------------------------------------------
(* The server's part of a call.                                            *)

Serve(c, answer) == call' = [call EXCEPT ![c].answer = answer]

SlotError == IF slot = "paid" THEN "SLOT_ALREADY_PAID" ELSE "BILL_NOT_PAYABLE"

\* POST /api/payments/details, for the shell and for the flow.
ServeDetails(c) ==
    /\ Waits(c) /\ call[c].kind \in {"details", "flowDetails"}
    /\ Serve(c, IF slot = "payable" THEN "loaded" ELSE SlotError)
    /\ UNCHANGED <<server, world, page, trouble>>

\* POST /api/payments/readiness
ServeReadiness(c) ==
    /\ Waits(c) /\ call[c].kind = "readiness"
    /\ Serve(c, CASE slot # "payable" -> SlotError
                  [] slot = "payable" /\ ready -> "allowed"
                  [] OTHER -> "blocked")
    /\ UNCHANGED <<server, world, page, trouble>>

RefuseHandoff(c, code) == Serve(c, code) /\ UNCHANGED <<server, provider>>

\* The row that loadActiveRequest returns, after it expired a stale one.
StillActive == active # None /\ (active \in elapsed => active \in seen)

Resume(c) ==
    /\ call' = [call EXCEPT ![c].answer = "created", ![c].payload = active]
    /\ UNCHANGED <<server, provider>>

\* reconcileReplacementPayment settles what the validated history holds.
SettleEarlier(c) ==
    /\ Serve(c, "SLOT_ALREADY_PAID")
    /\ slot' = "paid" /\ active' = None
    /\ UNCHANGED <<seen, provider>>

CreateNew(c, p) ==
    /\ call' = [call EXCEPT ![c].answer = "created", ![c].payload = p]
    /\ provider' = [provider EXCEPT ![p] = "waiting"]
    /\ active' = p
    /\ UNCHANGED <<slot, seen>>

\* POST /api/payments/payload; readiness comes before the active request.
ServePayload(c) ==
    /\ Waits(c) /\ call[c].kind = "payload"
    /\ \/ slot # "payable" /\ RefuseHandoff(c, SlotError)
       \/ slot = "payable" /\ ~ready /\ RefuseHandoff(c, "PAYMENT_READINESS_BLOCKED")
       \/ slot = "payable" /\ ready /\ StillActive /\ Resume(c)
       \/ /\ slot = "payable" /\ ready /\ ~StillActive
          /\ IF \E p \in Payloads : tx[p] = "success"
             THEN SettleEarlier(c)
             ELSE \E p \in Payloads : provider[p] = "absent" /\ CreateNew(c, p)
    /\ UNCHANGED <<elapsed, tx, ready, page, trouble>>

\* normalizeXamanStatus
Status(p) ==
    CASE provider[p] \in {"waiting", "signed"} -> IF p \in elapsed THEN "expired" ELSE "waiting"
      [] OTHER -> provider[p]

\* GET /api/xaman/payloads/:id synchronizes the row before it answers. A second
\* submitted row of the slot is refused by the index, and the call fails.
ServeStatus(c) ==
    /\ Waits(c) /\ call[c].kind = "status"
    /\ LET p == call[c].payload
       IN \/ /\ Status(p) = "submitted" /\ active \notin {None, p}
             /\ Serve(c, "error") /\ UNCHANGED server
          \/ /\ Status(p) = "submitted" /\ active \in {None, p}
             /\ Serve(c, "submitted")
             /\ active' = p /\ seen' = seen \cup {p} /\ UNCHANGED slot
          \/ /\ Status(p) # "submitted"
             /\ Serve(c, Status(p))
             /\ active' = IF Status(p) # "waiting" /\ active = p THEN None ELSE active
             /\ UNCHANGED <<slot, seen>>
    /\ UNCHANGED <<world, page, trouble>>

\* POST /api/payments/verify
ServeVerify(c) ==
    /\ Waits(c) /\ call[c].kind = "verify"
    /\ LET verdict == tx[call[c].payload]
       IN \/ /\ verdict = "success"
             /\ Serve(c, IF slot = "review" THEN "conflict" ELSE "verified")
             /\ slot' = IF slot = "review" THEN slot ELSE "paid"
          \/ /\ verdict = "mismatch" /\ Serve(c, "mismatch")
             /\ slot' = IF slot = "paid" THEN slot ELSE "review"
          \/ verdict = "failed" /\ Serve(c, "failed") /\ UNCHANGED slot
          \/ verdict \in {"pending", "lapsed"} /\ Serve(c, "pending") /\ UNCHANGED slot
    /\ UNCHANGED <<active, seen, world, page, trouble>>

\* The answer is lost, before or after the server did its part.
Lose(c) ==
    /\ trouble < MaxTrouble /\ call[c].kind # "idle" /\ call[c].answer # "lost"
    /\ Serve(c, "lost")
    /\ trouble' = trouble + 1
    /\ UNCHANGED <<server, world, page>>

\* Something behind the payload route is out of order for now.
Outage(c) ==
    /\ trouble < MaxTrouble /\ Waits(c) /\ call[c].kind = "payload"
    /\ Serve(c, "PAYMENT_RECONCILIATION_UNAVAILABLE")
    /\ trouble' = trouble + 1
    /\ UNCHANGED <<server, world, page>>

-----------------------------------------------------------------------------
(* PayerReadyPaymentFlow                                                   *)

\* The mount effect, and "check again" of the error panel.
Load(c) ==
    /\ shell.details \in {"unread", "wait_recheck"}
    /\ Start(c, "details", None, "page")
    /\ shell' = [shell EXCEPT !.details = "loading", !.readiness = "unknown"]
    /\ UNCHANGED <<server, world, flow, trouble>>

Leave(m) == IF m.kind \in FlowKinds /\ m.page = "mounted" THEN [m EXCEPT !.page = "left"] ELSE m

\* load is another function in another language, so that the mount effect runs
\* again: whatever is shown gives way, the flow with all it remembers, and the
\* answers of the shell's earlier calls still count.
ChangeLanguage(c) ==
    /\ shell.details # "unread"
    /\ trouble < MaxTrouble /\ trouble' = trouble + 1
    /\ call[c] = NoCall
    /\ call' = [d \in Calls |->
            IF d = c THEN Ask("details", None, "page") ELSE Leave(call[d])]
    /\ shell' = [shell EXCEPT !.details = "loading", !.readiness = "unknown"]
    /\ flow' = NewFlow
    /\ UNCHANGED <<server, world>>

\* load continues with a readiness check, or with an error that takes away a flow
\* which the answer of another load has mounted meanwhile.
DeliverDetails(c) ==
    /\ Answered(c, "details") /\ Mounted(c)
    /\ IF call[c].answer = "loaded"
       THEN /\ shell' = [shell EXCEPT !.details = "loaded", !.loading = TRUE, !.error = "none"]
            /\ call' = [call EXCEPT ![c] = Ask("readiness", None, "page")]
            /\ UNCHANGED flow
       ELSE /\ shell' = [shell EXCEPT !.details = LifecycleFromApiError(call[c].answer)]
            /\ call' = [d \in Calls |-> IF d = c THEN NoCall ELSE Leave(call[d])]
            /\ flow' = NewFlow
    /\ UNCHANGED <<server, world, trouble>>

\* The panel's button while nothing is loading; focus and visibility at any time
\* while the accounts are known not to be ready, whatever the details are.
RecheckReadiness(c) ==
    /\ \/ shell.details = "loaded" /\ ~shell.loading
       \/ shell.readiness = "blocked"
    /\ Screen # "readiness" \/ shell.loading => Spare(c)
    /\ Start(c, "readiness", None, "page")
    /\ shell' = [shell EXCEPT !.loading = TRUE, !.error = "none"]
    /\ UNCHANGED <<server, world, flow, trouble>>

\* An answer mounts the flow, keeps it, or takes it away with all it remembers.
DeliverReadiness(c) ==
    /\ Answered(c, "readiness") /\ Mounted(c)
    /\ LET known == call[c].answer \in {"allowed", "blocked"}
           keeps == FlowMounted /\ call[c].answer = "allowed"
       IN /\ shell' = [shell EXCEPT
                !.readiness = IF known THEN call[c].answer ELSE "unknown",
                !.error = IF known THEN @ ELSE call[c].answer,
                !.loading = FALSE]
          /\ flow' = IF keeps THEN flow ELSE NewFlow
          /\ call' = [d \in Calls |->
                CASE d = c -> NoCall
                  [] d # c /\ keeps -> call[d]
                  [] OTHER -> Leave(call[d])]
    /\ UNCHANGED <<server, world, trouble>>

\* Screens without a button.
DeadEnds == {"terminal", "review_required"}

\* The page is opened again; what was asked may still be served.
Reload ==
    /\ shell.details # "unread"
    /\ \/ Screen \in DeadEnds /\ UNCHANGED trouble
       \/ Screen \notin DeadEnds /\ trouble < MaxTrouble /\ trouble' = trouble + 1
    /\ shell' = NewShell /\ flow' = NewFlow
    /\ call' = [c \in Calls |->
            IF call[c].kind = "idle" THEN NoCall ELSE [call[c] EXCEPT !.page = "closed"]]
    /\ UNCHANGED <<server, world>>

-----------------------------------------------------------------------------
(* PayerLifecyclePaymentFlow: what starts a call.                          *)

\* loadDetails: the mount effect, and "check again" without a payload.
ReloadedFlow == [flow EXCEPT !.details = "loading", !.view = "ready", !.payload = None,
                             !.submitted = FALSE, !.confirming = FALSE]

LoadDetails(c) ==
    /\ FlowMounted /\ flow.details \in {"unread", "wait_recheck"}
    /\ Start(c, "flowDetails", None, "page")
    /\ flow' = ReloadedFlow
    /\ UNCHANGED <<server, world, shell, trouble>>

Continue ==
    /\ Screen = "ready"
    /\ flow' = [flow EXCEPT !.confirming = TRUE]
    /\ UNCHANGED <<server, world, call, shell, trouble>>

Back ==
    /\ Screen = "confirming"
    /\ flow' = [flow EXCEPT !.confirming = FALSE]
    /\ UNCHANGED <<server, world, call, shell, trouble>>

\* createPayload, from the final confirmation.
Confirm(c) ==
    /\ Screen = "confirming"
    /\ Start(c, "payload", None, "page")
    /\ flow' = [flow EXCEPT !.confirming = FALSE, !.view = "creating",
                            !.payload = None, !.submitted = FALSE]
    /\ UNCHANGED <<server, world, shell, trouble>>

\* Focus, visibility and websocket events, while the page waits for the wallet.
RefreshSilently(c) ==
    /\ FlowMounted /\ flow.view = "waiting" /\ Spare(c)
    /\ Start(c, "status", flow.payload, "page")
    /\ UNCHANGED <<server, world, page, trouble>>

\* handleStatusCheck
CheckStatus(c) ==
    /\ Screen = "waiting" /\ ~flow.working
    /\ Start(c, "status", flow.payload, "button")
    /\ flow' = [flow EXCEPT !.working = TRUE]
    /\ UNCHANGED <<server, world, shell, trouble>>

NeverInFlight(p) == FALSE                                            \* mutant

InFlight(p) == p \in flow.verifying

\* verifySubmittedPayment, once the guard let it pass.
Verifying(f, p) ==
    [f EXCEPT !.view = "verifying", !.payload = p, !.submitted = TRUE,
              !.verifying = @ \cup {p}]

\* recheckRecovery
Recheck(c) ==
    /\ FlowMounted /\ flow.details = "loaded"
    /\ Screen = "wait_recheck" /\ ~flow.working
    /\ \/ /\ flow.payload # None /\ flow.submitted /\ ~InFlight(flow.payload)
          /\ Start(c, "verify", flow.payload, "button")
          /\ flow' = Verifying([flow EXCEPT !.working = TRUE], flow.payload)
       \/ /\ flow.payload # None /\ ~flow.submitted
          /\ Start(c, "status", flow.payload, "button")
          /\ flow' = [flow EXCEPT !.working = TRUE]
       \/ /\ flow.payload = None
          /\ Start(c, "flowDetails", None, "button")
          /\ flow' = [ReloadedFlow EXCEPT !.working = TRUE]
    /\ UNCHANGED <<server, world, shell, trouble>>

\* retryAfterReconciliation
Retry ==
    /\ FlowMounted /\ flow.details = "loaded"
    /\ Screen = "retry_safe" /\ ~flow.working
    /\ flow' = [flow EXCEPT !.view = "ready", !.payload = None, !.submitted = FALSE,
                            !.confirming = TRUE]
    /\ UNCHANGED <<server, world, call, shell, trouble>>

\* onReadinessInvalidated
Setup(c) ==
    /\ FlowMounted /\ flow.details = "loaded"
    /\ Screen = "setup_required" /\ ~flow.working
    /\ call[c] = NoCall
    /\ call' = [d \in Calls |->
            IF d = c THEN Ask("readiness", None, "page") ELSE Leave(call[d])]
    /\ shell' = [shell EXCEPT !.readiness = "unknown", !.loading = TRUE, !.error = "none"]
    /\ flow' = NewFlow
    /\ UNCHANGED <<server, world, trouble>>

-----------------------------------------------------------------------------
(* PayerLifecyclePaymentFlow: what an answer does.                         *)

DeliverFlowDetails(c) ==
    /\ Answered(c, "flowDetails") /\ Mounted(c)
    /\ flow' = Finish(c, [flow EXCEPT !.details =
            IF call[c].answer = "loaded" THEN "loaded"
            ELSE LifecycleFromApiError(call[c].answer)])
    /\ Done(c)
    /\ UNCHANGED <<server, world, shell, trouble>>

DeliverPayload(c) ==
    /\ Answered(c, "payload") /\ Mounted(c)
    /\ flow' = IF call[c].answer = "created"
               THEN [flow EXCEPT !.view = "waiting", !.payload = call[c].payload,
                                 !.submitted = FALSE]
               ELSE Recovery(LifecycleFromApiError(call[c].answer), None, FALSE)
    /\ Done(c)
    /\ UNCHANGED <<server, world, shell, trouble>>

\* refreshStatus: a submission goes on to verification in the same handler, and
\* an ended request replaces whatever the page shows.
DeliverStatus(c) ==
    /\ Answered(c, "status") /\ Mounted(c)
    /\ LET p == call[c].payload  answer == call[c].answer
       IN \/ /\ answer = "submitted" /\ ~InFlight(p)
             /\ flow' = Verifying(flow, p)
             /\ call' = [call EXCEPT ![c] = Ask("verify", p, @.by)]
          \/ /\ answer \in {"rejected", "expired"}
             /\ flow' = Finish(c, Recovery("retry_safe", p, FALSE))
             /\ Done(c)
          \/ /\ answer \in {"waiting", "error", "lost"} \/ (answer = "submitted" /\ InFlight(p))
             /\ flow' = Finish(c, flow)
             /\ Done(c)
    /\ UNCHANGED <<server, world, shell, trouble>>

\* applyVerificationOutcome; the settled payment is the frozen one.
Outcome(answer, p) ==
    IF answer = "verified"
    THEN [flow EXCEPT !.view = "verified", !.payload = p, !.submitted = TRUE]
    ELSE Recovery(LifecycleFromVerification(answer), p, TRUE)

NoFinally(f, p) == f                                                 \* mutant

\* The finally of verifySubmittedPayment.
Verified(f, p) == [f EXCEPT !.verifying = @ \ {p}]

DeliverVerify(c) ==
    /\ Answered(c, "verify") /\ Mounted(c)
    /\ LET p == call[c].payload
       IN flow' = Finish(c, Verified(Outcome(call[c].answer, p), p))
    /\ Done(c)
    /\ UNCHANGED <<server, world, shell, trouble>>

\* A component that is gone shows nothing, but its handler still runs: after a
\* submission it sends the verification, unless it already did.
DeliverLate(c) ==
    /\ call[c].answer # "none" /\ ~Mounted(c)
    /\ LET verifies == call[c].page = "left" /\ Answered(c, "status")
                            /\ call[c].answer = "submitted"
           other == \E d \in Calls \ {c} : call[d].page = "left" /\ call[d].kind = "verify"
                                           /\ call[d].payload = call[c].payload
       IN \/ /\ verifies
             /\ call' = [call EXCEPT ![c] = [Ask("verify", @.payload, @.by) EXCEPT !.page = "left"]]
          \/ (~verifies \/ other) /\ Done(c)
    /\ UNCHANGED <<server, world, page, trouble>>

-----------------------------------------------------------------------------
(* The wallet, the ledger, the accounts and the operator.                  *)

Paid == \E p \in Payloads : tx[p] = "success"

\* The payer signs; the ledger takes nothing that was signed after its expiry.
Sign(p) ==
    /\ provider[p] = "waiting"
    /\ provider' = [provider EXCEPT ![p] = "signed"]
    /\ tx' = [tx EXCEPT ![p] = IF p \in elapsed THEN "lapsed" ELSE "pending"]
    /\ UNCHANGED <<server, elapsed, ready, call, page, trouble>>

\* The provider reports the submission, before the ledger's verdict or after it.
Resolve(p) ==
    /\ provider[p] = "signed"
    /\ provider' = [provider EXCEPT ![p] = "submitted"]
    /\ UNCHANGED <<server, elapsed, tx, ready, call, page, trouble>>

Reject(p) ==
    /\ provider[p] = "waiting"
    /\ provider' = [provider EXCEPT ![p] = "rejected"]
    /\ UNCHANGED <<server, elapsed, tx, ready, call, page, trouble>>

Elapse(p) ==
    /\ provider[p] # "absent" /\ p \notin elapsed /\ tx[p] # "pending"
    /\ elapsed' = elapsed \cup {p}
    /\ UNCHANGED <<server, provider, tx, ready, call, page, trouble>>

\* By its expiry a transaction is validated or never will be. No slot is paid
\* twice (AtMostOnePayment); the amount leaves the account.
Validate(p) ==
    /\ tx[p] = "pending"
    /\ \E outcome \in {"success", "mismatch", "failed", "lapsed"} :
        /\ outcome = "success" => ~Paid
        /\ tx' = [tx EXCEPT ![p] = outcome]
        /\ ready' = IF outcome = "success" THEN ready /\ Funded ELSE ready
    /\ UNCHANGED <<server, provider, elapsed, call, page, trouble>>

Signed == \E p \in Payloads : tx[p] # "none"

LoseReadiness ==
    /\ ready /\ ~Signed /\ ready' = FALSE
    /\ UNCHANGED <<server, provider, elapsed, tx, call, page, trouble>>

GainReadiness ==
    /\ ~ready /\ (Signed => Funded) /\ ready' = TRUE
    /\ UNCHANGED <<server, provider, elapsed, tx, call, page, trouble>>

AuthorizeRetry ==
    /\ slot = "review" /\ slot' = "payable"
    /\ UNCHANGED <<active, seen, world, call, page, trouble>>

-----------------------------------------------------------------------------
Served(c) ==
    \/ ServeDetails(c) \/ ServeReadiness(c) \/ ServePayload(c)
    \/ ServeStatus(c) \/ ServeVerify(c)

Delivered(c) ==
    \/ DeliverDetails(c) \/ DeliverReadiness(c) \/ DeliverFlowDetails(c)
    \/ DeliverPayload(c) \/ DeliverStatus(c) \/ DeliverVerify(c) \/ DeliverLate(c)

\* The one way on that each screen offers.
GoOn ==
    \/ Continue \/ Retry
    \/ \E c \in Calls :
        \/ Load(c) \/ LoadDetails(c) \/ CheckStatus(c) \/ Recheck(c) \/ Setup(c)
        \/ Screen = "readiness" /\ RecheckReadiness(c)

Next ==
    \/ \E c \in Calls :
        \/ Served(c) \/ Delivered(c) \/ Lose(c) \/ Outage(c)
        \/ Load(c) \/ ChangeLanguage(c) \/ RecheckReadiness(c) \/ LoadDetails(c) \/ Confirm(c)
        \/ RefreshSilently(c) \/ CheckStatus(c) \/ Recheck(c) \/ Setup(c)
    \/ Continue \/ Back \/ Retry \/ Reload
    \/ \E p \in Payloads : Sign(p) \/ Resolve(p) \/ Reject(p) \/ Elapse(p) \/ Validate(p)
    \/ LoseReadiness \/ GainReadiness \/ AuthorizeRetry

Spec == Init /\ [][Next]_vars

(***************************************************************************)
(* The payer keeps the page open, presses what it offers, confirms when    *)
(* the confirmation keeps coming back, and opens the page again when it    *)
(* offers nothing. Calls end, payloads expire and transactions are         *)
(* validated or not; a Funded payer is found ready in the end.             *)
(***************************************************************************)
Fairness ==
    /\ \A c \in Calls : WF_vars(Served(c)) /\ WF_vars(Delivered(c))
    /\ WF_vars(GoOn)
    /\ SF_vars(\E c \in Calls : Confirm(c))
    /\ WF_vars(Screen \in DeadEnds /\ Reload)
    /\ \A p \in Payloads : WF_vars(Elapse(p)) /\ WF_vars(Resolve(p))
    /\ WF_vars(Funded /\ GainReadiness)

FairSpec == Spec /\ Fairness

-----------------------------------------------------------------------------
(* Properties.                                                             *)

ShowsPaid ==
    \/ Screen \in {"verified", "already_paid"}
    \/ Screen = "readiness" /\ shell.error = "SLOT_ALREADY_PAID"

\* The page says paid only of a slot that is, whichever of its overlapping calls
\* put the message there.
PaidScreenIsTrue == ShowsPaid => slot = "paid"

Running(kind, p) ==
    {c \in Calls : call[c].kind = kind /\ call[c].payload = p /\ Mounted(c)}

\* The ref that keeps a second verification of a payload out names exactly the
\* verifications in flight, one per payload: an entry left behind would make
\* "check again" do nothing for ever.
OneVerificationPerPayload ==
    \A p \in Payloads :
        Cardinality(Running("verify", p)) = (IF p \in flow.verifying THEN 1 ELSE 0)

\* A screen with nothing to press has a call in flight that will replace it,
\* although every answer may overwrite a screen that another call put there, and
\* two handlers share the working flag.
BusyScreensEnd ==
    /\ shell.details = "loading" => \E c \in Calls : call[c].kind = "details" /\ Mounted(c)
    /\ FlowMounted /\ flow.details = "loading" => Running("flowDetails", None) # {}
    /\ FlowMounted /\ flow.view = "creating" =>
        \E c \in Calls : call[c].kind = "payload" /\ Mounted(c)
    /\ FlowMounted /\ flow.view = "verifying" => Running("verify", flow.payload) # {}
    /\ FlowMounted /\ flow.working => \E c \in Calls : call[c].by = "button" /\ Mounted(c)

\* A payment that succeeded is shown as paid, or the slot waits for its
\* operator: whatever is lost or overtaken, the buttons of the page lead there.
PaymentIsShown == Paid ~> (ShowsPaid \/ slot = "review")

=============================================================================
