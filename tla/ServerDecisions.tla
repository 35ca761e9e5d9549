---------------------------- MODULE ServerDecisions ----------------------------
(***************************************************************************)
(* A request that needs the XRP Ledger: the server reads it through        *)
(* several endpoints, one read after another, while the ledger moves on    *)
(* and the endpoints follow it, fail or answer with an error; then it      *)
(* decides. Four requests of the pages, and a script of the operator:      *)
(*                                                                         *)
(*   "verify"     POST /api/payments/verify and the page's view of it      *)
(*   "replace"    the search for an earlier payment before a new handoff   *)
(*   "readiness"  both accounts, before a handoff                          *)
(*   "prepare"    the plan of a trust line, for one account                *)
(*   "accept"     both accounts, before the RLUSD acceptance               *)
(*                                                                         *)
(* The ledger has an old and a new state. A read records which of the two  *)
(* it saw; what it means is PaymentVerification's and PaymentReadiness's.  *)
(***************************************************************************)
EXTENDS PaymentReadiness

CONSTANTS
    Cases,       \* what there is to decide, see Init; a bound
    Endpoints,   \* number of XRPL endpoints of the network
    MaxPages,    \* MAX_PAGES of the history search; a bound
    MaxTrouble   \* failed reads and writes; a bound

Kinds == {"verify", "replace", "readiness", "prepare", "accept"}

VARIABLES
    kind,        \* the request
    case,        \* the slot's intent, the payload, and the two states of the ledger
    now,         \* the state of the ledger: 1 or 2
    sees,        \* the state each endpoint has
    read,        \* each read of the request
    answer,      \* what the server decided
    recorded,    \* the review was written to the slot and the Bill
    trouble

\* What a transaction brought to the recipient, by the rules of the ledger.
Arrived(tx) == tx # None /\ tx.validated /\ tx.result = "tesSUCCESS" /\ tx.type = "Payment"

Pays(intent, tx) ==
    /\ Arrived(tx)
    /\ tx.account = intent.payer /\ tx.destination = intent.destination
    /\ tx.invoice = intent.invoice
    /\ tx.delivered.asset = intent.asset
    /\ Worth(tx.delivered.value, intent.units, intent.scale)

\* What the wallet makes of the request, and the ledger accepts.
AsRequested(intent, tx) ==
    /\ Pays(intent, tx) /\ ~tx.partial /\ ~tx.paths /\ tx.hash = "asked" /\ tx.amountFields = 1
    /\ tx.amount = tx.delivered /\ tx.sourceTag = intent.sourceTag
    /\ tx.destinationTag = intent.destinationTag

\* The amounts that are compared: drops, or decimals of the ledger.
AmountsOf(intent, money) ==
    /\ intent.units \in Nat \ {0} /\ intent.scale \in Nat
    /\ intent.asset # None /\ (intent.asset = "XRP" => intent.scale = 0)
    /\ money.value.coefficient \in Nat /\ money.value.fraction \in Nat /\ money.value.exponent \in Int
    /\ \E d \in 1..MaxDigits : money.value.coefficient < 10^d
    /\ money.asset = "XRP" => money.value.fraction = 0 /\ money.value.exponent = 0

\* A transaction that is validated stays as it is.
LegalVerification(intent, ledgers) ==
    /\ \A s \in 1..2 : ledgers[s].tx # None => AmountsOf(intent, ledgers[s].tx.delivered)
    /\ ledgers[1].tx # None /\ ledgers[1].tx.validated => ledgers[2].tx = ledgers[1].tx

\* Only the request tells its invoice, so what pays it was made from it.
LegalHistory(intent, history) ==
    /\ history \in Seq({history[i] : i \in DOMAIN history})
    /\ \A i \in 1..Len(history) : Pays(intent, history[i]) =>
          LET tx == [history[i] EXCEPT !.hash = "asked"]
              value == tx.delivered.value
          IN  /\ AsRequested(intent, tx) /\ AmountsOf(intent, tx.delivered)
              /\ value.fraction - value.exponent <= MaxDigits

\* The line after a TrustSet with the planned limit; a new one is not authorized.
AfterTrustSet(line, limit, scale) ==
    LET old == line # None
    IN  [balance |-> IF old THEN line.balance ELSE Zero,
         limit |-> [coefficient |-> limit, fraction |-> scale],
         freeze |-> old /\ line.freeze, freezePeer |-> old /\ line.freezePeer,
         deepFreeze |-> old /\ line.deepFreeze, deepFreezePeer |-> old /\ line.deepFreezePeer,
         peerAuthorized |-> old /\ line.peerAuthorized]

\* The line that the plan for this ledger leads to, if it asks for a TrustSet.
PlannedLine(intent, ledger) ==
    AfterTrustSet(ledger.line, TargetLimit(intent.purpose, ledger.line, intent.units, intent.scale),
                  intent.scale)

\* Account facts: no limit is below zero, and the reference fee is not zero.
LegalDecimal(d) == d.coefficient \in Int /\ d.fraction \in 0..MaxDigits
LegalLine(line) ==
    line # None => LegalDecimal(line.balance) /\ LegalDecimal(line.limit)
                   /\ line.limit.coefficient >= 0
LegalAccount(account) == account # None => account.balance \in Nat /\ account.owned \in Nat
LegalNetwork(n) ==
    /\ n.base \in Nat \ {0} /\ n.minimum \in Nat /\ n.openLedger \in Nat
    /\ n.reserveBase \in Nat /\ n.reserveIncrement \in Nat
LegalIntent(intent) == intent.units \in Nat \ {0} /\ intent.scale \in 0..MaxDigits

LegalPayment(l) ==
    LegalAccount(l.payer) /\ LegalNetwork(l.network) /\ LegalLine(l.payerLine)
    /\ LegalLine(l.recipientLine)
LegalPreparation(l) == LegalAccount(l.account) /\ LegalNetwork(l.network) /\ LegalLine(l.line)

LegalFacts(k, intent, ledgers) ==
    /\ LegalIntent(intent)
    /\ k \in {"readiness", "accept"} => \A s \in 1..2 : LegalPayment(ledgers[s])
    /\ k = "accept" =>
          intent.asset # "XRP" /\ \A s \in 1..2 : ledgers[s].network.median \in Nat
    /\ k = "prepare" => \A s \in 1..2 :
          LegalPreparation(ledgers[s]) /\ PlannedLine(intent, ledgers[s]) # None

ASSUME DecisionConstants ==
    /\ Endpoints \in Nat \ {0} /\ MaxPages \in Nat \ {0}
    /\ None \notin {"known", "TRANSACTION_FAILED"}
    /\ \A c \in Cases :
          /\ c[1] \in Kinds
          /\ c[1] = "verify" => LegalVerification(c[2].intent, c[2].ledgers)
          /\ c[1] = "replace" =>
                \A s \in 1..2 : LegalHistory(c[2].intent, c[2].ledgers[s].history)
          /\ c[1] \in {"readiness", "prepare", "accept"} =>
                LegalFacts(c[1], c[2].intent, c[2].ledgers)

vars == <<kind, case, now, sees, read, answer, recorded, trouble>>

-----------------------------------------------------------------------------
(* A read asks endpoint .at for page .page; .seen is the ledger state that *)
(* answered, 0 for none, and .is what became of the read.                  *)

NewRead == [is |-> "waiting", at |-> 1, page |-> 1, notFound |-> FALSE, seen |-> 0]
NotNeeded == [NewRead EXCEPT !.is = "later"]

Roles == {"payer", "recipient"}
Reads(k) ==
    CASE k = "verify" -> {"provider", "tx"}
      [] k = "replace" -> {"history"}
      [] k = "readiness" -> {"payerAccount", "reserves", "fees", "payerIssuer", "payerLine",
                             "recipientAccount", "recipientIssuer", "recipientLine"}
      [] k = "prepare" -> {"account", "reserves", "fees", "issuer", "line"}
      [] k = "accept" -> {"state", "fee", "payerFacts", "recipientFacts"}

FirstReads == {"provider", "history", "payerAccount", "reserves", "fees", "recipientAccount",
               "account", "issuer", "line", "state"}
NewReads(k) == [r \in Reads(k) |-> IF r \in FirstReads THEN NewRead ELSE NotNeeded]

Waiting(r) == r \in DOMAIN read /\ read[r].is = "waiting"
Seen(r) == read[r].is = "seen"
Failed(r) == read[r].is = "unavailable"
Ledger(r) == case.ledgers[read[r].seen]

See(r, state) == read' = [read EXCEPT ![r].is = "seen", ![r].seen = state]

\* The next endpoint, or the end of the list. A history search starts over.
NextEndpoint(r, notFound) ==
    LET at == read[r].at
    IN  read' = [read EXCEPT ![r] =
            IF at < Endpoints THEN [NewRead EXCEPT !.at = at + 1, !.notFound = notFound]
            ELSE [@ EXCEPT !.is = IF notFound THEN "notFound" ELSE "unavailable"]]

Init ==
    /\ \E c \in Cases : kind = c[1] /\ case = c[2]
    /\ now = 1 /\ sees = [e \in 1..Endpoints |-> 1]
    /\ read = NewReads(kind)
    /\ answer = None /\ recorded = FALSE
    /\ trouble = 0

-----------------------------------------------------------------------------
(* The ledger and the endpoints.                                           *)

Close ==
    /\ now = 1 /\ now' = 2
    /\ UNCHANGED <<kind, case, sees, read, answer, recorded, trouble>>

Follow(e) ==
    /\ sees[e] < now /\ sees' = [sees EXCEPT ![e] = now]
    /\ UNCHANGED <<kind, case, now, read, answer, recorded, trouble>>

-----------------------------------------------------------------------------
(* Reads.                                                                  *)

Reading(r) == answer = None /\ Waiting(r) /\ UNCHANGED <<kind, case, now, sees, answer, recorded>>

Trouble == trouble < MaxTrouble /\ trouble' = trouble + 1

\* No answer, or one that is not usable: every client goes to the next endpoint.
EndpointFails(r) ==
    /\ kind # "accept" /\ r # "provider" /\ Reading(r) /\ Trouble
    /\ NextEndpoint(r, read[r].notFound)

\* account_info and account_lines: an error of the server counts as an answer,
\* and ends the read.
EndpointRefuses(r) ==
    /\ kind # "accept" /\ r \notin {"provider", "tx", "history", "reserves", "fees"}
    /\ Reading(r) /\ Trouble
    /\ read' = [read EXCEPT ![r].is = "unavailable"]

\* XamanStatusReader; nothing else is read unless there is a transaction.
ReadProvider ==
    /\ Reading("provider")
    /\ read' = [read EXCEPT !["provider"].is = "seen",
                            !["tx"] = IF ProviderOutcome(case.payload).status = "ask"
                                      THEN NewRead ELSE @]
    /\ UNCHANGED trouble

\* XrplTransactionClient.getTransaction
ReadTransaction ==
    /\ Reading("tx")
    /\ LET s == sees[read["tx"].at]
       IN  IF case.ledgers[s].tx = None THEN NextEndpoint("tx", TRUE) ELSE See("tx", s)
    /\ UNCHANGED trouble

FewPagesSuffice(length, page) == page \in {length, MaxPages}           \* mutant

\* account_tx returns a marker while there is more.
LastPage(length, page) == page >= length

\* XrplAccountTransactionClient.searchEndpoint; the marker keeps the search in
\* the state it began in, newest transaction first.
ReadHistoryPage ==
    /\ Reading("history")
    /\ LET r == read["history"]
           anchor == IF r.seen = 0 THEN sees[r.at] ELSE r.seen
           length == Len(case.ledgers[anchor].history)
       IN  read' = [read EXCEPT !["history"] =
             [r EXCEPT !.seen = anchor,
                       !.page = IF r.page < MaxPages THEN r.page + 1 ELSE r.page,
                       !.is = CASE LastPage(length, r.page) -> "seen"
                                [] ~LastPage(length, r.page) /\ r.page < MaxPages -> "waiting"
                                [] OTHER -> "incomplete"]]
    /\ UNCHANGED trouble

\* XrplAccountReadClient: account_info, account_lines, and the two requests of
\* getNetworkReadinessState, server_state and fee, that run side by side.
ReadFact(r) ==
    /\ kind \in {"readiness", "prepare"} /\ Reading(r)
    /\ See(r, sees[read[r].at])
    /\ UNCHANGED trouble

\* The script asks one endpoint for everything, and the next one from the start.
NewSnapshot(at) ==
    [r \in Reads("accept") |-> IF at > Endpoints THEN [NewRead EXCEPT !.is = "unavailable"]
                               ELSE IF r = "state" THEN [NewRead EXCEPT !.at = at] ELSE NotNeeded]

SnapshotFails(r) ==
    /\ kind = "accept" /\ Reading(r) /\ Trouble
    /\ read' = NewSnapshot(read[r].at + 1)

\* readEndpointSnapshot: server_state names the validated ledger of the others.
ReadServerState ==
    /\ Reading("state")
    /\ LET state == [read["state"] EXCEPT !.is = "seen", !.seen = sees[read["state"].at]]
       IN  read' = [r \in DOMAIN read |->
                       IF r = "state" THEN state ELSE [NewRead EXCEPT !.at = state.at]]
    /\ UNCHANGED trouble

\* readAccountInfo and readAccountLines of that ledger; the fee is of the current one.
ReadOfSnapshot(r) ==
    /\ r \in {"fee", "payerFacts", "recipientFacts"} /\ Reading(r)
    /\ See(r, IF r = "fee" THEN sees[read[r].at] ELSE read["state"].seen)
    /\ UNCHANGED trouble

-----------------------------------------------------------------------------
(* Readiness: one read asks for the next.                                  *)

Intent == case.intent
Issued == Intent.asset # "XRP"

\* getNetworkReadinessState: the reserves and the base fee are of a validated ledger, the
\* other fees of the ledger that is open where they were asked for.
NetworkOf(reserves, fees) ==
    [base |-> reserves.base, minimum |-> fees.minimum, openLedger |-> fees.openLedger,
     reserveBase |-> reserves.reserveBase, reserveIncrement |-> reserves.reserveIncrement]
Network == NetworkOf(Ledger("reserves").network, Ledger("fees").network)

PayerAccount == PayerXrpVerdict(Intent, Ledger("payerAccount").payer, Network)
RecipientAccount == RecipientAccountVerdict(Intent, Ledger("recipientAccount").recipient)
Account(role) == IF role = "payer" THEN PayerAccount ELSE RecipientAccount
AccountReads(role) == IF role = "payer" THEN {"payerAccount", "reserves", "fees"} ELSE {"recipientAccount"}
IssuerRead(role) == IF role = "payer" THEN "payerIssuer" ELSE "recipientIssuer"
LineRead(role) == IF role = "payer" THEN "payerLine" ELSE "recipientLine"

\* checkPayerReadiness, checkRecipientReadiness: None while reads are missing.
Verdict(role) ==
    LET issuer == IssuerRead(role)
        line == LineRead(role)
    IN  IF \E r \in AccountReads(role) \cup {issuer, line} : Failed(r) THEN Unavailable
        ELSE IF \E r \in AccountReads(role) : Waiting(r) THEN None
        ELSE IF Account(role) # Ready \/ ~Issued THEN Account(role)
        ELSE IF ~Seen(issuer) THEN None
        ELSE IF IssuerVerdict(Ledger(issuer).issuer) # Ready THEN IssuerVerdict(Ledger(issuer).issuer)
        ELSE IF ~Seen(line) THEN None
        ELSE IF role = "payer"
        THEN PayerLineVerdict(Intent, Ledger(issuer).issuer, Ledger(line).payerLine)
        ELSE RecipientLineVerdict(Intent, Ledger(issuer).issuer, Ledger(line).recipientLine)

\* The code between two reads of a role.
Continue(role) ==
    /\ kind = "readiness" /\ answer = None /\ Verdict(role) = None
    /\ \A r \in AccountReads(role) : Seen(r)
    /\ LET next == IF Seen(IssuerRead(role)) THEN LineRead(role) ELSE IssuerRead(role)
       IN  read[next].is = "later" /\ read' = [read EXCEPT ![next].is = "waiting"]
    /\ UNCHANGED <<kind, case, now, sees, answer, recorded, trouble>>

\* requirePaymentReadiness waits for both.
DecideReadiness ==
    /\ kind = "readiness" /\ answer = None
    /\ \A role \in Roles : Verdict(role) # None
    /\ answer' = [view |-> GateCode(Verdict("payer"), Verdict("recipient"))]
    /\ UNCHANGED <<kind, case, now, sees, read, recorded, trouble>>

\* planRlusdTrustSetPreparation; the first read that fails ends it.
DecidePlan ==
    /\ kind = "prepare" /\ answer = None
    /\ \/ /\ \E r \in DOMAIN read : Failed(r)
          /\ answer' = Planned("unavailable", 0)
       \/ /\ \A r \in DOMAIN read : Seen(r)
          /\ answer' = Plan(Intent.purpose, Ledger("account").account, Ledger("issuer").issuer,
                            Ledger("line").line, Network, Intent.units, Intent.scale)
    /\ UNCHANGED <<kind, case, now, sees, read, recorded, trouble>>

\* The accounts as the script has them.
Snapshot ==
    [payer |-> Ledger("payerFacts").payer, payerLine |-> Ledger("payerFacts").payerLine,
     issuer |-> Ledger("recipientFacts").issuer, recipient |-> Ledger("recipientFacts").recipient,
     recipientLine |-> Ledger("recipientFacts").recipientLine, network |-> Ledger("state").network]

\* readMainnetRlusdAccountReadiness
DecideAccounts ==
    /\ kind = "accept" /\ answer = None
    /\ \/ /\ Failed("state")
          /\ answer' = [view |-> "ACCOUNTS_UNAVAILABLE"]
       \/ /\ \A r \in DOMAIN read : Seen(r)
          /\ answer' = [view |-> IF AccountsReady(Intent, Snapshot, Ledger("fee").network)
                                 THEN "ACCOUNTS_READY" ELSE "ACCOUNTS_BLOCKED"]
    /\ UNCHANGED <<kind, case, now, sees, read, recorded, trouble>>

-----------------------------------------------------------------------------
(* Verification.                                                           *)

\* verifyStoredSlotAssetPayment; "unavailable" stands for the thrown error.
VerifyOutcome ==
    LET preliminary == ProviderOutcome(case.payload)
    IN  IF preliminary.status # "ask" THEN preliminary
        ELSE CASE read["tx"].is = "notFound" -> Outcome("pending", "TRANSACTION_NOT_FOUND", "known")
               [] Failed("tx") -> Outcome("unavailable", None, None)
               [] OTHER -> Verify(Intent, Ledger("tx").tx)

Answer(outcome, view) == [outcome |-> outcome, view |-> view]

AnswerAnyway(outcome) ==                                             \* mutant
    answer' = Answer(outcome, "review_required") /\ UNCHANGED <<recorded, trouble>>

\* markPaymentSlotNeedsReview; its failure is the 503 of the route, which the
\* page shows as something to check again.
RecordReview(outcome) ==
    \/ /\ recorded' = TRUE
       /\ answer' = Answer(outcome, "review_required")
       /\ UNCHANGED trouble
    \/ /\ Trouble /\ UNCHANGED recorded
       /\ answer' = Answer(Outcome("unavailable", None, None), "wait_recheck")

\* verifyAndSettleStoredSlotPayment
DecideVerify ==
    /\ kind = "verify" /\ answer = None
    /\ Seen("provider") /\ ~Waiting("tx")
    /\ \E outcome \in {VerifyOutcome} :
       LET recovery == ClassifyPaymentRecovery(outcome)
       IN  CASE outcome.status = "verified" ->
                  answer' = Answer(outcome, "paid") /\ UNCHANGED <<recorded, trouble>>
             [] outcome.status = "unavailable" ->
                  answer' = Answer(outcome, "wait_recheck") /\ UNCHANGED <<recorded, trouble>>
             [] outcome.status \in {"pending", "failed"} ->
                  IF recovery.disposition = "review_required" THEN RecordReview(outcome)
                  ELSE /\ answer' = Answer(outcome, ViewOfRecovery(recovery))
                       /\ UNCHANGED <<recorded, trouble>>
    /\ UNCHANGED <<kind, case, now, sees, read>>

\* The payer checks again.
Recheck ==
    /\ kind = "verify" /\ answer # None /\ answer.view = "wait_recheck"
    /\ read' = NewReads(kind) /\ answer' = None
    /\ UNCHANGED <<kind, case, now, sees, recorded, trouble>>

-----------------------------------------------------------------------------
(* Reconciliation before a replacement.                                    *)

\* The transactions on the pages that were read.
Found ==
    LET history == Ledger("history").history
    IN  {history[i] : i \in {j \in DOMAIN history : j <= read["history"].page}}

\* findByInvoiceId, and uniqueTransactions of those that verify.
Matching ==
    {t.hash : t \in {f \in Found : /\ f.invoice = Intent.invoice
                                  /\ Verify(Intent, [f EXCEPT !.hash = "asked"]).status = "verified"}}

\* reconcileReplacementPayment
DecideReplace ==
    /\ kind = "replace" /\ answer = None /\ ~Waiting("history")
    /\ answer' = [view |->
         CASE ~Seen("history") -> "PAYMENT_RECONCILIATION_UNAVAILABLE"
           [] Seen("history") /\ Matching = {} -> "create"
           [] Seen("history") /\ Cardinality(Matching) = 1 -> "SLOT_ALREADY_PAID"
           [] OTHER -> "PAYMENT_REQUIRES_REVIEW"]
    /\ UNCHANGED <<kind, case, now, sees, read, recorded, trouble>>

-----------------------------------------------------------------------------
Serve ==
    \/ ReadProvider \/ ReadTransaction \/ ReadHistoryPage
    \/ ReadServerState
    \/ \E r \in DOMAIN read : ReadFact(r) \/ ReadOfSnapshot(r)
    \/ \E role \in Roles : Continue(role)
    \/ DecideReadiness \/ DecidePlan \/ DecideAccounts \/ DecideVerify \/ DecideReplace
    \/ Recheck

Advance == Close \/ \E e \in 1..Endpoints : Follow(e)

Next ==
    \/ Serve \/ Advance
    \/ \E r \in DOMAIN read : EndpointFails(r) \/ EndpointRefuses(r) \/ SnapshotFails(r)

Spec == Init /\ [][Next]_vars

\* A request runs to its answer, a payer who is told to check again does, the
\* ledger closes and the endpoints follow it.
FairSpec == Spec /\ WF_vars(Serve) /\ WF_vars(Advance)

-----------------------------------------------------------------------------
(* Properties.                                                             *)

PaysTheSlot(tx) == Pays(Intent, tx)

Answered(view) == answer # None /\ answer.view = view

\* A slot is shown as paid only for a transaction by which the expected payer
\* delivered exactly the frozen amount of the frozen asset to the recipient,
\* however the ledger spells the amount and whatever else the transaction says.
VerifiedPaysTheSlot ==
    kind = "verify" /\ Answered("paid") => PaysTheSlot(case.ledgers[now].tx)

\* Trying again is offered for a known transaction only if that one can bring
\* nothing any more, and a replacement is created only if the whole history, as
\* the endpoint had it when the search began, holds no payment of the slot.
RetryIsSafe ==
    /\ kind = "verify" /\ Answered("retry_safe") /\ answer.outcome.txid = "known"
          => /\ case.ledgers[now].tx # None /\ case.ledgers[now].tx.validated
             /\ ~Arrived(case.ledgers[now].tx)
    /\ kind = "replace" /\ Answered("create")
          => \A i \in DOMAIN Ledger("history").history :
                ~PaysTheSlot(Ledger("history").history[i])

\* The payer is told that the organizer reviews the payment only when the slot
\* and the Bill say so, even if writing that failed the first time.
ReviewIsRecorded == Answered("review_required") => recorded

\* The fee may turn out lower than its estimate, and a line that the account
\* itself froze is refused too.
Cautious(ledger) ==
    \/ EstimatedFee(ledger.network) > ledger.network.base
    \/ ledger.payerLine # None /\ ledger.payerLine.freeze
    \/ ledger.recipientLine # None /\ ledger.recipientLine.freeze

AtReferenceFee(ledger) == PaymentSucceeds(Intent, ledger, ledger.network.base)

Refused(ledger) == ~AtReferenceFee(ledger) \/ Cautious(ledger)

\* What a read shows of a ledger.
Shown(r, ledger) ==
    CASE r = "payerAccount" -> ledger.payer
      [] r = "recipientAccount" -> ledger.recipient
      [] r \in {"payerIssuer", "recipientIssuer", "issuer"} -> ledger.issuer
      [] r = "reserves" ->
            <<ledger.network.base, ledger.network.reserveBase, ledger.network.reserveIncrement>>
      [] r = "fees" -> <<ledger.network.minimum, ledger.network.openLedger>>
      [] r \in {"account", "payerLine", "recipientLine", "line"} -> ledger[r]

Changed(r) == Shown(r, case.ledgers[1]) # Shown(r, case.ledgers[2])

\* Two facts changed, and one was read before and one after: what was read together is
\* of no ledger there ever was. The issuer, read for each role, is one fact.
Torn ==
    \E q, r \in DOMAIN read :
        /\ Seen(q) /\ Seen(r) /\ read[q].seen # read[r].seen
        /\ Changed(q) /\ Changed(r)
        /\ {q, r} # {IssuerRead(role) : role \in Roles}

\* The ledger that the reads of a request make up, with the issuer as this role has it.
\* A fact that was not read counts as unchanged.
Past(r) == IF Seen(r) THEN Ledger(r) ELSE case.ledgers[1]
NetworkAsRead == NetworkOf(Past("reserves").network, Past("fees").network)
PaymentAsRead(role) ==
    [payer |-> Past("payerAccount").payer, network |-> NetworkAsRead,
     issuer |-> Past(IssuerRead(role)).issuer, payerLine |-> Past("payerLine").payerLine,
     recipient |-> Past("recipientAccount").recipient,
     recipientLine |-> Past("recipientLine").recipientLine]
PreparationAsRead ==
    [account |-> Past("account").account, network |-> NetworkAsRead,
     issuer |-> Past("issuer").issuer, line |-> Past("line").line]

\* A handoff is created only if the payment would succeed with what was read, and a
\* condition to resolve is shown only if that would refuse it, or for caution. Nothing
\* makes the reads those of one ledger: a real ledger that agrees with the answer is
\* there only when they are not torn, whichever facts change together. The operator's
\* script reads one validated ledger: what it calls ready is enough for both parts of
\* the Bill there, at all the fees it keeps in hand and however much changes in the
\* next ledger.
ReadinessIsTrue ==
    /\ kind = "readiness" /\ Answered("READY") =>
          /\ \E role \in Roles : AtReferenceFee(PaymentAsRead(role))
          /\ Torn \/ \E s \in 1..now : AtReferenceFee(case.ledgers[s])
    /\ kind = "readiness" /\ Answered("PAYMENT_READINESS_BLOCKED") =>
          /\ \E role \in Roles : Refused(PaymentAsRead(role))
          /\ Torn \/ \E s \in 1..now : Refused(case.ledgers[s])
    /\ kind = "accept" /\ Answered("ACCOUNTS_READY") => \E s, t \in 1..now :
          /\ PaymentSucceeds(Intent, case.ledgers[s], FeeHeadroom(case.ledgers[t].network))
          /\ RecipientLineVerdict([units |-> BillTotal(Intent), scale |-> Intent.scale],
                                  case.ledgers[s].issuer, case.ledgers[s].recipientLine) = Ready

\* Was the plan right for this ledger? The line it leads to must be confirmed as
\* ready by the synchronization, carry the amount by the ledger's rule and, for a
\* recipient, pass the readiness check; only the issuer can authorize a new one.
PlanFits(intent, plan, ledger) ==
    LET line == IF plan.view = "required" THEN AfterTrustSet(ledger.line, plan.limit, intent.scale)
                ELSE ledger.line
        cost == (IF ledger.line = None THEN ledger.network.reserveIncrement ELSE 0)
                + ledger.network.base
    IN  /\ ledger.account # None /\ ledger.issuer # None
        /\ plan.view = "required" =>
               ledger.account.balance >= Reserve(ledger.account, ledger.network) + cost
        /\ \/ ledger.line = None /\ ledger.issuer.requireAuthorization
           \/ /\ LineCarries(ledger.issuer, line)
              /\ TrustLineVerdict(ledger.issuer, line, plan.limit, intent.scale) = "ready"
              /\ intent.purpose = "recipient" =>
                    RecipientLineVerdict(intent, ledger.issuer, line) = Ready
              /\ Exceeds(line.limit, Zero, intent.units, intent.scale)

\* A holder who follows the plan, or is told to do nothing, ends with a line that
\* can carry the payment: no preparation asks for a limit that is still too low for
\* what was read, or for a ledger there was, unless the reads are torn.
PlanIsEnough ==
    kind = "prepare" /\ (Answered("required") \/ Answered("not_required")) =>
        /\ PlanFits(Intent, answer, PreparationAsRead)
        /\ Torn \/ \E s \in 1..now : PlanFits(Intent, answer, case.ledgers[s])

\* A payment of the slot that the wallet submitted and the ledger validated with
\* the fields of the request is shown as paid in the end, whichever endpoint
\* fails or lags and however often the payer has to check again.
PaymentIsVerified ==
    (/\ kind = "verify" /\ ProviderOutcome(case.payload).status = "ask"
     /\ AsRequested(Intent, case.ledgers[2].tx)) ~> Answered("paid")

=============================================================================
