-------------------------- MODULE PaymentVerification --------------------------
(***************************************************************************)
(* What a transaction on the ledger is worth to a slot: the verifiers of   *)
(* XRP and RLUSD payments, the reading of issued amounts, the recovery     *)
(* taxonomy of the server and the payer's view of an answer.               *)
(*                                                                         *)
(* Operators only. A transaction has the fields the verifiers look at;     *)
(* amounts are exact decimals: value v stands for                          *)
(* v.coefficient * 10^(v.exponent - v.fraction), as it is spelt.           *)
(***************************************************************************)
EXTENDS Integers, Sequences

CONSTANTS
    None,       \* nothing
    MaxDigits   \* of an issued amount, 16 on the ledger; a bound

\* What the powers of ten are as far as amounts are compared by them.
ASSUME PowersOfTen ==
    MaxDigits \in Nat \ {0} /\ 10^0 = 1 /\ \A n \in 1..MaxDigits : 10^n = 10 * 10^(n - 1)

-----------------------------------------------------------------------------
(* Amounts.                                                                *)

\* The thrown XrplIssuedValueError; no amount is negative.
Invalid == -1

NumDigits(n) == IF n = 0 THEN 1 ELSE CHOOSE d \in 1..MaxDigits : 10^(d-1) <= n /\ n < 10^d

Floor(v, scale) ==                                                   \* mutant
    LET shift == scale - (v.fraction - v.exponent)
    IN  IF shift >= 0 THEN v.coefficient * 10^shift ELSE v.coefficient \div 10^(-shift)

\* xrplIssuedValueToUnits: nothing is rounded.
IssuedValueToUnits(v, scale) ==
    LET shift == scale - (v.fraction - v.exponent)
    IN  CASE shift >= 0 -> v.coefficient * 10^shift
          [] shift < 0 /\ (\/ -shift > NumDigits(v.coefficient)
                           \/ v.coefficient % 10^(-shift) # 0) -> Invalid
          [] OTHER -> v.coefficient \div 10^(-shift)

\* The same number, without the program: v is worth units / 10^scale.
Worth(v, units, scale) ==
    LET up == v.exponent + scale - v.fraction
    IN  IF up >= 0 THEN v.coefficient * 10^up = units ELSE v.coefficient = units * 10^(-up)

-----------------------------------------------------------------------------
(* verifier.ts, issued-verifier.ts: the checks in their order. The hash    *)
(* that was asked for is "asked".                                          *)

Check(holds, reason) == [holds |-> holds, reason |-> reason]

Common(intent, tx) == <<
    Check(tx.validated, "TRANSACTION_NOT_VALIDATED"),
    Check(tx.hash = "asked", "HASH_MISMATCH"),
    Check(tx.result = "tesSUCCESS", "TRANSACTION_FAILED"),
    Check(tx.type = "Payment", "WRONG_TRANSACTION_TYPE"),
    Check(tx.account = intent.payer, "WRONG_SENDER"),
    Check(tx.destination = intent.destination, "WRONG_DESTINATION"),
    Check(~tx.partial, "PARTIAL_PAYMENT"),
    Check(~tx.paths, "CROSS_CURRENCY_PAYMENT") >>

XrpAmounts(intent, tx) == <<
    Check(tx.amountFields = 1 /\ tx.amount.asset = "XRP", "NON_XRP_PAYMENT"),
    Check(tx.amount.value.coefficient = intent.units, "AMOUNT_MISMATCH"),
    Check(tx.delivered.asset = "XRP", "NON_XRP_PAYMENT"),
    Check(tx.delivered.value.coefficient = intent.units, "DELIVERED_AMOUNT_MISMATCH") >>

IssuedAmounts(intent, tx) == <<
    Check(tx.amountFields = 1 /\ tx.amount.asset \notin {"XRP", None}, "NON_ISSUED_PAYMENT"),
    Check(tx.amount.asset = intent.asset, "ASSET_MISMATCH"),
    Check(IssuedValueToUnits(tx.amount.value, intent.scale) = intent.units, "AMOUNT_MISMATCH"),
    Check(tx.delivered.asset \notin {"XRP", None}, "NON_ISSUED_PAYMENT"),
    Check(tx.delivered.asset = intent.asset, "DELIVERED_ASSET_MISMATCH"),
    Check(IssuedValueToUnits(tx.delivered.value, intent.scale) = intent.units,
          "DELIVERED_AMOUNT_MISMATCH") >>

Tags(intent, tx) == <<
    Check(tx.sourceTag = intent.sourceTag, "SOURCE_TAG_MISMATCH"),
    Check(tx.destinationTag = intent.destinationTag, "DESTINATION_TAG_MISMATCH"),
    Check(tx.invoice = intent.invoice, "INVOICE_ID_MISMATCH") >>

Outcome(status, reason, txid) == [status |-> status, reason |-> reason, txid |-> txid]

Checks(intent, tx) ==
    Common(intent, tx)
    \o (IF intent.asset = "XRP" THEN XrpAmounts(intent, tx) ELSE IssuedAmounts(intent, tx))
    \o Tags(intent, tx)

\* Both verifiers return at the first check that fails.
FirstFailing(checks) ==
    CHOOSE i \in DOMAIN checks : ~checks[i].holds /\ \A j \in 1..(i - 1) : checks[j].holds

\* dispatchAssetPaymentVerification with its two strategies.
Verify(intent, tx) ==
    LET checks == Checks(intent, tx)
        reason == checks[FirstFailing(checks)].reason
    IN  IF \A i \in DOMAIN checks : checks[i].holds THEN Outcome("verified", None, "known")
        ELSE Outcome(IF reason = "TRANSACTION_NOT_VALIDATED" THEN "pending" ELSE "failed",
                     reason, "known")

-----------------------------------------------------------------------------
(* stored-slot-verification.ts: what the wallet provider says comes first. *)

\* normalizeXamanLifecycle; a payload has a txid only once it is signed.
ProviderStatus(p) ==
    CASE p.resolved /\ p.signed -> [status |-> "submitted", txid |-> "known"]
      [] ~(p.resolved /\ p.signed) /\ (p.cancelled \/ p.resolved)
             -> [status |-> "rejected", txid |-> None]
      [] ~p.cancelled /\ ~p.resolved /\ p.expired -> [status |-> "expired", txid |-> None]
      [] ~p.cancelled /\ ~p.resolved /\ ~p.expired /\ p.signed -> [status |-> "signed", txid |-> "known"]
      [] OTHER -> [status |-> "available", txid |-> None]

\* providerOutcome; "ask" stands for null, the transaction is looked up.
ProviderOutcome(p) ==
    LET s == ProviderStatus(p)
    IN  CASE s.status \in {"available", "signed"} -> Outcome("pending", "HANDOFF_NOT_SUBMITTED", s.txid)
          [] s.status = "rejected" -> Outcome("failed", "HANDOFF_REJECTED", s.txid)
          [] s.status = "expired" -> Outcome("failed", "HANDOFF_EXPIRED", s.txid)
          [] s.status = "submitted" -> Outcome("ask", None, s.txid)

-----------------------------------------------------------------------------
(* taxonomy.ts, payer-lifecycle.ts                                         *)

Recovery(disposition, rule) == [disposition |-> disposition, rule |-> rule]

\* classifyFailure, with uncertainTerminalHandoff and policy.
ClassifyFailure(reason, txid) ==
    CASE reason \in {"HANDOFF_REJECTED", "HANDOFF_EXPIRED"} /\ txid = None
             -> Recovery("safe_retry", "reconcile_first")
      [] reason = "TRANSACTION_FAILED" -> Recovery("safe_retry", "reconcile_first")
      [] reason = "HANDOFF_PROVIDER_FAILED" /\ txid = None -> Recovery("wait_recheck", "blocked")
      [] reason = "UNSUPPORTED_VERIFICATION_STRATEGY" -> Recovery("terminal", "blocked")
      [] OTHER -> Recovery("review_required", "blocked")

NotFoundIsFinal(outcome) ==                                          \* mutant
    IF outcome.status = "pending" /\ outcome.reason # "TRANSACTION_NOT_FOUND"
    THEN Recovery("wait_recheck", "blocked") ELSE ClassifyFailure(outcome.reason, outcome.txid)

\* classifyPaymentRecovery, as verifyAndSettleStoredSlotPayment calls it.
ClassifyPaymentRecovery(outcome) ==
    IF outcome.status = "pending" THEN Recovery("wait_recheck", "blocked")
    ELSE ClassifyFailure(outcome.reason, outcome.txid)

\* payerLifecycleFromVerification, from the recovery that the server sends.
ViewOfRecovery(r) == IF r.disposition = "safe_retry"
                     THEN IF r.rule = "blocked" THEN "no_retry" ELSE "retry_safe"
                     ELSE r.disposition

=============================================================================
