--------------------------- MODULE PaymentReadiness ---------------------------
(***************************************************************************)
(* Can this payment be made? The verdicts of payer-readiness.ts and        *)
(* recipient-readiness.ts over the facts that were read from validated     *)
(* ledgers, and what the XRP Ledger would do with the payment.             *)
(*                                                                         *)
(* Operators only. An account is None or its record; a trust line is None  *)
(* or its record, with balances and limits as decimals of the ledger       *)
(* (coefficient, fraction digits), which may be negative. The intent is    *)
(* the one PaymentVerification compares with.                              *)
(***************************************************************************)
EXTENDS PaymentVerification, FiniteSetsExt

-----------------------------------------------------------------------------
Blocked(reason) == [status |-> "blocked", reason |-> reason]
Ready == [status |-> "ready", reason |-> None]
Unavailable == [status |-> "unavailable", reason |-> "validated_ledger_data_unavailable"]

\* parseDecimal and alignDecimal, to the scale of the finer one.
Align(d, scale) == d.coefficient * 10^(scale - d.fraction)

\* hasIssuedBalance
HasIssuedBalance(line, units, scale) ==
    LET common == Max({line.balance.fraction, scale})
    IN  Align(line.balance, common) >= units * 10^(common - scale)

LimitAlone(line, units, scale) ==                                    \* mutant
    LET common == Max({line.limit.fraction, scale})
    IN  Align(line.limit, common) >= units * 10^(common - scale)

\* hasTrustLineCapacity
HasTrustLineCapacity(line, units, scale) ==
    LET common == Max({line.limit.fraction, line.balance.fraction, scale})
    IN  Align(line.limit, common) - Align(line.balance, common) >= units * 10^(common - scale)

\* A limit below zero, or a value that parseDecimal refuses.
InvalidLine(line) == line.limit.coefficient < 0

EstimatedFee(network) == Max({network.base, network.minimum, network.openLedger})

Reserve(account, network) ==
    network.reserveBase + account.owned * network.reserveIncrement

Spendable(account, network) ==
    LET reserve == Reserve(account, network)
    IN  IF account.balance > reserve THEN account.balance - reserve ELSE 0

Required(intent, network) ==
    EstimatedFee(network) + (IF intent.asset = "XRP" THEN intent.units ELSE 0)

Frozen(line) == line.freeze \/ line.freezePeer \/ line.deepFreeze \/ line.deepFreezePeer

\* What both roles ask of the issuer.
IssuerVerdict(issuer) ==
    CASE issuer = None -> Blocked("issuer_not_found")
      [] issuer # None /\ issuer.globalFreeze -> Blocked("issuer_global_freeze")
      [] OTHER -> Ready

\* What both roles ask of the line before its numbers.
LineVerdict(issuer, line) ==
    CASE line = None -> Blocked("trust_line_missing")
      [] line # None /\ Frozen(line) -> Blocked("trust_line_frozen")
      [] line # None /\ ~Frozen(line) /\ issuer.requireAuthorization /\ ~line.peerAuthorized
             -> Blocked("trust_line_not_authorized")
      [] OTHER -> Ready

\* checkPayerReadiness, up to the reads that only an issued asset needs.
PayerXrpVerdict(intent, account, network) ==
    CASE account = None -> Blocked("account_not_found")
      [] account # None /\ Spendable(account, network) < Required(intent, network)
             -> Blocked("insufficient_spendable_xrp")
      [] OTHER -> Ready

PayerLineVerdict(intent, issuer, line) ==
    IF LineVerdict(issuer, line) # Ready THEN LineVerdict(issuer, line)
    ELSE IF HasIssuedBalance(line, intent.units, intent.scale) THEN Ready
    ELSE Blocked("issued_balance_insufficient")

\* checkRecipientReadiness, up to the reads that only an issued asset needs.
RecipientAccountVerdict(intent, account) ==
    CASE account = None -> Blocked("account_not_found")
      [] account # None /\ account.requireDestinationTag /\ intent.destinationTag = None
             -> Blocked("destination_tag_required")
      [] account # None /\ account.depositAuth
                 /\ ~(account.requireDestinationTag /\ intent.destinationTag = None)
             -> Blocked("deposit_authorization_required")
      [] OTHER -> Ready

RecipientLineVerdict(intent, issuer, line) ==
    IF LineVerdict(issuer, line) # Ready THEN LineVerdict(issuer, line)
    ELSE IF InvalidLine(line) THEN Blocked("trust_line_data_invalid")
    ELSE IF HasTrustLineCapacity(line, intent.units, intent.scale) THEN Ready
    ELSE Blocked("trust_line_limit_insufficient")

\* requirePaymentReadiness
GateCode(payer, recipient) ==
    CASE payer = Ready /\ recipient = Ready -> "READY"
      [] "unavailable" \in {payer.status, recipient.status} -> "PAYMENT_READINESS_UNAVAILABLE"
      [] OTHER -> "PAYMENT_READINESS_BLOCKED"

-----------------------------------------------------------------------------
(* The preparation of a trust line: rlusd-trustset-plan.ts, and what       *)
(* rlusd-trustset-service.ts makes of the line afterwards.                 *)

\* decimalToUnits, which refuses what it cannot represent.
FitsPrecision(d, scale) ==
    d.fraction <= scale \/ d.coefficient % 10^(d.fraction - scale) = 0
ToUnits(d, scale) ==
    IF d.fraction <= scale THEN Align(d, scale) ELSE d.coefficient \div 10^(d.fraction - scale)

LimitOf(line, scale) == IF line = None THEN 0 ELSE ToUnits(line.limit, scale)
Held(line, scale) == IF line = None THEN 0 ELSE Max({0, ToUnits(line.balance, scale)})

TargetForRequired(purpose, line, units, scale) ==                    \* mutant
    Max({LimitOf(line, scale), units})

\* planRlusdTrustSetPreparation: the limit a preparation asks for.
TargetLimit(purpose, line, units, scale) ==
    Max({LimitOf(line, scale), units + (IF purpose = "recipient" THEN Held(line, scale) ELSE 0)})

\* The reserve a new line adds, and the fee.
CanAffordTrustSet(account, line, network) ==
    LET future == Reserve(account, network) + (IF line = None THEN network.reserveIncrement ELSE 0)
    IN  account.balance >= future + EstimatedFee(network)

Planned(status, limit) == [view |-> status, limit |-> limit]
NotPlanned == Planned("blocked", 0)

Plan(purpose, account, issuer, line, network, units, scale) ==
    LET target == TargetLimit(purpose, line, units, scale)
        bars == LineVerdict(issuer, line).reason \in {"trust_line_frozen", "trust_line_not_authorized"}
    IN  CASE account = None \/ IssuerVerdict(issuer) # Ready -> NotPlanned
          [] account # None /\ IssuerVerdict(issuer) = Ready ->
               IF \/ bars
                  \/ line # None /\ ~(FitsPrecision(line.balance, scale) /\ FitsPrecision(line.limit, scale))
               THEN NotPlanned
               ELSE IF line # None /\ LimitOf(line, scale) >= target
               THEN Planned("not_required", target)
               ELSE IF CanAffordTrustSet(account, line, network)
               THEN Planned("required", target) ELSE NotPlanned

\* verifyTrustLine
TrustLineVerdict(issuer, line, limit, scale) ==
    CASE IssuerVerdict(issuer) # Ready -> "blocked"
      [] IssuerVerdict(issuer) = Ready /\ line = None -> "pending"
      [] OTHER -> IF LineVerdict(issuer, line) # Ready THEN "blocked"
                  ELSE IF ToUnits(line.limit, scale) < limit THEN "pending" ELSE "ready"

-----------------------------------------------------------------------------
(* The accounts of the RLUSD acceptance: an operator's script asks once    *)
(* more, by its own arithmetic, for a Bill of two equal parts.             *)

AmountOf(units, scale) == [coefficient |-> units, fraction |-> scale]
DifferenceAtLeast(left, right, need) ==
    LET common == Max({left.fraction, right.fraction, need.fraction})
    IN  Align(left, common) - Align(right, common) >= Align(need, common)

\* requireOfficialTrustLine
OfficialTrustLine(issuer, line) == LineVerdict(issuer, line) = Ready

BillTotal(intent) == 2 * intent.units
FeeHeadroom(fee) == 4 * Max({fee.base, fee.minimum, fee.median, fee.openLedger})

\* evaluateMainnetRlusdAccountReadiness
AccountsReady(intent, l, fee) ==
    /\ RecipientAccountVerdict(intent, l.recipient) = Ready
    /\ l.payer # None
    /\ IssuerVerdict(l.issuer) = Ready
    /\ OfficialTrustLine(l.issuer, l.recipientLine)
    /\ OfficialTrustLine(l.issuer, l.payerLine)
    /\ DifferenceAtLeast(l.recipientLine.limit, l.recipientLine.balance,
                         AmountOf(BillTotal(intent), intent.scale))
    /\ DifferenceAtLeast(l.payerLine.balance, AmountOf(0, 0), AmountOf(intent.units, intent.scale))
    /\ l.payer.balance - Reserve(l.payer, l.network) >= FeeHeadroom(fee)

-----------------------------------------------------------------------------
(* The XRP Ledger itself: when does a direct payment of the whole amount   *)
(* succeed? Stated from what the ledger requires, not from the checks.     *)

Zero == [coefficient |-> 0, fraction |-> 0]

\* left - right is worth units / 10^scale or more, with no scale to align them to.
Exceeds(left, right, units, scale) ==
    (left.coefficient * 10^right.fraction - right.coefficient * 10^left.fraction) * 10^scale
        >= units * (10^left.fraction * 10^right.fraction)

LineCarries(issuer, line) ==
    /\ line # None
    /\ ~line.freezePeer /\ ~line.deepFreezePeer /\ ~line.deepFreeze
    /\ ~issuer.requireAuthorization \/ line.peerAuthorized

\* fee is what the transaction pays for itself.
PaymentSucceeds(intent, ledger, fee) ==
    /\ ledger.payer # None /\ ledger.recipient # None
    /\ ledger.payer.balance >= Reserve(ledger.payer, ledger.network)
           + fee + (IF intent.asset = "XRP" THEN intent.units ELSE 0)
    /\ ledger.recipient.requireDestinationTag => intent.destinationTag # None
    /\ ~ledger.recipient.depositAuth
    /\ intent.asset # "XRP" =>
          /\ ledger.issuer # None /\ ~ledger.issuer.globalFreeze
          /\ LineCarries(ledger.issuer, ledger.payerLine)
          /\ LineCarries(ledger.issuer, ledger.recipientLine)
          /\ Exceeds(ledger.payerLine.balance, Zero, intent.units, intent.scale)
          /\ Exceeds(ledger.recipientLine.limit, ledger.recipientLine.balance,
                     intent.units, intent.scale)

=============================================================================
