--------------------------- MODULE MCServerDecisions ---------------------------
(***************************************************************************)
(* What there is to decide, for TLC: 1.5 RLUSD or 15 drops, a transaction  *)
(* that differs from the requested one in at most two fields, histories of *)
(* up to three transactions, and account facts that change alone or two at *)
(* a time. Beside it, what is stored of a verified payment: a decision and *)
(* the storing share no state here, and each is run while the other rests. *)
(***************************************************************************)
EXTENDS ServerDecisions, PaymentReceipts, FiniteSets

VARIABLE part

IntentOf(asset, tag) ==
    [asset |-> asset, units |-> 15, scale |-> IF asset = "XRP" THEN 0 ELSE 1,
     payer |-> "payer", destination |-> "recipient", sourceTag |-> "app",
     destinationTag |-> tag, invoice |-> "slot"]

Value(c, f, e) == [coefficient |-> c, fraction |-> f, exponent |-> e]
Money(asset, v) == [asset |-> asset, value |-> v]
Nothing == Money(None, Value(0, 0, 0))

Drops == {Value(15, 0, 0), Value(14, 0, 0), Value(1, 0, 0)}
\* 1.5, 1.50, 15e-1, 0.15e1, 1, 1.51, 150 and 0.15
Spellings == {Value(15, 1, 0), Value(150, 2, 0), Value(15, 0, -1), Value(15, 2, 1),
              Value(1, 0, 0), Value(151, 2, 0), Value(15, 0, 1), Value(15, 2, 0)}
Moneys(asset) ==
    IF asset = "XRP" THEN {Nothing, Money("RLUSD", Value(15, 1, 0))} \cup {Money("XRP", v) : v \in Drops}
    ELSE {Nothing, Money("XRP", Value(15, 0, 0)), Money("lookalike", Value(15, 1, 0))}
         \cup {Money("RLUSD", v) : v \in Spellings}

Exactly(intent) == Money(intent.asset, IF intent.asset = "XRP" THEN Value(15, 0, 0)
                                                            ELSE Value(15, 1, 0))

Template(intent) ==
    [validated |-> TRUE, hash |-> "asked", result |-> "tesSUCCESS", type |-> "Payment",
     account |-> intent.payer, destination |-> intent.destination,
     partial |-> FALSE, paths |-> FALSE, amountFields |-> 1,
     amount |-> Exactly(intent), delivered |-> Exactly(intent),
     sourceTag |-> intent.sourceTag, destinationTag |-> intent.destinationTag,
     invoice |-> intent.invoice]

\* The ledger's own rules: what fails or is no Payment delivers nothing, and only
\* a partial payment delivers less than its amount.
Consistent(tx) ==
    /\ tx.result # "tesSUCCESS" \/ tx.type # "Payment" => tx.delivered = Nothing
    /\ tx.result = "tesSUCCESS" /\ tx.type = "Payment" /\ ~tx.partial => tx.delivered = tx.amount
    /\ tx.partial => tx.delivered.asset \in {tx.amount.asset, None}

With(t, field, v) == [t EXCEPT ![field] = v]
Deviations(t) ==
    {With(t, "hash", "other"), With(t, "type", "other"),
     With(t, "account", "stranger"), With(t, "destination", "stranger"),
     With(t, "paths", TRUE), With(t, "amountFields", 2),
     With(t, "sourceTag", "other"), With(t, "invoice", "other")}
    \cup {With([t EXCEPT !.delivered = Nothing], "result", "tecFAILED")}
    \cup {With(t, "destinationTag", g) : g \in {None, "tag", "othertag"}}
    \cup {[t EXCEPT !.amount = m, !.delivered = m] : m \in Moneys(t.amount.asset)}
    \cup {[t EXCEPT !.partial = TRUE, !.delivered = m] : m \in Moneys(t.amount.asset)}

Once(intent) == {t \in {Template(intent)} \cup Deviations(Template(intent)) : Consistent(t)}
Twice(intent) == {t \in UNION {Deviations(t) : t \in Once(intent)} : Consistent(t)}

Intents == {IntentOf("XRP", None), IntentOf("RLUSD", "tag")}

Payload(resolved, signed, cancelled, expired) ==
    [resolved |-> resolved, signed |-> signed, cancelled |-> cancelled, expired |-> expired]
Submitted == Payload(TRUE, TRUE, FALSE, FALSE)
Payloads == {Payload(r, s, c, e) : r, s, c, e \in BOOLEAN} \ {Submitted}

Unvalidated(t) == [t EXCEPT !.validated = FALSE]
Ledgers(old, new) == <<[tx |-> old], [tx |-> new]>>

VerifyCases ==
    UNION {{<<"verify", [intent |-> i, payload |-> Submitted, ledgers |-> l]>> :
               l \in UNION {{Ledgers(None, t), Ledgers(Unvalidated(t), t), Ledgers(t, t)} :
                               t \in Once(i)}
                     \cup {Ledgers(Unvalidated(t), t) : t \in Twice(i)}
                     \cup {Ledgers(None, None), Ledgers(None, Unvalidated(Template(i)))}} :
           i \in Intents}
    \cup {<<"verify", [intent |-> i, payload |-> p, ledgers |-> Ledgers(None, None)]>> :
             i \in Intents, p \in Payloads}

\* The history of the payer's account.
HistoryItems(i) ==
    {Template(i), [Template(i) EXCEPT !.hash = "second"],
     [Template(i) EXCEPT !.result = "tecFAILED", !.delivered = Nothing],
     [Template(i) EXCEPT !.invoice = "other"]}
History(s) == [history |-> s]
Histories(i) == UNION {[1..n -> HistoryItems(i)] : n \in 0..3}
ReplaceCases ==
    UNION {{<<"replace", [intent |-> i, payload |-> Submitted,
                          ledgers |-> <<History(s), History(s)>>]>> : s \in Histories(i)}
           \cup {<<"replace", [intent |-> i, payload |-> Submitted,
                               ledgers |-> <<History(s), History(<<t>> \o s)>>]>> :
                    s \in {u \in Histories(i) : Len(u) < 3}, t \in HistoryItems(i)} :
           i \in Intents}

\* The accounts: a good ledger, and those that differ from it in one fact.
Line(b, bf, l, lf) ==
    [balance |-> Value(b, bf, 0), limit |-> Value(l, lf, 0), freeze |-> FALSE,
     freezePeer |-> FALSE, deepFreeze |-> FALSE, deepFreezePeer |-> FALSE, peerAuthorized |-> TRUE]
Good(fee) ==
    [payer |-> [balance |-> 40, owned |-> 2],
     network |-> [base |-> 1, minimum |-> 1, median |-> 1, openLedger |-> fee,
                  reserveBase |-> 10, reserveIncrement |-> 2],
     issuer |-> [globalFreeze |-> FALSE, requireAuthorization |-> TRUE],
     payerLine |-> Line(15, 1, 0, 0),
     recipient |-> [requireDestinationTag |-> FALSE, depositAuth |-> FALSE],
     recipientLine |-> Line(850, 2, 10, 0)]
AccountFaults(g) ==
    {[g EXCEPT !.payer = p] : p \in {None, [balance |-> 29, owned |-> 2],
                                     [balance |-> 30, owned |-> 2], [balance |-> 40, owned |-> 9]}}
    \cup {[g EXCEPT !.network.openLedger = 12], [g EXCEPT !.network.base = 12]}
    \cup {[g EXCEPT !.recipient = r] : r \in {None,
              [requireDestinationTag |-> TRUE, depositAuth |-> FALSE],
              [requireDestinationTag |-> FALSE, depositAuth |-> TRUE]}}
\* The accounts of an issued asset: what neither its other facts nor XRP repeat.
HolderFaults(g) ==
    {[g EXCEPT !.payer.balance = 15], [g EXCEPT !.network.openLedger = 27],
     [g EXCEPT !.recipient.requireDestinationTag = TRUE]}
AssetFaults(g) ==
    {[g EXCEPT !.issuer = s] : s \in {None, [globalFreeze |-> TRUE, requireAuthorization |-> TRUE]}}
    \cup {[g EXCEPT !.payerLine = l] :
              l \in {None, [g.payerLine EXCEPT !.freezePeer = TRUE],
                     [g.payerLine EXCEPT !.peerAuthorized = FALSE],
                     Line(1, 0, 0, 0), Line(149, 2, 0, 0), Line(1501, 3, 0, 0)}}
    \cup {[g EXCEPT !.recipientLine = l] :
              l \in {[g.recipientLine EXCEPT !.freeze = TRUE],
                     [g.recipientLine EXCEPT !.deepFreezePeer = TRUE],
                     Line(851, 2, 10, 0), Line(-5, 1, 1, 0), Line(9, 0, 10, 0)}}
\* Two facts in which the ledgers differ, each ledger short of one of them: the payer
\* trades RLUSD for XRP, the recipient lets deposits in and lowers the limit, the payer
\* gains XRP while the fee rises, the issuer asks for authorization while a line is
\* opened to it; or one ledger short of both: a line that is not there yet.
AccountExchanges(g) ==
    {<<[g EXCEPT !.payer.balance = 29], [g EXCEPT !.network.openLedger = 12, !.network.minimum = 12]>>,
     <<[g EXCEPT !.payer.balance = 29], [g EXCEPT !.network.base = 12]>>}
AssetExchanges(g) ==
    {<<[g EXCEPT !.payer.balance = 14], [g EXCEPT !.payerLine = Line(1, 0, 0, 0)]>>,
     <<[g EXCEPT !.recipient.depositAuth = TRUE], [g EXCEPT !.recipientLine = Line(851, 2, 10, 0)]>>,
     <<[g EXCEPT !.issuer.requireAuthorization = FALSE, !.recipientLine.peerAuthorized = FALSE], g>>,
     <<[g EXCEPT !.payer.owned = 1, !.payerLine = None], g>>}
BothOrders(pairs) == pairs \cup {<<p[2], p[1]>> : p \in pairs}
ReadinessCases ==
    UNION {{<<"readiness", [intent |-> i, payload |-> Submitted, ledgers |-> l]>> :
               l \in IF i.asset = "XRP"
                     THEN BothOrders({<<Good(1), g>> : g \in AccountFaults(Good(1))}
                                     \cup AccountExchanges(Good(1)))
                     ELSE {<<Good(1), g>> : g \in HolderFaults(Good(1)) \cup AssetFaults(Good(1))}
                          \cup BothOrders(AssetExchanges(Good(1)))} :
           i \in Intents}

\* The account and the line of one preparation; limits at, below and above the
\* balance and the amount together.
Prepared(line) ==
    [account |-> [balance |-> 17, owned |-> 2], issuer |-> Good(1).issuer,
     network |-> Good(1).network, line |-> line]
PreparedLines == {None, Line(85, 1, 10, 0), Line(85, 1, 99, 1), Line(85, 1, 1, 0),
                  Line(-5, 1, 1, 0), Line(-5, 1, 15, 1), Line(0, 0, 0, 0), Line(1501, 3, 10, 0)}
PreparedFaults(g) ==
    {[g EXCEPT !.account = a] : a \in {None, [balance |-> 14, owned |-> 2],
                                       [balance |-> 16, owned |-> 2]}}
    \cup {[g EXCEPT !.issuer = i] : i \in {None, [globalFreeze |-> TRUE, requireAuthorization |-> TRUE],
                                            [globalFreeze |-> FALSE, requireAuthorization |-> FALSE]}}
    \cup {[g EXCEPT !.network.openLedger = 12]}
LineFaults(line) ==
    {[line EXCEPT !.freeze = TRUE], [line EXCEPT !.freezePeer = TRUE],
     [line EXCEPT !.deepFreezePeer = TRUE], [line EXCEPT !.peerAuthorized = FALSE]}
\* The holder opens the line and buys RLUSD, or pays all of it and its XRP away and
\* lowers the limit.
PreparedExchanges ==
    {<<Prepared(None), [Prepared(Line(85, 1, 10, 0)) EXCEPT !.account = [balance |-> 14, owned |-> 3]]>>,
     <<Prepared(Line(85, 1, 10, 0)), [Prepared(Line(-5, 1, 1, 0)) EXCEPT !.account.balance = 14]>>}
PreparedPairs(purpose) ==
    {<<Prepared(l), Prepared(m)>> : l \in {None, Line(85, 1, 10, 0), Line(85, 1, 99, 1)}, m \in PreparedLines}
    \cup (IF purpose = "payer" THEN {<<Prepared(None), h>> : h \in PreparedFaults(Prepared(None))}
          ELSE LET g == Prepared(Line(85, 1, 10, 0))
               IN  {<<g, h>> : h \in PreparedFaults(g) \cup {[g EXCEPT !.line = l] : l \in LineFaults(g.line)}})
    \cup BothOrders(PreparedExchanges)
PrepareCases ==
    UNION {{<<"prepare", [intent |-> [purpose |-> p, asset |-> "RLUSD", units |-> 15, scale |-> 1],
                          payload |-> Submitted, ledgers |-> l]>> :
               l \in PreparedPairs(p)} : p \in {"payer", "recipient"}}

\* One ledger of an acceptance has one fault, the other one too or none: read one
\* by one, the facts of the two could look ready although neither ledger is.
Accepted == [Good(1) EXCEPT !.recipientLine = Line(900, 2, 12, 0)]
AcceptFaults ==
    AccountFaults(Accepted) \cup HolderFaults(Accepted) \cup AssetFaults(Accepted)
    \cup {[Accepted EXCEPT !.recipientLine = Line(901, 2, 12, 0)],
          [Accepted EXCEPT !.network.median = 7], [Accepted EXCEPT !.network.openLedger = 6]}
AcceptPairs ==
    {l \in AcceptFaults \X {Accepted, [Accepted EXCEPT !.recipientLine = None],
                            [Accepted EXCEPT !.payerLine = Line(149, 2, 0, 0)],
                            [Accepted EXCEPT !.network.base = 7]} : l[1] # l[2]}
AcceptCases ==
    {<<"accept", [intent |-> IntentOf("RLUSD", "tag"), payload |-> Submitted, ledgers |-> l]>> :
        l \in BothOrders(AcceptPairs)}

AllCases == VerifyCases \cup ReplaceCases \cup ReadinessCases \cup PrepareCases \cup AcceptCases

-----------------------------------------------------------------------------
(* The two parts.                                                          *)

RestingCase == <<"replace", [intent |-> IntentOf("XRP", None), payload |-> Submitted,
                             ledgers |-> <<History(<<>>), History(<<>>)>>]>>

ServerInit ==
    /\ Init /\ ReceiptsInit
    /\ \/ part = "decisions" /\ assetType = "native" /\ slotRow = Open
       \/ part = "receipts" /\ <<kind, case>> = RestingCase

ServerNext ==
    /\ UNCHANGED part
    /\ \/ part = "decisions" /\ Next /\ UNCHANGED receiptVars
       \/ part = "receipts" /\ ReceiptsNext /\ UNCHANGED vars

\* The fairness of the decisions, which binds their behaviours only.
ServerSpec ==
    /\ ServerInit /\ [][ServerNext]_<<vars, receiptVars, part>>
    /\ WF_vars(part = "decisions" /\ Serve) /\ WF_vars(part = "decisions" /\ Advance)
=============================================================================
