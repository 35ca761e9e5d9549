---------------------------- MODULE BillCreation ----------------------------
(***************************************************************************)
(* How one Bill comes to be: the form where the organizer edits a draft,   *)
(* the review the server makes of it, the batch that stores the frozen     *)
(* Bill with its slots and its allocation, and the progress page computed  *)
(* from what was stored.                                                   *)
(*                                                                         *)
(* A review is a request and an answer. Only the button that sends it is   *)
(* disabled meanwhile, so the draft may be edited before the answer comes. *)
(* Publishing is one step: the review screen disables all its controls     *)
(* until the answer, and the server stores the Bill in one batch.          *)
(*                                                                         *)
(* Left out: addresses, titles, tags and labels (a payer is its address),  *)
(* the step of the form (sending the review asks again for what the steps  *)
(* asked for), a field that is blank rather than zero, and the entries of  *)
(* strategies that are not selected.                                       *)
(***************************************************************************)
EXTENDS Allocation

CONSTANTS
    Payers,     \* participants the organizer may list; a bound
    Totals,     \* Bill totals that may be entered, in units; a bound
    Shares,     \* recipient-funded parts that may be entered; a bound
    Values,     \* Values[s]: what may be entered for a payer under strategy s; a bound
    Extra,      \* manual increments that may be entered; a bound
    Network,    \* the network of the deployment
    None

ASSUME ConstantsOK ==
    /\ None \notin Payers
    /\ Totals \subseteq Nat /\ Shares \subseteq Nat /\ Extra \subseteq Nat
    /\ Values \in [Strategies -> SUBSET Nat]
    /\ Network \in {"testnet", "mainnet"}

VARIABLES
    draft,      \* what the form holds
    pending,    \* the draft whose input was sent for a review not answered yet, or None
    review,     \* the review the organizer is shown, or None
    error,      \* why the last request was answered with an error
    bill,       \* the stored Bill with its slots and allocation rows, or None
    paid        \* payers whose slot is paid

vars == <<draft, pending, review, error, bill, paid>>

Modes == {"unset", "representative", "direct"}
RuleKinds == {"creator", "first_participant", "selected_participant", "manual"}

-----------------------------------------------------------------------------
(* The form.                                                               *)

\* newParticipant: nothing entered but a weight of one.
Blank(strategy) == IF strategy = "shares" THEN 1 ELSE 0
NoIncrements == [p \in Payers |-> 0]

NewDraft(payers) ==
    LET strategy == IF Network = "mainnet" THEN "equal" ELSE "custom"
    IN [mode |-> "unset", total |-> 0, funded |-> 0, payers |-> payers,
        strategy |-> strategy, entry |-> [p \in Payers |-> Blank(strategy)],
        kind |-> "none", who |-> None, increments |-> NoIncrements]

FirstPayers == {s \in [1 .. 2 -> Payers] : s[1] # s[2]}

\* effectiveRemainderMode: direct mode without a choice takes the first payer.
EffectiveKind(d) ==
    CASE d.mode = "direct" /\ d.kind = "none" -> "first_participant"
      [] d.kind = "selected_participant" /\ d.who = None -> "none"
      [] OTHER -> d.kind

InputWith(d, kind) ==
    [total |-> d.total, funded |-> d.funded, payers |-> d.payers,
     strategy |-> d.strategy, entry |-> d.entry,
     rule |-> [kind |-> kind, who |-> d.who, increments |-> d.increments]]

\* What evaluateAllocationForm gives to the engine.
FormInput(d) == InputWith(d, EffectiveKind(d))

\* hasRemainder. When the draft does not allocate, the remainder is previewed with
\* the creator rule, and is not known where that does not allocate either.
HasRemainder(d) ==
    /\ d.strategy # "custom"
    /\ Allocates(FormInput(d)) \/ Allocates(InputWith(d, "creator"))
    /\ RemainderUnits(FormInput(d)) # 0

DetailsReady(d) == d.mode # "unset" /\ d.total > 0 /\ d.total > d.funded
SplitReady(d) == Allocates(FormInput(d))

\* billDraftToInput: the rule is sent only where a remainder is shown.
ActiveInput(d) ==
    [mode |-> d.mode,
     split |-> IF HasRemainder(d) THEN FormInput(d) ELSE InputWith(d, "none")]

-----------------------------------------------------------------------------
(* The server.                                                             *)

\* prepareBill: what the server accepts, and what it makes of it.
Accepts(input, expectedNetwork) ==
    /\ Network = expectedNetwork
    /\ input.mode \in {"representative", "direct"}
    /\ input.mode = "direct" =>
        input.split.funded = 0 /\ input.split.rule.kind # "creator"
    /\ Allocates(input.split)

EnteredFunded(a) == a.funded \* mutant

\* The recipient-funded amount that is frozen is the one of the result.
FrozenFunded(a) == FinalFunded(a)

ReviewOf(input) ==
    [mode |-> input.mode, total |-> input.split.total,
     funded |-> FrozenFunded(input.split), owed |-> Obligations(input.split)]

NamedRule(a) == [kind |-> a.rule.kind, who |-> a.rule.who] \* mutant

\* remainderIdentity: the rule is kept only where there was a remainder.
RemainderIdentity(a) ==
    LET given == RemainderUnits(a) # 0
    IN CASE given /\ a.rule.kind = "first_participant" ->
              [kind |-> a.rule.kind, who |-> a.payers[1]]
         [] given /\ a.rule.kind = "selected_participant" ->
              [kind |-> a.rule.kind, who |-> a.rule.who]
         [] given /\ a.rule.kind \in {"creator", "manual"} ->
              [kind |-> a.rule.kind, who |-> None]
         [] ~given -> [kind |-> "none", who |-> None]

OneTaker(a, p) == IF a.rule.kind = "manual" THEN 0 ELSE Increment(a, p) \* mutant

\* remainderIncrements: what the result says was added for a payer.
RecordedIncrement(a, p) == Increment(a, p)

\* The rows of createPublishedBill: Bill, slots, allocation and its participants.
Stored(input) ==
    LET a == input.split
    IN [mode |-> input.mode, total |-> a.total, funded |-> FrozenFunded(a),
        owed |-> Obligations(a),
        strategy |-> a.strategy,
        weights |-> IF a.strategy \in Weighted THEN Denominator(a) ELSE 0,
        remainder |-> RemainderUnits(a),
        rule |-> RemainderIdentity(a),
        share |-> [p \in PayersOf(a) |->
            [input |-> IF a.strategy = "equal" THEN 0 ELSE a.entry[p],
             base |-> Obligation(a, p) - RecordedIncrement(a, p),
             increment |-> RecordedIncrement(a, p),
             final |-> Obligation(a, p)]]]

\* The CHECKs of the allocation tables and the trigger on direct Bills.
Storable(b) ==
    /\ b.strategy \in Weighted <=> b.weights # 0
    /\ b.remainder >= 0
    /\ b.remainder = 0 <=> b.rule.kind = "none"
    /\ b.rule.who # None <=> b.rule.kind \in {"first_participant", "selected_participant"}
    /\ \A p \in DOMAIN b.share :
        b.share[p].base >= 0 /\ b.share[p].increment >= 0 /\ b.share[p].final > 0
    /\ b.mode = "direct" => b.funded = 0

-----------------------------------------------------------------------------
Init ==
    /\ draft \in {NewDraft(s) : s \in FirstPayers}
    /\ pending = None
    /\ review = None
    /\ error = "none"
    /\ bill = None
    /\ paid = {}

\* The form is shown. Bound: while a review is on its way its draft is edited once.
Editing ==
    /\ review = None /\ bill = None
    /\ pending \in {None, draft}

Edit(d) == draft' = d /\ UNCHANGED <<pending, review, error, bill, paid>>

KeepRule(m) ==                                                      \* mutant
    Editing /\ Edit([draft EXCEPT !.mode = m, !.funded = IF m = "direct" THEN 0 ELSE @])

SetMode(m) ==
    /\ Editing
    /\ Edit([draft EXCEPT
        !.mode = m,
        !.funded = IF m = "direct" THEN 0 ELSE @,
        !.kind = IF m = "direct" /\ @ = "creator" THEN "none" ELSE @])

SetTotal(t) == Editing /\ Edit([draft EXCEPT !.total = t])

SetFunded(u) ==
    /\ Editing /\ draft.mode = "representative"
    /\ Edit([draft EXCEPT !.funded = u])

\* The rule is dropped. What is found under another strategy is not followed: it
\* starts blank, and what was there can be entered again.
SelectStrategy(s) ==
    /\ Editing
    /\ Edit([draft EXCEPT
        !.strategy = s,
        !.entry = IF s = draft.strategy THEN @ ELSE [p \in Payers |-> Blank(s)],
        !.kind = "none", !.who = None, !.increments = NoIncrements])

SetEntry(p, v) ==
    /\ Editing /\ draft.strategy # "equal" /\ p \in PayersOf(draft)
    /\ Edit([draft EXCEPT !.entry[p] = v])

AddPayer(p) ==
    /\ Editing /\ p \notin PayersOf(draft)
    /\ Edit([draft EXCEPT !.payers = Append(@, p)])

\* The entries of the participant go with it.
RemovePayer(p) ==
    \E i \in DOMAIN draft.payers :
        /\ Editing /\ draft.payers[i] = p /\ Len(draft.payers) > 2
        /\ Edit([draft EXCEPT
            !.payers = SubSeq(@, 1, i - 1) \o SubSeq(@, i + 1, Len(@)),
            !.entry[p] = Blank(draft.strategy), !.increments[p] = 0,
            !.who = IF @ = p THEN None ELSE @])

\* The remainder controls are shown.
Controls == Editing /\ draft.mode = "representative" /\ HasRemainder(draft)

SelectRule(k) ==
    /\ Controls
    /\ Edit([draft EXCEPT
        !.kind = k, !.who = IF k = "selected_participant" THEN @ ELSE None])

SelectWho(p) ==
    /\ draft.kind = "selected_participant" /\ p \in PayersOf(draft) /\ Controls
    /\ Edit([draft EXCEPT !.who = p])

SetIncrement(p, u) ==
    /\ draft.kind = "manual" /\ p \in PayersOf(draft) /\ Controls
    /\ Edit([draft EXCEPT !.increments[p] = u])

Discard(payers) ==
    /\ Editing
    /\ draft' = NewDraft(payers)
    /\ error' = "none"
    /\ UNCHANGED <<pending, review, bill, paid>>

SubmitReview ==
    /\ Editing /\ pending = None
    /\ DetailsReady(draft) /\ SplitReady(draft)
    /\ pending' = draft
    /\ error' = "none"
    /\ UNCHANGED <<draft, review, bill, paid>>

\* POST /api/bills/review is asked for the default network.
AnswerReview ==
    LET input == ActiveInput(pending)
    IN /\ pending # None
       /\ pending' = None
       /\ IF Accepts(input, "testnet")
          THEN review' = ReviewOf(input) /\ UNCHANGED error
          ELSE error' = "refused" /\ UNCHANGED review
       /\ UNCHANGED <<draft, bill, paid>>

\* sanitizeDraft: what the session storage gives back.
Restored(d) == [d EXCEPT !.funded = IF d.mode = "representative" THEN @ ELSE 0]

\* The page is reloaded, or the request is lost: the draft comes back, the answer
\* that was awaited and the review that was shown do not.
Reload ==
    /\ pending # None \/ review # None
    /\ bill = None
    /\ draft' = Restored(draft)
    /\ pending' = None /\ review' = None /\ error' = "none"
    /\ UNCHANGED <<bill, paid>>

BackToDraft ==
    /\ review # None /\ bill = None
    /\ review' = None
    /\ error' = "none"
    /\ UNCHANGED <<draft, pending, bill, paid>>

\* confirmCreation and createPublishedBill. What is sent is the draft of now. The
\* stored draft is dropped once the Bill exists.
Confirm ==
    LET input == ActiveInput(draft)
        outcome ==
            CASE ~Accepts(input, Network) -> "refused"
              [] Accepts(input, Network) /\ ~Storable(Stored(input)) -> "storage"
              [] OTHER -> "none"
    IN /\ review # None /\ bill = None
       /\ error' = outcome
       /\ IF outcome = "none"
          THEN /\ bill' = Stored(input)
               /\ draft' = NewDraft(SubSeq(draft.payers, 1, 2))
          ELSE UNCHANGED <<draft, bill>>
       /\ UNCHANGED <<pending, review, paid>>

\* A slot is settled. How is the matter of PaymentLifecycle.
PaySlot(p) ==
    /\ bill # None /\ p \in DOMAIN bill.owed \ paid
    /\ paid' = paid \cup {p}
    /\ UNCHANGED <<draft, pending, review, error, bill>>

EditDraft ==
    \/ \E m \in Modes \ {"unset"} : SetMode(m)
    \/ \E t \in Totals : SetTotal(t)
    \/ \E u \in Shares : SetFunded(u)
    \/ \E s \in Strategies : SelectStrategy(s)
    \/ \E p \in Payers : \E v \in Values[draft.strategy] : SetEntry(p, v)
    \/ \E p \in Payers : AddPayer(p) \/ RemovePayer(p) \/ SelectWho(p)
    \/ \E p \in Payers, u \in Extra : SetIncrement(p, u)
    \/ \E k \in RuleKinds : SelectRule(k)

Next ==
    \/ EditDraft
    \/ \E s \in FirstPayers : Discard(s)
    \/ SubmitReview \/ AnswerReview \/ Reload \/ BackToDraft \/ Confirm
    \/ \E p \in Payers : PaySlot(p)

Spec == Init /\ [][Next]_vars

-----------------------------------------------------------------------------
(* What loadBillProgressByToken computes from the stored rows.             *)

Owed(payers) == SumFunction([p \in payers |-> bill.owed[p]])

\* It answers with an error where the rows do not add up.
RowsAddUp ==
    /\ bill.mode = "direct" => bill.funded = 0
    /\ bill.funded + Owed(DOMAIN bill.owed) = bill.total

(* What billProgressToCopyDraft makes of the progress page.                *)

\* The slots come in any order: they were created at one moment, and their public
\* identifiers are random.
SlotOrders ==
    LET payers == DOMAIN bill.owed
    IN {s \in [1 .. Cardinality(payers) -> payers] : IsInjective(s)}

AsEntered(order) ==                                                 \* mutant
    [NewDraft(order) EXCEPT !.mode = bill.mode, !.total = bill.total,
        !.funded = bill.funded, !.strategy = bill.strategy,
        !.entry = [p \in Payers |-> IF p \in DOMAIN bill.share THEN bill.share[p].input ELSE 0]]

\* What every payer owes becomes a custom amount: how it was split is not copied.
CopyDraft(order) ==
    [NewDraft(order) EXCEPT !.mode = bill.mode, !.total = bill.total,
        !.funded = bill.funded, !.strategy = "custom",
        !.entry = [p \in Payers |-> IF p \in DOMAIN bill.owed THEN bill.owed[p] ELSE 0]]

-----------------------------------------------------------------------------
(* Properties.                                                             *)

\* What the form calls exact the server accepts: a review the button allowed to send
\* is never refused. The browser and prepareBill judge one draft by two codes.
ExactDraftsAreAccepted ==
    [][pending # None /\ pending' = None => error' # "refused"]_vars

\* The progress page of a stored Bill never answers that its rows disagree: what the
\* batch wrote adds up by the sums loadBillProgressByToken makes.
ProgressIsAvailable == bill # None => RowsAddUp

\* A copy of a Bill can be published as it is, and asks of every payer what the Bill
\* asked: whatever strategy, rule and order of payers made the Bill, the form finds its
\* copy exact, the server accepts it and the tables take it.
CopyReproducesTheBill ==
    bill # None =>
        \A order \in SlotOrders :
            LET d == CopyDraft(order)
                input == ActiveInput(d)
            IN /\ DetailsReady(d) /\ SplitReady(d)
               /\ Accepts(input, Network) /\ Storable(Stored(input))
               /\ Stored(input).owed = bill.owed /\ Stored(input).funded = bill.funded

\* An accepted Bill never fails on a CHECK of the allocation tables or on the trigger
\* for direct Bills, and its rows explain the slots: base and increment add up to what
\* the slot owes, the bases and the remainder to what was distributed, and the
\* increments to the remainder unless the recipient took it. Nothing is lost between
\* the tables.
RecordsExplainTheBill ==
    /\ error # "storage"
    /\ bill # None =>
          LET total(f) == SumFunction([p \in DOMAIN bill.share |-> bill.share[p][f]])
              byCreator == bill.rule.kind = "creator"
          IN /\ DOMAIN bill.share = DOMAIN bill.owed
             /\ \A p \in DOMAIN bill.owed :
                  /\ bill.share[p].base + bill.share[p].increment = bill.share[p].final
                  /\ bill.share[p].final = bill.owed[p]
             /\ total("increment") = IF byCreator THEN 0 ELSE bill.remainder
             /\ total("base") + bill.remainder + bill.funded
                  = bill.total + (IF byCreator THEN bill.remainder ELSE 0)

\* The recorded split is fair: the base of a payer is the exact share by the recorded
\* entries, rounded down, and less than one unit per payer is left to a rule.
SplitIsFair ==
    bill # None /\ bill.strategy # "custom" =>
        LET equal == bill.strategy = "equal"
            n == Cardinality(DOMAIN bill.share)
            parts == IF equal THEN n ELSE bill.weights
            given == SumFunction([p \in DOMAIN bill.share |-> bill.share[p].base])
                        + bill.remainder
            exact(p) == given * (IF equal THEN 1 ELSE bill.share[p].input)
        IN /\ bill.remainder < n
           /\ \A p \in DOMAIN bill.share :
                /\ bill.share[p].base * parts <= exact(p)
                /\ exact(p) < (bill.share[p].base + 1) * parts

=============================================================================
