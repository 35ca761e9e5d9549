--------------------------- MODULE OrganizerPage ---------------------------
(***************************************************************************)
(* The page behind the management link and the read-only progress link of  *)
(* a Bill: a panel that shows the progress of the Bill, controls that      *)
(* authorize another attempt for a slot in review or close the Bill, and   *)
(* the two routes that answer them, while payers go on paying.             *)
(*                                                                         *)
(* The panel is built anew for every link and after every decision. The    *)
(* controls are not: when the link changes they go on showing what they    *)
(* showed, until the answer for the new link comes, and an answer to a     *)
(* decision is shown whatever the link is by then.                         *)
(*                                                                         *)
(* A Bill is abstracted to its revision and to what its slots are:         *)
(* "unpaid" stands for every status before a payment, "review" for the two *)
(* that wait for the organizer. Ticking the warnings and typing the        *)
(* confirmation belong to the click they allow. How slots come to be paid  *)
(* or reviewed is the matter of PaymentLifecycle, the amounts shown and    *)
(* the copy of a Bill are that of BillCreation.                            *)
(***************************************************************************)
EXTENDS Integers, FiniteSets, FiniteSetsExt, Functions

CONSTANTS
    Bills,
    Owner,      \* Owner[s]: the Bill of slot s
    MaxChanges, \* bound on what happens to the slots while payers still act
    MaxTrouble, \* bound on lost answers and changes of the link
    MaxCalls,   \* bound on requests in flight
    None

ASSUME PageConstantsOK ==
    /\ Owner \in [DOMAIN Owner -> Bills]
    /\ {MaxChanges, MaxTrouble, MaxCalls} \subseteq Nat

VARIABLES
    slot,       \* slot[s]: its status, and whether a retry was ever authorized for it
    revision,   \* revision[b]: how often the rows of the Bill changed
    audit,      \* rows of bill_management_actions: the Bill and the slot of a retry
    link,       \* the link in the address bar: a Bill and a role
    panel,      \* the progress panel
    controls,   \* the management controls
    calls,      \* requests in flight; two that are alike are one
    floor,      \* newest revision of the link's Bill that the panel has to know
    trouble

pageVars == <<link, panel, controls, floor>>
storeVars == <<slot, revision, audit>>
organizerVars == <<storeVars, pageVars, calls, trouble>>

Slots == DOMAIN Owner
SlotsOf(b) == {s \in Slots : Owner[s] = b}
Links == [bill : Bills, role : {"admin", "public"}]

-----------------------------------------------------------------------------
(* What the server answers.                                                *)

SettledBill(b) == \A s \in SlotsOf(b) : slot[s].status = "paid"

\* loadBillProgressByToken: one batch, one snapshot.
Snapshot(b) == [bill |-> b, revision |-> revision[b], settled |-> SettledBill(b)]

\* SELECT_REVIEW_ROWS, read after the snapshot.
ReviewRows(b) == Restrict(slot, SlotsOf(b))

Ok(body) == [code |-> "ok", body |-> body]
Refused == [code |-> "refused", body |-> None]
NotFound == [code |-> "not_found", body |-> None]

AnySlot(c) == slot[c.slot].status = "review"                        \* mutant

\* SELECT_ADMIN_SLOT finds a slot of the Bill of the capability only.
Actionable(c) == Owner[c.slot] = c.link.bill /\ slot[c.slot].status = "review"

-----------------------------------------------------------------------------
(* Requests. A call that is not live belongs to a part of the page that is *)
(* gone: its answer changes nothing.                                       *)

Call(kind, l, s, at) ==
    [kind |-> kind, link |-> l, slot |-> s, at |-> at, seen |-> None,
     answer |-> None, live |-> TRUE]

LoadPanel(l) == Call("progress", l, None, "read")
LoadControls(l) == Call("load", l, None, "read")

KeepMounted(cs, kinds) == cs                                        \* mutant

\* The effects of a part that is unmounted or given another capability are dropped.
Unmount(cs, kinds) ==
    {IF c.kind \in kinds THEN [c EXCEPT !.live = FALSE] ELSE c : c \in cs}

Room(n) == Cardinality(calls) + n <= MaxCalls

NewPanel == [kind |-> "loading", shown |-> None, refreshing |-> FALSE]
NewControls ==
    [loading |-> TRUE, hidden |-> FALSE, error |-> FALSE, busy |-> FALSE,
     management |-> None]

Init ==
    /\ slot = [s \in Slots |-> [status |-> "unpaid", authorized |-> FALSE]]
    /\ revision = [b \in Bills |-> 0]
    /\ audit = {}
    /\ link \in Links
    /\ panel = NewPanel
    /\ controls = NewControls
    /\ calls = {LoadPanel(link), LoadControls(link)}
    /\ floor = 0
    /\ trouble = 0

-----------------------------------------------------------------------------
(* Payers.                                                                 *)

Change(s, status) ==
    /\ SumFunction(revision) < MaxChanges
    /\ slot' = [slot EXCEPT ![s].status = status]
    /\ revision' = [revision EXCEPT ![Owner[s]] = @ + 1]
    /\ UNCHANGED <<audit, pageVars, calls, trouble>>

\* A slot is settled, or an observation sends it to review.
Pay(s) == slot[s].status = "unpaid" /\ Change(s, "paid")
FindMismatch(s) == slot[s].status # "paid" /\ Change(s, "review")

-----------------------------------------------------------------------------
(* The routes, one step from await to await.                               *)

Answered(c, a) == [c EXCEPT !.at = "answered", !.answer = a, !.seen = None]
Goes(c, d) == calls' = (calls \ {c}) \cup {d}

ServeProgress(c) ==
    /\ c.kind = "progress" /\ c.at = "read"
    /\ Goes(c, Answered(c, Ok(Snapshot(c.link.bill))))
    /\ UNCHANGED <<storeVars, pageVars, trouble>>

\* loadBillReviewManagement, also at the end of a decision.
ReadProgress(c) ==
    /\ c.kind # "progress" /\ c.at = "read"
    /\ Goes(c, IF c.link.role = "admin"
               THEN [c EXCEPT !.at = "reviews", !.seen = Snapshot(c.link.bill)]
               ELSE Answered(c, NotFound))
    /\ UNCHANGED <<storeVars, pageVars, trouble>>

ReadReviews(c) ==
    /\ c.at = "reviews"
    /\ Goes(c, Answered(c, Ok([progress |-> c.seen, rows |-> ReviewRows(c.link.bill)])))
    /\ UNCHANGED <<storeVars, pageVars, trouble>>

\* The reads of authorizeReviewedSlotRetry and closeBillIncomplete, as one step.
CheckDecision(c) ==
    /\ c.at = "check"
    /\ Goes(c,
        CASE c.link.role # "admin" -> Answered(c, NotFound)
          [] c.link.role = "admin" /\ SettledBill(c.link.bill) -> Answered(c, Refused)
          [] c.link.role = "admin" /\ ~SettledBill(c.link.bill) ->
                IF c.kind = "retry" /\ ~Actionable(c)
                THEN Answered(c, Refused)
                ELSE [c EXCEPT !.at = "batch"])
    /\ UNCHANGED <<storeVars, pageVars, trouble>>

\* The batch of a retry commits as it is: the action is recorded even where the slot
\* left review meanwhile, and only the answer tells. A Bill with a slot in review is not
\* settled, and is never closed.
AuthorizeRetry(c) ==
    LET done == slot[c.slot].status = "review"
    IN /\ c.kind = "retry" /\ c.at = "batch"
       /\ audit' = audit \cup {[bill |-> c.link.bill, slot |-> c.slot]}
       /\ IF done
          THEN /\ slot' = [slot EXCEPT ![c.slot] =
                              [status |-> "unpaid", authorized |-> TRUE]]
               /\ revision' = [revision EXCEPT ![Owner[c.slot]] = @ + 1]
               /\ Goes(c, [c EXCEPT !.at = "read"])
          ELSE UNCHANGED <<slot, revision>> /\ Goes(c, Answered(c, Refused))
       /\ UNCHANGED <<pageVars, trouble>>

\* The CHECK on bills.status refuses the value CLOSE_BILL writes, and the batch with it.
CloseIncomplete(c) ==
    /\ c.kind = "close" /\ c.at = "batch"
    /\ Goes(c, Answered(c, Refused))
    /\ UNCHANGED <<storeVars, pageVars, trouble>>

\* An answer is lost, or the server fails; the call may have been served by then.
Lose(c) ==
    /\ c.live /\ c.at # "answered" /\ trouble < MaxTrouble
    /\ trouble' = trouble + 1
    /\ Goes(c, Answered(c, Refused))
    /\ UNCHANGED <<storeVars, pageVars>>

-----------------------------------------------------------------------------
(* The answers on the page.                                                *)

Succeeded(c) == c.answer.code = "ok"

\* An initial load and a refresh end alike.
DeliverProgress(c) ==
    /\ c.kind = "progress" /\ c.at = "answered"
    /\ IF ~c.live
       THEN UNCHANGED <<panel, floor>>
       ELSE /\ panel' = [kind |-> IF Succeeded(c) THEN "loaded" ELSE "error",
                         shown |-> IF Succeeded(c) THEN c.answer.body ELSE None,
                         refreshing |-> FALSE]
            /\ floor' = IF Succeeded(c) THEN Max({floor, c.answer.body.revision}) ELSE floor
    /\ calls' = calls \ {c}
    /\ UNCHANGED <<storeVars, link, controls, trouble>>

DeliverLoad(c) ==
    /\ c.kind = "load" /\ c.at = "answered"
    /\ controls' =
        CASE ~c.live -> controls
          [] c.live /\ Succeeded(c) ->
                [controls EXCEPT !.management = c.answer.body, !.loading = FALSE]
          [] c.live /\ c.answer = NotFound ->
                [controls EXCEPT !.hidden = TRUE, !.loading = FALSE]
          [] c.live /\ c.answer = Refused ->
                [controls EXCEPT !.error = TRUE, !.loading = FALSE]
    /\ calls' = calls \ {c}
    /\ UNCHANGED <<storeVars, link, panel, floor, trouble>>

StaysBusy(c) ==                                                     \* mutant
    [controls EXCEPT !.management = IF Succeeded(c) THEN c.answer.body ELSE @,
        !.busy = ~Succeeded(c), !.error = ~Succeeded(c)]

\* The two functions end alike: with what came back or an error, and no longer busy.
AfterDecision(c) ==
    [controls EXCEPT !.management = IF Succeeded(c) THEN c.answer.body ELSE @,
        !.busy = FALSE, !.error = ~Succeeded(c)]

\* onChanged builds the panel anew. The call for it takes the place of this one.
DeliverDecision(c) ==
    LET others == calls \ {c}
    IN /\ c.kind \in {"retry", "close"} /\ c.at = "answered"
       /\ controls' = IF c.live THEN AfterDecision(c) ELSE controls
       /\ IF c.live /\ Succeeded(c)
          THEN /\ panel' = NewPanel
               /\ calls' = Unmount(others, {"progress"}) \cup {LoadPanel(link)}
               /\ floor' = IF c.link.bill = link.bill
                           THEN Max({floor, c.answer.body.progress.revision}) ELSE floor
          ELSE calls' = others /\ UNCHANGED <<panel, floor>>
       /\ UNCHANGED <<storeVars, link, trouble>>

-----------------------------------------------------------------------------
(* The organizer.                                                          *)

\* The address changes and the page stays: the panel is built anew, the controls only
\* ask again.
OpenLink(l) ==
    /\ l # link /\ Room(2) /\ trouble < MaxTrouble
    /\ trouble' = trouble + 1
    /\ link' = l
    /\ panel' = NewPanel
    /\ calls' = Unmount(calls, {"progress", "load"}) \cup {LoadPanel(l), LoadControls(l)}
    /\ floor' = IF l.bill = link.bill THEN floor ELSE 0
    /\ UNCHANGED <<storeVars, controls>>

Refresh ==
    /\ panel.kind # "loading" /\ ~panel.refreshing /\ Room(1)
    /\ panel' = [panel EXCEPT !.refreshing = TRUE]
    /\ calls' = calls \cup {LoadPanel(link)}
    /\ UNCHANGED <<storeVars, link, controls, floor, trouble>>

Shown == ~controls.hidden /\ ~controls.loading /\ controls.management # None

\* A slot in review is offered unless a retry was ever authorized for it.
Offered ==
    {s \in IF Shown THEN DOMAIN controls.management.rows ELSE {} :
        LET row == controls.management.rows[s]
        IN row.status = "review" /\ ~row.authorized}

Decide(kind, s) ==
    /\ ~controls.busy /\ Room(1)
    /\ controls' = [controls EXCEPT !.busy = TRUE, !.error = FALSE]
    /\ calls' = calls \cup {Call(kind, link, s, "check")}
    /\ UNCHANGED <<storeVars, link, panel, floor, trouble>>

Authorize(s) == s \in Offered /\ Decide("retry", s)

Close == Shown /\ ~controls.management.progress.settled /\ Decide("close", None)

\* A link is opened in a new tab, once this one waits for nothing.
Reopen(l) ==
    /\ ~controls.busy /\ ~controls.loading /\ Room(2)
    /\ link' = l
    /\ panel' = NewPanel
    /\ controls' = NewControls
    /\ calls' = Unmount(calls, {"progress", "load", "retry", "close"})
                    \cup {LoadPanel(l), LoadControls(l)}
    /\ floor' = 0
    /\ UNCHANGED <<storeVars, trouble>>

Waits(s) == slot[s].status = "review" /\ ~slot[s].authorized

\* The organizer comes back for a slot that waits, when this page offers nothing more
\* or shows an error.
ComeBack(s) ==
    /\ Waits(s) /\ (Offered = {} \/ controls.error)
    /\ Reopen([bill |-> Owner[s], role |-> "admin"])

Serve(c) ==
    \/ ServeProgress(c) \/ ReadProgress(c) \/ ReadReviews(c)
    \/ CheckDecision(c) \/ AuthorizeRetry(c) \/ CloseIncomplete(c)
Deliver(c) == DeliverProgress(c) \/ DeliverLoad(c) \/ DeliverDecision(c)

Next ==
    \/ \E s \in Slots : Pay(s) \/ FindMismatch(s) \/ Authorize(s) \/ ComeBack(s)
    \/ \E c \in calls : Serve(c) \/ Lose(c) \/ Deliver(c)
    \/ \E l \in Links : OpenLink(l)
    \/ Refresh \/ Close

Spec == Init /\ [][Next]_organizerVars

\* The part of the page that waits for call c, if any does.
Waiting(c) ==
    CASE ~c.live -> "none"
      [] c.live /\ c.kind \in {"retry", "close"} -> "decision"
      [] c.live /\ c.kind \notin {"retry", "close"} -> c.kind

\* The server answers every request. The organizer decides on what is offered, and
\* comes back for what waits.
Fairness ==
    /\ \A waiting \in {"progress", "load", "decision", "none"} :
        WF_organizerVars(\E c \in calls : Waiting(c) = waiting /\ (Serve(c) \/ Deliver(c)))
    /\ SF_organizerVars(\E s \in Slots : Authorize(s))
    /\ SF_organizerVars(\E s \in Slots : ComeBack(s))

FairSpec == Spec /\ Fairness

-----------------------------------------------------------------------------
(* Properties.                                                             *)

\* The panel shows the Bill of the link, never older than what it showed of it before,
\* nor than the answer to the last decision: a slow first load, a refresh and the reload
\* after a decision do not overtake each other (ProgressLoader's key and active flag).
PanelIsCurrent ==
    panel.kind = "loaded" =>
        /\ panel.shown.bill = link.bill
        /\ panel.shown.revision >= floor

\* Every recorded retry names a slot of its Bill, even when the organizer decides on
\* what the controls still show of the Bill of an earlier link: the Bill that is
\* recomputed is the one whose slot was released (SELECT_ADMIN_SLOT).
DecisionsNameTheirBill == \A a \in audit : Owner[a.slot] = a.bill

\* A slot in review, for which no retry was authorized before, is released in the end,
\* whatever answer is lost and whatever link is opened meanwhile: neither the server
\* nor the controls are left in a state that offers nothing (authorizeRetry's finally).
ReviewIsReleased == \A s \in Slots : Waits(s) ~> ~Waits(s)

=============================================================================
