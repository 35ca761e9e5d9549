----------------------- MODULE OrganizerBrowser_proofs -----------------------
(***************************************************************************)
(* Proofs about the organizer's browser, for any number of Bills, slots,   *)
(* requests in flight, tabs and wallets: the panel is never older than     *)
(* what the organizer saw, a decision names a slot of its own Bill, and    *)
(* the address book stays readable and loses no tag to a payer's use.      *)
(***************************************************************************)
EXTENDS OrganizerPage, SavedWallets, TLAPS

(***************************************************************************)
(* OrganizerPage.                                                          *)
(***************************************************************************)
CallKinds == {"progress", "load", "retry", "close"}
Steps == {"read", "reviews", "check", "batch", "answered"}
SlotStates == [status : {"unpaid", "review", "paid"}, authorized : BOOLEAN]
Snapshots == [bill : Bills, revision : Nat, settled : BOOLEAN]
Rows == UNION {[SlotsOf(b) -> SlotStates] : b \in Bills}
Bodies == {None} \cup Snapshots \cup [progress : Snapshots, rows : Rows]
AnswerRecords == [code : {"ok", "refused", "not_found"}, body : Bodies]
CallRecords ==
    [kind : CallKinds, link : Links, slot : Slots \cup {None}, at : Steps,
     seen : Snapshots \cup {None}, answer : AnswerRecords \cup {None}, live : BOOLEAN]

\* What the server tells of Bill b was true of it, at some revision it had.
Tells(snapshot, b) ==
    snapshot \in Snapshots /\ snapshot.bill = b /\ snapshot.revision <= revision[b]

\* A request is where its route left it, with what was read for it.
CallInOrder(c) ==
    /\ c \in CallRecords
    /\ c.at = "reviews" => c.kind # "progress" /\ Tells(c.seen, c.link.bill)
    /\ c.at = "answered" =>
        /\ c.answer \in AnswerRecords
        /\ Succeeded(c) /\ c.kind = "progress" => Tells(c.answer.body, c.link.bill)
        /\ Succeeded(c) /\ c.kind # "progress" => Tells(c.answer.body.progress, c.link.bill)
    /\ c.kind = "retry" => c.slot \in Slots
    /\ c.kind = "retry" /\ c.at = "batch" => Owner[c.slot] = c.link.bill

PageTyped ==
    /\ slot \in [Slots -> SlotStates]
    /\ revision \in [Bills -> Nat]
    /\ link \in Links
    /\ panel \in [kind : {"loading", "loaded", "error"}, shown : Snapshots \cup {None},
                  refreshing : BOOLEAN]
    /\ floor \in Nat /\ floor <= revision[link.bill]
    /\ \A c \in calls : CallInOrder(c)

\* The one request that the panel waits for asks for its own Bill, and its answer is not
\* older than what was seen before it was asked.
Awaited(c) == c \in calls /\ c.kind = "progress" /\ c.live

PanelWaitsForOne ==
    /\ \A c \in calls : Awaited(c) =>
        /\ c.link = link
        /\ c.at = "answered" /\ Succeeded(c) => c.answer.body.revision >= floor
        /\ panel.kind = "loading" \/ panel.refreshing
    /\ \A c, d \in calls : Awaited(c) /\ Awaited(d) => c = d

OrganizerInv ==
    PageTyped /\ PanelWaitsForOne /\ PanelIsCurrent /\ DecisionsNameTheirBill

-----------------------------------------------------------------------------
(* Calls.                                                                  *)

LEMMA LargerOf ==
  ASSUME NEW a \in Nat, NEW b \in Nat
  PROVE  /\ Max({a, b}) \in {a, b} /\ Max({a, b}) >= a /\ Max({a, b}) >= b
<1>1. \E x \in {a, b} : \A y \in {a, b} : x >= y
  <2>1. CASE a >= b
    BY <2>1
  <2>2. CASE b >= a
    BY <2>2
  <2> QED
    BY <2>1, <2>2
<1>2. /\ Max({a, b}) \in {a, b} /\ \A y \in {a, b} : Max({a, b}) >= y
  BY <1>1 DEF Max
<1> QED
  BY <1>2

LEMMA NewCall ==
  ASSUME NEW kind \in CallKinds, NEW l \in Links, NEW s \in Slots \cup {None}, NEW at \in {"read", "check"},
         NEW c, c = Call(kind, l, s, at)
  PROVE  /\ c \in CallRecords
         /\ c.kind = kind /\ c.link = l /\ c.slot = s /\ c.at = at /\ c.live
  BY DEF Call, CallRecords, CallKinds, Steps

\* What the bookkeeping of a route does to a request.
HasRead(c, n) == [c EXCEPT !.at = "reviews", !.seen = n]
MovedTo(c, at) == [c EXCEPT !.at = at]

SameCall(c, d) ==
    /\ d \in CallRecords
    /\ d.kind = c.kind /\ d.link = c.link /\ d.slot = c.slot /\ d.live = c.live

LEMMA AnsweredCall ==
  ASSUME NEW c \in CallRecords, NEW a \in AnswerRecords, NEW d, d = Answered(c, a)
  PROVE  SameCall(c, d) /\ d.at = "answered" /\ d.answer = a
  BY DEF Answered, CallRecords, Steps, SameCall

LEMMA ReadCall ==
  ASSUME NEW c \in CallRecords, NEW n \in Snapshots, NEW d, d = HasRead(c, n)
  PROVE  SameCall(c, d) /\ d.at = "reviews" /\ d.seen = n
  BY DEF HasRead, CallRecords, Steps, SameCall

LEMMA MovedCall ==
  ASSUME NEW c \in CallRecords, NEW at \in {"batch", "read"}, NEW d, d = MovedTo(c, at)
  PROVE  SameCall(c, d) /\ d.at = at
  BY DEF MovedTo, CallRecords, Steps, SameCall

\* Revisions only grow, so that what was true of a request stays true.
LEMMA CallStaysInOrder ==
  ASSUME NEW c, CallInOrder(c), revision \in [Bills -> Nat], revision' \in [Bills -> Nat],
         \A b \in Bills : revision[b] <= revision'[b]
  PROVE  CallInOrder(c)'
<1>1. ASSUME NEW snapshot, NEW b, Tells(snapshot, b) PROVE Tells(snapshot, b)'
  BY <1>1 DEF Tells, Snapshots
<1> QED
  BY <1>1 DEF CallInOrder, Succeeded

\* Calls that a part of the page gives up when it goes away.
LEMMA UnmountedCalls ==
  ASSUME NEW cs, \A c \in cs : CallInOrder(c), NEW kinds, NEW d \in Unmount(cs, kinds)
  PROVE  /\ CallInOrder(d) /\ (d.kind \in kinds => ~d.live)
         /\ d.kind \notin kinds => d \in cs
<1>1. PICK c \in cs : d = IF c.kind \in kinds THEN [c EXCEPT !.live = FALSE] ELSE c
  BY DEF Unmount
<1>2. CASE c.kind \in kinds
  <2>1. c \in CallRecords
    BY DEF CallInOrder
  <2>2. /\ d \in CallRecords /\ d.kind = c.kind /\ d.link = c.link /\ d.slot = c.slot
        /\ d.at = c.at /\ d.seen = c.seen /\ d.answer = c.answer /\ ~d.live
    BY <1>1, <1>2, <2>1 DEF CallRecords
  <2>3. CallInOrder(c)
    OBVIOUS
  <2> QED
    BY <1>2, <2>2, <2>3 DEF CallInOrder, Succeeded
<1>3. CASE c.kind \notin kinds
  BY <1>1, <1>3
<1> QED
  BY <1>2, <1>3

-----------------------------------------------------------------------------
(* The server.                                                             *)

\* A route takes call c one step on, to d, and changes nothing on the page.
RouteStep(c, d) ==
    /\ c \in calls /\ Goes(c, d) /\ UNCHANGED pageVars
    /\ slot' \in [Slots -> SlotStates] /\ revision' \in [Bills -> Nat]
    /\ \A b \in Bills : revision[b] <= revision'[b]
    /\ CallInOrder(d)'
    /\ d.kind = c.kind /\ d.link = c.link /\ d.live = c.live
    /\ d.kind = "progress" /\ d.live /\ d.at = "answered" /\ Succeeded(d) =>
        d.answer.body.revision >= floor
    /\ DecisionsNameTheirBill'

LEMMA RouteStepKeeps ==
  ASSUME OrganizerInv, NEW c, NEW d, RouteStep(c, d) PROVE OrganizerInv'
<1>1. /\ calls' = (calls \ {c}) \cup {d}
      /\ link' = link /\ panel' = panel /\ floor' = floor
  BY DEF RouteStep, Goes, pageVars
<1>2. PageTyped'
  <2>1. link.bill \in Bills
    BY DEF OrganizerInv, PageTyped, Links
  <2>2. floor \in Nat /\ floor <= revision'[link.bill]
    BY <2>1 DEF OrganizerInv, PageTyped, RouteStep
  <2>3. \A e \in calls' : CallInOrder(e)'
    BY <1>1, CallStaysInOrder DEF OrganizerInv, PageTyped, RouteStep
  <2> QED
    BY <1>1, <2>2, <2>3 DEF OrganizerInv, PageTyped, RouteStep
<1>3. PanelWaitsForOne'
  BY <1>1 DEF OrganizerInv, PanelWaitsForOne, Awaited, RouteStep, Succeeded
<1>4. PanelIsCurrent'
  BY <1>1 DEF OrganizerInv, PanelIsCurrent
<1> QED
  BY <1>2, <1>3, <1>4 DEF OrganizerInv, RouteStep

LEMMA RouteSteps ==
  ASSUME OrganizerInv, NEW c \in calls, Serve(c) \/ Lose(c)
  PROVE  \E d : RouteStep(c, d)
<1>0. /\ CallInOrder(c) /\ c \in CallRecords /\ c.link \in Links /\ c.link.bill \in Bills
      /\ slot \in [Slots -> SlotStates] /\ revision \in [Bills -> Nat]
      /\ DecisionsNameTheirBill
  BY DEF OrganizerInv, PageTyped, CallInOrder, CallRecords, Links
<1>1. UNCHANGED pageVars
  BY DEF Serve, ServeProgress, ReadProgress, ReadReviews, CheckDecision, AuthorizeRetry,
         CloseIncomplete, Lose
<1>2. /\ Refused \in AnswerRecords /\ NotFound \in AnswerRecords
      /\ Refused.code = "refused" /\ NotFound.code = "not_found"
  BY DEF Refused, NotFound, AnswerRecords, Bodies
<1>3. ASSUME NEW b \in Bills
      PROVE  /\ Snapshot(b) \in Snapshots /\ Snapshot(b).bill = b
             /\ Snapshot(b).revision = revision[b]
  BY <1>0 DEF Snapshot, SettledBill, Snapshots
<1>a. ASSUME NEW d, Goes(c, d), UNCHANGED storeVars, CallInOrder(d),
             d.kind = c.kind, d.link = c.link, d.live = c.live,
             d.kind = "progress" /\ d.live /\ d.at = "answered" /\ Succeeded(d) =>
                d.answer.body.revision >= floor
      PROVE  RouteStep(c, d)
  <2>1. slot' = slot /\ revision' = revision /\ audit' = audit
    BY <1>a DEF storeVars
  <2>2. \A b \in Bills : revision[b] <= revision'[b]
    BY <1>0, <2>1
  <2>3. CallInOrder(d)'
    BY <1>0, <1>a, <2>1, <2>2, CallStaysInOrder
  <2>4. DecisionsNameTheirBill'
    BY <1>0, <2>1 DEF DecisionsNameTheirBill
  <2> QED
    BY <1>0, <1>1, <1>a, <2>1, <2>2, <2>3, <2>4 DEF RouteStep
<1>b. ASSUME NEW a \in {Refused, NotFound}, Goes(c, Answered(c, a)), UNCHANGED storeVars
      PROVE  RouteStep(c, Answered(c, a))
  <2>1. PICK d : d = Answered(c, a)
    OBVIOUS
  <2>2. a \in AnswerRecords /\ a.code # "ok"
    BY <1>2
  <2>3. SameCall(c, d) /\ d.at = "answered" /\ d.answer = a
    BY <1>0, <2>1, <2>2, AnsweredCall
  <2>4. CallInOrder(d)
    BY <1>0, <2>2, <2>3 DEF CallInOrder, SameCall, Succeeded
  <2> QED
    BY <1>a, <1>b, <2>1, <2>2, <2>3, <2>4 DEF SameCall, Succeeded
<1>4. CASE ServeProgress(c)
  <2> DEFINE n == Snapshot(c.link.bill)
  <2>1. /\ c.kind = "progress" /\ Goes(c, Answered(c, Ok(n))) /\ UNCHANGED storeVars
    BY <1>4 DEF ServeProgress
  <2>2. Ok(n) \in AnswerRecords /\ Ok(n).body = n
    BY <1>0, <1>3 DEF Ok, AnswerRecords, Bodies
  <2>3. PICK d : d = Answered(c, Ok(n))
    OBVIOUS
  <2>4. SameCall(c, d) /\ d.at = "answered" /\ d.answer = Ok(n)
    BY <1>0, <2>2, <2>3, AnsweredCall
  <2>5. Tells(n, c.link.bill)
    BY <1>0, <1>3 DEF Tells
  <2>6. CallInOrder(d)
    BY <1>0, <2>1, <2>2, <2>4, <2>5 DEF CallInOrder, SameCall
  <2>7. d.live => n.revision >= floor
    <3>1. c.live => c.link = link
      BY <2>1 DEF OrganizerInv, PanelWaitsForOne, Awaited
    <3> QED
      BY <1>0, <1>3, <2>4, <3>1 DEF OrganizerInv, PageTyped, SameCall
  <2> QED
    BY <1>a, <2>1, <2>2, <2>3, <2>4, <2>6, <2>7 DEF SameCall
<1>5. CASE ReadProgress(c)
  <2> DEFINE n == Snapshot(c.link.bill)
  <2>1. c.kind # "progress" /\ UNCHANGED storeVars
    BY <1>5 DEF ReadProgress
  <2>2. CASE Goes(c, Answered(c, NotFound))
    BY <1>b, <2>1, <2>2
  <2>3. CASE Goes(c, HasRead(c, n))
    <3>1. PICK d : d = HasRead(c, n)
      OBVIOUS
    <3>2. SameCall(c, d) /\ d.at = "reviews" /\ d.seen = n
      BY <1>0, <1>3, <3>1, ReadCall
    <3>3. Tells(n, c.link.bill)
      BY <1>0, <1>3 DEF Tells
    <3>4. CallInOrder(d)
      BY <1>0, <2>1, <3>2, <3>3 DEF CallInOrder, SameCall
    <3> QED
      BY <1>a, <2>1, <2>3, <3>1, <3>2, <3>4 DEF SameCall
  <2> QED
    BY <1>5, <2>2, <2>3 DEF ReadProgress, HasRead
<1>6. CASE ReadReviews(c)
  <2> DEFINE body == [progress |-> c.seen, rows |-> ReviewRows(c.link.bill)]
  <2>1. /\ c.at = "reviews" /\ Goes(c, Answered(c, Ok(body))) /\ UNCHANGED storeVars
        /\ c.kind # "progress" /\ Tells(c.seen, c.link.bill)
    BY <1>0, <1>6 DEF ReadReviews, CallInOrder
  <2>2. ReviewRows(c.link.bill) \in Rows
    BY <1>0 DEF ReviewRows, Restrict, Rows, SlotsOf
  <2>3. Ok(body) \in AnswerRecords /\ Ok(body).body.progress = c.seen
    BY <2>1, <2>2 DEF Ok, AnswerRecords, Bodies, Tells
  <2>4. PICK d : d = Answered(c, Ok(body))
    OBVIOUS
  <2>5. SameCall(c, d) /\ d.at = "answered" /\ d.answer = Ok(body)
    BY <1>0, <2>3, <2>4, AnsweredCall
  <2>6. CallInOrder(d)
    BY <1>0, <2>1, <2>3, <2>5 DEF CallInOrder, SameCall
  <2> QED
    BY <1>a, <2>1, <2>4, <2>5, <2>6 DEF SameCall
<1>7. CASE CheckDecision(c)
  <2>1. UNCHANGED storeVars /\ c.at = "check"
    BY <1>7 DEF CheckDecision
  <2>2. CASE Goes(c, Answered(c, NotFound)) \/ Goes(c, Answered(c, Refused))
    BY <1>b, <2>1, <2>2
  <2>3. CASE Goes(c, MovedTo(c, "batch")) /\ (c.kind = "retry" => Actionable(c))
    <3>1. PICK d : d = MovedTo(c, "batch")
      OBVIOUS
    <3>2. SameCall(c, d) /\ d.at = "batch"
      BY <1>0, <3>1, MovedCall
    <3>3. CallInOrder(d)
      BY <1>0, <2>3, <3>2 DEF CallInOrder, SameCall, Actionable
    <3> QED
      BY <1>a, <2>1, <2>3, <3>1, <3>2, <3>3 DEF SameCall
  <2> QED
    BY <1>7, <2>2, <2>3 DEF CheckDecision, MovedTo
<1>8. CASE AuthorizeRetry(c)
  <2>0. /\ c.kind = "retry" /\ c.slot \in Slots /\ Owner[c.slot] = c.link.bill
        /\ audit' = audit \cup {[bill |-> c.link.bill, slot |-> c.slot]}
    BY <1>0, <1>8 DEF AuthorizeRetry, CallInOrder
  <2>1. DecisionsNameTheirBill'
    BY <1>0, <2>0 DEF DecisionsNameTheirBill
  <2>2. CASE /\ UNCHANGED <<slot, revision>> /\ Goes(c, Answered(c, Refused))
    <3>1. PICK d : d = Answered(c, Refused)
      OBVIOUS
    <3>2. SameCall(c, d) /\ d.at = "answered" /\ d.answer = Refused
      BY <1>0, <1>2, <3>1, AnsweredCall
    <3>3. CallInOrder(d)'
      BY <1>0, <1>2, <3>2 DEF CallInOrder, SameCall, Succeeded
    <3> QED
      BY <1>0, <1>1, <2>0, <2>1, <2>2, <3>1, <3>2, <3>3 DEF SameCall, RouteStep
  <2>3. CASE /\ slot' = [slot EXCEPT ![c.slot] = [status |-> "unpaid", authorized |-> TRUE]]
             /\ revision' = [revision EXCEPT ![Owner[c.slot]] = @ + 1]
             /\ Goes(c, MovedTo(c, "read"))
    <3>1. PICK d : d = MovedTo(c, "read")
      OBVIOUS
    <3>2. SameCall(c, d) /\ d.at = "read"
      BY <1>0, <3>1, MovedCall
    <3>3. CallInOrder(d)'
      BY <1>0, <2>0, <3>2 DEF CallInOrder, SameCall
    <3>4. slot' \in [Slots -> SlotStates] /\ revision' \in [Bills -> Nat]
          /\ \A b \in Bills : revision[b] <= revision'[b]
      BY <1>0, <2>0, <2>3 DEF SlotStates
    <3> QED
      BY <1>0, <1>1, <2>0, <2>1, <2>3, <3>1, <3>2, <3>3, <3>4 DEF SameCall, RouteStep
  <2> QED
    BY <1>8, <2>2, <2>3 DEF AuthorizeRetry, MovedTo
<1>9. CASE CloseIncomplete(c) \/ Lose(c)
  BY <1>9, <1>b DEF CloseIncomplete, Lose
<1> QED
  BY <1>4, <1>5, <1>6, <1>7, <1>8, <1>9 DEF Serve

-----------------------------------------------------------------------------
(* The page.                                                               *)

\* A step of the page leaves the store as it is. Its calls are in order when each was
\* so before or is new.
LEMMA PageStepTyped ==
  ASSUME OrganizerInv, UNCHANGED storeVars, \A c \in calls' : CallInOrder(c),
         link' \in Links,
         panel' \in [kind : {"loading", "loaded", "error"}, shown : Snapshots \cup {None},
                     refreshing : BOOLEAN],
         floor' \in Nat, floor' <= revision[link'.bill]
  PROVE  PageTyped' /\ DecisionsNameTheirBill'
<1>1. slot' = slot /\ revision' = revision /\ audit' = audit
  BY DEF storeVars
<1>2. revision \in [Bills -> Nat]
  BY DEF OrganizerInv, PageTyped
<1>3. \A b \in Bills : revision[b] <= revision'[b]
  BY <1>1, <1>2
<1>4. \A c \in calls' : CallInOrder(c)'
  BY <1>1, <1>2, <1>3, CallStaysInOrder
<1> QED
  BY <1>1, <1>4 DEF OrganizerInv, PageTyped, DecisionsNameTheirBill

LEMMA LoadCalls ==
  ASSUME NEW l \in Links
  PROVE  /\ CallInOrder(LoadPanel(l)) /\ CallInOrder(LoadControls(l))
         /\ LoadPanel(l).kind = "progress" /\ LoadPanel(l).link = l /\ LoadPanel(l).at = "read"
         /\ LoadControls(l).kind = "load"
<1>1. PICK c : c = LoadPanel(l)
  OBVIOUS
<1>2. PICK d : d = LoadControls(l)
  OBVIOUS
<1>3. /\ c = Call("progress", l, None, "read") /\ d = Call("load", l, None, "read")
      /\ "progress" \in CallKinds /\ "load" \in CallKinds
  BY <1>1, <1>2 DEF LoadPanel, LoadControls, CallKinds
<1>4. /\ c \in CallRecords /\ c.kind = "progress" /\ c.link = l /\ c.at = "read"
  BY <1>3, NewCall
<1>5. /\ d \in CallRecords /\ d.kind = "load" /\ d.at = "read"
  BY <1>3, NewCall
<1> QED
  BY <1>1, <1>2, <1>4, <1>5 DEF CallInOrder

LEMMA OrganizerInit == Init => OrganizerInv
<1> SUFFICES ASSUME Init PROVE OrganizerInv
  OBVIOUS
<1>1. /\ link \in Links /\ link.bill \in Bills
      /\ calls = {LoadPanel(link), LoadControls(link)}
      /\ panel.kind = "loading" /\ floor = 0 /\ audit = {}
  BY DEF Init, Links, NewPanel
<1>2. PageTyped
  BY <1>1, LoadCalls DEF Init, PageTyped, SlotStates, NewPanel
<1>3. PanelWaitsForOne
  BY <1>1, LoadCalls DEF PanelWaitsForOne, Awaited
<1> QED
  BY <1>1, <1>2, <1>3 DEF OrganizerInv, PanelIsCurrent, DecisionsNameTheirBill

\* A panel that is built anew waits for one new call, whatever else goes on.
LEMMA NewPanelWaits ==
  ASSUME NEW cs, NEW l \in Links, link' = l, panel' = NewPanel, NEW more,
         calls' = cs \cup {LoadPanel(l)} \cup more,
         \A c \in cs : c.kind = "progress" => ~c.live,
         \A c \in more : c.kind # "progress"
  PROVE  PanelWaitsForOne' /\ PanelIsCurrent'
  BY LoadCalls DEF PanelWaitsForOne, PanelIsCurrent, Awaited, NewPanel

LEMMA PageSteps ==
  ASSUME OrganizerInv,
         \/ \E s \in Slots : Pay(s) \/ FindMismatch(s) \/ Authorize(s) \/ ComeBack(s)
         \/ \E l \in Links : OpenLink(l)
         \/ Refresh \/ Close
  PROVE  OrganizerInv'
<1>0. /\ link \in Links /\ slot \in [Slots -> SlotStates] /\ revision \in [Bills -> Nat]
      /\ panel \in [kind : {"loading", "loaded", "error"}, shown : Snapshots \cup {None},
                    refreshing : BOOLEAN]
      /\ floor \in Nat /\ floor <= revision[link.bill] /\ link.bill \in Bills
      /\ \A c \in calls : CallInOrder(c)
      /\ \A l \in Links : l.bill \in Bills
      /\ \A s \in Slots : Owner[s] \in Bills
  BY PageConstantsOK DEF OrganizerInv, PageTyped, Links, Slots
<1>1. NewPanel \in [kind : {"loading", "loaded", "error"}, shown : Snapshots \cup {None},
                     refreshing : BOOLEAN]
  BY DEF NewPanel
<1>2. ASSUME NEW s \in Slots, Pay(s) \/ FindMismatch(s) PROVE OrganizerInv'
  <2>1. PICK status \in {"paid", "review"} :
            /\ slot' = [slot EXCEPT ![s].status = status]
            /\ revision' = [revision EXCEPT ![Owner[s]] = @ + 1]
            /\ UNCHANGED <<audit, pageVars, calls>>
    BY <1>2 DEF Pay, FindMismatch, Change
  <2>2. slot' \in [Slots -> SlotStates]
    BY <1>0, <2>1 DEF SlotStates
  <2>3. /\ revision' \in [Bills -> Nat]
        /\ \A b \in Bills : revision[b] <= revision'[b]
    BY <1>0, <2>1
  <2>4. \A c \in calls : CallInOrder(c)'
    BY <1>0, <2>3, CallStaysInOrder
  <2>5. link' = link /\ panel' = panel /\ floor' = floor /\ calls' = calls /\ audit' = audit
    BY <2>1 DEF pageVars
  <2>6. PageTyped'
    BY <1>0, <2>2, <2>3, <2>4, <2>5 DEF PageTyped
  <2> QED
    BY <2>5, <2>6
       DEF OrganizerInv, PanelWaitsForOne, Awaited, PanelIsCurrent, DecisionsNameTheirBill, Succeeded
<1>3. ASSUME NEW kind \in {"retry", "close"}, NEW s \in Slots \cup {None}, Decide(kind, s),
             kind = "retry" => s \in Slots
      PROVE  OrganizerInv'
  <2>1. PICK c : c = Call(kind, link, s, "check")
    OBVIOUS
  <2>2. /\ c \in CallRecords /\ c.kind = kind /\ c.link = link /\ c.slot = s /\ c.at = "check"
    BY <1>0, <2>1, NewCall DEF CallKinds
  <2>3. CallInOrder(c)
    BY <1>3, <2>2 DEF CallInOrder
  <2>4. calls' = calls \cup {c} /\ UNCHANGED <<storeVars, link, panel, floor>>
    BY <1>3, <2>1 DEF Decide
  <2>5. PageTyped' /\ DecisionsNameTheirBill'
    BY <1>0, <2>3, <2>4, PageStepTyped
  <2>6. PanelWaitsForOne' /\ PanelIsCurrent'
    BY <2>2, <2>4 DEF OrganizerInv, PanelWaitsForOne, Awaited, PanelIsCurrent, Succeeded
  <2> QED
    BY <2>5, <2>6 DEF OrganizerInv
<1>4. ASSUME NEW s \in Slots, Authorize(s) PROVE OrganizerInv'
  BY <1>3, <1>4 DEF Authorize
<1>5. CASE Close
  BY <1>3, <1>5 DEF Close
<1>6. ASSUME NEW l \in Links, link' = l, panel' = NewPanel, UNCHANGED storeVars, NEW kinds,
             "progress" \in kinds,
             calls' = Unmount(calls, kinds) \cup {LoadPanel(l), LoadControls(l)},
             floor' = 0 \/ (floor' = floor /\ l.bill = link.bill)
      PROVE  OrganizerInv'
  <2>1. \A c \in Unmount(calls, kinds) : CallInOrder(c) /\ (c.kind = "progress" => ~c.live)
    BY <1>0, <1>6, UnmountedCalls
  <2>2. \A c \in calls' : CallInOrder(c)
    BY <1>6, <2>1, LoadCalls
  <2>3. floor' \in Nat /\ floor' <= revision[l.bill]
    BY <1>0, <1>6
  <2>4. PageTyped' /\ DecisionsNameTheirBill'
    BY <1>1, <1>6, <2>2, <2>3, PageStepTyped
  <2>5. PanelWaitsForOne' /\ PanelIsCurrent'
    <3> DEFINE cs == Unmount(calls, kinds)
               more == {LoadControls(l)}
    <3>1. calls' = cs \cup {LoadPanel(l)} \cup more
      BY <1>6
    <3>2. \A c \in more : c.kind # "progress"
      BY LoadCalls
    <3> HIDE DEF cs, more
    <3>3. \A c \in cs : c.kind = "progress" => ~c.live
      BY <2>1 DEF cs
    <3> QED
      BY <1>6, <3>1, <3>2, <3>3, NewPanelWaits
  <2> QED
    BY <2>4, <2>5 DEF OrganizerInv
<1>7. ASSUME NEW s \in Slots, ComeBack(s) PROVE OrganizerInv'
  <2>1. [bill |-> Owner[s], role |-> "admin"] \in Links
    BY <1>0 DEF Links
  <2> QED
    BY <1>6, <1>7, <2>1 DEF ComeBack, Reopen
<1>8. ASSUME NEW l \in Links, OpenLink(l) PROVE OrganizerInv'
  BY <1>6, <1>8 DEF OpenLink
<1>9. CASE Refresh
  <2>1. /\ panel' = [panel EXCEPT !.refreshing = TRUE] /\ calls' = calls \cup {LoadPanel(link)}
        /\ UNCHANGED <<storeVars, link, floor>> /\ panel.kind # "loading" /\ ~panel.refreshing
    BY <1>9 DEF Refresh
  <2>2. /\ panel' \in [kind : {"loading", "loaded", "error"}, shown : Snapshots \cup {None},
                       refreshing : BOOLEAN]
        /\ panel'.kind = panel.kind /\ panel'.shown = panel.shown /\ panel'.refreshing
    BY <1>0, <2>1
  <2>3. PageTyped' /\ DecisionsNameTheirBill'
    BY <1>0, <2>1, <2>2, LoadCalls, PageStepTyped
  <2>4. PanelWaitsForOne'
    BY <1>0, <2>1, <2>2, LoadCalls DEF OrganizerInv, PanelWaitsForOne, Awaited, Succeeded
  <2>5. PanelIsCurrent'
    BY <2>1, <2>2 DEF OrganizerInv, PanelIsCurrent
  <2> QED
    BY <2>3, <2>4, <2>5 DEF OrganizerInv
<1> QED
  BY <1>2, <1>4, <1>5, <1>7, <1>8, <1>9

LEMMA Deliveries ==
  ASSUME OrganizerInv, NEW c \in calls, Deliver(c) PROVE OrganizerInv'
<1>0. /\ link \in Links /\ slot \in [Slots -> SlotStates] /\ revision \in [Bills -> Nat]
      /\ panel \in [kind : {"loading", "loaded", "error"}, shown : Snapshots \cup {None},
                    refreshing : BOOLEAN]
      /\ floor \in Nat /\ floor <= revision[link.bill] /\ link.bill \in Bills
      /\ \A d \in calls : CallInOrder(d)
      /\ CallInOrder(c) /\ c \in CallRecords
  BY DEF OrganizerInv, PageTyped, Links, CallInOrder
<1>1. UNCHANGED <<storeVars, link>>
  BY DEF Deliver, DeliverProgress, DeliverLoad, DeliverDecision
<1>2. ASSUME calls' = calls \ {c}, UNCHANGED <<panel, floor>> PROVE OrganizerInv'
  <2>1. PageTyped' /\ DecisionsNameTheirBill'
    BY <1>0, <1>1, <1>2, PageStepTyped
  <2> QED
    BY <1>1, <1>2, <2>1 DEF OrganizerInv, PanelWaitsForOne, Awaited, PanelIsCurrent, Succeeded
<1>3. CASE DeliverProgress(c)
  <2>1. calls' = calls \ {c} /\ c.kind = "progress" /\ c.at = "answered"
    BY <1>3 DEF DeliverProgress
  <2>2. CASE ~c.live
    BY <1>2, <1>3, <2>1, <2>2 DEF DeliverProgress
  <2>3. CASE c.live
    <3>1. /\ c.link = link /\ (Succeeded(c) => c.answer.body.revision >= floor)
          /\ \A d \in calls' : ~Awaited(d)
      BY <2>1, <2>3 DEF OrganizerInv, PanelWaitsForOne, Awaited
    <3>2. CASE Succeeded(c)
      <4> DEFINE n == c.answer.body
      <4>1. n \in Snapshots /\ n.bill = link.bill /\ n.revision <= revision[link.bill]
        BY <1>0, <2>1, <3>1, <3>2 DEF CallInOrder, Tells
      <4>2. /\ panel' = [kind |-> "loaded", shown |-> n, refreshing |-> FALSE]
            /\ floor' = Max({floor, n.revision})
        BY <1>3, <2>3, <3>2 DEF DeliverProgress
      <4>3. n.revision \in Nat
        BY <4>1 DEF Snapshots
      <4>4. floor' = n.revision
        BY <1>0, <3>1, <3>2, <4>2, <4>3, LargerOf
      <4>5. PageTyped' /\ DecisionsNameTheirBill'
        BY <1>0, <1>1, <2>1, <4>1, <4>2, <4>3, <4>4, PageStepTyped
      <4>6. PanelWaitsForOne'
        BY <3>1, <2>1 DEF PanelWaitsForOne, Awaited
      <4>7. PanelIsCurrent'
        BY <1>1, <4>1, <4>2, <4>3, <4>4 DEF PanelIsCurrent
      <4> QED
        BY <4>5, <4>6, <4>7 DEF OrganizerInv
    <3>3. CASE ~Succeeded(c)
      <4>1. /\ panel' = [kind |-> "error", shown |-> None, refreshing |-> FALSE]
            /\ floor' = floor
        BY <1>3, <2>3, <3>3 DEF DeliverProgress
      <4>2. PageTyped' /\ DecisionsNameTheirBill'
        BY <1>0, <1>1, <2>1, <4>1, PageStepTyped
      <4>3. PanelWaitsForOne' /\ PanelIsCurrent'
        BY <3>1, <2>1, <4>1 DEF PanelWaitsForOne, PanelIsCurrent, Awaited
      <4> QED
        BY <4>2, <4>3 DEF OrganizerInv
    <3> QED
      BY <3>2, <3>3
  <2> QED
    BY <2>2, <2>3
<1>4. CASE DeliverLoad(c)
  BY <1>2, <1>4 DEF DeliverLoad
<1>5. CASE DeliverDecision(c)
  <2>1. c.kind \in {"retry", "close"} /\ c.at = "answered"
    BY <1>5 DEF DeliverDecision
  <2>2. CASE ~(c.live /\ Succeeded(c))
    BY <1>2, <1>5, <2>2 DEF DeliverDecision
  <2>3. CASE c.live /\ Succeeded(c)
    <3> DEFINE cs == Unmount(calls \ {c}, {"progress"})
               n == c.answer.body.progress
    <3>1. /\ panel' = NewPanel /\ calls' = cs \cup {LoadPanel(link)} \cup {}
          /\ floor' = IF c.link.bill = link.bill THEN Max({floor, n.revision}) ELSE floor
      BY <1>5, <2>3 DEF DeliverDecision
    <3>2. \A d \in cs : CallInOrder(d) /\ (d.kind = "progress" => ~d.live)
      BY <1>0, UnmountedCalls
    <3>3. \A d \in calls' : CallInOrder(d)
      BY <1>0, <3>1, <3>2, LoadCalls
    <3>4. Tells(n, c.link.bill)
      BY <1>0, <2>1, <2>3 DEF CallInOrder
    <3>5. n.revision \in Nat /\ n.revision <= revision[c.link.bill]
      BY <3>4 DEF Tells, Snapshots
    <3>6. floor' \in Nat /\ floor' <= revision[link.bill]
      BY <1>0, <3>1, <3>5, LargerOf
    <3>7. NewPanel \in [kind : {"loading", "loaded", "error"}, shown : Snapshots \cup {None},
                         refreshing : BOOLEAN]
      BY DEF NewPanel
    <3>8. PageTyped' /\ DecisionsNameTheirBill'
      BY <1>0, <1>1, <3>1, <3>3, <3>6, <3>7, PageStepTyped
    <3> HIDE DEF cs
    <3>9. PanelWaitsForOne' /\ PanelIsCurrent'
      <4> DEFINE more == {}
      <4>1. calls' = cs \cup {LoadPanel(link)} \cup more
        BY <3>1
      <4>2. \A d \in more : d.kind # "progress"
        OBVIOUS
      <4>3. link' = link /\ link \in Links /\ panel' = NewPanel
        BY <1>0, <1>1, <3>1
      <4>4. \A d \in cs : d.kind = "progress" => ~d.live
        BY <3>2
      <4> HIDE DEF more
      <4> QED
        BY <4>1, <4>2, <4>3, <4>4, NewPanelWaits
    <3> QED
      BY <3>8, <3>9 DEF OrganizerInv
  <2> QED
    BY <2>2, <2>3
<1> QED
  BY <1>3, <1>4, <1>5 DEF Deliver

-----------------------------------------------------------------------------
LEMMA OrganizerIsInvariant == Spec => []OrganizerInv
<1>1. ASSUME OrganizerInv, [Next]_organizerVars PROVE OrganizerInv'
  <2>1. ASSUME NEW c \in calls, Serve(c) \/ Lose(c) PROVE OrganizerInv'
    BY <1>1, <2>1, RouteSteps, RouteStepKeeps
  <2>2. ASSUME NEW c \in calls, Deliver(c) PROVE OrganizerInv'
    BY <1>1, <2>2, Deliveries
  <2>3. CASE \/ \E s \in Slots : Pay(s) \/ FindMismatch(s) \/ Authorize(s) \/ ComeBack(s)
             \/ \E l \in Links : OpenLink(l)
             \/ Refresh \/ Close
    BY <1>1, <2>3, PageSteps
  <2>4. CASE UNCHANGED organizerVars
    <3>1. /\ slot' = slot /\ revision' = revision /\ audit' = audit /\ link' = link
          /\ panel' = panel /\ floor' = floor /\ calls' = calls
      BY <2>4 DEF organizerVars, storeVars, pageVars
    <3>2. UNCHANGED storeVars
      BY <2>4 DEF organizerVars
    <3>3. PageTyped' /\ DecisionsNameTheirBill'
      BY <1>1, <3>1, <3>2, PageStepTyped DEF OrganizerInv, PageTyped
    <3> QED
      BY <1>1, <3>1, <3>3
         DEF OrganizerInv, PanelWaitsForOne, Awaited, PanelIsCurrent, Succeeded
  <2> QED
    BY <1>1, <2>1, <2>2, <2>3, <2>4 DEF Next
<1> QED
  BY OrganizerInit, <1>1, PTL DEF Spec

\* The panel shows the Bill of its link and is never older than what it showed of it
\* before, nor than the answer to the last decision, for any number of requests in
\* flight and however often the link changes (ProgressLoader's key and active flag).
THEOREM PanelsAreCurrent == Spec => []PanelIsCurrent
<1>1. OrganizerInv => PanelIsCurrent
  BY DEF OrganizerInv
<1> QED
  BY <1>1, OrganizerIsInvariant, PTL

\* Every recorded retry names a slot of the Bill it is recorded for, although the
\* controls may show the Bill of an earlier link when the organizer decides.
THEOREM RetriesNameTheirBill == Spec => []DecisionsNameTheirBill
<1>1. OrganizerInv => DecisionsNameTheirBill
  BY DEF OrganizerInv
<1> QED
  BY <1>1, OrganizerIsInvariant, PTL

-----------------------------------------------------------------------------
(***************************************************************************)
(* SavedWallets.                                                           *)
(***************************************************************************)
Records == [id : Nat, role : Roles, tag : Tags \cup {NoTag}]
ValidDrafts == {d \in WalletDrafts : IsValid(d)}
Books == [Wallets -> Records \cup {NoRecord}]

\* Every record that is stored or shown and every draft still to be written is valid.
WalletsInv ==
    /\ store \in Books /\ RecordsStayReadable
    /\ writes \in Nat
    /\ list \in [Tabs -> Books]
    /\ \A t \in Tabs : \A w \in Saved(list[t]) : IsValid(list[t][w])
    /\ job \in [Tabs -> [drafts : Seq(ValidDrafts), replaceRole : BOOLEAN, busy : BOOLEAN]]

\* What is stored of a valid draft is valid. A record that is in use as a recipient stays
\* so unless its role is replaced, and a payer's use leaves it its tag.
LEMMA SavedRecord ==
  ASSUME store \in Books, writes \in Nat, NEW d \in ValidDrafts, NEW replaceRole \in BOOLEAN,
         NEW r, r = Save(d, replaceRole)
  PROVE  /\ r \in Records /\ IsValid(r)
         /\ ~replaceRole /\ d.role = "payer" /\ store[d.wallet] # NoRecord
                /\ Supports(store[d.wallet], "recipient") =>
                Supports(r, "recipient") /\ Supports(r, "payer") /\ r.tag = store[d.wallet].tag
<1> DEFINE existing == store[d.wallet]
           role == IF existing # NoRecord /\ ~replaceRole
                   THEN MergeRoles(existing.role, d.role) ELSE d.role
           tag == DestinationTag(existing, d, role)
<1>1. /\ d.wallet \in Wallets /\ d.role \in Roles /\ d.tag \in Tags \cup {NoTag}
      /\ existing \in Records \cup {NoRecord}
      /\ existing # NoRecord =>
            existing.role \in Roles /\ existing.tag \in Tags \cup {NoTag} /\ existing.id \in Nat
  BY DEF ValidDrafts, WalletDrafts, Books, Records
<1>2. /\ role \in Roles
      /\ role = "payer" => d.role = "payer"
      /\ role # "payer" /\ d.role = "payer" => existing # NoRecord
  BY <1>1 DEF MergeRoles, Roles
<1>3. /\ r.role = role /\ r.tag = tag
      /\ r = [id |-> IF existing = NoRecord THEN writes ELSE existing.id, role |-> role, tag |-> tag]
  BY DEF Save
<1> HIDE DEF role
<1>4. /\ tag \in Tags \cup {NoTag} /\ (role = "payer" => tag = NoTag)
      /\ role # "payer" /\ d.role = "payer" => tag = existing.tag
  BY <1>1, <1>2 DEF DestinationTag
<1> HIDE DEF tag
<1>5. r \in Records /\ IsValid(r)
  BY <1>1, <1>2, <1>3, <1>4 DEF Records, IsValid
<1>6. ASSUME ~replaceRole, d.role = "payer", existing # NoRecord, Supports(existing, "recipient")
      PROVE  Supports(r, "recipient") /\ Supports(r, "payer") /\ r.tag = existing.tag
  <2>1. role = "both"
    BY <1>6 DEF role, MergeRoles, Supports
  <2> QED
    BY <1>3, <1>4, <1>6, <2>1 DEF Supports
<1> QED
  BY <1>5, <1>6

LEMMA WrittenRecord ==
  ASSUME WalletsInv, NEW t \in Tabs, NEW d \in ValidDrafts, NEW replaceRole \in BOOLEAN,
         NEW remaining \in Seq(ValidDrafts), Write(t, d, replaceRole, remaining)
  PROVE  /\ WalletsInv'
         /\ ~replaceRole /\ d.role = "payer" /\ store[d.wallet] # NoRecord
                /\ Supports(store[d.wallet], "recipient") =>
                /\ Supports(store'[d.wallet], "recipient") /\ Supports(store'[d.wallet], "payer")
                /\ store'[d.wallet].tag = store[d.wallet].tag
<1>1. PICK r : r = Save(d, replaceRole)
  OBVIOUS
<1>2. /\ r \in Records /\ IsValid(r)
      /\ ~replaceRole /\ d.role = "payer" /\ store[d.wallet] # NoRecord
             /\ Supports(store[d.wallet], "recipient") =>
             Supports(r, "recipient") /\ Supports(r, "payer") /\ r.tag = store[d.wallet].tag
  BY <1>1, SavedRecord DEF WalletsInv
<1>3. /\ store' = [store EXCEPT ![d.wallet] = r] /\ writes' = writes + 1 /\ list' = list
      /\ job' = [job EXCEPT ![t] = Work(remaining, replaceRole)]
      /\ d.wallet \in Wallets
  BY <1>1 DEF Write, ValidDrafts, WalletDrafts
<1>4. /\ store' \in Books /\ store'[d.wallet] = r
      /\ \A w \in Wallets \ {d.wallet} : store'[w] = store[w]
  BY <1>2, <1>3 DEF WalletsInv, Books
<1>5. RecordsStayReadable'
  BY <1>2, <1>4 DEF WalletsInv, RecordsStayReadable, Saved
<1>6. Work(remaining, replaceRole) \in
          [drafts : Seq(ValidDrafts), replaceRole : BOOLEAN, busy : BOOLEAN]
  BY DEF Work
<1>7. WalletsInv'
  BY <1>3, <1>4, <1>5, <1>6 DEF WalletsInv, Saved
<1> QED
  BY <1>2, <1>4, <1>7

LEMMA StartedWork ==
  ASSUME WalletsInv, NEW t \in Tabs, NEW drafts \in Seq(WalletDrafts), drafts # <<>>,
         NEW replaceRole \in BOOLEAN, Start(t, drafts, replaceRole)
  PROVE  WalletsInv'
<1>1. drafts \in Seq(ValidDrafts)
  BY DEF Start, ValidDrafts
<1>2. Head(drafts) \in ValidDrafts /\ Tail(drafts) \in Seq(ValidDrafts)
  BY <1>1
<1> QED
  BY <1>2, WrittenRecord DEF Start

LEMMA WalletSteps ==
  ASSUME WalletsInv, WalletsNext PROVE WalletsInv'
<1>1. ASSUME NEW t \in Tabs, ListAgain(t) PROVE WalletsInv'
  <2>1. /\ list' = [list EXCEPT ![t] = store] /\ store' = store /\ writes' = writes
    BY <1>1 DEF ListAgain, ListWallets, WalletsInv, RecordsStayReadable
  <2>2. /\ job' \in [Tabs -> [drafts : Seq(ValidDrafts), replaceRole : BOOLEAN, busy : BOOLEAN]]
    <3> DEFINE Jobs == [drafts : Seq(ValidDrafts), replaceRole : BOOLEAN, busy : BOOLEAN]
               j == [job[t] EXCEPT !.busy = @ /\ job[t].drafts # <<>>]
    <3>1. job[t] \in Jobs
      BY DEF WalletsInv
    <3>2. j \in Jobs
      BY <3>1
    <3>3. job' = [job EXCEPT ![t] = j]
      BY <1>1 DEF ListAgain
    <3> HIDE DEF j
    <3> QED
      BY <3>2, <3>3 DEF WalletsInv
  <2>3. list' \in [Tabs -> Books]
    BY <2>1 DEF WalletsInv
  <2>4. \A u \in Tabs : list'[u] = IF u = t THEN store ELSE list[u]
    BY <2>1 DEF WalletsInv
  <2>5. \A u \in Tabs : \A w \in Saved(list'[u]) : IsValid(list'[u][w])
    BY <2>4 DEF WalletsInv, RecordsStayReadable
  <2>6. RecordsStayReadable'
    BY <2>1 DEF WalletsInv, RecordsStayReadable
  <2> QED
    BY <2>1, <2>2, <2>3, <2>5, <2>6 DEF WalletsInv
<1>2. ASSUME NEW t \in Tabs, WriteNext(t) PROVE WalletsInv'
  <2>1. /\ job[t].drafts \in Seq(ValidDrafts) /\ job[t].drafts # <<>>
        /\ job[t].replaceRole \in BOOLEAN
    BY <1>2 DEF WalletsInv, WriteNext
  <2>2. Head(job[t].drafts) \in ValidDrafts /\ Tail(job[t].drafts) \in Seq(ValidDrafts)
    BY <2>1
  <2> QED
    BY <1>2, <2>1, <2>2, WrittenRecord DEF WriteNext
<1>3. ASSUME NEW t \in Tabs, NEW j \in {Idle, Work(<<>>, FALSE)}, job' = [job EXCEPT ![t] = j],
             list' = list, writes' \in Nat,
             store' \in Books, \A w \in Wallets : store'[w] \in {store[w], NoRecord}
      PROVE  WalletsInv'
  <2>0. <<>> \in Seq(ValidDrafts)
    OBVIOUS
  <2>1. j \in [drafts : Seq(ValidDrafts), replaceRole : BOOLEAN, busy : BOOLEAN]
    <3>1. ASSUME NEW none \in Seq(ValidDrafts), NEW busy \in BOOLEAN
          PROVE  [drafts |-> none, replaceRole |-> FALSE, busy |-> busy]
                    \in [drafts : Seq(ValidDrafts), replaceRole : BOOLEAN, busy : BOOLEAN]
      OBVIOUS
    <3>2. j = Idle \/ j = Work(<<>>, FALSE)
      BY <1>3
    <3> QED
      BY <2>0, <3>1, <3>2, Zenon DEF Idle, Work
  <2>2. RecordsStayReadable'
    BY <1>3 DEF WalletsInv, RecordsStayReadable, Saved
  <2> QED
    BY <1>3, <2>1, <2>2 DEF WalletsInv, Saved
<1>4. ASSUME NEW t \in Tabs, FailWrite(t) PROVE WalletsInv'
  <2>1. /\ job' = [job EXCEPT ![t] = Idle]
        /\ list' = list /\ writes' = writes /\ store' = store
    BY <1>4 DEF FailWrite
  <2> QED
    BY <1>3, <2>1 DEF WalletsInv
<1>5. ASSUME NEW t \in Tabs, RemoveAll(t) PROVE WalletsInv'
  <2>1. /\ job' = [job EXCEPT ![t] = Work(<<>>, FALSE)]
        /\ list' = list /\ writes' = writes + 1 /\ store' = NoWallets
    BY <1>5 DEF RemoveAll
  <2>2. NoWallets \in Books /\ \A w \in Wallets : NoWallets[w] = NoRecord
    BY DEF NoWallets, Books
  <2>3. writes' \in Nat /\ Work(<<>>, FALSE) \in {Idle, Work(<<>>, FALSE)}
    BY <2>1 DEF WalletsInv
  <2> QED
    BY <1>3, <2>1, <2>2, <2>3
<1>6. ASSUME NEW t \in Tabs, NEW w \in Wallets, RemoveRecord(t, w) PROVE WalletsInv'
  <2>1. /\ job' = [job EXCEPT ![t] = Work(<<>>, FALSE)]
        /\ list' = list /\ writes' = writes + 1
        /\ store' \in {[store EXCEPT ![w] = NoRecord], store}
    BY <1>6 DEF RemoveRecord
  <2>2. store' \in Books /\ \A v \in Wallets : store'[v] \in {store[v], NoRecord}
    BY <2>1 DEF WalletsInv, Books
  <2>3. writes' \in Nat /\ Work(<<>>, FALSE) \in {Idle, Work(<<>>, FALSE)}
    BY <2>1 DEF WalletsInv
  <2> QED
    BY <1>3, <2>1, <2>2, <2>3
<1>7. ASSUME NEW t \in Tabs, NEW w \in Wallets, ToggleFavorite(t, w) PROVE WalletsInv'
  <2> DEFINE d == [wallet |-> w, role |-> list[t][w].role, tag |-> list[t][w].tag]
  <2>1. list[t][w] \in Records
    BY <1>7 DEF ToggleFavorite, WalletsInv, Books
  <2>2. d \in WalletDrafts
    BY <2>1 DEF Records, WalletDrafts
  <2>3. Start(t, <<d>>, TRUE)
    BY <1>7 DEF ToggleFavorite
  <2> HIDE DEF d
  <2>4. <<d>> \in Seq(WalletDrafts) /\ <<d>> # <<>>
    BY <2>2
  <2> QED
    BY <2>3, <2>4, StartedWork
<1>8. ASSUME NEW t \in Tabs, NEW d \in WalletDrafts, SaveCurrent(t, d) \/ Edit(t, d) PROVE WalletsInv'
  <2>1. <<d>> \in Seq(WalletDrafts) /\ <<d>> # <<>>
    OBVIOUS
  <2> QED
    BY <1>8, <2>1, StartedWork DEF SaveCurrent, Edit
<1>9. ASSUME NEW t \in Tabs, NEW d \in WalletDrafts, NEW e \in WalletDrafts, ImportFile(t, d, e)
      PROVE  WalletsInv'
  <2>1. <<d, e>> \in Seq(WalletDrafts) /\ <<d, e>> # <<>>
    OBVIOUS
  <2> QED
    BY <1>9, <2>1, StartedWork DEF ImportFile
<1>10. ASSUME NEW t \in Tabs, NEW w \in Wallets, NEW tag \in Tags \cup {NoTag},
              NEW payers \in SeqOf(Wallets, 1), SaveBillWallets(t, w, tag, payers)
       PROVE  WalletsInv'
  <2> DEFINE first == <<[wallet |-> w, role |-> "recipient", tag |-> tag]>>
             rest == [i \in DOMAIN payers |-> [wallet |-> payers[i], role |-> "payer", tag |-> NoTag]]
  <2>1. PICK m \in 0..1 : payers \in [1..m -> Wallets]
    BY DEF SeqOf
  <2>2. first \in Seq(WalletDrafts) /\ Len(first) = 1
    BY DEF WalletDrafts, Roles
  <2>3. rest \in [1..m -> WalletDrafts]
    BY <2>1 DEF WalletDrafts, Roles
  <2>4. rest \in Seq(WalletDrafts)
    BY <2>3
  <2>5. Start(t, first \o rest, FALSE)
    BY <1>10 DEF SaveBillWallets
  <2> HIDE DEF first, rest
  <2>6. first \o rest \in Seq(WalletDrafts) /\ first \o rest # <<>>
    <3>1. ASSUME NEW f \in Seq(WalletDrafts), NEW r \in Seq(WalletDrafts), Len(f) = 1
          PROVE  f \o r \in Seq(WalletDrafts) /\ f \o r # <<>>
      <4>1. f \o r \in Seq(WalletDrafts)
        OBVIOUS
      <4>2. Len(f \o r) = Len(f) + Len(r) /\ Len(r) \in Nat
        OBVIOUS
      <4>3. Len(f \o r) # 0
        BY <3>1, <4>2
      <4>4. f \o r # <<>>
        BY <4>3
      <4> QED
        BY <4>1, <4>4
    <3> QED
      BY <2>2, <2>4, <3>1
  <2> QED
    BY <2>5, <2>6, StartedWork
<1> QED
  BY <1>1, <1>2, <1>4, <1>5, <1>6, <1>7, <1>8, <1>9, <1>10 DEF WalletsNext

LEMMA WalletsAreInvariant == WalletsSpec => []WalletsInv
<1>1. WalletsInit => WalletsInv
  BY DEF WalletsInit, WalletsInv, NoWallets, Books, RecordsStayReadable, Saved, Idle
<1>2. ASSUME WalletsInv, UNCHANGED walletVars PROVE WalletsInv'
  BY <1>2 DEF walletVars, WalletsInv, RecordsStayReadable, Saved
<1>3. WalletsInv /\ [WalletsNext]_walletVars => WalletsInv'
  BY <1>2, WalletSteps
<1> QED
  BY <1>1, <1>3, PTL DEF WalletsSpec

\* No order of saves, edits, imports and deletions of any number of tabs stores a record
\* that listSavedWallets refuses.
THEOREM BooksStayReadable == WalletsSpec => []RecordsStayReadable
<1>1. WalletsInv => RecordsStayReadable
  BY DEF WalletsInv
<1> QED
  BY <1>1, WalletsAreInvariant, PTL

\* Saving a wallet as a payer, from its field or with the wallets of a Bill, takes
\* neither the role nor the Destination Tag from the recipient that it also is.
THEOREM PayerUsesKeepTags == WalletsSpec => PayerUseKeepsTheTag
<1> DEFINE Kept ==
        \A t \in Tabs, d \in WalletDrafts :
            PayerSave(t, d) /\ store[d.wallet] # NoRecord /\ Supports(store[d.wallet], "recipient")
            => /\ Supports(store'[d.wallet], "recipient")
               /\ Supports(store'[d.wallet], "payer")
               /\ store'[d.wallet].tag = store[d.wallet].tag
<1>1. ASSUME WalletsInv, NEW t \in Tabs, NEW d \in WalletDrafts, PayerSave(t, d),
             store[d.wallet] # NoRecord, Supports(store[d.wallet], "recipient")
      PROVE  /\ Supports(store'[d.wallet], "recipient")
             /\ Supports(store'[d.wallet], "payer")
             /\ store'[d.wallet].tag = store[d.wallet].tag
  <2>1. CASE SaveCurrent(t, d)
    <3>0. Head(<<d>>) = d /\ 1 \in DOMAIN <<d>> /\ <<d>>[1] = d
      OBVIOUS
    <3>1. d \in ValidDrafts /\ Write(t, d, FALSE, Tail(<<d>>))
      <4>1. IsValid(<<d>>[1]) /\ Write(t, Head(<<d>>), FALSE, Tail(<<d>>))
        BY <2>1, <3>0 DEF SaveCurrent, Start
      <4> QED
        BY <3>0, <4>1 DEF ValidDrafts
    <3>2. Tail(<<d>>) \in Seq(ValidDrafts)
      BY <3>1
    <3> QED
      BY <1>1, <3>1, <3>2, WrittenRecord DEF PayerSave
  <2>2. CASE WriteNext(t) /\ ~job[t].replaceRole /\ d = Head(job[t].drafts)
    <3>1. /\ job[t].drafts \in Seq(ValidDrafts) /\ job[t].drafts # <<>>
          /\ job[t].replaceRole = FALSE
      BY <1>1, <2>2 DEF WalletsInv, WriteNext
    <3>2. d \in ValidDrafts /\ Tail(job[t].drafts) \in Seq(ValidDrafts)
      BY <2>2, <3>1
    <3> QED
      BY <1>1, <2>2, <3>1, <3>2, WrittenRecord DEF PayerSave, WriteNext
  <2> QED
    BY <1>1, <2>1, <2>2 DEF PayerSave
<1>2. WalletsInv => [Kept]_walletVars
  BY <1>1
<1>3. WalletsSpec => [][Kept]_walletVars
  BY <1>2, WalletsAreInvariant, PTL
<1> QED
  BY <1>3 DEF PayerUseKeepsTheTag

=============================================================================
