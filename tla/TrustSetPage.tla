---------------------------- MODULE TrustSetPage ----------------------------
(***************************************************************************)
(* The page that prepares a trust line, over the preparation it shows: the *)
(* calls it makes to the three routes, the screen each answer puts up and  *)
(* the buttons that screen offers.                                         *)
(*                                                                         *)
(* An answer tells what the handler remembers of the row, which may be     *)
(* older than the row; answers of overlapping calls arrive in any order.   *)
(* A handler that serves no call of this page serves another page's. A     *)
(* request reaches its handler at once, its answer may take any time.      *)
(***************************************************************************)
EXTENDS TrustSetPreparation

CONSTANT Elsewhere  \* handlers that serve other pages with the same preparation

ASSUME PageConstantsOK ==
    /\ Elsewhere \subseteq Workers
    /\ (Payloads \cup {None}) \cap (Statuses \cup {"error"}) = {}

VARIABLES
    screen,     \* "loading", "error" or the status of the launch that is shown
    working,    \* a check or a start is in progress, as far as the page knows
    call,       \* which call of the page each handler serves, and for a start
                \* the status its first read saw
    reply       \* what each finished handler answers; a payload stands for the
                \* row that is still to be read again by that payload

page == <<screen, working, call, reply>>
pageVars == <<vars, page>>

NoCall == [kind |-> "none", row |-> "required"]
Screens == Statuses \cup {"loading", "error"}

\* The screens that listen for news: the status button, the provider's channel,
\* a focus of the window.
Listening == {"awaiting_signature"} \cup InVerification

InitPage ==
    /\ Init
    /\ screen = "loading" /\ working = FALSE
    /\ call = [w \in Workers |-> NoCall]
    /\ reply = [w \in Workers |-> None]

-----------------------------------------------------------------------------
(* The calls.                                                              *)

Free(w) == w \notin Elsewhere /\ At(w, "idle") /\ call[w] = NoCall
Place(w, kind, row) == call' = [call EXCEPT ![w] = [kind |-> kind, row |-> row]]
Owes(w, answer) == reply' = [reply EXCEPT ![w] = answer]

LoadOnlyAtFirst == screen = "loading"                                \* mutant

\* load runs when the page opens, once, and from the error screen.
MayLoad ==
    \/ screen = "loading" /\ \A w \in Workers : call[w].kind # "details"
    \/ screen = "error"

\* load, answered by loadRlusdTrustSetLaunch. It leaves the screen as it is.
CallDetails(w) ==
    /\ Free(w)
    /\ Place(w, "details", "required") /\ Owes(w, prep.status)
    /\ UNCHANGED <<vars, screen, working>>

LoadDetails(w) == MayLoad /\ CallDetails(w)

\* load is another function in another language, so that the effect runs again,
\* over any screen and any call.
ChangeLanguage(w) == CallDetails(w)

\* The buttons of PreparationState, of which those of the listening screens only
\* repeat what these do anyway.
MayStart == screen \in Replaceable /\ ~working

\* check; the screens that offer it show a row that has a payload.
Check(w) ==
    /\ screen \in Listening /\ Free(w)
    /\ BeginStatus(w)
    /\ working' = TRUE
    /\ Place(w, "check", "required")
    /\ UNCHANGED <<screen, reply>>

Start(w) ==
    /\ MayStart /\ Free(w)
    /\ working' = TRUE
    /\ \/ BeginHandoff(w) /\ UNCHANGED reply
       \/ prep.status \in Settled /\ Owes(w, prep.status) /\ UNCHANGED vars
    /\ Place(w, "start", IF Resumable THEN prep.status ELSE "required")
    /\ UNCHANGED screen

OtherPage(w) ==
    /\ w \in Elsewhere
    /\ BeginHandoff(w) \/ BeginStatus(w)
    /\ UNCHANGED page

-----------------------------------------------------------------------------
(* The answers.                                                            *)

\* What updateRlusdTrustSetStatus returns to the handler.
Updated(w, next) ==
    IF NotSwapped(work[w].saw, next) THEN work[w].payload
    ELSE IF CanTransition(work[w].saw, next) THEN next ELSE work[w].saw

\* A handler that has ended answers the page, if it was the page's.
Answers(w, answers) ==
    IF At(w, "idle")' /\ call[w] # NoCall
    THEN \E answer \in answers : Owes(w, answer)
    ELSE UNCHANGED reply

\* A start that cannot synchronize shows the row it read first.
AfterFailure(w) ==
    {"error"} \cup
    (IF call[w].kind = "start" /\ work[w].step \notin {"create", "store"}
     THEN {call[w].row} ELSE {})

HandlerStep(w) ==
    /\ \/ /\ CreatePayload(w) \/ Load(w) \/ Reload(w) \/ Fetch(w) \/ Verify(w)
          /\ Answers(w, {"error"})
       \/ /\ StoreHandoff(w)
          /\ Answers(w, {IF prep.status \in Replaceable THEN work[w].payload ELSE "error"})
       \/ /\ Apply(w)
          /\ Answers(w, {Updated(w, work[w].heard)}
                        \cup (IF work[w].heard = "failed" THEN {"error"} ELSE {}))
       \/ Conclude(w) /\ Answers(w, {Updated(w, Conclusion[work[w].heard])})
       \/ Recheck(w) /\ Answers(w, {prep.status})
       \/ Fallback(w) /\ Answers(w, {Updated(w, "verifying")})
       \/ Abandon(w) /\ Answers(w, AfterFailure(w))
    /\ UNCHANGED <<screen, working, call>>

\* loadRlusdTrustSetPreparationByPayload, before the answer is written.
Reread(w) ==
    /\ reply[w] \in Payloads
    /\ Owes(w, IF prep.payload = reply[w] THEN prep.status ELSE "error")
    /\ UNCHANGED <<vars, screen, working, call>>

\* The answer arrives, or is lost. Whichever check or start ends first, the page
\* is no longer working.
Receive(w) ==
    /\ reply[w] \in Statuses \cup {"error"}
    /\ screen' \in {reply[w], "error"}
    /\ working' = (working /\ call[w].kind = "details")
    /\ call' = [call EXCEPT ![w] = NoCall]
    /\ Owes(w, None)
    /\ UNCHANGED vars

-----------------------------------------------------------------------------
NextPage ==
    \/ \E w \in Workers :
          \/ LoadDetails(w) \/ ChangeLanguage(w) \/ Check(w) \/ Start(w) \/ OtherPage(w)
          \/ HandlerStep(w) \/ Reread(w) \/ Receive(w)
    \/ Surroundings /\ UNCHANGED page

PageSafety == InitPage /\ [][NextPage]_pageVars

(***************************************************************************)
(* The holder keeps using what the page offers; outages do not last. A     *)
(* handler is not always free for the page, hence SF for its calls.        *)
(***************************************************************************)
FairPage ==
    /\ SF_pageVars(\E w \in Workers : LoadDetails(w))
    /\ SF_pageVars(\E w \in Workers : Check(w))
    /\ SF_pageVars(\E w \in Workers : Start(w))
    /\ \A w \in Workers \ Elsewhere :
        /\ HandlerFairness(w)
        /\ WF_page(Reread(w)) /\ SF_page(Receive(w) /\ screen' = reply[w])

PageSpec == PageSafety /\ FairPage

-----------------------------------------------------------------------------
(* Properties.                                                             *)

\* The page never says that the trust line is ready when the preparation is not,
\* whichever of its overlapping calls is answered last.
ReadyScreenIsTrue ==
    /\ screen \in Settled => prep.status = screen
    /\ \A w \in Workers : reply[w] \in Settled => prep.status = reply[w]

\* A sufficient trust line behind the current, signed payload ends on the page's
\* final screen, with the buttons the page really offers, unless a handler has
\* ended the preparation or another payload has replaced this one.
ReadyIsShown ==
    <>[](line = "ready") =>
        \A p \in Payloads :
            payload[p] = "resolved" /\ prep.payload = p /\ prep.status \notin Ended ~>
                prep.payload # p \/ prep.status \in Ended \/ screen = "ready"

=============================================================================
