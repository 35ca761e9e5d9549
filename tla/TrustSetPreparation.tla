------------------------ MODULE TrustSetPreparation ------------------------
(***************************************************************************)
(* The preparation of one account's RLUSD trust line: the row of           *)
(* rlusd_trustset_preparations, the TrustSet payloads it hands out one     *)
(* after another, and the handlers that create and synchronize them.       *)
(*                                                                         *)
(* A row is written under a comparison of its status alone, so a handler   *)
(* that read it for one payload may write it when it holds another. The    *)
(* trust line changes in any way at any time: a TrustSet is one cause, the *)
(* issuer's freeze and the holder's own changes are others.                *)
(***************************************************************************)
EXTENDS Naturals

CONSTANTS
    Payloads,   \* provider payload ids; a bound
    Workers,    \* handlers that can be in flight at once; a bound
    None

ASSUME PreparationConstantsOK == None \notin Payloads

VARIABLES
    prep,       \* the row: [status, payload, tx], tx being the payload whose
                \* transaction the row names
    payload,    \* state of each payload at the provider
    elapsed,    \* payloads whose signing window has passed
    line,       \* what a read of the trust line would conclude
    work        \* what each handler is doing and what it has read

world == <<payload, elapsed, line>>
vars == <<prep, world, work>>

Ended == {"rejected", "expired", "failed"}
Settled == {"ready", "not_required"}
InVerification == {"submitted", "verifying"}
Statuses == Ended \cup Settled \cup InVerification \cup {"required", "awaiting_signature"}
PayloadStates == {"none", "created", "available", "opened", "signed", "resolved", "rejected"}
Verdicts == {"ready", "pending", "blocked"}
Steps == {"idle", "create", "store", "load", "fetch", "apply",
          "reload", "verify", "conclude", "recheck", "fallback"}

AlsoVerifying == {"required"} \cup Ended \cup InVerification         \* mutant

\* STORE_HANDOFF replaces a payload only from these.
Replaceable == {"required"} \cup Ended

rank == [required |-> 0, awaiting_signature |-> 2, rejected |-> 3, expired |-> 3,
         failed |-> 3, submitted |-> 4, verifying |-> 5, ready |-> 9, not_required |-> 9]

CanTransition(current, next) ==
    \/ current = next
    \/ /\ current \notin Settled
       /\ IF next \in InVerification \cup {"ready"} \/ current \notin Ended
          THEN rank[next] >= rank[current]
          ELSE next = "awaiting_signature"

SignedIsSubmitted(p) == IF payload[p] = "resolved" \/ payload[p] = "signed"
                        THEN "submitted" ELSE "awaiting_signature"  \* mutant

\* normalizeXamanLifecycle and what synchronizeRlusdTrustSetPayload makes of its
\* answer and of a verdict; a payload can be signed after its window has passed.
Observation(p) ==
    CASE payload[p] = "resolved" -> "submitted"
      [] payload[p] = "rejected" -> "rejected"
      [] payload[p] \notin {"resolved", "rejected"} /\ p \in elapsed -> "expired"
      [] OTHER -> "awaiting_signature"

Conclusion == [ready |-> "ready", pending |-> "verifying", blocked |-> "failed"]

-----------------------------------------------------------------------------
Idle == [step |-> "idle", payload |-> None, saw |-> "required", heard |-> "nothing"]

At(w, step) == work[w].step = step
Return(w) == work' = [work EXCEPT ![w] = Idle]
Go(w, step) == work' = [work EXCEPT ![w].step = step]

\* createRlusdTrustSetPreparation with the plan's outcome.
Init ==
    /\ \E status \in {"required", "not_required"} :
        prep = [status |-> status, payload |-> None, tx |-> None]
    /\ payload = [p \in Payloads |-> "none"]
    /\ elapsed = {}
    /\ line \in Verdicts
    /\ work = [w \in Workers |-> Idle]

Resumable == prep.status \in {"awaiting_signature"} \cup InVerification /\ prep.payload # None

\* POST .../payload: an active handoff is synchronized, otherwise one is created.
BeginHandoff(w) ==
    /\ At(w, "idle")
    /\ prep.status \notin Settled
    /\ work' = [work EXCEPT ![w] =
            IF Resumable THEN [Idle EXCEPT !.step = "load", !.payload = prep.payload]
            ELSE [Idle EXCEPT !.step = "create"]]
    /\ UNCHANGED <<prep, world>>

\* mutant: the holder is shown the payload before the row names it
ShowAtOnce(w) ==
    /\ At(w, "create")
    /\ \E p \in Payloads :
        /\ payload[p] = "none"
        /\ payload' = [payload EXCEPT ![p] = "available"]
        /\ work' = [work EXCEPT ![w] = [@ EXCEPT !.step = "store", !.payload = p]]
    /\ UNCHANGED <<prep, elapsed, line>>

CreatePayload(w) ==
    /\ At(w, "create")
    /\ \E p \in Payloads :
        /\ payload[p] = "none"
        /\ payload' = [payload EXCEPT ![p] = "created"]
        /\ work' = [work EXCEPT ![w] = [@ EXCEPT !.step = "store", !.payload = p]]
    /\ UNCHANGED <<prep, elapsed, line>>

\* storeRlusdTrustSetHandoff: refused when another handler was first. The holder
\* is given the payload with the answer, and never if it was refused.
StoreHandoff(w) ==
    /\ At(w, "store")
    /\ LET p == work[w].payload
       IN IF prep.status \in Replaceable
          THEN /\ prep' = [status |-> "awaiting_signature", payload |-> p, tx |-> None]
               /\ payload' = [payload EXCEPT ![p] = "available"]
          ELSE UNCHANGED <<prep, payload>>
    /\ Return(w)
    /\ UNCHANGED <<elapsed, line>>

-----------------------------------------------------------------------------
(* synchronizeRlusdTrustSetPayload, also behind POST .../status.           *)

\* The launch data name the payload to synchronize.
BeginStatus(w) ==
    /\ At(w, "idle")
    /\ prep.payload # None
    /\ work' = [work EXCEPT ![w] = [Idle EXCEPT !.step = "load", !.payload = prep.payload]]
    /\ UNCHANGED <<prep, world>>

\* loadRlusdTrustSetPreparationByPayload: not found once the payload is replaced.
LoadInto(w, step) ==
    /\ IF prep.payload = work[w].payload
       THEN work' = [work EXCEPT ![w] = [@ EXCEPT !.step = step, !.saw = prep.status]]
       ELSE Return(w)
    /\ UNCHANGED <<prep, world>>

Load(w) == At(w, "load") /\ LoadInto(w, "fetch")
Reload(w) == At(w, "reload") /\ LoadInto(w, "verify")

\* The provider answers, with the template it was given or with none.
Fetch(w) ==
    /\ At(w, "fetch")
    /\ \E heard \in {Observation(work[w].payload), "failed"} :
        work' = [work EXCEPT ![w] = [@ EXCEPT !.step = "apply", !.heard = heard]]
    /\ UNCHANGED <<prep, world>>

NeverMissed(saw, next) == FALSE                                     \* mutant

NotSwapped(saw, next) == CanTransition(saw, next) /\ prep.status # saw

\* updateRlusdTrustSetStatus: UPDATE_STATUS with its comparison.
UpdateStatus(saw, next, p) ==
    prep' = IF CanTransition(saw, next) /\ prep.status = saw
            THEN [prep EXCEPT !.status = next,
                              !.tx = IF next = "submitted" THEN p ELSE @]
            ELSE prep

\* After a submission the trust line is read, with the row as last known.
Apply(w) ==
    /\ At(w, "apply")
    /\ LET m == work[w]  next == m.heard
       IN /\ UpdateStatus(m.saw, next, m.payload)
          /\ work' = [work EXCEPT ![w] =
                IF next # "submitted" THEN Idle
                ELSE IF NotSwapped(m.saw, next) THEN [m EXCEPT !.step = "reload"]
                ELSE [m EXCEPT !.step = "verify",
                               !.saw = IF CanTransition(@, next) THEN next ELSE @]]
    /\ UNCHANGED world

\* verifyTrustLine; a failed read counts as pending.
Verify(w) ==
    /\ At(w, "verify")
    /\ \E verdict \in {line, "pending"} :
        work' = [work EXCEPT ![w] = [@ EXCEPT !.step = "conclude", !.heard = verdict]]
    /\ UNCHANGED <<prep, world>>

Conclude(w) ==
    /\ At(w, "conclude")
    /\ LET m == work[w]  next == Conclusion[m.heard]
       IN /\ UpdateStatus(m.saw, next, m.payload)
          /\ IF NotSwapped(m.saw, next) THEN Go(w, "recheck") ELSE Return(w)
    /\ UNCHANGED world

\* A reload that does not find the payload is caught, and verifying is written.
Recheck(w) ==
    /\ At(w, "recheck")
    /\ IF prep.payload = work[w].payload THEN Return(w) ELSE Go(w, "fallback")
    /\ UNCHANGED <<prep, world>>

Fallback(w) ==
    /\ At(w, "fallback")
    /\ UpdateStatus(work[w].saw, "verifying", work[w].payload)
    /\ Return(w)
    /\ UNCHANGED world

\* An upstream call fails or the handler dies.
Abandon(w) ==
    /\ ~At(w, "idle")
    /\ Return(w)
    /\ UNCHANGED <<prep, world>>

-----------------------------------------------------------------------------
(* The holder, the provider and the ledger.                                *)

Open(p) ==
    /\ payload[p] = "available" /\ p \notin elapsed
    /\ payload' = [payload EXCEPT ![p] = "opened"]
    /\ UNCHANGED <<prep, elapsed, line, work>>

Sign(p) ==
    /\ payload[p] = "opened" \/ (payload[p] = "available" /\ p \notin elapsed)
    /\ payload' = [payload EXCEPT ![p] = "signed"]
    /\ UNCHANGED <<prep, elapsed, line, work>>

Resolve(p) ==
    /\ payload[p] = "signed"
    /\ payload' = [payload EXCEPT ![p] = "resolved"]
    /\ UNCHANGED <<prep, elapsed, line, work>>

Decline(p) ==
    /\ payload[p] \in {"available", "opened"}
    /\ payload' = [payload EXCEPT ![p] = "rejected"]
    /\ UNCHANGED <<prep, elapsed, line, work>>

Elapse(p) ==
    /\ payload[p] # "none" /\ p \notin elapsed
    /\ elapsed' = elapsed \cup {p}
    /\ UNCHANGED <<prep, payload, line, work>>

ChangeLine ==
    /\ line' \in Verdicts \ {line}
    /\ UNCHANGED <<prep, payload, elapsed, work>>

-----------------------------------------------------------------------------
HandoffStep(w) == BeginHandoff(w) \/ CreatePayload(w) \/ StoreHandoff(w)

SyncStep(w) ==
    \/ BeginStatus(w) \/ Load(w) \/ Fetch(w) \/ Apply(w) \/ Reload(w)
    \/ Verify(w) \/ Conclude(w) \/ Recheck(w) \/ Fallback(w)

Surroundings ==
    \/ \E p \in Payloads : Open(p) \/ Sign(p) \/ Resolve(p) \/ Decline(p) \/ Elapse(p)
    \/ ChangeLine

Next ==
    \/ \E w \in Workers : HandoffStep(w) \/ SyncStep(w) \/ Abandon(w)
    \/ Surroundings

Spec == Init /\ [][Next]_vars

(***************************************************************************)
(* Handlers end, and outages do not last.                                  *)
(***************************************************************************)
HandlerFairness(w) ==
    /\ WF_vars(~At(w, "idle") /\ (HandoffStep(w) \/ SyncStep(w) \/ Abandon(w)))
    /\ SF_vars(Load(w)) /\ SF_vars(Apply(w) /\ work[w].heard # "failed")
    /\ SF_vars(Fetch(w) /\ work'[w].heard # "failed")
    /\ SF_vars(Verify(w) /\ work'[w].heard = line)
    /\ SF_vars(Conclude(w) /\ work[w].heard = line)

-----------------------------------------------------------------------------
(* Properties.                                                             *)

TypeOK ==
    /\ prep \in [status : Statuses, payload : Payloads \cup {None},
                 tx : Payloads \cup {None}]
    /\ payload \in [Payloads -> PayloadStates]
    /\ elapsed \subseteq Payloads
    /\ line \in Verdicts
    /\ work \in [Workers ->
            [step : Steps, payload : Payloads \cup {None}, saw : Statuses,
             heard : Statuses \cup Verdicts \cup {"nothing"}]]

\* The verification of a preparation is never abandoned for another payload and
\* never moves back, whatever status the handlers that write the row have read.
VerificationIsKept ==
    [][prep.status \in InVerification \cup Settled =>
        /\ prep'.payload = prep.payload
        /\ prep'.status = prep.status \/ rank[prep'.status] > rank[prep.status]]_vars

\* No preparation is verified or ready before the holder has signed one of its
\* payloads, though the row may name another payload by then.
VerificationFollowsSignature ==
    prep.status \in InVerification \cup {"ready"} =>
        \E p \in Payloads : payload[p] = "resolved"

\* The payload a row names was given to the holder; while it names none, no payload
\* was, so what a refused store leaves at the provider is never signed or named.
RowIsBacked ==
    /\ prep.status \in {"required", "not_required"} <=> prep.payload = None
    /\ \A p \in {prep.payload, prep.tx} \ {None} : payload[p] \notin {"none", "created"}
    /\ prep.payload = None => \A p \in Payloads : payload[p] \in {"none", "created"}

=============================================================================
