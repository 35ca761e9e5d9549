------------------------- MODULE SettlementContract -------------------------
(***************************************************************************)
(* What the settlement of a Bill promises its organizer and its payers,    *)
(* with no handler, no request and no wallet provider in it: a slot is     *)
(* owed until a payment that the ledger validated settles it, nothing is   *)
(* settled while the operator has to decide, only a decision ends a        *)
(* review, and what is paid or settled stays so.                           *)
(***************************************************************************)

CONSTANT Slots

VARIABLES
    standing,   \* of each slot: "owed", "review" or "paid"
    progress,   \* of the Bill: "collecting", "review" or "settled"
    made        \* slots for which the ledger holds a matching payment

terms == <<standing, progress, made>>

Share(slots) == IF \A s \in Slots : slots[s] = "paid" THEN "settled" ELSE "collecting"

Init ==
    /\ standing = [s \in Slots |-> "owed"]
    /\ progress = "collecting"
    /\ made = {}

\* The ledger validates a payment of the slot.
Pay(s) ==
    /\ s \notin made
    /\ made' = made \cup {s}
    /\ UNCHANGED <<standing, progress>>

\* A payment is recognised.
Recognise(s) ==
    /\ progress = "collecting" /\ standing[s] = "owed" /\ s \in made
    /\ standing' = [standing EXCEPT ![s] = "paid"]
    /\ progress' = Share(standing')
    /\ UNCHANGED made

\* Something about the slot needs the operator, also when the slot is paid.
Question(s) ==
    /\ progress # "settled" /\ progress' = "review"
    /\ standing' = IF standing[s] = "paid" THEN standing ELSE [standing EXCEPT ![s] = "review"]
    /\ UNCHANGED made

\* The operator lets the payer try again; other slots may still need a decision.
Decide(s) ==
    /\ progress # "settled"
    /\ standing' = IF standing[s] = "review" THEN [standing EXCEPT ![s] = "owed"] ELSE standing
    /\ \/ progress' = "review"
       \/ (\A r \in Slots : standing'[r] # "review") /\ progress' = Share(standing')
    /\ UNCHANGED made

Next == \E s \in Slots : Pay(s) \/ Recognise(s) \/ Question(s) \/ Decide(s)

Spec == Init /\ [][Next]_terms

\* A payment that the ledger holds is not left unrecognised for ever.
FairSpec == Spec /\ \A s \in Slots : WF_terms(Recognise(s))

=============================================================================
