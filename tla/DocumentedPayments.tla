------------------------- MODULE DocumentedPayments -------------------------
(***************************************************************************)
(* What the documents of the repository say of the payment lifecycle, where *)
(* the code does something else: a run is expected to find it violated.    *)
(***************************************************************************)
EXTENDS PaymentLifecycle

\* review-retry-closure.md, Incomplete closure: an active, unsettled Bill may be
\* closed incomplete. The update writes bills.status, whose CHECK refuses it.
ClosureIsPossible ==
    [][\A w \in Workers :
        CloseBill(w) /\ bill.closure = "active" /\ bill.status # "settled" =>
            bill'.closure = "closed_incomplete"]_vars

=============================================================================
