------------------------ MODULE MCOrganizerBrowser ------------------------
(***************************************************************************)
(* The organizer's browser: a page behind a management link, and tabs with *)
(* the address book. They share no state, so that no order of their steps  *)
(* shows more than each of them alone, and each is run while the other     *)
(* rests.                                                                  *)
(***************************************************************************)
EXTENDS OrganizerPage, SavedWallets

CONSTANTS b1, b2, s1, s2

OneSlotEach == [s \in {s1, s2} |-> IF s = s1 THEN b1 ELSE b2]

VARIABLE part

\* The first link is one of b1, as the Bills are alike.
BrowserInit ==
    /\ Init /\ WalletsInit
    /\ \/ part = "bill" /\ link.bill = b1
       \/ part = "wallets" /\ link = [bill |-> b1, role |-> "admin"]

BrowserNext ==
    /\ UNCHANGED part
    /\ \/ part = "bill" /\ Next /\ UNCHANGED walletVars
       \/ part = "wallets" /\ WalletsNext /\ UNCHANGED organizerVars

\* The fairness of the page binds the behaviours of the page only.
BrowserSpec ==
    /\ BrowserInit /\ [][BrowserNext]_<<organizerVars, walletVars, part>>
    /\ Fairness

=============================================================================
