--------------------------- MODULE MCBillCreation ---------------------------
(***************************************************************************)
(* Small instances of BillCreation. The payers are interchangeable. What   *)
(* may be entered is chosen so that splits leave remainders of no, one and *)
(* two units, and shares below one unit.                                   *)
(***************************************************************************)
EXTENDS BillCreation, TLC

Symmetry == Permutations(Payers)

\* Values of the entries under each strategy.
SmallValues ==
    [s \in Strategies |->
        CASE s = "custom" -> {1, 2}
          [] s = "percentage" -> {2500, 5000}
          [] s = "shares" -> {1, 2}
          [] s = "equal" -> {}]

=============================================================================
