--------------------------- MODULE MCTrustSetPage ---------------------------
(***************************************************************************)
(* Small instances of TrustSetPage. Nothing orders or names the members of *)
(* Payloads.                                                               *)
(***************************************************************************)
EXTENDS TrustSetPage, TLC

Symmetry == Permutations(Payloads)

=============================================================================
