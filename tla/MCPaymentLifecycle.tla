------------------------- MODULE MCPaymentLifecycle -------------------------
(***************************************************************************)
(* Small instances of PaymentLifecycle. The members of Slots, Requests and *)
(* Workers are interchangeable: nothing orders or names them.              *)
(***************************************************************************)
EXTENDS PaymentLifecycle, TLC

Symmetry == Permutations(Slots) \cup Permutations(Requests) \cup Permutations(Workers)

\* What the handlers and the invariants of two slots read: audit is only written.
WithoutAudit == <<slot, bill, row, receipts, world, work>>

=============================================================================
