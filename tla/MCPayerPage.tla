----------------------------- MODULE MCPayerPage -----------------------------
EXTENDS PayerPage, TLC

Symmetry == Permutations(Calls)

=============================================================================
