--------------------------- MODULE MCRequestBudget ---------------------------
EXTENDS RequestBudget, TLC

ClockLags == {-1, 0, 1}

Symmetry == Permutations(Calls)
=============================================================================
