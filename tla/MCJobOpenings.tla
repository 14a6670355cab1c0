--------------------------- MODULE MCJobOpenings ---------------------------
EXTENDS JobOpenings, TLC

Symmetry == Permutations(Calls)
=============================================================================
