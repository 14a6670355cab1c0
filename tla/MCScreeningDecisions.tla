------------------------ MODULE MCScreeningDecisions ------------------------
EXTENDS ScreeningDecisions, TLC

Symmetry == Permutations(Calls)
=============================================================================
