------------------------ MODULE MCScreeningHandover ------------------------
(***************************************************************************)
(* Small instances of ScreeningHandover for TLC.  Workers, passes and      *)
(* scores are interchangeable, and no definition chooses among them.       *)
(***************************************************************************)
EXTENDS ScreeningHandover, TLC

Symmetry == Permutations(Workers) \cup Permutations(Passes) \cup Permutations(Scores)
=============================================================================
