------------------------- MODULE MCInterviewGuides -------------------------
EXTENDS InterviewGuides, TLC

Symmetry == Permutations(Calls) \cup Permutations(GuideIds) \cup Permutations(Texts)

(* Guides do not interact, so that one of them is explored at a time: one   *)
(* on which calls overlap, or one on which they do not.                     *)
OneGuideAtATime == Cardinality({g \in Guides : guide[g] # Missing \/ InUse(g)}) <= 1
=============================================================================
