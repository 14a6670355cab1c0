----------------------------- MODULE MCSessions -----------------------------
EXTENDS Sessions, TLC

Busy(m) ==
  \/ \E s \in SessionIds : session[s] # Missing /\ session[s].member = m
  \/ SigningIn(m)
  \/ Changing(m)
  \/ member[m].password # 1 \/ member[m].removed

(* Members share nothing but the membership lock, so that one of them is    *)
(* explored at a time.                                                      *)
OneMemberAtATime == Cardinality({m \in MemberIds : Busy(m)}) <= 1

Symmetry == Permutations(Calls) \cup Permutations(SessionIds)
=============================================================================
