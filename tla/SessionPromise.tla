--------------------------- MODULE SessionPromise ---------------------------
(***************************************************************************)
(* What ADR-009 promises about a session, whatever calls arrive at the     *)
(* same moment: it is one chain of refresh tokens, each exchanged once and *)
(* in the order of their issue, and once it has ended none is exchanged.   *)
(***************************************************************************)
EXTENDS Naturals, FiniteSets

CONSTANTS SessionIds

VARIABLES
  exchanged,  \* the tokens of each session exchanged so far, by their number
  ended       \* whether each session has been revoked or has reached its cap

Init ==
  /\ exchanged = [s \in SessionIds |-> {}]
  /\ ended = [s \in SessionIds |-> FALSE]

Exchange(s) ==
  /\ ~ended[s]
  /\ exchanged' = [exchanged EXCEPT ![s] = @ \cup {Cardinality(@) + 1}]
  /\ UNCHANGED ended

End(S) ==
  /\ ended' = [s \in SessionIds |-> ended[s] \/ s \in S]
  /\ UNCHANGED exchanged

Next ==
  \/ \E s \in SessionIds : Exchange(s)
  \/ \E S \in SUBSET SessionIds : End(S)

Spec == Init /\ [][Next]_<<exchanged, ended>>
=============================================================================
