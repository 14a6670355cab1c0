----------------------------- MODULE RateBudget -----------------------------
(***************************************************************************)
(* What the gateway promises about the rate of requests: every caller has  *)
(* a budget of its own, refilled at a steady rate up to a burst, that only *)
(* its own requests spend, and a request is turned away only when its      *)
(* caller has spent that budget.  Nothing is ever forgotten but at a       *)
(* restart.                                                                *)
(***************************************************************************)
EXTENDS Naturals

CONSTANTS
  Callers,  \* those who are limited each on their own
  Rate,     \* requests earned in a unit of time
  Burst     \* requests that may arrive at once

VARIABLES
  budget,   \* requests each caller may make at once
  asked     \* the caller of the last request and its answer, or Nobody

Nobody == [caller |-> <<"nobody", "nobody">>, allowed |-> TRUE]

Capped(n) == IF n < Burst THEN n ELSE Burst

Init ==
  /\ budget = [c \in Callers |-> Burst]
  /\ asked = Nobody

Refill ==
  /\ budget' = [c \in Callers |-> Capped(budget[c] + Rate)]
  /\ asked' = Nobody

Allow(c) ==
  /\ budget[c] >= 1
  /\ budget' = [budget EXCEPT ![c] = @ - 1]
  /\ asked' = [caller |-> c, allowed |-> TRUE]

Refuse(c) ==
  /\ budget[c] < 1
  /\ asked' = [caller |-> c, allowed |-> FALSE]
  /\ UNCHANGED budget

Restart ==
  /\ budget' = [c \in Callers |-> Burst]
  /\ asked' = Nobody

(* Something else happens.                                                  *)
Other ==
  /\ asked' = Nobody
  /\ UNCHANGED budget

Next ==
  \/ Refill \/ Restart \/ Other
  \/ \E c \in Callers : Allow(c) \/ Refuse(c)

Spec == Init /\ [][Next]_<<budget, asked>>
=============================================================================
