-------------------------- MODULE ScreeningPromise --------------------------
(***************************************************************************)
(* What the screening pipeline promises a recruiter about each resume,     *)
(* whatever queues, retries and restarts lie in between: once accepted it  *)
(* is pending until it gets one answer, which then stands.  NFR-10 adds    *)
(* that the answer comes.                                                  *)
(***************************************************************************)
CONSTANTS Resumes, Verdicts

VARIABLE entry

Init == entry = [r \in Resumes |-> "absent"]

Accept(S) ==
  /\ \A r \in S : entry[r] = "absent"
  /\ entry' = [r \in Resumes |-> IF r \in S THEN "pending" ELSE entry[r]]

Answer(r, verdict) ==
  /\ entry[r] = "pending"
  /\ entry' = [entry EXCEPT ![r] = verdict]

Next ==
  \/ \E S \in SUBSET Resumes : Accept(S)
  \/ \E r \in Resumes, verdict \in Verdicts : Answer(r, verdict)

Safe == Init /\ [][Next]_entry

Spec == Safe /\ \A r \in Resumes : WF_entry(\E verdict \in Verdicts : Answer(r, verdict))
=============================================================================
