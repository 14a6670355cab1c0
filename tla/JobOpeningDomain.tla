-------------------------- MODULE JobOpeningDomain --------------------------
(***************************************************************************)
(* The domain rules of a job opening (domain/job_opening.go): the statuses *)
(* it goes through and the changes each of them allows.  A rule relates the*)
(* opening before a change, j, to the opening after it, k; it is false of  *)
(* every k when the domain refuses the change.                             *)
(***************************************************************************)
CONSTANTS
  CriteriaSets   \* valid lists of screening criteria a Recruiter may confirm

Outcomes == {"filled", "cancelled"}

JobOpening == [status   : {"open", "paused", "closed"},
               outcome  : Outcomes \cup {"none"},
               criteria : CriteriaSets]

(* An opening not stored yet.                                               *)
Missing == [status |-> "missing"]

NewJobOpening(criteria) ==
  [status |-> "open", outcome |-> "none", criteria |-> criteria]

Pause(j, k) ==
  /\ j.status = "open"
  /\ k = [j EXCEPT !.status = "paused"]

Resume(j, k) ==
  /\ j.status = "paused"
  /\ k = [j EXCEPT !.status = "open"]

(* Mutant: closing forgets to record the outcome.                           *)
CloseWithoutOutcome(j, outcome, k) ==
  /\ j.status # "closed"
  /\ k = [j EXCEPT !.status = "closed"]

Close(j, outcome, k) ==
  /\ j.status # "closed"
  /\ k = [j EXCEPT !.status = "closed", !.outcome = outcome]

(* Mutant: the criteria of a closed opening may be revised too.             *)
ReviseAnyCriteria(j, criteria, k) == k = [j EXCEPT !.criteria = criteria]

ReviseCriteria(j, criteria, k) ==
  /\ j.status # "closed"
  /\ k = [j EXCEPT !.criteria = criteria]

(* Mutant: a paused opening takes resumes too.                              *)
AcceptsUnlessClosed(j) == j.status # "closed"

AcceptsResumes(j) == j.status = "open"
=============================================================================
