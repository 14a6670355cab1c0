--------------------------- MODULE OpeningPromise ---------------------------
(***************************************************************************)
(* What the job opening operations promise a Recruiter, as if every one of *)
(* them were a single step: an opening changes only as its current status  *)
(* allows, closed is final, and a batch of resumes is accepted against an  *)
(* open opening only, with the criteria it has at that moment.             *)
(***************************************************************************)
EXTENDS JobOpeningDomain

CONSTANTS
  Openings,   \* ids of job openings
  Batches,    \* ids of screening batches
  Resumes     \* the resumes a batch may hold

VARIABLES
  opening,    \* every job opening, or Missing
  batch       \* every batch: its opening, its criteria snapshot, its resumes

promiseVars == <<opening, batch>>

PromiseInit ==
  /\ opening = [o \in Openings |-> Missing]
  /\ batch = [b \in Batches |-> Missing]

ConfirmOpening(o) ==
  /\ opening[o] = Missing
  /\ \E criteria \in CriteriaSets :
       opening' = [opening EXCEPT ![o] = NewJobOpening(criteria)]
  /\ UNCHANGED batch

ChangeOpening(o) ==
  /\ opening[o] # Missing
  /\ \E k \in JobOpening :
       /\ \/ Pause(opening[o], k)
          \/ Resume(opening[o], k)
          \/ \E outcome \in Outcomes : Close(opening[o], outcome, k)
          \/ \E criteria \in CriteriaSets : ReviseCriteria(opening[o], criteria, k)
       /\ opening' = [opening EXCEPT ![o] = k]
  /\ UNCHANGED batch

AcceptBatch(o, b) ==
  /\ opening[o].status = "open"
  /\ batch[b] = Missing
  /\ \E S \in SUBSET Resumes \ {{}} :
       batch' = [batch EXCEPT ![b] = [opening |-> o, resumes |-> S,
                                      criteria |-> opening[o].criteria]]
  /\ UNCHANGED opening

PromiseNext ==
  \/ \E o \in Openings : ConfirmOpening(o) \/ ChangeOpening(o)
  \/ \E o \in Openings, b \in Batches : AcceptBatch(o, b)

PromiseSpec == PromiseInit /\ [][PromiseNext]_promiseVars
=============================================================================
