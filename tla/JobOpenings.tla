---------------------------- MODULE JobOpenings ----------------------------
(***************************************************************************)
(* The job opening operations of the Hiring Service and the submission of  *)
(* a screening batch against an opening, as API calls in flight at the same*)
(* time.  A call reads the opening, applies the domain rule to its own     *)
(* copy, and writes the whole copy back later; a submission checks the     *)
(* opening it read, stores the files one by one, and only then saves the   *)
(* batch.  A call the domain refuses ends where it began and is left out.  *)
(***************************************************************************)
EXTENDS JobOpeningDomain

CONSTANTS
  Openings,   \* ids of job openings
  Batches,    \* ids of screening batches
  Resumes,    \* the resumes a batch may hold
  Calls,      \* API calls that may be in flight at the same time
  Shared      \* the openings two calls may work on at the same time

VARIABLES
  opening,    \* table job_openings, with the criteria of each
  batch,      \* table screening_batches, with the criteria snapshot of each
  stored,     \* object storage: the resumes of each batch whose file is there
  call        \* what each call in flight holds

vars == <<opening, batch, stored, call>>

Idle == [op |-> "idle"]

SaveCalls == [op : {"save"}, id : Openings, copy : JobOpening]
SubmitCalls == [op : {"submit"}, id : Openings, copy : JobOpening,
                batch : Batches, resumes : SUBSET Resumes \ {{}},
                left : SUBSET Resumes]

BatchRows == [opening : Openings, resumes : SUBSET Resumes \ {{}},
              criteria : CriteriaSets]

(* Every variable has its type (job_opening.go, screening.go, schema.sql).  *)
TypeOK ==
  /\ opening \in [Openings -> JobOpening \cup {Missing}]
  /\ batch \in [Batches -> BatchRows \cup {Missing}]
  /\ stored \in [Batches -> SUBSET Resumes]
  /\ call \in [Calls -> {Idle} \cup SaveCalls \cup SubmitCalls]

Init ==
  /\ opening = [o \in Openings |-> Missing]
  /\ batch = [b \in Batches |-> Missing]
  /\ stored = [b \in Batches |-> {}]
  /\ call = [c \in Calls |-> Idle]

-----------------------------------------------------------------------------
(* Starting a call.                                                         *)

InUse(o) == \E d \in Calls : call[d] # Idle /\ call[d].id = o

(* FindByID returns the opening, and the call may start.                    *)
Finds(c, o) ==
  /\ call[c] = Idle
  /\ opening[o] # Missing
  /\ o \in Shared \/ ~InUse(o)

(* The call has changed its own copy of the opening to k.                   *)
HoldsChanged(c, o, k) ==
  /\ call' = [call EXCEPT ![c] = [op |-> "save", id |-> o, copy |-> k]]
  /\ UNCHANGED <<opening, batch, stored>>

(* CreateJobOpening: the id is new.                                         *)
CreateJobOpening(c, o) ==
  /\ call[c] = Idle
  /\ opening[o] = Missing
  /\ ~InUse(o)
  /\ \E criteria \in CriteriaSets : HoldsChanged(c, o, NewJobOpening(criteria))

PauseOpening(c, o) ==
  /\ Finds(c, o)
  /\ \E k \in JobOpening : Pause(opening[o], k) /\ HoldsChanged(c, o, k)

ResumeOpening(c, o) ==
  /\ Finds(c, o)
  /\ \E k \in JobOpening : Resume(opening[o], k) /\ HoldsChanged(c, o, k)

CloseOpening(c, o) ==
  /\ Finds(c, o)
  /\ \E k \in JobOpening, outcome \in Outcomes :
       Close(opening[o], outcome, k) /\ HoldsChanged(c, o, k)

ReviseScreeningCriteria(c, o) ==
  /\ Finds(c, o)
  /\ \E k \in JobOpening, criteria \in CriteriaSets :
       ReviseCriteria(opening[o], criteria, k) /\ HoldsChanged(c, o, k)

(* SubmitScreeningBatch up to its first upload: the opening read accepts    *)
(* resumes, the batch id is new and at least one file can be screened.      *)
SubmitScreeningBatch(c, o, b) ==
  /\ Finds(c, o)
  /\ AcceptsResumes(opening[o])
  /\ batch[b] = Missing
  /\ stored[b] = {}
  /\ \A d \in Calls : call[d].op = "submit" => call[d].batch # b
  /\ \E S \in SUBSET Resumes \ {{}} :
       call' = [call EXCEPT ![c] = [op |-> "submit", id |-> o, copy |-> opening[o],
                                    batch |-> b, resumes |-> S, left |-> S]]
  /\ UNCHANGED <<opening, batch, stored>>

-----------------------------------------------------------------------------
(* Finishing a call.                                                        *)

Ends(c) == call' = [call EXCEPT ![c] = Idle]

(* Save replaces the row and its criteria, in one transaction.              *)
Save(c) ==
  /\ call[c].op = "save"
  /\ opening' = [opening EXCEPT ![call[c].id] = call[c].copy]
  /\ Ends(c)
  /\ UNCHANGED <<batch, stored>>

StoreResume(c, r) ==
  /\ call[c].op = "submit"
  /\ r \in call[c].left
  /\ stored' = [stored EXCEPT ![call[c].batch] = @ \cup {r}]
  /\ call' = [call EXCEPT ![c].left = @ \ {r}]
  /\ UNCHANGED <<opening, batch>>

(* Mutant: the rows are saved before every file is.                         *)
SaveBatchEarly(c) ==
  /\ call[c].op = "submit"
  /\ batch' = [batch EXCEPT ![call[c].batch] =
                 [opening |-> call[c].id, resumes |-> call[c].resumes,
                  criteria |-> call[c].copy.criteria]]
  /\ Ends(c)
  /\ UNCHANGED <<opening, stored>>

(* NewScreeningBatch checks the copy read when the call started again, and  *)
(* SaveBatch stores the batch with the criteria of that copy.               *)
SaveBatch(c) ==
  /\ call[c].op = "submit"
  /\ call[c].left = {}
  /\ AcceptsResumes(call[c].copy)
  /\ batch' = [batch EXCEPT ![call[c].batch] =
                 [opening |-> call[c].id, resumes |-> call[c].resumes,
                  criteria |-> call[c].copy.criteria]]
  /\ Ends(c)
  /\ UNCHANGED <<opening, stored>>

(* The database or the object storage fails, the client goes away, or the   *)
(* service restarts: the call ends without its write, and the files already *)
(* stored stay behind.                                                      *)
CallFails(c) ==
  /\ call[c] # Idle
  /\ Ends(c)
  /\ UNCHANGED <<opening, batch, stored>>

Next == \E c \in Calls :
  \/ \E o \in Openings :
       \/ CreateJobOpening(c, o)
       \/ PauseOpening(c, o)
       \/ ResumeOpening(c, o)
       \/ CloseOpening(c, o)
       \/ ReviseScreeningCriteria(c, o)
       \/ \E b \in Batches : SubmitScreeningBatch(c, o, b)
  \/ Save(c)
  \/ \E r \in Resumes : StoreResume(c, r)
  \/ SaveBatch(c)
  \/ CallFails(c)

Spec == Init /\ [][Next]_vars

-----------------------------------------------------------------------------
(* Properties.                                                              *)

(* schema.sql demands an outcome exactly of the closed openings.  No row,   *)
(* and no copy a call is about to save, breaks the constraint, so that no   *)
(* save is rejected by it, however the calls overlap.                       *)
OutcomeIffClosed ==
  /\ \A o \in Openings :
       opening[o] # Missing => (opening[o].status = "closed") = (opening[o].outcome # "none")
  /\ \A c \in Calls :
       call[c] # Idle => (call[c].copy.status = "closed") = (call[c].copy.outcome # "none")

(* "Files first, rows second" (screening_service.go): every resume of a     *)
(* batch that is recorded has its file, whichever call failed half-way.     *)
RecordedHasFile ==
  \A b \in Batches : batch[b] # Missing => batch[b].resumes \subseteq stored[b]

(* Closed, and no call has a copy of the opening left to save over it.      *)
ClosedForGood(o) ==
  /\ opening[o].status = "closed"
  /\ \A c \in Calls : call[c].op = "save" => call[c].id # o

(* FR-1.9, "closing is final", on every opening, shared or not.  A save that*)
(* overlaps the closing undoes it; but once the calls that read the opening *)
(* before have ended, every later call sees it closed and is refused        *)
(* (Pause, Resume, Close, ReviseCriteria), whatever else overlaps or fails. *)
ClosedStays ==
  [][\A o \in Openings :
       ClosedForGood(o) => opening'[o] = opening[o] /\ ClosedForGood(o)']_vars

(* What OpeningPromise sees: the openings where no two calls overlap.       *)
Private == Openings \ Shared
seenOpening == [o \in Private |-> opening[o]]
Visible(x) == x # Missing /\ x.opening \in Private
seenBatch == [b \in Batches |-> IF Visible(batch[b]) THEN batch[b] ELSE Missing]

Promise == INSTANCE OpeningPromise
  WITH Openings <- Private, opening <- seenOpening, batch <- seenBatch

(* Where no two calls work on one opening at a time, they look like single  *)
(* steps: the opening changes as its current status allows, and a batch is  *)
(* accepted while it is open, with the criteria it has then.                *)
KeepsPromise == Promise!PromiseSpec
=============================================================================
