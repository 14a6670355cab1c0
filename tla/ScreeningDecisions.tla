------------------------- MODULE ScreeningDecisions -------------------------
(***************************************************************************)
(* What happens to one row of screening_entries once its resume is being   *)
(* screened: the consumer records an answer, and Recruiters override the   *)
(* score or shortlist the candidate.  Each of them reads the row, changes  *)
(* its own copy and writes the whole row back (SaveEntry), so that a stale *)
(* copy undoes what was written in between.  The consumer handles one      *)
(* answer at a time; API calls run side by side.                           *)
(***************************************************************************)
EXTENDS Integers

CONSTANTS
  Resumes,    \* ids of resumes
  Scores,     \* scores screening or a Recruiter may send, on the scale or not
  Calls,      \* API calls that may be in flight at the same time
  Shared      \* the resumes two calls may decide on at the same time

ASSUME DecisionsAssumption == Scores \subseteq Int

VARIABLES
  entry,      \* table screening_entries
  consumer,   \* the answer the consumer is about to save, if any
  call        \* the decision each call is about to save, if any

vars == <<entry, consumer, call>>

Statuses == {"pending", "screened", "needs_review", "failed"}

MaxScore == 100
OnScale == {s \in Scores : 0 <= s /\ s <= MaxScore}

(* A set with at most one score stands for a score that may be missing.     *)
MaybeScore == {{}} \cup {{s} : s \in OnScale}

Entries == [status      : Statuses,
            score       : MaybeScore,   \* screening's own
            override    : MaybeScore,   \* the Recruiter's
            shortlisted : BOOLEAN]

NewEntry == [status |-> "pending", score |-> {}, override |-> {}, shortlisted |-> FALSE]

Idle == [op |-> "idle"]
Saving(op, r, copy) == [op |-> op, resume |-> r, copy |-> copy]

(* Every variable has its type (screening.go, screening_repository.go).     *)
TypeOK ==
  /\ entry \in [Resumes -> Entries]
  /\ consumer \in {Idle} \cup [op : {"record"}, resume : Resumes, copy : Entries]
  /\ call \in [Calls -> {Idle} \cup
                [op : {"override", "shortlist"}, resume : Resumes, copy : Entries]]

Init ==
  /\ entry = [r \in Resumes |-> NewEntry]
  /\ consumer = Idle
  /\ call = [c \in Calls |-> Idle]

-----------------------------------------------------------------------------
(* Answers.                                                                 *)

Scored(e, s) == [e EXCEPT !.status = "screened", !.score = {s}]
Unscored(e, status) == [e EXCEPT !.status = status]

(* Mutant: an answer is recorded over an earlier one.                       *)
RecordRepeat(r) ==
  /\ consumer = Idle
  /\ \E s \in OnScale : consumer' = Saving("record", r, Scored(entry[r], s))
  /\ UNCHANGED <<entry, call>>

(* RecordScreeningResult up to its save.  An answer to a resume that is no  *)
(* longer pending ends here, with ErrAlreadyCompleted, and so does one that *)
(* checkScreened does not accept.                                           *)
RecordResult(r) ==
  /\ consumer = Idle
  /\ entry[r].status = "pending"
  /\ \/ \E s \in OnScale : consumer' = Saving("record", r, Scored(entry[r], s))
     \/ \E status \in {"needs_review", "failed"} :
          consumer' = Saving("record", r, Unscored(entry[r], status))
  /\ UNCHANGED <<entry, call>>

SaveResult ==
  /\ consumer # Idle
  /\ entry' = [entry EXCEPT ![consumer.resume] = consumer.copy]
  /\ consumer' = Idle
  /\ UNCHANGED call

(* The save fails or the service restarts: the answer is delivered again.   *)
ResultNotSaved ==
  /\ consumer # Idle
  /\ consumer' = Idle
  /\ UNCHANGED <<entry, call>>

-----------------------------------------------------------------------------
(* Decisions.                                                               *)

InUse(r) == \E d \in Calls : call[d] # Idle /\ call[d].resume = r

Finds(c, r) ==
  /\ call[c] = Idle
  /\ r \in Shared \/ ~InUse(r)

(* Mutant: a score may be given to a resume screening has not answered yet. *)
OverrideUnscreened(c, r) ==
  /\ Finds(c, r)
  /\ \E s \in OnScale :
       call' = [call EXCEPT ![c] = Saving("override", r, [entry[r] EXCEPT !.override = {s}])]
  /\ UNCHANGED <<entry, consumer>>

(* Mutant: the override takes the place of screening's score.               *)
OverrideInPlace(c, r) ==
  /\ Finds(c, r)
  /\ entry[r].status = "screened"
  /\ \E s \in OnScale :
       call' = [call EXCEPT ![c] =
         Saving("override", r, [entry[r] EXCEPT !.override = {s}, !.score = {s}])]
  /\ UNCHANGED <<entry, consumer>>

(* decide, up to its save.  A decision the domain refuses ends here.        *)
OverrideScore(c, r) ==
  /\ Finds(c, r)
  /\ entry[r].status = "screened"
  /\ \E s \in OnScale :
       call' = [call EXCEPT ![c] = Saving("override", r, [entry[r] EXCEPT !.override = {s}])]
  /\ UNCHANGED <<entry, consumer>>

ShortlistCandidate(c, r) ==
  /\ Finds(c, r)
  /\ entry[r].status = "screened"
  /\ ~entry[r].shortlisted
  /\ call' = [call EXCEPT ![c] = Saving("shortlist", r, [entry[r] EXCEPT !.shortlisted = TRUE])]
  /\ UNCHANGED <<entry, consumer>>

SaveDecision(c) ==
  /\ call[c] # Idle
  /\ entry' = [entry EXCEPT ![call[c].resume] = call[c].copy]
  /\ call' = [call EXCEPT ![c] = Idle]
  /\ UNCHANGED consumer

DecisionNotSaved(c) ==
  /\ call[c] # Idle
  /\ call' = [call EXCEPT ![c] = Idle]
  /\ UNCHANGED <<entry, consumer>>

Next ==
  \/ \E r \in Resumes : RecordResult(r)
  \/ SaveResult
  \/ ResultNotSaved
  \/ \E c \in Calls :
       \/ \E r \in Resumes : OverrideScore(c, r) \/ ShortlistCandidate(c, r)
       \/ SaveDecision(c)
       \/ DecisionNotSaved(c)

Spec == Init /\ [][Next]_vars

-----------------------------------------------------------------------------
(* Properties.                                                              *)

(* The first answer stands, and FR-2.8: screening's score is retained under *)
(* an override.  No save of a decision, however stale its copy, changes the *)
(* answer.                                                                  *)
AnswerStands ==
  [][\A r \in Resumes : entry[r].status # "pending" =>
       entry'[r].status = entry[r].status /\ entry'[r].score = entry[r].score]_vars

(* Only a screened resume is overridden or shortlisted (README.md): also    *)
(* when the decision is saved long after it was allowed.                    *)
OnlyScreenedAreDecided ==
  \A r \in Resumes :
    entry[r].override # {} \/ entry[r].shortlisted =>
      entry[r].status = "screened" /\ entry[r].score # {}

(* "Nothing the Recruiter has done since - an override, a shortlist - is    *)
(* overwritten" (RecordResult in screening.go): neither an answer, a repeat *)
(* included, nor a decision that did not overlap takes a decision back.     *)
DecisionStands ==
  [][\A r \in Resumes \ Shared :
       /\ entry[r].shortlisted => entry'[r].shortlisted
       /\ entry[r].override # {} => entry'[r].override # {}]_vars
=============================================================================
