---------------------- MODULE ScreeningDecisionsProofs ----------------------
(***************************************************************************)
(* Proofs about ScreeningDecisions, for every number of resumes, scores and*)
(* calls.  Whole rows are written back from stale copies, yet an answer is *)
(* never undone, because a copy that is saved over an answered row was made*)
(* from an answered row.  Decisions are safe from answers for the same     *)
(* reason, and from one another where no two calls overlap on one resume.   *)
(***************************************************************************)
EXTENDS ScreeningDecisions, TLAPS

USE DEF Idle, Saving

(* The fields a copy holds; records are otherwise opaque to the provers.    *)
LEMMA EntryFields ==
  ASSUME NEW e \in Entries
  PROVE  /\ \A s \in OnScale : Scored(e, s) \in Entries
         /\ \A s \in OnScale : [e EXCEPT !.override = {s}] \in Entries
         /\ \A x \in Statuses : Unscored(e, x) \in Entries
         /\ [e EXCEPT !.shortlisted = TRUE] \in Entries
BY DEF Entries, MaybeScore, Statuses, Scored, Unscored

(* A decision starts from a screened row, and its copy differs from it in   *)
(* what the Recruiter decides only.                                         *)
Decides(c, r) ==
  \E op \in {"override", "shortlist"}, k \in Entries :
    /\ call[c] = Idle
    /\ r \in Shared \/ ~InUse(r)
    /\ entry[r].status = "screened"
    /\ k.status = "screened" /\ k.score = entry[r].score
    /\ entry[r].shortlisted => k.shortlisted
    /\ entry[r].override # {} => k.override # {}
    /\ call' = [call EXCEPT ![c] = Saving(op, r, k)]
    /\ UNCHANGED <<entry, consumer>>

LEMMA DecisionCases ==
  ASSUME TypeOK, NEW c \in Calls, NEW r \in Resumes,
         OverrideScore(c, r) \/ ShortlistCandidate(c, r)
  PROVE  Decides(c, r)
<1>1. entry[r] \in Entries
  BY DEF TypeOK
<1>2. CASE OverrideScore(c, r)
  <2>1. PICK s \in OnScale :
          call' = [call EXCEPT ![c] = Saving("override", r, [entry[r] EXCEPT !.override = {s}])]
    BY <1>2 DEF OverrideScore
  <2> DEFINE k == [entry[r] EXCEPT !.override = {s}]
  <2>2. k \in Entries /\ k.status = entry[r].status /\ k.score = entry[r].score
        /\ k.shortlisted = entry[r].shortlisted /\ k.override = {s}
    BY <1>1, EntryFields DEF Entries
  <2> QED BY <1>2, <2>1, <2>2 DEF OverrideScore, Finds, Decides
<1>3. CASE ShortlistCandidate(c, r)
  <2> DEFINE k == [entry[r] EXCEPT !.shortlisted = TRUE]
  <2>1. k \in Entries /\ k.status = entry[r].status /\ k.score = entry[r].score
        /\ k.shortlisted = TRUE /\ k.override = entry[r].override
    BY <1>1, EntryFields DEF Entries
  <2> QED BY <1>3, <2>1 DEF ShortlistCandidate, Finds, Decides
<1> QED BY <1>2, <1>3

(* An answer is recorded on a copy of a pending row.                        *)
Records(r) ==
  \E k \in Entries :
    /\ entry[r].status = "pending"
    /\ k.override = entry[r].override /\ k.shortlisted = entry[r].shortlisted
    /\ k.status \in {"screened", "needs_review", "failed"}
    /\ k.status = "screened" => k.score # {}
    /\ consumer' = Saving("record", r, k)
    /\ UNCHANGED <<entry, call>>

LEMMA RecordCases ==
  ASSUME TypeOK, NEW r \in Resumes, RecordResult(r)
  PROVE  Records(r)
<1>1. entry[r] \in Entries
  BY DEF TypeOK
<1>2. ASSUME NEW s \in OnScale, consumer' = Saving("record", r, Scored(entry[r], s))
      PROVE  Records(r)
  <2> DEFINE k == Scored(entry[r], s)
  <2>1. k \in Entries
    BY <1>1, EntryFields
  <2>2. k.status = "screened" /\ k.score = {s}
        /\ k.override = entry[r].override /\ k.shortlisted = entry[r].shortlisted
    BY <1>1 DEF Scored, Entries
  <2>3. k.score # {}
    BY <2>2
  <2> HIDE DEF k
  <2>4. entry[r].status = "pending" /\ UNCHANGED <<entry, call>> /\ consumer' = Saving("record", r, k)
    BY <1>2 DEF RecordResult, k
  <2> QED BY <2>1, <2>2, <2>3, <2>4 DEF Records
<1>3. ASSUME NEW x \in {"needs_review", "failed"},
             consumer' = Saving("record", r, Unscored(entry[r], x))
      PROVE  Records(r)
  <2> DEFINE k == Unscored(entry[r], x)
  <2>1. k \in Entries
    BY <1>1, EntryFields DEF Statuses
  <2>2. k.status = x /\ k.override = entry[r].override /\ k.shortlisted = entry[r].shortlisted
    BY <1>1 DEF Unscored, Entries
  <2> HIDE DEF k
  <2>3. entry[r].status = "pending" /\ UNCHANGED <<entry, call>> /\ consumer' = Saving("record", r, k)
    BY <1>3 DEF RecordResult, k
  <2> QED BY <2>1, <2>2, <2>3 DEF Records
<1> QED BY <1>2, <1>3 DEF RecordResult

-----------------------------------------------------------------------------
(* Types.                                                                   *)

LEMMA TypeStep ==
  ASSUME TypeOK, [Next]_vars
  PROVE  TypeOK'
<1>1. CASE UNCHANGED vars
  BY <1>1 DEF TypeOK, vars
<1>2. ASSUME NEW r \in Resumes, RecordResult(r)
      PROVE  TypeOK'
  BY <1>2, RecordCases DEF Records, TypeOK
<1>3. ASSUME NEW c \in Calls, NEW r \in Resumes,
             OverrideScore(c, r) \/ ShortlistCandidate(c, r)
      PROVE  TypeOK'
  BY <1>3, DecisionCases DEF Decides, TypeOK
<1>4. CASE SaveResult
  BY <1>4 DEF SaveResult, TypeOK
<1>5. CASE ResultNotSaved
  BY <1>5 DEF ResultNotSaved, TypeOK
<1>6. ASSUME NEW c \in Calls, SaveDecision(c)
      PROVE  TypeOK'
  BY <1>6 DEF SaveDecision, TypeOK
<1>7. ASSUME NEW c \in Calls, DecisionNotSaved(c)
      PROVE  TypeOK'
  BY <1>7 DEF DecisionNotSaved, TypeOK
<1> QED BY <1>1, <1>2, <1>3, <1>4, <1>5, <1>6, <1>7 DEF Next

(* Every reachable state is well typed.                                     *)
THEOREM TypeCorrect == Spec => []TypeOK
<1>1. Init => TypeOK
  BY DEF Init, TypeOK, NewEntry, Entries, MaybeScore, Statuses
<1> QED BY <1>1, TypeStep, PTL DEF Spec

-----------------------------------------------------------------------------
(* Copies and rows.                                                         *)

(* The consumer's copy was made of a row that is pending and undecided      *)
(* still.                                                                   *)
RecordingPending ==
  consumer # Idle =>
    /\ entry[consumer.resume].status = "pending"
    /\ consumer.copy.status # "pending"
    /\ consumer.copy.override = {} /\ ~consumer.copy.shortlisted
    /\ consumer.copy.status = "screened" => consumer.copy.score # {}

(* A decision's copy has the answer of the row.                             *)
DecidingScreened ==
  \A c \in Calls : call[c] # Idle =>
    /\ entry[call[c].resume].status = "screened"
    /\ call[c].copy.status = "screened"
    /\ call[c].copy.score = entry[call[c].resume].score

ScreenedHasScore == \A r \in Resumes : entry[r].status = "screened" => entry[r].score # {}

AnswerInv ==
  /\ TypeOK
  /\ RecordingPending
  /\ DecidingScreened
  /\ ScreenedHasScore
  /\ OnlyScreenedAreDecided

KeepsAnswers ==
  \A r \in Resumes : entry[r].status # "pending" =>
    entry'[r].status = entry[r].status /\ entry'[r].score = entry[r].score

LEMMA AnswerStep ==
  ASSUME AnswerInv, [Next]_vars
  PROVE  AnswerInv' /\ KeepsAnswers
<1> USE DEF AnswerInv, RecordingPending, DecidingScreened, ScreenedHasScore,
            OnlyScreenedAreDecided, KeepsAnswers
<1>0. TypeOK'
  BY TypeStep
<1>1. CASE UNCHANGED vars
  BY <1>0, <1>1 DEF vars
<1>2. ASSUME NEW r \in Resumes, RecordResult(r)
      PROVE  AnswerInv' /\ KeepsAnswers
  <2>1. Records(r)
    BY <1>2, RecordCases
  <2> QED BY <1>0, <2>1 DEF Records
<1>3. ASSUME NEW c \in Calls, NEW r \in Resumes,
             OverrideScore(c, r) \/ ShortlistCandidate(c, r)
      PROVE  AnswerInv' /\ KeepsAnswers
  <2>1. Decides(c, r)
    BY <1>3, DecisionCases
  <2> QED BY <1>0, <2>1 DEF Decides, TypeOK
<1>4. CASE SaveResult
  <2>1. consumer.resume \in Resumes
    BY <1>4 DEF SaveResult, TypeOK
  <2>2. \A c \in Calls : call[c] # Idle => call[c].resume # consumer.resume
    BY <1>4 DEF SaveResult
  <2>3. \A r \in Resumes : entry'[r] = IF r = consumer.resume THEN consumer.copy ELSE entry[r]
    BY <1>4 DEF SaveResult, TypeOK
  <2>4. consumer' = Idle /\ call' = call
    BY <1>4 DEF SaveResult
  <2> QED BY <1>0, <1>4, <2>1, <2>2, <2>3, <2>4 DEF SaveResult, TypeOK
<1>5. CASE ResultNotSaved
  BY <1>0, <1>5 DEF ResultNotSaved
<1>6. ASSUME NEW c \in Calls, SaveDecision(c)
      PROVE  AnswerInv' /\ KeepsAnswers
  <2>1. call[c].resume \in Resumes
    BY <1>6 DEF SaveDecision, TypeOK
  <2>2. \A r \in Resumes : entry'[r] = IF r = call[c].resume THEN call[c].copy ELSE entry[r]
    BY <1>6 DEF SaveDecision, TypeOK
  <2>3. \A d \in Calls : call'[d] = IF d = c THEN Idle ELSE call[d]
    BY <1>6 DEF SaveDecision, TypeOK
  <2>4. consumer' = consumer
    BY <1>6 DEF SaveDecision
  <2> QED BY <1>0, <1>6, <2>1, <2>2, <2>3, <2>4 DEF SaveDecision, TypeOK
<1>7. ASSUME NEW c \in Calls, DecisionNotSaved(c)
      PROVE  AnswerInv' /\ KeepsAnswers
  BY <1>0, <1>7 DEF DecisionNotSaved, TypeOK
<1> QED BY <1>1, <1>2, <1>3, <1>4, <1>5, <1>6, <1>7 DEF Next

LEMMA AnswerInit == Init => AnswerInv
BY DEF Init, AnswerInv, TypeOK, NewEntry, Entries, MaybeScore, Statuses, RecordingPending,
       DecidingScreened, ScreenedHasScore, OnlyScreenedAreDecided

(* However the calls overlap, no save changes the answer of a resume.       *)
THEOREM FirstAnswerStands == Spec => AnswerStands
<1>1. AnswerInv /\ [Next]_vars => AnswerInv' /\ [KeepsAnswers]_vars
  BY AnswerStep
<1> QED BY <1>1, AnswerInit, PTL DEF Spec, AnswerStands, KeepsAnswers

(* However the calls overlap, only a screened resume carries a decision.    *)
THEOREM OnlyScreened == Spec => []OnlyScreenedAreDecided
<1>1. AnswerInv => OnlyScreenedAreDecided
  BY DEF AnswerInv
<1> QED BY <1>1, AnswerInit, AnswerStep, PTL DEF Spec

-----------------------------------------------------------------------------
(* One call at a time on the resumes that are not shared.                   *)

CopiesFresh ==
  \A c \in Calls : call[c] # Idle /\ call[c].resume \notin Shared =>
    /\ \A d \in Calls : d # c /\ call[d] # Idle => call[d].resume # call[c].resume
    /\ entry[call[c].resume].shortlisted => call[c].copy.shortlisted
    /\ entry[call[c].resume].override # {} => call[c].copy.override # {}

KeepsDecisions ==
  \A r \in Resumes \ Shared :
    /\ entry[r].shortlisted => entry'[r].shortlisted
    /\ entry[r].override # {} => entry'[r].override # {}

LEMMA DecisionStep ==
  ASSUME AnswerInv, CopiesFresh, [Next]_vars
  PROVE  CopiesFresh' /\ KeepsDecisions
<1> USE DEF CopiesFresh, KeepsDecisions, AnswerInv
<1>1. CASE UNCHANGED vars
  BY <1>1 DEF vars
<1>2. ASSUME NEW r \in Resumes, RecordResult(r)
      PROVE  CopiesFresh' /\ KeepsDecisions
  BY <1>2 DEF RecordResult
<1>3. ASSUME NEW c \in Calls, NEW r \in Resumes,
             OverrideScore(c, r) \/ ShortlistCandidate(c, r)
      PROVE  CopiesFresh' /\ KeepsDecisions
  <2>1. Decides(c, r)
    BY <1>3, DecisionCases
  <2>2. \A d \in Calls : d # c => call'[d] = call[d]
    BY <2>1 DEF Decides, TypeOK
  <2> QED BY <2>1, <2>2 DEF Decides, TypeOK, InUse
<1>4. CASE SaveResult
  <2>1. consumer.resume \in Resumes /\ entry[consumer.resume].override = {}
        /\ ~entry[consumer.resume].shortlisted
    BY <1>4 DEF SaveResult, TypeOK, RecordingPending, OnlyScreenedAreDecided
  <2>2. \A c \in Calls : call[c] # Idle => call[c].resume # consumer.resume
    BY <1>4 DEF SaveResult, RecordingPending, DecidingScreened
  <2>3. \A r \in Resumes : entry'[r] = IF r = consumer.resume THEN consumer.copy ELSE entry[r]
    BY <1>4 DEF SaveResult, TypeOK
  <2> QED BY <1>4, <2>1, <2>2, <2>3 DEF SaveResult, TypeOK
<1>5. CASE ResultNotSaved
  BY <1>5 DEF ResultNotSaved
<1>6. ASSUME NEW c \in Calls, SaveDecision(c)
      PROVE  CopiesFresh' /\ KeepsDecisions
  <2>1. \A r \in Resumes : entry'[r] = IF r = call[c].resume THEN call[c].copy ELSE entry[r]
    BY <1>6 DEF SaveDecision, TypeOK
  <2>2. \A d \in Calls : call'[d] = IF d = c THEN Idle ELSE call[d]
    BY <1>6 DEF SaveDecision, TypeOK
  <2> QED BY <1>6, <2>1, <2>2 DEF SaveDecision, TypeOK
<1>7. ASSUME NEW c \in Calls, DecisionNotSaved(c)
      PROVE  CopiesFresh' /\ KeepsDecisions
  BY <1>7 DEF DecisionNotSaved, TypeOK
<1> QED BY <1>1, <1>2, <1>3, <1>4, <1>5, <1>6, <1>7 DEF Next

(* Nothing takes back a decision on a resume on which calls do not overlap. *)
THEOREM DecisionsStand == Spec => DecisionStands
<1>1. Init => CopiesFresh
  BY DEF Init, CopiesFresh
<1>2. AnswerInv /\ CopiesFresh /\ [Next]_vars =>
        AnswerInv' /\ CopiesFresh' /\ [KeepsDecisions]_vars
  BY AnswerStep, DecisionStep
<1> QED BY AnswerInit, <1>1, <1>2, PTL DEF Spec, DecisionStands, KeepsDecisions
=============================================================================
