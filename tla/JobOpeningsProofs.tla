------------------------- MODULE JobOpeningsProofs -------------------------
(***************************************************************************)
(* Proofs about JobOpenings, for every number of openings, batches, resumes*)
(* and calls:                                                              *)
(*   - the constraint of the schema is never broken and a recorded resume  *)
(*     always has its file, however the calls overlap;                     *)
(*   - an opening that is closed stays closed once the calls that read it  *)
(*     before have ended;                                                  *)
(*   - on the openings where no two calls overlap, whatever happens to the *)
(*     others, the calls implement OpeningPromise.                         *)
(***************************************************************************)
EXTENDS JobOpenings, TLAPS

USE DEF Missing, Idle, Outcomes

(* A call of an update starts by changing a copy of an opening.             *)
StartsUpdate(c) ==
  \E o \in Openings, k \in JobOpening :
    /\ call[c] = Idle
    /\ \/ /\ opening[o] = Missing
          /\ ~InUse(o)
          /\ \E criteria \in CriteriaSets : k = NewJobOpening(criteria)
       \/ /\ opening[o] # Missing
          /\ o \in Shared \/ ~InUse(o)
          /\ \/ Pause(opening[o], k)
             \/ Resume(opening[o], k)
             \/ \E outcome \in Outcomes : Close(opening[o], outcome, k)
             \/ \E criteria \in CriteriaSets : ReviseCriteria(opening[o], criteria, k)
    /\ HoldsChanged(c, o, k)

(* The next-state relation with the five updates folded into one.           *)
LEMMA NextCases ==
  ASSUME TypeOK, Next
  PROVE  \E c \in Calls :
           \/ StartsUpdate(c)
           \/ \E o \in Openings, b \in Batches : SubmitScreeningBatch(c, o, b)
           \/ Save(c)
           \/ \E r \in Resumes : StoreResume(c, r)
           \/ SaveBatch(c)
           \/ CallFails(c)
<1>1. \A criteria \in CriteriaSets : NewJobOpening(criteria) \in JobOpening
  BY DEF NewJobOpening, JobOpening
<1>2. ASSUME NEW c \in Calls, NEW o \in Openings, CreateJobOpening(c, o)
      PROVE  StartsUpdate(c)
  BY <1>1, <1>2 DEF CreateJobOpening, StartsUpdate
<1>3. ASSUME NEW c \in Calls, NEW o \in Openings,
             PauseOpening(c, o) \/ ResumeOpening(c, o) \/ CloseOpening(c, o)
               \/ ReviseScreeningCriteria(c, o)
      PROVE  StartsUpdate(c)
  BY <1>3 DEF PauseOpening, ResumeOpening, CloseOpening, ReviseScreeningCriteria,
              Finds, StartsUpdate
<1> QED BY <1>2, <1>3 DEF Next

-----------------------------------------------------------------------------
(* Types.                                                                   *)

LEMMA TypeStep ==
  ASSUME TypeOK, [Next]_vars
  PROVE  TypeOK'
<1>1. CASE UNCHANGED vars
  BY <1>1 DEF TypeOK, vars
<1>2. ASSUME NEW c \in Calls, StartsUpdate(c)
      PROVE  TypeOK'
  BY <1>2 DEF StartsUpdate, HoldsChanged, TypeOK, SaveCalls
<1>3. ASSUME NEW c \in Calls, NEW o \in Openings, NEW b \in Batches,
             SubmitScreeningBatch(c, o, b)
      PROVE  TypeOK'
  <2>1. opening[o] \in JobOpening
    BY <1>3 DEF SubmitScreeningBatch, Finds, TypeOK
  <2> QED BY <1>3, <2>1 DEF SubmitScreeningBatch, TypeOK, SubmitCalls
<1>4. ASSUME NEW c \in Calls, Save(c)
      PROVE  TypeOK'
  <2>1. call[c] \in SaveCalls
    BY <1>4 DEF Save, TypeOK, SubmitCalls
  <2> QED BY <1>4, <2>1 DEF Save, Ends, TypeOK, SaveCalls
<1>5. ASSUME NEW c \in Calls, NEW r \in Resumes, StoreResume(c, r)
      PROVE  TypeOK'
  <2>1. call[c] \in SubmitCalls
    BY <1>5 DEF StoreResume, TypeOK, SaveCalls
  <2>2. [call[c] EXCEPT !.left = @ \ {r}] \in SubmitCalls
    BY <2>1 DEF SubmitCalls
  <2>3. call' \in [Calls -> {Idle} \cup SaveCalls \cup SubmitCalls]
    BY <1>5, <2>2 DEF StoreResume, TypeOK
  <2>4. stored' \in [Batches -> SUBSET Resumes]
    BY <1>5, <2>1 DEF StoreResume, TypeOK, SubmitCalls
  <2> QED BY <1>5, <2>3, <2>4 DEF StoreResume, TypeOK
<1>6. ASSUME NEW c \in Calls, SaveBatch(c)
      PROVE  TypeOK'
  <2>1. call[c] \in SubmitCalls
    BY <1>6 DEF SaveBatch, TypeOK, SaveCalls
  <2>2. [opening |-> call[c].id, resumes |-> call[c].resumes,
         criteria |-> call[c].copy.criteria] \in BatchRows
    BY <2>1 DEF SubmitCalls, BatchRows, JobOpening
  <2> QED BY <1>6, <2>1, <2>2 DEF SaveBatch, Ends, TypeOK
<1>7. ASSUME NEW c \in Calls, CallFails(c)
      PROVE  TypeOK'
  BY <1>7 DEF CallFails, Ends, TypeOK
<1> QED BY NextCases, <1>1, <1>2, <1>3, <1>4, <1>5, <1>6, <1>7

(* Every reachable state is well typed.                                     *)
THEOREM TypeCorrect == Spec => []TypeOK
<1>1. Init => TypeOK
  BY DEF Init, TypeOK
<1> QED BY <1>1, TypeStep, PTL DEF Spec

-----------------------------------------------------------------------------
(* The constraint of the schema.                                            *)

(* A domain rule keeps an outcome exactly on the closed openings.           *)
Sound(j) == (j.status = "closed") = (j.outcome # "none")

LEMMA ChangesAreSound ==
  ASSUME NEW j \in JobOpening, NEW k \in JobOpening, Sound(j),
         \/ Pause(j, k)
         \/ Resume(j, k)
         \/ \E outcome \in Outcomes : Close(j, outcome, k)
         \/ \E criteria \in CriteriaSets : ReviseCriteria(j, criteria, k)
  PROVE  Sound(k)
BY DEF JobOpening, Sound, Pause, Resume, Close, ReviseCriteria

LEMMA OutcomeStep ==
  ASSUME TypeOK, OutcomeIffClosed, [Next]_vars
  PROVE  OutcomeIffClosed'
<1>1. CASE UNCHANGED vars
  BY <1>1 DEF OutcomeIffClosed, vars
<1>2. ASSUME NEW c \in Calls, StartsUpdate(c)
      PROVE  OutcomeIffClosed'
  <2>1. PICK o \in Openings, k \in JobOpening :
          /\ \/ \E criteria \in CriteriaSets : k = NewJobOpening(criteria)
             \/ /\ opening[o] # Missing
                /\ \/ Pause(opening[o], k)
                   \/ Resume(opening[o], k)
                   \/ \E outcome \in Outcomes : Close(opening[o], outcome, k)
                   \/ \E criteria \in CriteriaSets : ReviseCriteria(opening[o], criteria, k)
          /\ HoldsChanged(c, o, k)
    BY <1>2 DEF StartsUpdate
  <2>2. Sound(k)
    <3>1. CASE \E criteria \in CriteriaSets : k = NewJobOpening(criteria)
      BY <3>1 DEF NewJobOpening, Sound
    <3>2. CASE opening[o] # Missing
      <4>1. opening[o] \in JobOpening /\ Sound(opening[o])
        BY <3>2 DEF TypeOK, OutcomeIffClosed, Sound
      <4> QED BY <2>1, <3>1, <4>1, ChangesAreSound
    <3> QED BY <2>1, <3>1, <3>2
  <2>3. \A d \in Calls : call'[d] = IF d = c THEN [op |-> "save", id |-> o, copy |-> k] ELSE call[d]
    BY <2>1 DEF HoldsChanged, TypeOK
  <2>4. opening' = opening
    BY <2>1 DEF HoldsChanged
  <2> QED BY <2>2, <2>3, <2>4 DEF OutcomeIffClosed, Sound
<1>3. ASSUME NEW c \in Calls, NEW o \in Openings, NEW b \in Batches,
             SubmitScreeningBatch(c, o, b)
      PROVE  OutcomeIffClosed'
  BY <1>3 DEF SubmitScreeningBatch, Finds, TypeOK, OutcomeIffClosed
<1>4. ASSUME NEW c \in Calls, Save(c)
      PROVE  OutcomeIffClosed'
  BY <1>4 DEF Save, Ends, TypeOK, OutcomeIffClosed
<1>5. ASSUME NEW c \in Calls, NEW r \in Resumes, StoreResume(c, r)
      PROVE  OutcomeIffClosed'
  <2>1. call[c] \in SubmitCalls
    BY <1>5 DEF StoreResume, TypeOK, SaveCalls
  <2>2. \A d \in Calls : call'[d] # Idle => call[d] # Idle /\ call'[d].copy = call[d].copy
    BY <1>5, <2>1 DEF StoreResume, TypeOK, SubmitCalls
  <2> QED BY <1>5, <2>2 DEF StoreResume, OutcomeIffClosed
<1>6. ASSUME NEW c \in Calls, SaveBatch(c) \/ CallFails(c)
      PROVE  OutcomeIffClosed'
  BY <1>6 DEF SaveBatch, CallFails, Ends, TypeOK, OutcomeIffClosed
<1> QED BY NextCases, <1>1, <1>2, <1>3, <1>4, <1>5, <1>6

(* However the calls overlap, an opening has an outcome exactly if it is    *)
(* closed, and no save breaks the constraint of the table.                  *)
THEOREM OutcomeOnlyOfClosed == Spec => []OutcomeIffClosed
<1>1. Init => OutcomeIffClosed
  BY DEF Init, OutcomeIffClosed
<1> QED BY <1>1, TypeCorrect, OutcomeStep, PTL DEF Spec

-----------------------------------------------------------------------------
(* The files of a batch.                                                    *)

(* What a submission has stored so far is in the object storage.            *)
UploadsStored ==
  \A c \in Calls :
    call[c].op = "submit" => call[c].resumes \ call[c].left \subseteq stored[call[c].batch]

FilesFirst == UploadsStored /\ RecordedHasFile

LEMMA FilesStep ==
  ASSUME TypeOK, FilesFirst, [Next]_vars
  PROVE  FilesFirst'
<1> USE DEF FilesFirst, UploadsStored, RecordedHasFile
<1>1. CASE UNCHANGED vars
  BY <1>1 DEF vars
<1>2. ASSUME NEW c \in Calls, StartsUpdate(c)
      PROVE  FilesFirst'
  BY <1>2 DEF StartsUpdate, HoldsChanged, TypeOK
<1>3. ASSUME NEW c \in Calls, NEW o \in Openings, NEW b \in Batches,
             SubmitScreeningBatch(c, o, b)
      PROVE  FilesFirst'
  BY <1>3 DEF SubmitScreeningBatch, TypeOK
<1>4. ASSUME NEW c \in Calls, NEW r \in Resumes, StoreResume(c, r)
      PROVE  FilesFirst'
  <2>1. call[c] \in SubmitCalls
    BY <1>4 DEF StoreResume, TypeOK, SaveCalls
  <2>2. \A b \in Batches : stored[b] \subseteq stored'[b]
    BY <1>4 DEF StoreResume, TypeOK
  <2>3. r \in stored'[call[c].batch]
    BY <1>4, <2>1 DEF StoreResume, TypeOK, SubmitCalls
  <2>4. call'[c].resumes = call[c].resumes /\ call'[c].batch = call[c].batch
        /\ call'[c].left = call[c].left \ {r}
    BY <1>4, <2>1 DEF StoreResume, TypeOK, SubmitCalls
  <2>5. \A d \in Calls : d # c => call'[d] = call[d]
    BY <1>4 DEF StoreResume, TypeOK
  <2>6. UploadsStored'
    <3>1. SUFFICES ASSUME NEW d \in Calls, call'[d].op = "submit"
                   PROVE  call'[d].resumes \ call'[d].left \subseteq stored'[call'[d].batch]
      OBVIOUS
    <3>2. CASE d = c
      <4>1. call[c].op = "submit" /\ call[c].batch \in Batches
        BY <1>4, <2>1 DEF StoreResume, SubmitCalls
      <4> QED BY <2>2, <2>3, <2>4, <3>2, <4>1
    <3>3. CASE d # c
      <4>1. call[d].op = "submit" /\ call[d].batch \in Batches
        BY <2>5, <3>1, <3>3 DEF TypeOK, SaveCalls, SubmitCalls
      <4> QED BY <2>2, <2>5, <3>3, <4>1
    <3> QED BY <3>2, <3>3
  <2>7. batch' = batch
    BY <1>4 DEF StoreResume
  <2> QED BY <2>2, <2>6, <2>7
<1>5. ASSUME NEW c \in Calls, SaveBatch(c)
      PROVE  FilesFirst'
  <2>1. call[c] \in SubmitCalls /\ call[c].resumes \subseteq stored[call[c].batch]
    BY <1>5 DEF SaveBatch, TypeOK, SaveCalls
  <2> QED BY <1>5, <2>1 DEF SaveBatch, Ends, TypeOK, SubmitCalls
<1>6. ASSUME NEW c \in Calls, Save(c) \/ CallFails(c)
      PROVE  FilesFirst'
  BY <1>6 DEF Save, CallFails, Ends, TypeOK
<1> QED BY NextCases, <1>1, <1>2, <1>3, <1>4, <1>5, <1>6

(* A recorded resume always has its file, whichever call fails half-way.    *)
THEOREM EveryRecordHasItsFile == Spec => []RecordedHasFile
<1>1. Init => FilesFirst
  BY DEF Init, FilesFirst, UploadsStored, RecordedHasFile
<1>2. FilesFirst => RecordedHasFile
  BY DEF FilesFirst
<1> QED BY <1>1, <1>2, TypeCorrect, FilesStep, PTL DEF Spec

-----------------------------------------------------------------------------
(* One call at a time on the openings that are not shared.                  *)

Apart == \A c, d \in Calls :
  c # d /\ call[c] # Idle /\ call[d] # Idle /\ call[c].id \notin Shared
    => call[c].id # call[d].id

(* What the domain makes of the opening stored now.                         *)
Follows(o, k) ==
  \/ /\ opening[o] = Missing
     /\ \E criteria \in CriteriaSets : k = NewJobOpening(criteria)
  \/ /\ opening[o] # Missing
     /\ \/ Pause(opening[o], k)
        \/ Resume(opening[o], k)
        \/ \E outcome \in Outcomes : Close(opening[o], outcome, k)
        \/ \E criteria \in CriteriaSets : ReviseCriteria(opening[o], criteria, k)

(* No copy a call holds of these openings is stale, and the id of a batch   *)
(* about to be saved is its call's own.                                     *)
CopiesFresh == \A c \in Calls :
  /\ call[c].op = "save" /\ call[c].id \notin Shared => Follows(call[c].id, call[c].copy)
  /\ call[c].op = "submit" =>
       /\ call[c].id \notin Shared => opening[call[c].id] = call[c].copy
       /\ batch[call[c].batch] = Missing
       /\ \A d \in Calls : d # c /\ call[d].op = "submit" => call[d].batch # call[c].batch

ApartInv == TypeOK /\ Apart /\ CopiesFresh

LEMMA StartedApart ==
  ASSUME ApartInv, NEW c \in Calls, NEW o \in Openings, call[c] = Idle,
         o \in Shared \/ ~InUse(o), NEW x \in SaveCalls \cup SubmitCalls, x.id = o,
         call' = [call EXCEPT ![c] = x]
  PROVE  Apart'
<1>1. \A d \in Calls : call'[d] = IF d = c THEN x ELSE call[d]
  BY DEF ApartInv, TypeOK
<1> QED BY <1>1 DEF ApartInv, Apart, InUse

LEMMA ApartStep ==
  ASSUME ApartInv, [Next]_vars
  PROVE  ApartInv'
<1> USE DEF ApartInv
<1>0. TypeOK'
  BY TypeStep
<1>1. CASE UNCHANGED vars
  BY <1>0, <1>1 DEF Apart, CopiesFresh, Follows, vars
<1>2. ASSUME NEW c \in Calls, StartsUpdate(c)
      PROVE  Apart' /\ CopiesFresh'
  <2>1. PICK o \in Openings, k \in JobOpening :
          /\ call[c] = Idle /\ (o \in Shared \/ ~InUse(o))
          /\ Follows(o, k) /\ HoldsChanged(c, o, k)
    BY <1>2 DEF StartsUpdate, Follows
  <2>2. [op |-> "save", id |-> o, copy |-> k] \in SaveCalls
    BY DEF SaveCalls
  <2>3. Apart'
    BY <2>1, <2>2, StartedApart DEF HoldsChanged
  <2>4. \A d \in Calls : call'[d] = IF d = c THEN [op |-> "save", id |-> o, copy |-> k] ELSE call[d]
    BY <2>1 DEF HoldsChanged, TypeOK
  <2>5. opening' = opening /\ batch' = batch
    BY <2>1 DEF HoldsChanged
  <2>6. CopiesFresh'
    BY <2>1, <2>4, <2>5 DEF CopiesFresh, Follows
  <2> QED BY <2>3, <2>6
<1>3. ASSUME NEW c \in Calls, NEW o \in Openings, NEW b \in Batches,
             SubmitScreeningBatch(c, o, b)
      PROVE  Apart' /\ CopiesFresh'
  <2>1. PICK S \in SUBSET Resumes \ {{}} :
          call' = [call EXCEPT ![c] = [op |-> "submit", id |-> o, copy |-> opening[o],
                                       batch |-> b, resumes |-> S, left |-> S]]
    BY <1>3 DEF SubmitScreeningBatch
  <2> DEFINE x == [op |-> "submit", id |-> o, copy |-> opening[o],
                   batch |-> b, resumes |-> S, left |-> S]
  <2>2. x \in SubmitCalls
    BY <1>3 DEF SubmitScreeningBatch, Finds, TypeOK, SubmitCalls
  <2>3. Apart'
    BY <1>3, <2>1, <2>2, StartedApart DEF SubmitScreeningBatch, Finds
  <2>4. \A d \in Calls : call'[d] = IF d = c THEN x ELSE call[d]
    BY <2>1 DEF TypeOK
  <2>5. opening' = opening /\ batch' = batch
    BY <1>3 DEF SubmitScreeningBatch
  <2>6. CopiesFresh'
    BY <1>3, <2>4, <2>5 DEF CopiesFresh, Follows, SubmitScreeningBatch
  <2> QED BY <2>3, <2>6
<1>4. ASSUME NEW c \in Calls, Save(c)
      PROVE  Apart' /\ CopiesFresh'
  <2>1. \A d \in Calls : call'[d] = IF d = c THEN Idle ELSE call[d]
    BY <1>4 DEF Save, Ends, TypeOK
  <2>2. \A d \in Calls : d # c /\ call[d] # Idle /\ call[d].id \notin Shared =>
          call[d].id # call[c].id /\ opening'[call[d].id] = opening[call[d].id]
    BY <1>4 DEF Save, Apart, TypeOK, SaveCalls, SubmitCalls
  <2>3. batch' = batch
    BY <1>4 DEF Save
  <2>4. Apart'
    BY <2>1 DEF Apart
  <2>5. CopiesFresh'
    BY <2>1, <2>2, <2>3 DEF CopiesFresh, Follows
  <2> QED BY <2>4, <2>5
<1>5. ASSUME NEW c \in Calls, NEW r \in Resumes, StoreResume(c, r)
      PROVE  Apart' /\ CopiesFresh'
  <2>1. call[c] \in SubmitCalls
    BY <1>5 DEF StoreResume, TypeOK, SaveCalls
  <2>2. \A d \in Calls :
          /\ (call'[d] = Idle) = (call[d] = Idle)
          /\ call'[d].op = call[d].op
          /\ call[d] # Idle => call'[d].id = call[d].id /\ call'[d].copy = call[d].copy
          /\ call[d].op = "submit" => call'[d].batch = call[d].batch
    BY <1>5, <2>1 DEF StoreResume, TypeOK, SaveCalls, SubmitCalls
  <2>3. opening' = opening /\ batch' = batch
    BY <1>5 DEF StoreResume
  <2>4. Apart'
    BY <2>2 DEF Apart
  <2>5. CopiesFresh'
    BY <2>2, <2>3 DEF CopiesFresh, Follows
  <2> QED BY <2>4, <2>5
<1>6. ASSUME NEW c \in Calls, SaveBatch(c)
      PROVE  Apart' /\ CopiesFresh'
  <2>1. \A d \in Calls : call'[d] = IF d = c THEN Idle ELSE call[d]
    BY <1>6 DEF SaveBatch, Ends, TypeOK
  <2>2. \A d \in Calls : d # c /\ call[d].op = "submit" =>
          call[d].batch # call[c].batch /\ batch'[call[d].batch] = batch[call[d].batch]
    BY <1>6 DEF SaveBatch, CopiesFresh, TypeOK, SaveCalls, SubmitCalls
  <2>3. opening' = opening
    BY <1>6 DEF SaveBatch
  <2>4. Apart'
    BY <2>1 DEF Apart
  <2>5. CopiesFresh'
    BY <2>1, <2>2, <2>3 DEF CopiesFresh, Follows
  <2> QED BY <2>4, <2>5
<1>7. ASSUME NEW c \in Calls, CallFails(c)
      PROVE  Apart' /\ CopiesFresh'
  <2>1. \A d \in Calls : call'[d] = IF d = c THEN Idle ELSE call[d]
    BY <1>7 DEF CallFails, Ends, TypeOK
  <2>2. opening' = opening /\ batch' = batch
    BY <1>7 DEF CallFails
  <2> QED BY <2>1, <2>2 DEF Apart, CopiesFresh, Follows
<1> QED BY NextCases, <1>0, <1>1, <1>2, <1>3, <1>4, <1>5, <1>6, <1>7

LEMMA ApartInit == Init => ApartInv
BY DEF Init, ApartInv, TypeOK, Apart, CopiesFresh

(* What the promise sees.                                                   *)
seen == <<seenOpening, seenBatch>>

(* Every step of the calls is a step of the promise, or changes nothing it  *)
(* can see.                                                                 *)
LEMMA PromiseStep ==
  ASSUME ApartInv, [Next]_vars
  PROVE  [Promise!PromiseNext]_seen
<1> USE DEF seen
<1>1. CASE UNCHANGED vars
  BY <1>1 DEF vars, seenOpening, seenBatch
<1>2. ASSUME NEW c \in Calls,
             \/ StartsUpdate(c)
             \/ \E o \in Openings, b \in Batches : SubmitScreeningBatch(c, o, b)
             \/ \E r \in Resumes : StoreResume(c, r)
             \/ CallFails(c)
      PROVE  UNCHANGED seen
  BY <1>2 DEF StartsUpdate, HoldsChanged, SubmitScreeningBatch, StoreResume, CallFails,
              seenOpening, seenBatch
<1>3. ASSUME NEW c \in Calls, Save(c)
      PROVE  \/ UNCHANGED seen
             \/ \E o \in Private : Promise!ConfirmOpening(o) \/ Promise!ChangeOpening(o)
  <2> DEFINE o == call[c].id
             k == call[c].copy
  <2>1. o \in Openings /\ k \in JobOpening
    BY <1>3 DEF Save, ApartInv, TypeOK, SaveCalls, SubmitCalls
  <2>2. opening' = [opening EXCEPT ![o] = k] /\ seenBatch' = seenBatch
    BY <1>3 DEF Save, seenBatch
  <2>3. CASE o \in Shared
    BY <2>2, <2>3 DEF seenOpening, Private
  <2>4. CASE o \notin Shared
    <3>1. o \in Private /\ seenOpening[o] = opening[o]
      BY <2>1, <2>4 DEF Private, seenOpening
    <3>2. seenOpening' = [seenOpening EXCEPT ![o] = k]
      BY <2>1, <2>2, <3>1 DEF Private, seenOpening, ApartInv, TypeOK
    <3>3. Follows(o, k)
      BY <1>3, <2>4 DEF Save, ApartInv, CopiesFresh
    <3>4. CASE opening[o] = Missing
      <4>1. PICK criteria \in CriteriaSets : k = NewJobOpening(criteria)
        BY <3>3, <3>4 DEF Follows
      <4>2. Promise!ConfirmOpening(o)
        BY <2>2, <3>1, <3>2, <3>4, <4>1
        DEF Promise!ConfirmOpening, Promise!Missing, Promise!NewJobOpening, NewJobOpening
      <4> QED BY <3>1, <4>2
    <3>5. CASE opening[o] # Missing
      <4>1. \/ Promise!Pause(opening[o], k)
            \/ Promise!Resume(opening[o], k)
            \/ \E outcome \in Promise!Outcomes : Promise!Close(opening[o], outcome, k)
            \/ \E criteria \in CriteriaSets : Promise!ReviseCriteria(opening[o], criteria, k)
        BY <3>3, <3>5
        DEF Follows, Promise!Outcomes, Promise!Pause, Promise!Resume, Promise!Close,
            Promise!ReviseCriteria, Pause, Resume, Close, ReviseCriteria
      <4>2. k \in Promise!JobOpening
        BY <2>1 DEF JobOpening, Promise!JobOpening, Promise!Outcomes
      <4>3. Promise!ChangeOpening(o)
        BY <2>2, <3>1, <3>2, <3>5, <4>1, <4>2
        DEF Promise!ChangeOpening, Promise!Missing
      <4> QED BY <3>1, <4>3
    <3> QED BY <3>4, <3>5
  <2> QED BY <2>3, <2>4
<1>4. ASSUME NEW c \in Calls, SaveBatch(c)
      PROVE  \/ UNCHANGED seen
             \/ \E o \in Private, b \in Batches : Promise!AcceptBatch(o, b)
  <2> DEFINE o == call[c].id
             b == call[c].batch
             x == [opening |-> o, resumes |-> call[c].resumes, criteria |-> call[c].copy.criteria]
  <2>1. call[c] \in SubmitCalls
    BY <1>4 DEF SaveBatch, ApartInv, TypeOK, SaveCalls
  <2>2. o \in Openings /\ b \in Batches /\ batch[b] = Missing
    BY <1>4, <2>1 DEF SaveBatch, ApartInv, CopiesFresh, SubmitCalls
  <2>3. batch' = [batch EXCEPT ![b] = x] /\ seenOpening' = seenOpening
    BY <1>4 DEF SaveBatch, seenOpening
  <2>4. CASE o \in Shared
    <3>1. seenBatch' = seenBatch
      BY <2>2, <2>3, <2>4 DEF seenBatch, Visible, Private, ApartInv, TypeOK
    <3> QED BY <2>3, <3>1
  <2>5. CASE o \notin Shared
    <3>1. o \in Private /\ seenOpening[o] = opening[o] /\ seenBatch[b] = Missing
      BY <2>2, <2>5 DEF Private, seenOpening, seenBatch, Visible
    <3>2. opening[o] = call[c].copy
      BY <1>4, <2>5 DEF SaveBatch, ApartInv, CopiesFresh
    <3>3. seenBatch' = [seenBatch EXCEPT ![b] = x]
      BY <2>2, <2>3, <2>5 DEF seenBatch, Visible, Private, ApartInv, TypeOK
    <3>4. Promise!AcceptBatch(o, b)
      BY <1>4, <2>1, <2>3, <3>1, <3>2, <3>3
      DEF SaveBatch, SubmitCalls, Promise!AcceptBatch, Promise!Missing, AcceptsResumes
    <3> QED BY <2>2, <3>1, <3>4
  <2> QED BY <2>4, <2>5
<1> QED
  BY NextCases, <1>1, <1>2, <1>3, <1>4 DEF ApartInv, Promise!PromiseNext

(* On the openings where no two calls overlap, the calls are as good as     *)
(* single steps, whatever happens to the other openings.                    *)
THEOREM Implements == Spec => KeepsPromise
<1>1. Init => Promise!PromiseInit
  BY DEF Init, Promise!PromiseInit, Promise!Missing, seenOpening, seenBatch, Visible, Private
<1>2. ApartInv /\ [Next]_vars => ApartInv' /\ [Promise!PromiseNext]_Promise!promiseVars
  BY ApartStep, PromiseStep
  DEF Promise!promiseVars, seen
<1> QED BY ApartInit, <1>1, <1>2, PTL DEF Spec, KeepsPromise, Promise!PromiseSpec

-----------------------------------------------------------------------------
(* Closing.                                                                 *)

(* No step touches an opening that is closed and of which nobody has a copy *)
(* left to save, and none makes such a copy.                                *)
LEMMA ClosedStep ==
  ASSUME TypeOK, [Next]_vars, NEW o \in Openings, ClosedForGood(o)
  PROVE  opening'[o] = opening[o] /\ ClosedForGood(o)'
<1> USE DEF ClosedForGood
<1>1. CASE UNCHANGED vars
  BY <1>1 DEF vars
<1>2. ASSUME NEW c \in Calls, StartsUpdate(c)
      PROVE  opening'[o] = opening[o] /\ ClosedForGood(o)'
  <2>1. PICK p \in Openings, k \in JobOpening :
          /\ HoldsChanged(c, p, k)
          /\ p # o
    BY <1>2 DEF StartsUpdate, Pause, Resume, Close, ReviseCriteria
  <2> QED BY <2>1 DEF HoldsChanged, TypeOK
<1>3. ASSUME NEW c \in Calls, NEW p \in Openings, NEW b \in Batches,
             SubmitScreeningBatch(c, p, b)
      PROVE  opening'[o] = opening[o] /\ ClosedForGood(o)'
  BY <1>3 DEF SubmitScreeningBatch, TypeOK
<1>4. ASSUME NEW c \in Calls, Save(c)
      PROVE  opening'[o] = opening[o] /\ ClosedForGood(o)'
  BY <1>4 DEF Save, Ends, TypeOK
<1>5. ASSUME NEW c \in Calls, NEW r \in Resumes, StoreResume(c, r)
      PROVE  opening'[o] = opening[o] /\ ClosedForGood(o)'
  <2>1. call[c] \in SubmitCalls
    BY <1>5 DEF StoreResume, TypeOK, SaveCalls
  <2>2. [call[c] EXCEPT !.left = @ \ {r}].op = "submit"
    BY <2>1 DEF SubmitCalls
  <2> QED BY <1>5, <2>2 DEF StoreResume, TypeOK
<1>6. ASSUME NEW c \in Calls, SaveBatch(c) \/ CallFails(c)
      PROVE  opening'[o] = opening[o] /\ ClosedForGood(o)'
  BY <1>6 DEF SaveBatch, CallFails, Ends, TypeOK
<1> QED BY NextCases, <1>1, <1>2, <1>3, <1>4, <1>5, <1>6

(* FR-1.9: whatever calls overlap, an opening that is closed stays closed,  *)
(* with its outcome and criteria, from when the last call that read it      *)
(* before has ended.                                                        *)
THEOREM ClosingSettles == Spec => ClosedStays
<1>1. TypeOK /\ [Next]_vars =>
        \A o \in Openings :
          ClosedForGood(o) => opening'[o] = opening[o] /\ ClosedForGood(o)'
  BY ClosedStep
<1> QED BY <1>1, TypeCorrect, PTL DEF Spec, ClosedStays
=============================================================================
