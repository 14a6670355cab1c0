---------------------- MODULE ScreeningHandoverProofs ----------------------
(***************************************************************************)
(* What holds of the screening handover for every value of its constants:  *)
(* its types, that the first answer of a resume stands, that every step is *)
(* one ScreeningPromise allows, how little of what is accepted can be lost,*)
(* that without faults a resume is handled once and both services agree on *)
(* it, and that finished work settles.                                     *)
(***************************************************************************)
EXTENDS ScreeningHandover, FiniteSetTheorems, TLAPS

-----------------------------------------------------------------------------
(* Putting a message into a queue loses none and adds that one.             *)

LEMMA PutBag ==
  ASSUME NEW S, NEW bag \in [S -> Nat], NEW m \in S
  PROVE  /\ Put(bag, m) \in [S -> Nat]
         /\ Put(bag, m)[m] > 0
         /\ \A x \in S : bag[x] > 0 => Put(bag, m)[x] > 0
BY DEF Put

(* Taking a message a queue holds leaves a queue and the other messages.    *)
LEMMA TakeBag ==
  ASSUME NEW S, NEW bag \in [S -> Nat], NEW m \in S, bag[m] > 0
  PROVE  /\ Take(bag, m) \in [S -> Nat]
         /\ \A x \in S : x # m => Take(bag, m)[x] = bag[x]
BY DEF Take

-----------------------------------------------------------------------------
(* A worker sends the copy for the dead-letter queue.                       *)
Buries(w) == Bury(w) \/ BuryRefused(w) \/ BuryDropped(w)

(* queue.js, handle: only a request with retries left goes to the retry     *)
(* queue.  The attempt PublishRetry writes is in range because of it.       *)
RetryBudget ==
  \A w \in Workers : At(w, "retry") => job[w].request.attempt < MaxRetries

(* Every step of the Hiring Service keeps the types.                        *)
LEMMA HiringTypes ==
  ASSUME TypeOK, Hiring
  PROVE  TypeOK'
<1> USE DEF TypeOK, MessagesTypeOK, HiringTypeOK, ResumeTypeOK, messageVars, outboxVars, resumeVars, Fault, Happens, Drops
<1>1. ASSUME NEW S \in SUBSET Resumes \ {{}}, Submit(S), UNCHANGED resumeVars
      PROVE  TypeOK'
  BY <1>1 DEF Submit
<1>2. ASSUME NEW p \in Passes, StartPass(p), UNCHANGED resumeVars
      PROVE  TypeOK'
  BY <1>2 DEF StartPass, Unrequested
<1>3. ASSUME NEW p \in Passes, NEW r \in Resumes, SendRequest(p, r), UNCHANGED resumeVars
      PROVE  TypeOK'
  <2>1. FirstRequest(r) \in Requests
    BY MessageAssumption DEF FirstRequest, Requests
  <2> QED BY <1>3, <2>1, PutBag DEF SendRequest
<1>4. ASSUME NEW p \in Passes, NEW r \in Resumes, MarkRequested(p, r), UNCHANGED resumeVars
      PROVE  TypeOK'
  BY <1>4 DEF MarkRequested
<1>5. ASSUME NEW p \in Passes, NEW r \in Resumes, NEW stored \in BOOLEAN,
             SendFails(p, r, stored), UNCHANGED resumeVars
      PROVE  TypeOK'
  <2>1. FirstRequest(r) \in Requests
    BY MessageAssumption DEF FirstRequest, Requests
  <2> QED BY <1>5, <2>1, PutBag, MessageAssumption DEF SendFails, EndPass
<1>6. ASSUME NEW p \in Passes, MarkRequestedFails(p), UNCHANGED resumeVars
      PROVE  TypeOK'
  BY <1>6, MessageAssumption DEF MarkRequestedFails, EndPass
<1>7. ASSUME NEW a \in Answers, TakeResult(a), UNCHANGED resumeVars
      PROVE  TypeOK'
  BY <1>7, TakeBag DEF TakeResult, Handling
<1>8. ASSUME RecordFirst, UNCHANGED resumeVars
      PROVE  TypeOK'
  BY <1>8 DEF RecordFirst, Handling, IdleConsumer, Answers
<1>9. ASSUME IgnoreRepeat, UNCHANGED resumeVars
      PROVE  TypeOK'
  BY <1>9 DEF IgnoreRepeat, Handling, IdleConsumer
<1>10. ASSUME RefuseResult, UNCHANGED resumeVars
      PROVE  TypeOK'
  <2>1. consumer.answer \in Answers /\ consumer.answer.resume \in Resumes
    BY <1>10 DEF RefuseResult, IdleConsumer, Answers
  <2> QED BY <1>10, <2>1, PutBag DEF RefuseResult, Handling
<1>11. ASSUME AckResult, UNCHANGED resumeVars
      PROVE  TypeOK'
  BY <1>11 DEF AckResult
<1>12. ASSUME RecordFails \/ RefuseFails, UNCHANGED resumeVars
      PROVE  TypeOK'
  <2>1. consumer.answer \in Answers
    BY <1>12 DEF RecordFails, RefuseFails, IdleConsumer
  <2>2. completed' \in [Answers -> Nat]
    BY <1>12, <2>1, PutBag DEF RecordFails, RefuseFails, PutBackResult
  <2> QED BY <1>12, <2>2, MessageAssumption DEF RecordFails, RefuseFails, PutBackResult
<1>13. ASSUME ResultUnacked, UNCHANGED resumeVars
      PROVE  TypeOK'
  <2>1. consumer.answer \in Answers
    BY <1>13 DEF ResultUnacked, IdleConsumer
  <2>2. completed' \in [Answers -> Nat]
    BY <1>13, <2>1, PutBag DEF ResultUnacked, PutBackResult
  <2> QED BY <1>13, <2>2, MessageAssumption DEF ResultUnacked, PutBackResult
<1>14. ASSUME RefusalDropped, UNCHANGED resumeVars
      PROVE  TypeOK'
  <2>1. consumer.answer \in Answers /\ consumer.answer.resume \in Resumes
    BY <1>14 DEF RefusalDropped, IdleConsumer, Answers
  <2> QED BY <1>14, <2>1, MessageAssumption DEF RefusalDropped, Handling
<1>15. ASSUME HiringCrash, UNCHANGED resumeVars
      PROVE  TypeOK'
  <2>1. consumer # IdleConsumer => consumer.answer \in Answers
    OBVIOUS
  <2>2. completed' \in [Answers -> Nat]
    BY <1>15, <2>1, PutBag DEF HiringCrash
  <2> QED BY <1>15, <2>2, MessageAssumption DEF HiringCrash
<1> HIDE DEF TypeOK, MessagesTypeOK, HiringTypeOK, ResumeTypeOK, messageVars, outboxVars, resumeVars, Fault, Happens, Drops
<1> QED
  BY <1>1, <1>2, <1>3, <1>4, <1>5, <1>6, <1>7, <1>8, <1>9, <1>10, <1>11, <1>12, <1>13, <1>14, <1>15
     DEF Hiring, HiringStep, HiringFault, OutboxStep, OutboxFault, ConsumerStep

(* A worker in one of the phases has a delivery, and an answer to publish.  *)
LEMMA BusyWorker ==
  ASSUME ResumeTypeOK, NEW w \in Workers, job[w].phase \in Phases
  PROVE  /\ job[w] \in Jobs
         /\ job[w].request \in Requests
         /\ job[w].request.attempt \in 0 .. MaxRetries
         /\ Resume(w) \in Resumes
         /\ AnswerOf(w) \in Answers
<1>1. job[w] \in Jobs
  BY DEF ResumeTypeOK, Idle, Phases
<1>2. job[w].request \in Requests
  BY <1>1 DEF Jobs
<1> QED BY <1>1, <1>2 DEF Jobs, Requests, Resume, AnswerOf, Answers

(* A busy worker that goes on to another phase has a well-typed job.        *)
LEMMA GoTypes ==
  ASSUME ResumeTypeOK, NEW w \in Workers, job[w].phase \in Phases,
         NEW phase \in Phases, Go(w, phase)
  PROVE  job' \in [Workers -> Jobs \cup {Idle}]
<1>1. job[w] \in Jobs
  BY BusyWorker
<1>2. [job[w] EXCEPT !.phase = phase] \in Jobs
  BY <1>1 DEF Jobs
<1> QED BY <1>2 DEF Go, ResumeTypeOK

(* So has one whose work failed, whether it retries or buries.              *)
LEMMA FailsTypes ==
  ASSUME ResumeTypeOK, NEW w \in Workers, job[w].phase \in Phases,
         NEW permanent, Fails(w, permanent)
  PROVE  job' \in [Workers -> Jobs \cup {Idle}]
BY GoTypes DEF Fails, Phases

(* So has one that takes an answer of some verdict with it.                 *)
LEMMA AnsweringTypes ==
  ASSUME ResumeTypeOK, NEW w \in Workers, job[w].phase \in Phases,
         NEW phase \in Phases, NEW verdict \in Verdicts, NEW identified \in BOOLEAN,
         Answering(w, phase, verdict, identified)
  PROVE  job' \in [Workers -> Jobs \cup {Idle}]
<1>1. job[w] \in Jobs
  BY BusyWorker
<1>2. [job[w] EXCEPT !.phase = phase, !.verdict = verdict, !.identified = identified] \in Jobs
  BY <1>1 DEF Jobs
<1> QED BY <1>2 DEF Answering, ResumeTypeOK

(* A worker that stops is idle.                                             *)
LEMMA StopTypes ==
  ASSUME ResumeTypeOK, NEW w \in Workers, Stop(w)
  PROVE  job' \in [Workers -> Jobs \cup {Idle}]
BY DEF Stop, ResumeTypeOK

(* Every step of Resume Processing keeps the types.                         *)
LEMMA ResumeTypes ==
  ASSUME TypeOK, RetryBudget, ResumeProcessing
  PROVE  TypeOK'
<1> USE DEF MessagesTypeOK, ResumeTypeOK
<1>a. ASSUME UNCHANGED hiringVars, MessagesTypeOK', ResumeTypeOK'
      PROVE  TypeOK'
  BY <1>a DEF TypeOK, HiringTypeOK, hiringVars
<1>b. MessagesTypeOK /\ ResumeTypeOK
  BY DEF TypeOK
<1> DEFINE Goal == MessagesTypeOK' /\ ResumeTypeOK'
<1>1. ASSUME NEW w \in Workers, Deliver(w)
      PROVE  Goal
  <2>1. PICK m \in Requests : /\ requested[m] > 0
                              /\ requested' = Take(requested, m)
                              /\ job' = [job EXCEPT ![w] = Started(m)]
    BY <1>1 DEF Deliver
  <2>2. Started(m) \in Jobs
    BY DEF Started, Jobs, Phases, Verdicts
  <2> QED BY <1>1, <1>b, <2>1, <2>2, TakeBag DEF Deliver
<1>2. ASSUME NEW w \in Workers, FindFinished(w)
      PROVE  Goal
  <2>1. job[w].phase \in Phases /\ Resume(w) \in Resumes
    BY <1>2, <1>b, BusyWorker DEF FindFinished, At, Phases
  <2>2. doc[Resume(w)].status \in Verdicts /\ doc[Resume(w)].identified \in BOOLEAN
    BY <1>2, <1>b, <2>1 DEF FindFinished, Finished, Verdicts, Docs
  <2>3. job' \in [Workers -> Jobs \cup {Idle}]
    BY <1>2, <1>b, <2>1, <2>2, AnsweringTypes DEF FindFinished, Phases
  <2> QED BY <1>2, <1>b, <2>3 DEF FindFinished, queueVars
<1>3. ASSUME NEW w \in Workers, FindUnfinished(w)
      PROVE  Goal
  <2>1. job[w] \in Jobs
    BY <1>3, <1>b, BusyWorker DEF FindUnfinished, At, Phases
  <2>2. [job[w] EXCEPT !.phase = "claim", !.fresh = (doc[Resume(w)].status = "none")] \in Jobs
    BY <2>1 DEF Jobs, Phases
  <2> QED BY <1>3, <1>b, <2>2 DEF FindUnfinished, queueVars
<1>4. ASSUME NEW w \in Workers, ClaimNew(w)
      PROVE  Goal
  <2>1. job[w].phase \in Phases
    BY <1>4 DEF ClaimNew, At, Phases
  <2>2. job' \in [Workers -> Jobs \cup {Idle}]
    BY <1>4, <1>b, <2>1, GoTypes DEF ClaimNew, Phases
  <2>3. doc' \in [Resumes -> Docs]
    BY <1>4, <1>b DEF ClaimNew, Docs
  <2> QED BY <1>4, <1>b, <2>2, <2>3 DEF ClaimNew, queueVars
<1>5. ASSUME NEW w \in Workers, ClaimTaken(w)
      PROVE  Goal
  <2>1. job[w].phase \in Phases
    BY <1>5 DEF ClaimTaken, At, Phases
  <2>2. job' \in [Workers -> Jobs \cup {Idle}]
    BY <1>5, <1>b, <2>1, FailsTypes DEF ClaimTaken
  <2> QED BY <1>5, <1>b, <2>2 DEF ClaimTaken, queueVars
<1>6. ASSUME NEW w \in Workers, ClaimAgain(w)
      PROVE  Goal
  <2>1. job[w].phase \in Phases
    BY <1>6 DEF ClaimAgain, At, Phases
  <2>2. job' \in [Workers -> Jobs \cup {Idle}]
    BY <1>6, <1>b, <2>1, GoTypes DEF ClaimAgain, Phases
  <2>3. doc' \in [Resumes -> Docs]
    BY <1>6, <1>b DEF ClaimAgain, Docs
  <2> QED BY <1>6, <1>b, <2>2, <2>3 DEF ClaimAgain, queueVars
<1>7. ASSUME NEW w \in Workers, NEW verdict \in Finished, Finish(w, verdict)
      PROVE  Goal
  <2>1. job[w].phase \in Phases /\ Resume(w) \in Resumes
    BY <1>7, <1>b, BusyWorker DEF Finish, At, Phases
  <2>2. verdict \in Verdicts /\ doc[Resume(w)].identified \in BOOLEAN
    BY <1>b, <2>1 DEF Finished, Verdicts, Docs
  <2>3. job' \in [Workers -> Jobs \cup {Idle}]
    BY <1>7, <1>b, <2>1, <2>2, AnsweringTypes DEF Finish, Phases
  <2>4. doc' \in [Resumes -> Docs]
    BY <1>7, <1>b DEF Finish, Docs
  <2> QED BY <1>7, <1>b, <2>3, <2>4 DEF Finish, queueVars
<1>8. ASSUME NEW w \in Workers, NEW permanent \in BOOLEAN, WorkFails(w, permanent)
      PROVE  Goal
  <2>1. job[w].phase \in Phases
    BY <1>8 DEF WorkFails, At, Phases
  <2>2. job' \in [Workers -> Jobs \cup {Idle}]
    BY <1>8, <1>b, <2>1, FailsTypes DEF WorkFails
  <2> QED BY <1>8, <1>b, <2>2 DEF WorkFails, queueVars
<1>9. ASSUME NEW w \in Workers, PublishAnswer(w)
      PROVE  Goal
  <2>1. job[w].phase \in Phases
    BY <1>9 DEF PublishAnswer, At, Phases
  <2>2. AnswerOf(w) \in Answers
    BY <1>b, <2>1, BusyWorker
  <2>3. job' \in [Workers -> Jobs \cup {Idle}]
    BY <1>9, <1>b, <2>1, GoTypes DEF PublishAnswer, Phases
  <2> QED BY <1>9, <1>b, <2>2, <2>3, PutBag DEF PublishAnswer
<1>10. ASSUME NEW w \in Workers, PublishRetry(w)
      PROVE  Goal
  <2>1. job[w].phase \in Phases
    BY <1>10 DEF PublishRetry, At, Phases
  <2>2. job[w].request \in Requests /\ job[w].request.attempt < MaxRetries
    BY <1>10, <1>b, <2>1, BusyWorker DEF PublishRetry, RetryBudget
  <2>3. [job[w].request EXCEPT !.attempt = @ + 1] \in Requests
    BY <2>2, MessageAssumption DEF Requests
  <2>4. job' \in [Workers -> Jobs \cup {Idle}]
    BY <1>10, <1>b, <2>1, GoTypes DEF PublishRetry, Phases
  <2> QED BY <1>10, <1>b, <2>3, <2>4, PutBag DEF PublishRetry
<1>11. ASSUME NEW w \in Workers, Bury(w)
      PROVE  Goal
  <2>1. job[w] \in Jobs /\ Resume(w) \in Resumes
    BY <1>11, <1>b, BusyWorker DEF Bury, At, Phases
  <2>2. [job[w] EXCEPT !.phase = "mark", !.copy = "kept"] \in Jobs
    BY <2>1 DEF Jobs, Phases
  <2>3. deadLettered' \in [Resumes -> Nat]
    BY <1>11, <1>b, <2>1, PutBag DEF Bury
  <2> QED BY <1>11, <1>b, <2>2, <2>3 DEF Bury
<1>12. ASSUME NEW w \in Workers, MarkFailed(w)
      PROVE  Goal
  <2>1. job[w].phase \in Phases /\ Resume(w) \in Resumes
    BY <1>12, <1>b, BusyWorker DEF MarkFailed, At, Phases
  <2>2. "failed" \in Verdicts /\ doc[Resume(w)].identified \in BOOLEAN
    BY <1>b, <2>1 DEF Verdicts, Docs
  <2>3. job' \in [Workers -> Jobs \cup {Idle}]
    BY <1>12, <1>b, <2>1, <2>2, AnsweringTypes DEF MarkFailed, Phases
  <2>4. doc' \in [Resumes -> Docs]
    BY <1>12, <1>b DEF MarkFailed, Docs
  <2> QED BY <1>12, <1>b, <2>3, <2>4 DEF MarkFailed, queueVars
<1>13. ASSUME NEW w \in Workers, ReportFailed(w)
      PROVE  Goal
  <2>1. job[w].phase \in Phases
    BY <1>13 DEF ReportFailed, At, Phases
  <2>2. AnswerOf(w) \in Answers
    BY <1>b, <2>1, BusyWorker
  <2>3. job' \in [Workers -> Jobs \cup {Idle}]
    BY <1>13, <1>b, <2>1, GoTypes DEF ReportFailed, AfterReport, Phases
  <2> QED BY <1>13, <1>b, <2>2, <2>3, PutBag DEF ReportFailed
<1>14. ASSUME NEW w \in Workers, Ack(w)
      PROVE  Goal
  BY <1>14, <1>b, StopTypes DEF Ack, queueVars
<1>15. ASSUME NEW w \in Workers, Abandon(w)
      PROVE  Goal
  BY <1>15, <1>b, StopTypes DEF Abandon, queueVars
<1>16. ASSUME NEW w \in Workers, Nack(w)
      PROVE  Goal
  <2>1. job[w].request \in Requests
    BY <1>16, <1>b, BusyWorker DEF Nack, At, Phases
  <2> QED BY <1>16, <1>b, <2>1, StopTypes, PutBag DEF Nack
<1>17. ASSUME NEW m \in Requests, ExpireRetry(m)
      PROVE  Goal
  BY <1>17, <1>b, PutBag, TakeBag DEF ExpireRetry
<1>18. ASSUME NEW r \in Resumes, Replay(r) \/ ReplayInterrupted(r) \/ ReplayDropped(r)
      PROVE  Goal
  <2>1. FirstRequest(r) \in Requests
    BY MessageAssumption DEF FirstRequest, Requests
  <2>2. requested' \in [Requests -> Nat]
    BY <1>18, <1>b, <2>1, PutBag DEF Replay, ReplayInterrupted, ReplayDropped
  <2>3. deadLettered' \in [Resumes -> Nat]
    BY <1>18, <1>b, TakeBag DEF Replay, ReplayInterrupted, ReplayDropped
  <2> QED BY <1>18, <1>b, <2>2, <2>3, ResumeAssumption, MessageAssumption
          DEF Replay, ReplayInterrupted, ReplayDropped, Fault, Happens, Drops
<1>19. ASSUME NEW w \in Workers, StoreFails(w)
      PROVE  Goal
  <2>1. job' \in [Workers -> Jobs \cup {Idle}]
    BY <1>19, <1>b, FailsTypes DEF StoreFails, Phases
  <2> QED BY <1>19, <1>b, <2>1, MessageAssumption DEF StoreFails, Fault, Happens, queueVars
<1>20. ASSUME NEW w \in Workers, MarkFails(w)
      PROVE  Goal
  <2>1. job' \in [Workers -> Jobs \cup {Idle}]
    BY <1>20, <1>b, GoTypes DEF MarkFails, At, AfterReport, Phases
  <2> QED BY <1>20, <1>b, <2>1, MessageAssumption DEF MarkFails, Fault, Happens, queueVars
<1>21. ASSUME NEW w \in Workers, PublishRefused(w)
      PROVE  Goal
  <2>1. job' \in [Workers -> Jobs \cup {Idle}]
    BY <1>21, <1>b, GoTypes DEF PublishRefused, At, Phases
  <2> QED BY <1>21, <1>b, <2>1, MessageAssumption DEF PublishRefused, Fault, Happens, queueVars
<1>22. ASSUME NEW w \in Workers, BuryRefused(w) \/ BuryDropped(w)
      PROVE  Goal
  <2>1. job[w] \in Jobs /\ Resume(w) \in Resumes
    BY <1>22, <1>b, BusyWorker DEF BuryRefused, BuryDropped, At, Phases
  <2>2. \A copy \in {"refused", "dropped"} :
          [job[w] EXCEPT !.phase = "mark", !.copy = copy] \in Jobs
    BY <2>1 DEF Jobs, Phases
  <2>3. job' \in [Workers -> Jobs \cup {Idle}]
    BY <1>22, <1>b, <2>2 DEF BuryRefused, BuryDropped
  <2> QED BY <1>22, <1>b, <2>1, <2>3, MessageAssumption
          DEF BuryRefused, BuryDropped, Fault, Happens, Drops, queueVars
<1>23. ASSUME NEW w \in Workers, LoseChannel(w)
      PROVE  Goal
  <2>1. job[w] \in Jobs
    BY <1>23, <1>b DEF LoseChannel
  <2>2. job[w].request \in Requests /\ [job[w] EXCEPT !.live = FALSE] \in Jobs
    BY <2>1 DEF Jobs
  <2> QED BY <1>23, <1>b, <2>2, PutBag, MessageAssumption DEF LoseChannel, Fault, Happens
<1>24. ASSUME NEW w \in Workers, WorkerCrash(w)
      PROVE  Goal
  <2>1. job[w].request \in Requests
    BY <1>24, <1>b DEF WorkerCrash, Jobs
  <2>2. requested' \in [Requests -> Nat]
    BY <1>24, <1>b, <2>1, PutBag DEF WorkerCrash
  <2> QED BY <1>24, <1>b, <2>2, StopTypes, MessageAssumption DEF WorkerCrash, Fault, Happens
<1> HIDE DEF MessagesTypeOK, ResumeTypeOK, Goal
<1>c. Goal
  BY <1>1, <1>2, <1>3, <1>4, <1>5, <1>6, <1>7, <1>8, <1>9, <1>10, <1>11, <1>12, <1>13, <1>14, <1>15, <1>16, <1>17, <1>18, <1>19, <1>20, <1>21, <1>22, <1>23, <1>24
     DEF ResumeProcessing, ResumeStep, ResumeFault, WorkerStep, WorkerFault
<1> QED BY <1>a, <1>c DEF Goal, ResumeProcessing

(* Only Fails sends a worker to the retry queue, and it checks the budget.  *)
LEMMA RetryBudgetKept ==
  ASSUME TypeOK, RetryBudget, Next
  PROVE  RetryBudget'
<1> USE DEF RetryBudget, At
<1>a. job \in [Workers -> Jobs \cup {Idle}]
  BY DEF TypeOK, ResumeTypeOK
<1>1. ASSUME Hiring
      PROVE  RetryBudget'
  BY <1>1 DEF Hiring, resumeVars
<1>2. ASSUME NEW w \in Workers, NEW phase \in Phases \ {"retry"}, Go(w, phase)
      PROVE  RetryBudget'
  BY <1>a, <1>2 DEF Go
<1>3. ASSUME NEW w \in Workers, NEW permanent, Fails(w, permanent)
      PROVE  RetryBudget'
  BY <1>a, <1>3 DEF Fails, Go
<1>4. ASSUME NEW w \in Workers, NEW phase \in Phases \ {"retry"}, NEW verdict,
             NEW identified, Answering(w, phase, verdict, identified)
      PROVE  RetryBudget'
  BY <1>a, <1>4 DEF Answering
<1>5. ASSUME NEW w \in Workers, Stop(w)
      PROVE  RetryBudget'
  BY <1>a, <1>5 DEF Stop, Idle
<1>6. ASSUME NEW w \in Workers, Deliver(w) \/ FindUnfinished(w) \/ Buries(w) \/ LoseChannel(w)
      PROVE  RetryBudget'
  <2>1. CASE Deliver(w)
    BY <1>a, <2>1 DEF Deliver, Started
  <2>2. CASE FindUnfinished(w)
    BY <1>a, <2>2 DEF FindUnfinished, Jobs, Idle
  <2>3. CASE Buries(w)
    BY <1>a, <2>3 DEF Buries, Bury, BuryRefused, BuryDropped, Jobs, Idle
  <2>4. CASE LoseChannel(w)
    <3>1. job[w] \in Jobs
      BY <1>a, <2>4 DEF LoseChannel
    <3>2. /\ [job[w] EXCEPT !.live = FALSE].phase = job[w].phase
          /\ [job[w] EXCEPT !.live = FALSE].request = job[w].request
      BY <3>1 DEF Jobs
    <3> QED BY <1>a, <2>4, <3>2 DEF LoseChannel
  <2> QED BY <1>6, <2>1, <2>2, <2>3, <2>4
<1>7. ASSUME NEW w \in Workers, WorkerStep(w)
      PROVE  RetryBudget'
  <2> HIDE DEF RetryBudget
  <2>1. CASE Deliver(w) \/ FindUnfinished(w) \/ Bury(w)
    BY <1>6, <2>1 DEF Buries
  <2>2. CASE ClaimNew(w) \/ ClaimAgain(w) \/ PublishAnswer(w) \/ PublishRetry(w) \/ ReportFailed(w)
    BY <1>2, <2>2 DEF ClaimNew, ClaimAgain, PublishAnswer, PublishRetry, ReportFailed, AfterReport, Phases
  <2>3. CASE ClaimTaken(w) \/ \E permanent \in BOOLEAN : WorkFails(w, permanent)
    BY <1>3, <2>3 DEF ClaimTaken, WorkFails
  <2>4. CASE FindFinished(w) \/ MarkFailed(w) \/ \E verdict \in Finished : Finish(w, verdict)
    BY <1>4, <2>4 DEF FindFinished, MarkFailed, Finish, Phases
  <2>5. CASE Ack(w) \/ Nack(w) \/ Abandon(w)
    BY <1>5, <2>5 DEF Ack, Nack, Abandon
  <2> QED BY <1>7, <2>1, <2>2, <2>3, <2>4, <2>5 DEF WorkerStep
<1>8. ASSUME NEW w \in Workers, WorkerFault(w)
      PROVE  RetryBudget'
  <2> HIDE DEF RetryBudget
  <2>1. CASE StoreFails(w)
    BY <1>3, <2>1 DEF StoreFails
  <2>2. CASE MarkFails(w) \/ PublishRefused(w)
    BY <1>2, <2>2 DEF MarkFails, PublishRefused, AfterReport, Phases
  <2>3. CASE BuryRefused(w) \/ BuryDropped(w) \/ LoseChannel(w)
    BY <1>6, <2>3 DEF Buries
  <2>4. CASE WorkerCrash(w)
    BY <1>5, <2>4 DEF WorkerCrash
  <2> QED BY <1>8, <2>1, <2>2, <2>3, <2>4 DEF WorkerFault
<1>9. ASSUME UNCHANGED job
      PROVE  RetryBudget'
  BY <1>9
<1> HIDE DEF RetryBudget
<1> QED
  BY <1>1, <1>7, <1>8, <1>9
     DEF Next, ResumeProcessing, ResumeStep, ResumeFault, ExpireRetry, Replay, ReplayInterrupted, ReplayDropped

(* The empty queues, rows and documents of the start are well typed.        *)
LEMMA InitTypes == Init => TypeOK /\ RetryBudget
BY MessageAssumption, ResumeAssumption
   DEF Init, MessagesInit, HiringInit, ResumeInit, EmptyBag, TypeOK, MessagesTypeOK,
       HiringTypeOK, ResumeTypeOK, NoDoc, Docs, Idle, RetryBudget, At

(* Every state of the handover is well typed: in particular no message ever *)
(* leaves a queue that does not hold it, and no retry passes the budget of  *)
(* MAX_RETRIES (queue.js, handle).                                          *)
THEOREM TypeCorrect == Safe => [](TypeOK /\ RetryBudget)
<1>1. Init => TypeOK /\ RetryBudget
  BY InitTypes
<1>2. TypeOK /\ RetryBudget /\ [Next]_vars => TypeOK' /\ RetryBudget'
  <2>1. ASSUME TypeOK, RetryBudget, Next
        PROVE  TypeOK' /\ RetryBudget'
    BY <2>1, HiringTypes, ResumeTypes, RetryBudgetKept DEF Next
  <2>2. ASSUME TypeOK, RetryBudget, UNCHANGED vars
        PROVE  TypeOK' /\ RetryBudget'
    BY <2>2 DEF vars, messageVars, hiringVars, resumeVars, TypeOK, MessagesTypeOK,
                HiringTypeOK, ResumeTypeOK, RetryBudget, At
  <2> QED BY <2>1, <2>2
<1> QED BY <1>1, <1>2, PTL DEF Safe

(* Only a submission and the first answer write the row of a resume.        *)
LEMMA EntrySteps ==
  ASSUME TypeOK, Next
  PROVE  \/ UNCHANGED entry
         \/ \E S \in SUBSET Resumes : Submit(S)
         \/ /\ RecordFirst
            /\ consumer.answer.resume \in Resumes
            /\ consumer.answer.verdict \in Verdicts
<1>1. RecordFirst => consumer.answer \in Answers
  BY DEF RecordFirst, TypeOK, HiringTypeOK, IdleConsumer
<1> QED
  BY <1>1
     DEF Answers, Next, Hiring, ResumeProcessing, hiringVars, outboxVars, HiringStep, HiringFault,
         OutboxStep, OutboxFault, ConsumerStep, StartPass, SendRequest, MarkRequested, SendFails,
         MarkRequestedFails, TakeResult, IgnoreRepeat, RefuseResult, AckResult, RecordFails,
         RefuseFails, RefusalDropped, ResultUnacked, HiringCrash

(* A step leaves every answer as it is.                                     *)
LEMMA AnswerStands ==
  ASSUME TypeOK, Next, NEW r \in Resumes, entry[r] \in Verdicts
  PROVE  entry'[r] = entry[r]
<1>1. "absent" \notin Verdicts /\ "pending" \notin Verdicts
  BY MessageAssumption DEF Verdicts
<1> QED BY <1>1, EntrySteps DEF Submit, RecordFirst, TypeOK, HiringTypeOK

(* The first answer of a resume stands (RecordResult, checkScreened): no    *)
(* repeat, retry, replay or fault changes it.                               *)
THEOREM FirstAnswer == Safe => FirstAnswerStands
<1>1. TypeOK /\ [Next]_vars => \A r \in Resumes : entry[r] \in Verdicts => entry'[r] = entry[r]
  <2>1. TypeOK /\ Next => \A r \in Resumes : entry[r] \in Verdicts => entry'[r] = entry[r]
    BY AnswerStands
  <2> QED BY <2>1 DEF vars, hiringVars
<1> QED BY <1>1, TypeCorrect, PTL DEF Safe, FirstAnswerStands

(* The handover, whatever faults it meets, does to a resume only what       *)
(* ScreeningPromise allows: accept it once, answer it once.                 *)
THEOREM Implements == Safe => Promise!Safe
<1>1. Init => Promise!Init
  BY DEF Init, HiringInit, Promise!Init
<1>2. TypeOK /\ [Next]_vars => [Promise!Next]_entry
  <2>1. ASSUME TypeOK, Next
        PROVE  Promise!Next \/ UNCHANGED entry
    <3>1. ASSUME NEW S \in SUBSET Resumes, Submit(S)
          PROVE  Promise!Next
      BY <3>1 DEF Submit, Promise!Next, Promise!Accept
    <3>2. ASSUME RecordFirst, consumer.answer.resume \in Resumes,
                 consumer.answer.verdict \in Verdicts
          PROVE  Promise!Next
      BY <3>2 DEF RecordFirst, Promise!Next, Promise!Answer
    <3> QED BY <2>1, <3>1, <3>2, EntrySteps
  <2> QED BY <2>1 DEF vars, hiringVars
<1> QED BY <1>1, <1>2, TypeCorrect, PTL DEF Safe, Promise!Safe

-----------------------------------------------------------------------------
(* Nothing accepted is lost.                                                *)
(*                                                                          *)
(* NoResumeLost is not inductive: the step that sets requested_at needs to  *)
(* know that the broker has the request since its confirmation, and the step*)
(* that acknowledges a buried request needs to know what became of the copy.*)
(* IInv adds both.  The argument is then that every step of either service  *)
(* hands a resume on before it lets go of it, or is a refusal nobody waits  *)
(* for.                                                                     *)

(* A pass works on stored resumes, and only those are marked requested.     *)
OutboxOK ==
  /\ \A p \in Passes : \A r \in todo[p] : entry[r] # "absent"
  /\ \A p \in Passes : confirmed[p] \subseteq todo[p]
  /\ \A r \in Resumes : requestedAt[r] => entry[r] # "absent"

(* A worker that goes on to mark the failure sent a copy to the DLQ: the    *)
(* broker has it, settle will see that it has not, or nobody will.          *)
CopyOK ==
  \A w \in Workers : job[w].phase \in {"mark", "report"} =>
    \/ job[w].copy \in {"kept", "refused"}
    \/ job[w].copy = "dropped" /\ Resume(w) \in dropped

Sent(r) == requestedAt[r] \/ \E p \in Passes : r \in confirmed[p]

NotLost(r) == Carried(r) \/ r \in dropped

(* From its confirmation on, a pending resume is carried by someone, unless *)
(* the broker refused a message about it unnoticed.                         *)
SentIsCarried == \A r \in Resumes : entry[r] = "pending" /\ Sent(r) => NotLost(r)

IInv == TypeOK /\ RetryBudget /\ OutboxOK /\ CopyOK /\ SentIsCarried

-----------------------------------------------------------------------------
(* Submissions, passes and the consumer keep the outbox in order.           *)
LEMMA OutboxKept ==
  ASSUME TypeOK, OutboxOK, Next
  PROVE  OutboxOK'
<1> USE DEF OutboxOK
<1>a. /\ entry \in [Resumes -> {"absent", "pending"} \cup Verdicts]
      /\ requestedAt \in [Resumes -> BOOLEAN]
      /\ todo \in [Passes -> SUBSET Resumes]
      /\ confirmed \in [Passes -> SUBSET Resumes]
  BY DEF TypeOK, HiringTypeOK
<1>b. "absent" \notin Verdicts
  BY MessageAssumption DEF Verdicts
<1>1. ASSUME NEW S \in SUBSET Resumes \ {{}}, Submit(S)
      PROVE  OutboxOK'
  BY <1>a, <1>1 DEF Submit
<1>2. ASSUME NEW p \in Passes, StartPass(p)
      PROVE  OutboxOK'
  <2>1. confirmed[p] = {}
    BY <1>a, <1>2 DEF StartPass, PublishingFree
  <2> QED BY <1>a, <1>2, <2>1 DEF StartPass, Unrequested
<1>3. ASSUME NEW p \in Passes, NEW r \in Resumes, SendRequest(p, r)
      PROVE  OutboxOK'
  BY <1>a, <1>3 DEF SendRequest
<1>4. ASSUME NEW p \in Passes, NEW r \in Resumes, MarkRequested(p, r)
      PROVE  OutboxOK'
  BY <1>a, <1>4 DEF MarkRequested
<1>5. ASSUME NEW p \in Passes, OutboxFault(p)
      PROVE  OutboxOK'
  BY <1>a, <1>5 DEF OutboxFault, SendFails, MarkRequestedFails, EndPass
<1>6. ASSUME RecordFirst
      PROVE  OutboxOK'
  <2>1. consumer.answer.verdict \in Verdicts
    BY <1>6 DEF RecordFirst, TypeOK, HiringTypeOK, IdleConsumer, Answers
  <2> QED BY <1>a, <1>b, <1>6, <2>1 DEF RecordFirst
<1>7. ASSUME HiringCrash
      PROVE  OutboxOK'
  BY <1>a, <1>7 DEF HiringCrash
<1>8. ASSUME UNCHANGED outboxVars
      PROVE  OutboxOK'
  BY <1>8 DEF outboxVars
<1>9. ASSUME UNCHANGED hiringVars
      PROVE  OutboxOK'
  BY <1>9 DEF hiringVars
<1> HIDE DEF OutboxOK
<1> QED
  BY <1>1, <1>2, <1>3, <1>4, <1>5, <1>6, <1>7, <1>8, <1>9
     DEF Next, Hiring, ResumeProcessing, HiringStep, HiringFault, OutboxStep, ConsumerStep,
         TakeResult, IgnoreRepeat, RefuseResult, AckResult, RecordFails, RefuseFails,
         RefusalDropped, ResultUnacked

(* What the broker refused unnoticed is not forgotten.                      *)
LEMMA DroppedStays ==
  ASSUME Next
  PROVE  dropped \subseteq dropped'
<1> USE DEF messageVars, Fault, Drops
<1>1. ASSUME NEW S, Submit(S)
      PROVE  dropped \subseteq dropped'
  BY <1>1 DEF Submit
<1>2. ASSUME NEW p \in Passes, OutboxStep(p) \/ OutboxFault(p)
      PROVE  dropped \subseteq dropped'
  BY <1>2 DEF OutboxStep, OutboxFault, StartPass, SendRequest, MarkRequested, SendFails,
              MarkRequestedFails
<1>3. ASSUME ConsumerStep
      PROVE  dropped \subseteq dropped'
  BY <1>3 DEF ConsumerStep, TakeResult, RecordFirst, IgnoreRepeat, RefuseResult, AckResult
<1>4. ASSUME RecordFails \/ RefuseFails \/ RefusalDropped \/ ResultUnacked \/ HiringCrash
      PROVE  dropped \subseteq dropped'
  BY <1>4 DEF RecordFails, RefuseFails, RefusalDropped, ResultUnacked, HiringCrash
<1>5. ASSUME NEW w \in Workers, WorkerStep(w)
      PROVE  dropped \subseteq dropped'
  BY <1>5 DEF WorkerStep, Deliver, FindFinished, FindUnfinished, ClaimNew, ClaimTaken, ClaimAgain,
              Finish, WorkFails, PublishAnswer, PublishRetry, Bury, MarkFailed, ReportFailed, Ack,
              Nack, Abandon
<1>6. ASSUME NEW w \in Workers, WorkerFault(w)
      PROVE  dropped \subseteq dropped'
  BY <1>6 DEF WorkerFault, StoreFails, MarkFails, PublishRefused, BuryRefused, BuryDropped,
              LoseChannel, WorkerCrash
<1>7. ASSUME NEW m \in Requests, ExpireRetry(m)
      PROVE  dropped \subseteq dropped'
  BY <1>7 DEF ExpireRetry
<1>8. ASSUME NEW r \in Resumes, Replay(r) \/ ReplayInterrupted(r) \/ ReplayDropped(r)
      PROVE  dropped \subseteq dropped'
  BY <1>8 DEF Replay, ReplayInterrupted, ReplayDropped
<1> QED
  BY <1>1, <1>2, <1>3, <1>4, <1>5, <1>6, <1>7, <1>8
     DEF Next, Hiring, HiringStep, HiringFault, ResumeProcessing, ResumeStep, ResumeFault

(* A worker comes to mark or report with a copy it has just sent, and goes  *)
(* from the one to the other without another.                               *)
LEMMA CopyOKKept ==
  ASSUME TypeOK, CopyOK, Next
  PROVE  CopyOK'
<1> USE DEF At
<1>a. job \in [Workers -> Jobs \cup {Idle}] /\ dropped \subseteq dropped'
  BY DroppedStays DEF TypeOK, ResumeTypeOK
<1>b. Idle.phase \notin Phases /\ "mark" \in Phases /\ "bury" \in Phases
  BY DEF Idle, Phases
<1>0. ASSUME NEW w \in Workers, \A v \in Workers \ {w} : job'[v] = job[v],
             \/ job'[w].phase \notin {"mark", "report"}
             \/ job'[w].copy \in {"kept", "refused"}
             \/ job'[w].copy = "dropped" /\ job'[w].request.resume \in dropped'
             \/ /\ job[w].phase \in {"mark", "report"}
                /\ job'[w].copy = job[w].copy /\ job'[w].request = job[w].request
      PROVE  CopyOK'
  BY <1>a, <1>0 DEF CopyOK, Resume
<1>1. ASSUME NEW w \in Workers, NEW phase \in Phases \ {"mark", "report"}, Go(w, phase)
      PROVE  CopyOK'
  <2>1. CASE job[w] = Idle
    BY <1>0, <1>a, <1>1, <2>1 DEF Go, Idle
  <2>2. CASE job[w] \in Jobs
    <3>1. [job[w] EXCEPT !.phase = phase].phase = phase
      BY <2>2 DEF Jobs
    <3> QED BY <1>0, <1>a, <1>1, <3>1 DEF Go
  <2> QED BY <1>a, <2>1, <2>2
<1>2. ASSUME NEW w \in Workers, NEW verdict, NEW identified, job[w] \in Jobs,
             Answering(w, "answer", verdict, identified)
      PROVE  CopyOK'
  <2>1. [job[w] EXCEPT !.phase = "answer", !.verdict = verdict, !.identified = identified].phase = "answer"
    BY <1>2 DEF Jobs
  <2> QED BY <1>0, <1>a, <1>2, <2>1 DEF Answering
<1>3. ASSUME NEW w \in Workers, Stop(w)
      PROVE  CopyOK'
  BY <1>0, <1>a, <1>3 DEF Stop, Idle
<1>4. ASSUME NEW w \in Workers, Deliver(w)
      PROVE  CopyOK'
  BY <1>0, <1>a, <1>4 DEF Deliver, Started
<1>5. ASSUME NEW w \in Workers, FindUnfinished(w)
      PROVE  CopyOK'
  <2>1. job[w] \in Jobs
    BY <1>a, <1>5 DEF FindUnfinished, Idle
  <2>2. [job[w] EXCEPT !.phase = "claim", !.fresh = (doc[Resume(w)].status = "none")].phase = "claim"
    BY <2>1 DEF Jobs
  <2> QED BY <1>0, <1>a, <1>5, <2>2 DEF FindUnfinished
<1>6. ASSUME NEW w \in Workers, Buries(w)
      PROVE  CopyOK'
  <2>1. job[w] \in Jobs
    BY <1>a, <1>b, <1>6 DEF Buries, Bury, BuryRefused, BuryDropped
  <2>2. PICK copy \in {"kept", "refused", "dropped"} :
          /\ job' = [job EXCEPT ![w].phase = "mark", ![w].copy = copy]
          /\ copy = "dropped" => Resume(w) \in dropped'
    BY <1>6 DEF Buries, Bury, BuryRefused, BuryDropped, Drops
  <2>3. PICK j : j = [job[w] EXCEPT !.phase = "mark", !.copy = copy]
    OBVIOUS
  <2>4. j.copy = copy /\ j.request = job[w].request
    BY <2>1, <2>3 DEF Jobs
  <2>5. job'[w] = j /\ \A v \in Workers \ {w} : job'[v] = job[v]
    BY <1>a, <2>2, <2>3
  <2> QED BY <1>0, <2>2, <2>4, <2>5 DEF Resume
<1>7. ASSUME NEW w \in Workers, MarkFailed(w)
      PROVE  CopyOK'
  <2>1. job[w] \in Jobs
    BY <1>a, <1>b, <1>7 DEF MarkFailed
  <2>2. PICK j : j = [job[w] EXCEPT !.phase = "report", !.verdict = "failed",
                                    !.identified = doc[Resume(w)].identified]
    OBVIOUS
  <2>3. j.copy = job[w].copy /\ j.request = job[w].request
    BY <2>1, <2>2 DEF Jobs
  <2>4. job'[w] = j /\ \A v \in Workers \ {w} : job'[v] = job[v]
    BY <1>a, <1>7, <2>2 DEF MarkFailed, Answering
  <2> QED BY <1>0, <1>7, <2>3, <2>4 DEF MarkFailed
<1>8. ASSUME NEW w \in Workers, LoseChannel(w)
      PROVE  CopyOK'
  <2>1. job[w] \in Jobs
    BY <1>a, <1>8 DEF LoseChannel
  <2>2. PICK j : j = [job[w] EXCEPT !.live = FALSE]
    OBVIOUS
  <2>3. j.phase = job[w].phase /\ j.copy = job[w].copy /\ j.request = job[w].request
    BY <2>1, <2>2 DEF Jobs
  <2>4. job'[w] = j /\ \A v \in Workers \ {w} : job'[v] = job[v]
    BY <1>a, <1>8, <2>2 DEF LoseChannel
  <2> QED BY <1>0, <2>3, <2>4
<1>9. ASSUME NEW w \in Workers, WorkerStep(w)
      PROVE  CopyOK'
  <2>1. CASE ClaimNew(w) \/ ClaimTaken(w) \/ ClaimAgain(w) \/ \E permanent \in BOOLEAN : WorkFails(w, permanent)
    BY <1>1, <2>1 DEF ClaimNew, ClaimTaken, ClaimAgain, WorkFails, Fails, Phases
  <2>2. CASE PublishAnswer(w) \/ PublishRetry(w) \/ ReportFailed(w)
    BY <1>1, <2>2 DEF PublishAnswer, PublishRetry, ReportFailed, AfterReport, Phases
  <2>3. CASE FindFinished(w) \/ \E verdict \in Finished : Finish(w, verdict)
    <3>1. job[w] \in Jobs
      BY <1>a, <2>3 DEF FindFinished, Finish, Idle
    <3> QED BY <1>2, <2>3, <3>1 DEF FindFinished, Finish
  <2>4. CASE Ack(w) \/ Nack(w) \/ Abandon(w)
    BY <1>3, <2>4 DEF Ack, Nack, Abandon
  <2>5. CASE Bury(w)
    BY <1>6, <2>5 DEF Buries
  <2> QED BY <1>4, <1>5, <1>7, <1>9, <2>1, <2>2, <2>3, <2>4, <2>5 DEF WorkerStep
<1>10. ASSUME NEW w \in Workers, WorkerFault(w)
       PROVE  CopyOK'
  <2>1. CASE StoreFails(w) \/ MarkFails(w) \/ PublishRefused(w)
    BY <1>1, <2>1 DEF StoreFails, Fails, MarkFails, PublishRefused, AfterReport, Phases
  <2>2. CASE BuryRefused(w) \/ BuryDropped(w)
    BY <1>6, <2>2 DEF Buries
  <2>3. CASE WorkerCrash(w)
    BY <1>3, <2>3 DEF WorkerCrash
  <2> QED BY <1>8, <1>10, <2>1, <2>2, <2>3 DEF WorkerFault
<1>11. ASSUME UNCHANGED job
       PROVE  CopyOK'
  BY <1>a, <1>11 DEF CopyOK, Resume
<1> QED
  BY <1>9, <1>10, <1>11
     DEF Next, Hiring, resumeVars, ResumeProcessing, ResumeStep, ResumeFault, ExpireRetry,
         Replay, ReplayInterrupted, ReplayDropped

-----------------------------------------------------------------------------
(* No step of the Hiring Service lets go of a pending resume, but for a     *)
(* refusal that is dropped.                                                 *)
LEMMA HiringCarries ==
  ASSUME TypeOK, Hiring, NEW r \in Resumes, Carried(r), entry[r] = "pending",
         entry'[r] = "pending"
  PROVE  NotLost(r)'
<1> DEFINE Held == consumer.phase = "held" /\ consumer.answer.resume = r
<1>a. /\ requested \in [Requests -> Nat] /\ completed \in [Answers -> Nat]
      /\ refused \in [Resumes -> Nat] /\ "pending" \notin Verdicts
      /\ consumer \in {IdleConsumer} \cup [phase : {"held", "settled"}, answer : Answers]
  BY MessageAssumption DEF TypeOK, MessagesTypeOK, HiringTypeOK, Verdicts
<1>b. consumer.phase \in {"held", "settled"} => consumer.answer \in Answers
  BY <1>a DEF IdleConsumer
<1>c. UNCHANGED resumeVars
  BY DEF Hiring
<1>d. HeldByWorker(r)' <=> HeldByWorker(r)
  BY <1>c DEF resumeVars, HeldByWorker, Resume
<1>1. ASSUME \A m \in Requests : requested[m] > 0 => requested'[m] > 0,
             \A a \in Answers : completed[a] > 0 => completed'[a] > 0,
             refused[r] > 0 => refused'[r] > 0,
             Held => AnswerUnderway(r)' \/ refused'[r] > 0
      PROVE  Carried(r)'
  BY <1>c, <1>d, <1>1 DEF Carried, InFlight, KeptForAPerson, RequestQueued, AnswerUnderway, resumeVars
<1>2. ASSUME \E S \in SUBSET Resumes \ {{}} : Submit(S)
      PROVE  Carried(r)'
  BY <1>1, <1>2 DEF Submit, messageVars, AnswerUnderway
<1>3. ASSUME \E p \in Passes : OutboxStep(p) \/ OutboxFault(p)
      PROVE  Carried(r)'
  <2>1. \A x \in Resumes : FirstRequest(x) \in Requests
    BY MessageAssumption DEF FirstRequest, Requests
  <2>2. \/ requested' = requested
        \/ \E x \in Resumes : requested' = Put(requested, FirstRequest(x))
    BY <1>3 DEF OutboxStep, OutboxFault, StartPass, SendRequest, MarkRequested, SendFails,
                MarkRequestedFails, messageVars
  <2>3. \A m \in Requests : requested[m] > 0 => requested'[m] > 0
    BY <1>a, <2>1, <2>2, PutBag
  <2>4. UNCHANGED <<completed, consumer, refused>>
    BY <1>3 DEF OutboxStep, OutboxFault, StartPass, SendRequest, MarkRequested, SendFails,
                MarkRequestedFails, messageVars
  <2> QED BY <1>1, <2>3, <2>4 DEF AnswerUnderway
<1>4. ASSUME NEW a \in Answers, TakeResult(a)
      PROVE  Carried(r)'
  <2>1. CASE a.resume = r
    BY <1>4, <2>1 DEF TakeResult, Handling, Carried, InFlight, AnswerUnderway
  <2>2. CASE a.resume # r
    <3>1. ~Held
      BY <1>4 DEF TakeResult, IdleConsumer
    <3>2. \A x \in Answers : x.resume = r => completed'[x] = completed[x]
      BY <1>a, <1>4, <2>2, TakeBag DEF TakeResult
    <3> QED BY <1>c, <1>d, <1>4, <3>1, <3>2
            DEF TakeResult, outboxVars, resumeVars, Carried, InFlight, KeptForAPerson,
                RequestQueued, AnswerUnderway
  <2> QED BY <2>1, <2>2
<1>5. ASSUME RecordFirst
      PROVE  Carried(r)'
  <2>1. ~Held
    BY <1>a, <1>b, <1>5 DEF RecordFirst, TypeOK, HiringTypeOK, Answers
  <2> QED BY <1>1, <1>5, <2>1 DEF RecordFirst, messageVars
<1>6. ASSUME IgnoreRepeat
      PROVE  Carried(r)'
  <2>1. ~Held
    BY <1>a, <1>6 DEF IgnoreRepeat
  <2> QED BY <1>1, <1>6, <2>1 DEF IgnoreRepeat, messageVars
<1>7. ASSUME RefuseResult
      PROVE  Carried(r)'
  <2>1. consumer.answer.resume \in Resumes
    BY <1>b, <1>7 DEF RefuseResult, Answers
  <2>2. refused' = Put(refused, consumer.answer.resume)
    BY <1>7 DEF RefuseResult
  <2>3. (refused[r] > 0 => refused'[r] > 0) /\ (Held => refused'[r] > 0)
    BY <1>a, <2>1, <2>2, PutBag
  <2> QED BY <1>1, <1>7, <2>3 DEF RefuseResult, messageVars
<1>8. ASSUME AckResult
      PROVE  Carried(r)'
  BY <1>1, <1>8 DEF AckResult, messageVars
<1>9. ASSUME RecordFails \/ RefuseFails \/ ResultUnacked \/ HiringCrash
      PROVE  Carried(r)'
  <2>1. \/ /\ consumer.phase \in {"held", "settled"}
           /\ completed' = Put(completed, consumer.answer)
        \/ ~Held /\ completed' = completed
    BY <1>a, <1>9 DEF RecordFails, RefuseFails, ResultUnacked, HiringCrash, PutBackResult, IdleConsumer
  <2>2. /\ \A a \in Answers : completed[a] > 0 => completed'[a] > 0
        /\ Held => AnswerUnderway(r)'
    BY <1>a, <1>b, <2>1, PutBag DEF AnswerUnderway
  <2> QED BY <1>1, <1>9, <2>2 DEF RecordFails, RefuseFails, ResultUnacked, HiringCrash
<1>10. CASE RefusalDropped
  <2>1. Held => r \in dropped'
    BY <1>10 DEF RefusalDropped, Drops
  <2>2. ~Held => Carried(r)'
    BY <1>1, <1>10 DEF RefusalDropped
  <2> QED BY <2>1, <2>2 DEF NotLost
<1> QED
  BY <1>2, <1>3, <1>4, <1>5, <1>6, <1>7, <1>8, <1>9, <1>10
     DEF NotLost, Hiring, HiringStep, HiringFault, ConsumerStep

(* A step of one worker keeps a resume carried if it takes no message from  *)
(* a queue and, should the worker carry the resume, somebody does so after. *)
LEMMA WorkerHandsOn ==
  ASSUME NEW r \in Resumes, Carried(r), UNCHANGED hiringVars, NEW w \in Workers,
         \A v \in Workers \ {w} : job'[v] = job[v],
         \A m \in Requests : requested[m] > 0 => requested'[m] > 0,
         \A m \in Requests : retrying[m] > 0 => retrying'[m] > 0,
         \A a \in Answers : completed[a] > 0 => completed'[a] > 0,
         deadLettered[r] > 0 => deadLettered'[r] > 0,
         Carries(job[w]) /\ Resume(w) = r => Carried(r)'
  PROVE  Carried(r)'
<1>1. CASE RequestQueued(r)
  BY <1>1 DEF RequestQueued, Carried, InFlight
<1>2. CASE AnswerUnderway(r)
  BY <1>2 DEF AnswerUnderway, Carried, InFlight, hiringVars
<1>3. CASE KeptForAPerson(r)
  BY <1>3 DEF KeptForAPerson, Carried, hiringVars
<1>4. CASE HeldByWorker(r)
  <2>1. PICK v \in Workers : Carries(job[v]) /\ Resume(v) = r
    BY <1>4 DEF HeldByWorker
  <2>2. CASE v = w
    BY <2>1, <2>2
  <2>3. CASE v # w
    BY <2>1, <2>3 DEF Resume, HeldByWorker, Carried, InFlight
  <2> QED BY <2>2, <2>3
<1> QED BY <1>1, <1>2, <1>3, <1>4 DEF Carried, InFlight

(* A worker that only moves to another phase passes the resume to itself.   *)
LEMMA WorkerMovesOn ==
  ASSUME ResumeTypeOK, NEW r \in Resumes, Carried(r), UNCHANGED hiringVars, UNCHANGED queueVars,
         NEW w \in Workers, \A v \in Workers \ {w} : job'[v] = job[v],
         job[w] \in Jobs => /\ job'[w] \in Jobs
                            /\ job'[w].request = job[w].request
                            /\ job'[w].live = job[w].live,
         job[w] \in Jobs /\ Carries(job[w]) =>
           job'[w].phase # "ack" /\ ~(job'[w].phase \in {"mark", "report"} /\ job'[w].copy = "kept")
  PROVE  Carried(r)'
<1>1. ASSUME Carries(job[w]), Resume(w) = r
      PROVE  Carried(r)'
  <2>1. job[w] \in Jobs
    BY <1>1 DEF ResumeTypeOK, Carries
  <2>2. Carries(job'[w])
    <3>1. job'[w] # Idle
      BY <2>1 DEF Jobs, Idle, Phases
    <3>2. job'[w].live
      BY <1>1, <2>1 DEF Carries
    <3> QED BY <1>1, <2>1, <3>1, <3>2 DEF Carries
  <2>3. job'[w].request.resume = r
    BY <1>1, <2>1 DEF Resume
  <2> QED BY <2>2, <2>3 DEF HeldByWorker, Resume, Carried, InFlight
<1> QED BY <1>1, WorkerHandsOn DEF queueVars

(* The same for the phases that Go and Fails lead to.                       *)
LEMMA GoCarries ==
  ASSUME ResumeTypeOK, NEW r \in Resumes, Carried(r), UNCHANGED hiringVars, UNCHANGED queueVars,
         NEW w \in Workers, NEW phase \in Phases, Go(w, phase),
         phase = "ack" \/ (phase \in {"mark", "report"} /\ job[w].copy = "kept") => ~Carries(job[w])
  PROVE  Carried(r)'
<1>1. job[w] \in Jobs => /\ [job[w] EXCEPT !.phase = phase] \in Jobs
                         /\ [job[w] EXCEPT !.phase = phase].phase = phase
                         /\ [job[w] EXCEPT !.phase = phase].request = job[w].request
                         /\ [job[w] EXCEPT !.phase = phase].live = job[w].live
                         /\ [job[w] EXCEPT !.phase = phase].copy = job[w].copy
  BY DEF Jobs
<1>2. /\ job'[w] = [job[w] EXCEPT !.phase = phase]
      /\ \A v \in Workers \ {w} : job'[v] = job[v]
  BY DEF Go, ResumeTypeOK
<1>3. job[w] \in Jobs => /\ job'[w] \in Jobs
                         /\ job'[w].request = job[w].request
                         /\ job'[w].live = job[w].live
  BY <1>1, <1>2
<1>4. job[w] \in Jobs /\ Carries(job[w]) =>
        job'[w].phase # "ack" /\ ~(job'[w].phase \in {"mark", "report"} /\ job'[w].copy = "kept")
  BY <1>1, <1>2
<1> QED BY <1>2, <1>3, <1>4, WorkerMovesOn

(* No step of one delivery lets go of a resume.                             *)
LEMMA WorkerStepCarries ==
  ASSUME TypeOK, RetryBudget, CopyOK, NEW r \in Resumes, Carried(r),
         UNCHANGED hiringVars, NEW w \in Workers, WorkerStep(w)
  PROVE  Carried(r)'
<1>a. /\ requested \in [Requests -> Nat] /\ completed \in [Answers -> Nat]
      /\ retrying \in [Requests -> Nat] /\ deadLettered \in [Resumes -> Nat]
      /\ job \in [Workers -> Jobs \cup {Idle}]
  BY DEF TypeOK, MessagesTypeOK, ResumeTypeOK
<1>b. /\ Resume(w) = job[w].request.resume
      /\ job[w].phase \in Phases =>
           /\ job[w] \in Jobs /\ job[w].request \in Requests
           /\ Resume(w) \in Resumes /\ AnswerOf(w) \in Answers
  BY BusyWorker DEF TypeOK, Resume
<1>c. job' \in [Workers -> Jobs \cup {Idle}]
  BY ResumeTypes DEF ResumeProcessing, ResumeStep, TypeOK, ResumeTypeOK
<1>1. CASE Deliver(w)
  <2>1. PICK m \in Requests : /\ requested[m] > 0
                              /\ requested' = Take(requested, m)
                              /\ job' = [job EXCEPT ![w] = Started(m)]
    BY <1>1 DEF Deliver
  <2>2. job[w] = Idle /\ UNCHANGED <<completed, retrying, deadLettered>>
    BY <1>1 DEF Deliver
  <2>3. \A x \in Requests : x # m => requested'[x] = requested[x]
    BY <1>a, <2>1, TakeBag
  <2>4. CASE m.resume = r
    BY <1>a, <2>1, <2>4
       DEF Started, Idle, Carries, Resume, HeldByWorker, Carried, InFlight
  <2>5. CASE m.resume # r
    <3>1. HeldByWorker(r) => HeldByWorker(r)'
      BY <1>a, <2>1, <2>2 DEF HeldByWorker, Carries, Resume
    <3>2. RequestQueued(r) => RequestQueued(r)'
      BY <2>2, <2>3, <2>5 DEF RequestQueued
    <3> QED BY <2>2, <3>1, <3>2 DEF Carried, InFlight, AnswerUnderway, KeptForAPerson, hiringVars
  <2> QED BY <2>4, <2>5
<1>2. CASE ClaimNew(w) \/ ClaimTaken(w) \/ ClaimAgain(w) \/ \E permanent \in BOOLEAN : WorkFails(w, permanent)
  <2>1. (\E phase \in {"work", "retry", "bury"} : Go(w, phase)) /\ UNCHANGED queueVars
    BY <1>2 DEF ClaimNew, ClaimTaken, ClaimAgain, WorkFails, Fails
  <2> QED BY <2>1, GoCarries DEF Phases, TypeOK
<1>3. CASE FindFinished(w) \/ FindUnfinished(w) \/ \E verdict \in Finished : Finish(w, verdict)
  <2>1. job[w] \in Jobs /\ UNCHANGED queueVars
    BY <1>b, <1>3 DEF FindFinished, FindUnfinished, Finish, At, Phases
  <2>2. /\ \A v \in Workers \ {w} : job'[v] = job[v]
        /\ job'[w].phase \in {"answer", "claim"}
        /\ job'[w].request = job[w].request
        /\ job'[w].live = job[w].live
    <3>1. CASE FindUnfinished(w)
      BY <1>a, <2>1, <3>1 DEF FindUnfinished, Jobs
    <3>2. ASSUME NEW verdict, NEW identified, Answering(w, "answer", verdict, identified)
          PROVE  <2>2!:
      BY <1>a, <2>1, <3>2 DEF Answering, Jobs
    <3> QED BY <1>3, <3>1, <3>2 DEF FindFinished, Finish
  <2>3. job'[w] \in Jobs
    BY <1>c, <2>2 DEF Idle
  <2> QED BY <2>1, <2>2, <2>3, WorkerMovesOn DEF TypeOK
<1>4. CASE PublishAnswer(w) \/ ReportFailed(w)
  <2>1. AnswerOf(w) \in Answers /\ AnswerOf(w).resume = Resume(w)
    BY <1>b, <1>4 DEF PublishAnswer, ReportFailed, At, Phases, AnswerOf
  <2>2. /\ completed' = Put(completed, AnswerOf(w))
        /\ UNCHANGED <<requested, retrying, deadLettered>>
        /\ \A v \in Workers \ {w} : job'[v] = job[v]
    BY <1>a, <1>4 DEF PublishAnswer, ReportFailed, Go
  <2>3. \A a \in Answers : completed[a] > 0 => completed'[a] > 0
    BY <1>a, <2>1, <2>2, PutBag
  <2>4. Resume(w) = r => Carried(r)'
    BY <1>a, <2>1, <2>2, PutBag DEF AnswerUnderway, Carried, InFlight
  <2> QED BY <2>2, <2>3, <2>4, WorkerHandsOn
<1>5. CASE PublishRetry(w)
  <2> DEFINE m == [job[w].request EXCEPT !.attempt = @ + 1]
  <2>1. m \in Requests /\ m.resume = Resume(w)
    <3>1. /\ job[w].request \in [resume : Resumes, attempt : 0 .. MaxRetries]
          /\ job[w].request.attempt < MaxRetries
      BY <1>b, <1>5 DEF PublishRetry, At, Phases, RetryBudget, Requests
    <3> QED BY <1>b, <3>1, MessageAssumption DEF Requests
  <2>2. /\ retrying' = Put(retrying, m)
        /\ UNCHANGED <<requested, completed, deadLettered>>
        /\ \A v \in Workers \ {w} : job'[v] = job[v]
    BY <1>a, <1>5 DEF PublishRetry, Go
  <2> HIDE DEF m
  <2>3. \A x \in Requests : retrying[x] > 0 => retrying'[x] > 0
    BY <1>a, <2>1, <2>2, PutBag
  <2>4. Resume(w) = r => Carried(r)'
    BY <1>a, <2>1, <2>2, PutBag DEF RequestQueued, Carried, InFlight
  <2> QED BY <2>2, <2>3, <2>4, WorkerHandsOn
<1>6. CASE Bury(w)
  <2>1. Resume(w) \in Resumes
    BY <1>b, <1>6 DEF Bury, At, Phases
  <2>2. /\ deadLettered' = Put(deadLettered, Resume(w))
        /\ UNCHANGED <<requested, completed, retrying>>
        /\ \A v \in Workers \ {w} : job'[v] = job[v]
    BY <1>a, <1>6 DEF Bury
  <2>3. /\ deadLettered[r] > 0 => deadLettered'[r] > 0
        /\ Resume(w) = r => deadLettered'[r] > 0
    BY <1>a, <2>1, <2>2, PutBag
  <2> QED BY <2>2, <2>3, WorkerHandsOn DEF KeptForAPerson, Carried
<1>7. CASE MarkFailed(w)
  <2>1. job[w] \in Jobs /\ UNCHANGED queueVars
    BY <1>b, <1>7 DEF MarkFailed, At, Phases
  <2>2. Answering(w, "report", "failed", doc[Resume(w)].identified)
    BY <1>7 DEF MarkFailed
  <2>3. /\ \A v \in Workers \ {w} : job'[v] = job[v]
        /\ job'[w].phase = "report" /\ job'[w].request = job[w].request
        /\ job'[w].live = job[w].live /\ job'[w].copy = job[w].copy
    BY <1>a, <2>1, <2>2 DEF Answering, Jobs
  <2>4. Carries(job[w]) => job[w].copy # "kept"
    BY <1>7 DEF MarkFailed, At, Carries
  <2>5. job'[w] \in Jobs
    BY <1>c, <2>3 DEF Idle
  <2> QED BY <2>1, <2>3, <2>4, <2>5, WorkerMovesOn DEF TypeOK
<1>8. CASE Ack(w) \/ Abandon(w)
  <2>1. ~Carries(job[w])
    BY <1>8 DEF Ack, Abandon, At, Carries
  <2>2. UNCHANGED queueVars /\ \A v \in Workers \ {w} : job'[v] = job[v]
    BY <1>a, <1>8 DEF Ack, Abandon, Stop
  <2> QED BY <2>1, <2>2, WorkerHandsOn DEF queueVars
<1>9. CASE Nack(w)
  <2>1. job[w].request \in Requests
    BY <1>b, <1>9 DEF Nack, At, Phases
  <2>2. /\ requested' = Put(requested, job[w].request)
        /\ UNCHANGED <<completed, retrying, deadLettered>>
        /\ \A v \in Workers \ {w} : job'[v] = job[v]
    BY <1>a, <1>9 DEF Nack, Stop
  <2>3. /\ \A m \in Requests : requested[m] > 0 => requested'[m] > 0
        /\ requested'[job[w].request] > 0
    BY <1>a, <2>1, <2>2, PutBag
  <2>4. Resume(w) = r => Carried(r)'
    BY <1>b, <2>1, <2>3 DEF RequestQueued, Carried, InFlight
  <2> QED BY <2>2, <2>3, <2>4, WorkerHandsOn
<1> QED BY <1>1, <1>2, <1>3, <1>4, <1>5, <1>6, <1>7, <1>8, <1>9 DEF WorkerStep

(* Nor does a fault of a worker, the broker's timer, or a replay, but for   *)
(* copies and requests that are dropped.                                    *)
LEMMA ResumeCarries ==
  ASSUME TypeOK, RetryBudget, CopyOK, NEW r \in Resumes, Carried(r), Next, ResumeProcessing
  PROVE  NotLost(r)'
<1>a. /\ requested \in [Requests -> Nat] /\ completed \in [Answers -> Nat]
      /\ retrying \in [Requests -> Nat] /\ deadLettered \in [Resumes -> Nat]
      /\ job \in [Workers -> Jobs \cup {Idle}]
      /\ UNCHANGED hiringVars
  BY DEF TypeOK, MessagesTypeOK, ResumeTypeOK, ResumeProcessing
<1>1. ASSUME NEW w \in Workers, WorkerStep(w)
      PROVE  NotLost(r)'
  BY <1>a, <1>1, WorkerStepCarries DEF NotLost
<1>2. ASSUME NEW w \in Workers, StoreFails(w) \/ PublishRefused(w)
      PROVE  Carried(r)'
  <2>1. (\E phase \in {"retry", "bury", "nack"} : Go(w, phase)) /\ UNCHANGED queueVars
    BY <1>2 DEF StoreFails, Fails, PublishRefused
  <2> QED BY <1>a, <2>1, GoCarries DEF TypeOK, Phases
<1>8. ASSUME NEW w \in Workers, MarkFails(w)
      PROVE  NotLost(r)'
  <2>1. Go(w, AfterReport(w)) /\ AfterReport(w) \in Phases /\ UNCHANGED queueVars
    BY <1>8 DEF MarkFails, AfterReport, Phases
  <2>2. AfterReport(w) = "ack" => job[w].copy = "kept" \/ Resume(w) \in dropped
    BY <1>8 DEF MarkFails, AfterReport, At, CopyOK
  <2>3. ASSUME Carries(job[w]), job[w].copy # "kept", AfterReport(w) = "ack"
        PROVE  NotLost(r)'
    <3>1. Resume(w) \in dropped'
      BY <2>2, <2>3, DroppedStays
    <3>2. ASSUME Resume(w) # r
          PROVE  Carried(r)'
      BY <1>a, <2>1, <3>2, WorkerHandsOn DEF queueVars, Go
    <3> QED BY <3>1, <3>2 DEF NotLost
  <2>4. ASSUME ~(Carries(job[w]) /\ job[w].copy # "kept" /\ AfterReport(w) = "ack")
        PROVE  Carried(r)'
    <3>1. job[w].copy = "kept" => ~Carries(job[w])
      BY <1>8 DEF MarkFails, At, Carries
    <3>2. AfterReport(w) \in {"ack", "nack"}
      BY DEF AfterReport
    <3> QED BY <1>a, <2>1, <2>4, <3>1, <3>2, GoCarries DEF TypeOK
  <2> QED BY <2>3, <2>4 DEF NotLost
<1>9. ASSUME NEW w \in Workers, BuryRefused(w) \/ BuryDropped(w)
      PROVE  Carried(r)'
  <2>1. job[w] \in Jobs /\ UNCHANGED queueVars
    BY <1>a, <1>9 DEF BuryRefused, BuryDropped, At, Idle
  <2>2. PICK copy \in {"refused", "dropped"} :
          job' = [job EXCEPT ![w].phase = "mark", ![w].copy = copy]
    BY <1>9 DEF BuryRefused, BuryDropped
  <2>3. PICK j : j = [job[w] EXCEPT !.phase = "mark", !.copy = copy]
    OBVIOUS
  <2>4. /\ j.phase = "mark" /\ j.copy = copy
        /\ j.request = job[w].request /\ j.live = job[w].live
    BY <2>1, <2>3 DEF Jobs
  <2>5. j \in Jobs
    BY <2>1, <2>3 DEF Jobs, Phases
  <2>6. job'[w] = j /\ \A v \in Workers \ {w} : job'[v] = job[v]
    BY <1>a, <2>2, <2>3
  <2> QED BY <1>a, <2>1, <2>4, <2>5, <2>6, WorkerMovesOn DEF TypeOK
<1>3. ASSUME NEW w \in Workers, LoseChannel(w) \/ WorkerCrash(w)
      PROVE  Carried(r)'
  <2>1. job[w] \in Jobs /\ job[w].request \in Requests
    BY <1>a, <1>3 DEF LoseChannel, WorkerCrash, Jobs
  <2>2. /\ \/ requested' = Put(requested, job[w].request)
           \/ ~job[w].live /\ requested' = requested
        /\ UNCHANGED <<completed, retrying, deadLettered>>
        /\ \A v \in Workers \ {w} : job'[v] = job[v]
    BY <1>a, <1>3 DEF LoseChannel, WorkerCrash, Stop
  <2>3. /\ \A m \in Requests : requested[m] > 0 => requested'[m] > 0
        /\ job[w].live => requested'[job[w].request] > 0
    BY <1>a, <2>1, <2>2, PutBag
  <2>4. Carries(job[w]) /\ Resume(w) = r => Carried(r)'
    BY <2>1, <2>3 DEF Carries, Resume, RequestQueued, Carried, InFlight
  <2> QED BY <1>a, <2>2, <2>3, <2>4, WorkerHandsOn
<1>4. ASSUME UNCHANGED job, UNCHANGED completed,
             RequestQueued(r) \/ deadLettered[r] > 0 => Carried(r)'
      PROVE  Carried(r)'
  BY <1>a, <1>4 DEF Carried, InFlight, HeldByWorker, Resume, AnswerUnderway, KeptForAPerson, hiringVars
<1>5. ASSUME NEW m \in Requests, ExpireRetry(m)
      PROVE  Carried(r)'
  <2>1. /\ requested'[m] > 0
        /\ \A x \in Requests : requested[x] > 0 => requested'[x] > 0
        /\ \A x \in Requests : x # m => retrying'[x] = retrying[x]
    BY <1>a, <1>5, PutBag, TakeBag DEF ExpireRetry
  <2>2. RequestQueued(r) => RequestQueued(r)'
    BY <2>1 DEF RequestQueued
  <2> QED BY <1>4, <1>5, <2>2 DEF ExpireRetry, Carried, InFlight, KeptForAPerson
<1>6. ASSUME NEW x \in Resumes, Replay(x) \/ ReplayInterrupted(x)
      PROVE  Carried(r)'
  <2>1. FirstRequest(x) \in Requests /\ FirstRequest(x).resume = x
    BY MessageAssumption DEF FirstRequest, Requests
  <2>2. /\ requested'[FirstRequest(x)] > 0
        /\ \A m \in Requests : requested[m] > 0 => requested'[m] > 0
        /\ r # x => deadLettered'[r] = deadLettered[r]
        /\ retrying' = retrying
    BY <1>a, <1>6, <2>1, PutBag, TakeBag DEF Replay, ReplayInterrupted
  <2>3. RequestQueued(r) \/ x = r => RequestQueued(r)'
    BY <2>1, <2>2 DEF RequestQueued
  <2> QED BY <1>4, <1>6, <2>2, <2>3 DEF Replay, ReplayInterrupted, Carried, InFlight, KeptForAPerson
<1>7. ASSUME NEW x \in Resumes, ReplayDropped(x)
      PROVE  NotLost(r)'
  <2>1. CASE x = r
    BY <1>7, <2>1 DEF ReplayDropped, Drops, NotLost
  <2>2. CASE x # r
    <3>1. deadLettered'[r] = deadLettered[r]
      BY <1>a, <1>7, <2>2, TakeBag DEF ReplayDropped
    <3>2. RequestQueued(r) => RequestQueued(r)'
      BY <1>7 DEF ReplayDropped, RequestQueued
    <3> QED BY <1>4, <1>7, <3>1, <3>2 DEF ReplayDropped, NotLost, Carried, InFlight, KeptForAPerson
  <2> QED BY <2>1, <2>2
<1> QED
  BY <1>1, <1>2, <1>3, <1>5, <1>6, <1>7, <1>8, <1>9
     DEF NotLost, ResumeProcessing, ResumeStep, ResumeFault, WorkerFault

-----------------------------------------------------------------------------
(* What a step leaves pending and sent is carried: it was before, or the    *)
(* step is the confirmation.                                                *)
LEMMA SentIsCarriedKept ==
  ASSUME IInv, Next
  PROVE  SentIsCarried'
<1>a. /\ requested \in [Requests -> Nat]
      /\ entry \in [Resumes -> {"absent", "pending"} \cup Verdicts]
      /\ requestedAt \in [Resumes -> BOOLEAN]
      /\ todo \in [Passes -> SUBSET Resumes]
      /\ confirmed \in [Passes -> SUBSET Resumes]
      /\ "pending" \notin Verdicts
  BY MessageAssumption DEF IInv, TypeOK, MessagesTypeOK, HiringTypeOK, Verdicts
<1>1. ASSUME NEW r \in Resumes, entry'[r] = "pending", Sent(r)'
      PROVE  NotLost(r)'
  <2>1. CASE ResumeProcessing
    <3>1. entry[r] = "pending" /\ Sent(r)
      BY <1>1, <2>1 DEF ResumeProcessing, hiringVars, Sent
    <3>2. NotLost(r)
      BY <3>1 DEF IInv, SentIsCarried
    <3> QED BY <2>1, <3>2, ResumeCarries, DroppedStays DEF IInv, NotLost
  <2>2. ASSUME NEW p \in Passes, SendRequest(p, r)
        PROVE  NotLost(r)'
    <3>1. FirstRequest(r) \in Requests /\ FirstRequest(r).resume = r
      BY MessageAssumption DEF FirstRequest, Requests
    <3>2. requested'[FirstRequest(r)] > 0
      BY <1>a, <2>2, <3>1, PutBag DEF SendRequest
    <3> QED BY <3>1, <3>2 DEF NotLost, RequestQueued, Carried, InFlight
  <2>3. ASSUME Hiring, ~\E p \in Passes : SendRequest(p, r)
        PROVE  NotLost(r)'
    <3>1. entry[r] = "pending"
      <4>1. CASE \E S \in SUBSET Resumes : Submit(S)
        <5>1. Sent(r)
          BY <1>1, <4>1 DEF Submit, Sent
        <5> QED BY <1>a, <1>1, <4>1, <5>1 DEF Submit, Sent, IInv, OutboxOK
      <4>2. CASE RecordFirst /\ consumer.answer.verdict \in Verdicts
        BY <1>a, <1>1, <4>2 DEF RecordFirst
      <4> QED BY <1>1, <4>1, <4>2, EntrySteps DEF IInv
    <3>2. Sent(r)
      <4>1. ASSUME NEW p \in Passes, NEW x \in Resumes, SendRequest(p, x)
            PROVE  Sent(r)
        BY <1>a, <1>1, <2>3, <4>1 DEF SendRequest, Sent
      <4>2. ASSUME NEW p \in Passes, NEW x \in Resumes, MarkRequested(p, x)
            PROVE  Sent(r)
        BY <1>a, <1>1, <4>2 DEF MarkRequested, Sent
      <4>3. ASSUME NEW p \in Passes, OutboxFault(p)
            PROVE  Sent(r)
        BY <1>a, <1>1, <4>3 DEF OutboxFault, SendFails, MarkRequestedFails, EndPass, Sent
      <4>4. CASE HiringCrash
        BY <1>a, <1>1, <4>4 DEF HiringCrash, Sent
      <4>5. CASE UNCHANGED <<requestedAt, confirmed>>
        BY <1>1, <4>5 DEF Sent
      <4> QED BY <2>3, <4>1, <4>2, <4>3, <4>4, <4>5
              DEF Hiring, HiringStep, HiringFault, OutboxStep, ConsumerStep, Submit, StartPass,
                  TakeResult, RecordFirst, IgnoreRepeat, RefuseResult, AckResult, RecordFails,
                  RefuseFails, RefusalDropped, ResultUnacked, outboxVars
    <3>3. NotLost(r)
      BY <3>1, <3>2 DEF IInv, SentIsCarried
    <3> QED BY <1>1, <2>3, <3>1, <3>3, HiringCarries, DroppedStays DEF IInv, NotLost
  <2> QED BY <2>1, <2>2, <2>3 DEF Next
<1> QED BY <1>1 DEF SentIsCarried

(* Nothing accepted is lost (NFR-10, ADR-013 decision 2): whatever crashes, *)
(* drops, refuses or fails, a pending resume is in the outbox, under way,   *)
(* or kept for a person; but for one the broker refused a message about     *)
(* whose confirmation handle, deadLetter or replay-dlq does not wait for.   *)
THEOREM NothingIsLost == Safe => []NoResumeLost
<1>1. Init => IInv
  <2>1. Init => TypeOK /\ RetryBudget
    BY InitTypes
  <2> QED BY <2>1 DEF Init, HiringInit, ResumeInit, Idle, IInv, OutboxOK, CopyOK, SentIsCarried
<1>2. IInv /\ [Next]_vars => IInv'
  <2>1. ASSUME IInv, Next
        PROVE  IInv'
    BY <2>1, HiringTypes, ResumeTypes, RetryBudgetKept, OutboxKept, CopyOKKept,
       SentIsCarriedKept
       DEF IInv, Next
  <2>2. ASSUME IInv, UNCHANGED vars
        PROVE  IInv'
    BY <2>2 DEF vars, messageVars, hiringVars, resumeVars, IInv, TypeOK, MessagesTypeOK,
                HiringTypeOK, ResumeTypeOK, RetryBudget, At, OutboxOK, CopyOK,
                SentIsCarried, Sent, NotLost, Carried, InFlight, RequestQueued, HeldByWorker,
                AnswerUnderway, KeptForAPerson, Resume
  <2> QED BY <2>1, <2>2
<1>3. IInv => NoResumeLost
  BY DEF IInv, SentIsCarried, Sent, NotLost, NoResumeLost
<1> QED BY <1>1, <1>2, <1>3, PTL DEF Safe

-----------------------------------------------------------------------------
(* When nothing fails.                                                      *)
(*                                                                          *)
(* A resume then is at one place at a time: to be sent, requested, in a     *)
(* worker's hands, or answered.  So its document has one writer, which is   *)
(* done with it before an answer exists.                                    *)

Queued(m) == requested[m] + retrying[m] > 0
Works(w) == job[w] # Idle /\ ~At(w, "ack")
Answered(r) == entry[r] \in Verdicts \/ AnswerUnderway(r)

(* One pass at a time has the mutex, and it sends what was never sent.      *)
OnePass ==
  /\ \A p, q \in Passes : todo[p] # {} /\ todo[q] # {} => p = q
  /\ \A p \in Passes : confirmed[p] \subseteq todo[p]
  /\ \A p \in Passes : \A r, s \in confirmed[p] : r = s
  /\ \A p \in Passes : \A r \in todo[p] : ~requestedAt[r]

(* No worker has lost its channel or a copy for the DLQ.                    *)
NoneFailed ==
  \A w \in Workers : job[w] # Idle =>
    /\ job[w].live /\ job[w].phase # "nack"
    /\ job[w].phase \in {"mark", "report"} => job[w].copy = "kept"

(* A resume is in one message or with one worker, ...                       *)
OneRequest ==
  /\ \A m \in Requests : requested[m] + retrying[m] <= 1
  /\ \A m, n \in Requests : Queued(m) /\ Queued(n) /\ m.resume = n.resume => m = n
  /\ \A v, w \in Workers : Works(v) /\ Works(w) /\ Resume(v) = Resume(w) => v = w
  /\ \A m \in Requests, w \in Workers : Queued(m) /\ Works(w) => Resume(w) # m.resume

(* ... from the time it is sent until it is answered.                       *)
InBetween ==
  /\ \A r \in Resumes : Answered(r) => Sent(r)
  /\ \A m \in Requests : Queued(m) => Sent(m.resume) /\ ~Answered(m.resume)
  /\ \A w \in Workers : Works(w) => Sent(Resume(w)) /\ ~Answered(Resume(w))

(* What is said of a resume is what its document says.                      *)
AsDocumented ==
  /\ \A w \in Workers : job[w].phase \in {"answer", "report"} =>
       job[w].verdict = doc[Resume(w)].status
  /\ \A a \in Answers : completed[a] > 0 => a.verdict = doc[a.resume].status
  /\ consumer.phase = "held" => consumer.answer.verdict = doc[consumer.answer.resume].status
  /\ \A r \in Resumes : entry[r] \in Verdicts => entry[r] = doc[r].status

UInv == OnePass /\ NoneFailed /\ OneRequest /\ InBetween /\ AsDocumented

(* A worker that works has a job.                                           *)
LEMMA WorkingJob ==
  ASSUME TypeOK, NEW w \in Workers, job[w] # Idle
  PROVE  job[w] \in Jobs /\ job[w].phase \in Phases /\ Resume(w) \in Resumes
<1>1. job[w] \in Jobs
  BY DEF TypeOK, ResumeTypeOK
<1> QED BY <1>1 DEF Jobs, Requests, Resume

(* As long as nothing fails, nothing has.                                   *)
LEMMA StillUndisturbed ==
  ASSUME TypeOK, Next, Undisturbed'
  PROVE  /\ Undisturbed
         /\ \/ /\ \/ \E S \in SUBSET Resumes \ {{}} : Submit(S)
                  \/ \E p \in Passes : OutboxStep(p)
                  \/ ConsumerStep
               /\ UNCHANGED resumeVars
            \/ ResumeStep /\ UNCHANGED hiringVars
<1>1. faults \in Nat /\ replays \in Nat
  BY MessageAssumption, ResumeAssumption DEF TypeOK, MessagesTypeOK, ResumeTypeOK
<1>2. ~HiringFault
  BY <1>1 DEF Undisturbed, HiringFault, OutboxFault, SendFails, MarkRequestedFails, RecordFails,
              RefuseFails, RefusalDropped, ResultUnacked, HiringCrash, Fault, Drops, Happens
<1>3. ~ResumeFault
  <2>1. ASSUME NEW w \in Workers
        PROVE  ~WorkerFault(w)
    <3>1. WorkerFault(w) => \E kind \in AllFaultKinds : Happens(kind)
      BY DEF WorkerFault, StoreFails, MarkFails, PublishRefused, BuryRefused, BuryDropped,
             LoseChannel, WorkerCrash, AllFaultKinds, Fault, Drops
    <3>2. \A kind \in AllFaultKinds : ~Happens(kind)
      BY <1>1 DEF Undisturbed, Happens
    <3> QED BY <3>1, <3>2
  <2>2. \A r \in Resumes : ~Replay(r) /\ ~ReplayInterrupted(r) /\ ~ReplayDropped(r)
    BY <1>1 DEF Undisturbed, Replay, ReplayInterrupted, ReplayDropped
  <2> QED BY <2>1, <2>2 DEF ResumeFault
<1>4. Hiring => /\ \/ \E S \in SUBSET Resumes \ {{}} : Submit(S)
                   \/ \E p \in Passes : OutboxStep(p)
                   \/ ConsumerStep
                /\ UNCHANGED resumeVars
  BY <1>2 DEF Hiring, HiringStep
<1>5. ResumeProcessing => ResumeStep /\ UNCHANGED hiringVars
  BY <1>3 DEF ResumeProcessing
<1>6. Hiring => UNCHANGED <<faults, replays>>
  <2>1. ASSUME NEW S, Submit(S)
        PROVE  faults' = faults
    BY <2>1 DEF Submit, messageVars
  <2>2. ASSUME NEW p \in Passes, OutboxStep(p)
        PROVE  faults' = faults
    BY <2>2 DEF OutboxStep, StartPass, SendRequest, MarkRequested, messageVars
  <2>3. ASSUME ConsumerStep
        PROVE  faults' = faults
    BY <2>3 DEF ConsumerStep, TakeResult, RecordFirst, IgnoreRepeat, RefuseResult, AckResult, messageVars
  <2> QED BY <1>4, <2>1, <2>2, <2>3 DEF resumeVars
<1>7. ResumeStep => UNCHANGED <<faults, replays>>
  <2>1. ASSUME NEW w \in Workers, WorkerStep(w)
        PROVE  UNCHANGED <<faults, replays>>
    BY <2>1 DEF WorkerStep, Deliver, FindFinished, FindUnfinished, ClaimNew, ClaimTaken, ClaimAgain,
                Finish, WorkFails, PublishAnswer, PublishRetry, Bury, MarkFailed, ReportFailed, Ack,
                Nack, Abandon
  <2> QED BY <2>1 DEF ResumeStep, ExpireRetry
<1> QED BY <1>4, <1>5, <1>6, <1>7 DEF Next, Undisturbed

-----------------------------------------------------------------------------
(* Hiring's steps.                                                          *)

LEMMA OnePassKept ==
  ASSUME TypeOK, OnePass, NEW p \in Passes, OutboxStep(p)
  PROVE  OnePass'
<1>a. /\ requestedAt \in [Resumes -> BOOLEAN]
      /\ todo \in [Passes -> SUBSET Resumes]
      /\ confirmed \in [Passes -> SUBSET Resumes]
  BY DEF TypeOK, HiringTypeOK
<1>1. CASE StartPass(p)
  <2>1. PICK S \in SUBSET Unrequested : todo' = [todo EXCEPT ![p] = S]
    BY <1>1 DEF StartPass
  <2>2. \A q \in Passes : todo[q] = {} /\ confirmed[q] = {}
    BY <1>a, <1>1 DEF StartPass, PublishingFree, OnePass
  <2>3. \A q \in Passes : todo'[q] = IF q = p THEN S ELSE {}
    BY <1>a, <2>1, <2>2
  <2> QED BY <1>1, <2>2, <2>3 DEF StartPass, OnePass, Unrequested
<1>2. ASSUME NEW r \in Resumes, SendRequest(p, r)
      PROVE  OnePass'
  <2>1. \A q \in Passes : confirmed'[q] = IF q = p THEN {r} ELSE confirmed[q]
    BY <1>a, <1>2 DEF SendRequest
  <2> QED BY <1>2, <2>1 DEF SendRequest, OnePass
<1>3. ASSUME NEW r \in Resumes, MarkRequested(p, r)
      PROVE  OnePass'
  <2>1. \A q \in Passes : /\ confirmed'[q] = IF q = p THEN {} ELSE confirmed[q]
                          /\ todo'[q] = IF q = p THEN todo[p] \ {r} ELSE todo[q]
    BY <1>a, <1>3 DEF MarkRequested
  <2>2. \A s \in Resumes : requestedAt'[s] = IF s = r THEN TRUE ELSE requestedAt[s]
    BY <1>a, <1>3 DEF MarkRequested
  <2>3. r \in todo[p]
    BY <1>3 DEF MarkRequested, OnePass
  <2>4. \A q \in Passes : r \notin todo'[q]
    BY <2>1, <2>3 DEF OnePass
  <2>5. \A q \in Passes : \A s \in todo'[q] : s \in todo[q] /\ s # r
    BY <2>1, <2>4
  <2>6. \A q \in Passes : \A s \in todo'[q] : ~requestedAt'[s]
    BY <1>a, <2>2, <2>5 DEF OnePass
  <2>7. \A q \in Passes : confirmed'[q] \subseteq todo'[q]
    BY <2>1 DEF OnePass
  <2>8. \A q \in Passes : todo'[q] # {} => todo[q] # {}
    BY <2>5
  <2> QED BY <2>1, <2>6, <2>7, <2>8 DEF OnePass
<1> QED BY <1>1, <1>2, <1>3 DEF OutboxStep

(* A pass sends what nobody has sent, and what it marks it has sent.        *)
LEMMA OutboxUndisturbed ==
  ASSUME TypeOK, UInv, NEW p \in Passes, OutboxStep(p), UNCHANGED resumeVars
  PROVE  UInv'
<1>a. /\ requestedAt \in [Resumes -> BOOLEAN]
      /\ todo \in [Passes -> SUBSET Resumes]
      /\ confirmed \in [Passes -> SUBSET Resumes]
      /\ requested \in [Requests -> Nat] /\ retrying \in [Requests -> Nat]
  BY DEF TypeOK, HiringTypeOK, MessagesTypeOK, ResumeTypeOK
<1>b. UNCHANGED <<completed, faults, entry, consumer, refused, doc, job, retrying>>
  BY DEF OutboxStep, StartPass, SendRequest, MarkRequested, messageVars, resumeVars
<1>c. /\ \A r : Answered(r) <=> Answered(r)'
      /\ \A w : Works(w) <=> Works(w)'
      /\ \A w : Resume(w)' = Resume(w)
  BY <1>b DEF Answered, AnswerUnderway, Works, At, Resume
<1>1. OnePass' /\ NoneFailed' /\ AsDocumented'
  BY <1>b, OnePassKept DEF UInv, NoneFailed, AsDocumented, Resume
<1>2. CASE StartPass(p) \/ \E r \in Resumes : MarkRequested(p, r)
  <2>1. \A r \in Resumes : Sent(r) => Sent(r)'
    <3>1. CASE StartPass(p)
      BY <3>1 DEF StartPass, Sent
    <3>2. ASSUME NEW s \in Resumes, MarkRequested(p, s)
          PROVE  \A r \in Resumes : Sent(r) => Sent(r)'
      <4>1. \A q \in Passes \ {p} : confirmed'[q] = confirmed[q]
        BY <1>a, <3>2 DEF MarkRequested
      <4>2. \A r \in confirmed[p] : requestedAt'[r]
        BY <1>a, <3>2 DEF MarkRequested, UInv, OnePass
      <4>3. \A r \in Resumes : requestedAt[r] => requestedAt'[r]
        BY <1>a, <3>2 DEF MarkRequested
      <4> QED BY <4>1, <4>2, <4>3 DEF Sent
    <3> QED BY <1>2, <3>1, <3>2
  <2>2. requested' = requested
    BY <1>2 DEF StartPass, MarkRequested, messageVars
  <2>3. OneRequest'
    BY <1>b, <2>2 DEF UInv, OneRequest, Queued, Works, At, Resume
  <2>4. InBetween'
    <3>1. \A m : Queued(m) <=> Queued(m)'
      BY <1>b, <2>2 DEF Queued
    <3>2. \A r \in Resumes : Answered(r)' => Sent(r)'
      BY <1>c, <2>1 DEF UInv, InBetween
    <3>3. \A m \in Requests : Queued(m)' => Sent(m.resume)' /\ ~Answered(m.resume)'
      BY <1>c, <2>1, <3>1 DEF UInv, InBetween, Requests
    <3>4. \A w \in Workers : Works(w)' => Sent(Resume(w))' /\ ~Answered(Resume(w))'
      <4>1. ASSUME NEW w \in Workers, Works(w)
            PROVE  Sent(Resume(w))' /\ ~Answered(Resume(w))
        <5>1. Resume(w) \in Resumes
          BY <4>1, WorkingJob DEF Works
        <5>2. Sent(Resume(w)) /\ ~Answered(Resume(w))
          BY <4>1 DEF UInv, InBetween
        <5> QED BY <1>b, <2>1, <5>1, <5>2 DEF Resume
      <4> QED BY <1>c, <4>1
    <3> QED BY <3>2, <3>3, <3>4 DEF InBetween
  <2> QED BY <1>1, <2>3, <2>4 DEF UInv
<1>3. ASSUME NEW r \in Resumes, SendRequest(p, r)
      PROVE  UInv'
  <2>9. FirstRequest(r) \in Requests /\ FirstRequest(r).resume = r
    BY MessageAssumption DEF FirstRequest, Requests
  <2>1. PICK n \in Requests : n = FirstRequest(r) /\ n.resume = r
    BY <2>9
  <2>2. ~Sent(r)
    BY <1>3 DEF SendRequest, UInv, OnePass, Sent
  <2>3. /\ \A m \in Requests : Queued(m) => m.resume # r
        /\ \A w \in Workers : Works(w) => Resume(w) # r
        /\ ~Answered(r)
    BY <2>2 DEF UInv, InBetween
  <2>4. \A m \in Requests : requested'[m] = IF m = n THEN requested[m] + 1 ELSE requested[m]
    BY <1>a, <1>3, <2>1 DEF SendRequest, Put
  <2>5. \A m \in Requests : Queued(m)' <=> Queued(m) \/ m = n
    BY <1>a, <1>b, <2>4 DEF Queued
  <2>6. OneRequest'
    <3>1. requested[n] + retrying[n] = 0
      BY <1>a, <2>1, <2>3 DEF Queued
    <3>2. \A m \in Requests : (requested[m] + retrying[m] <= 1)'
      BY <1>a, <1>b, <2>4, <3>1 DEF UInv, OneRequest
    <3> QED BY <1>b, <1>c, <2>1, <2>3, <2>5, <3>2 DEF UInv, OneRequest
  <2>7. \A s \in Resumes : Sent(s)' <=> Sent(s) \/ s = r
    BY <1>a, <1>3 DEF SendRequest, Sent
  <2>8. InBetween'
    <3>1. \A s \in Resumes : Answered(s)' => Sent(s)'
      BY <1>c, <2>7 DEF UInv, InBetween
    <3>2. \A m \in Requests : Queued(m)' => Sent(m.resume)' /\ ~Answered(m.resume)'
      BY <1>c, <2>1, <2>3, <2>5, <2>7 DEF UInv, InBetween, Requests
    <3>3. \A w \in Workers : Works(w)' => Sent(Resume(w))' /\ ~Answered(Resume(w))'
      <4>1. ASSUME NEW w \in Workers, Works(w)
            PROVE  Sent(Resume(w))' /\ ~Answered(Resume(w))
        <5>1. Resume(w) \in Resumes
          BY <4>1, WorkingJob DEF Works
        <5>2. Sent(Resume(w)) /\ ~Answered(Resume(w))
          BY <4>1 DEF UInv, InBetween
        <5> QED BY <1>b, <2>7, <5>1, <5>2 DEF Resume
      <4> QED BY <1>c, <4>1
    <3> QED BY <3>1, <3>2, <3>3 DEF InBetween
  <2> QED BY <1>1, <2>6, <2>8 DEF UInv
<1> QED BY <1>2, <1>3 DEF OutboxStep

(* A submission, or the consumer at work: nobody has an answer who had none.*)
LEMMA NoNewAnswer ==
  ASSUME TypeOK, UInv, UNCHANGED <<resumeVars, requested, requestedAt, todo, confirmed>>,
         \A r \in Resumes : Answered(r)' => Answered(r),
         AsDocumented'
  PROVE  UInv'
<1>1. /\ \A r : Sent(r) <=> Sent(r)'
      /\ \A m : Queued(m) <=> Queued(m)'
      /\ \A w : Works(w) <=> Works(w)'
      /\ \A w : Resume(w)' = Resume(w)
  BY DEF Sent, Queued, Works, At, Resume, resumeVars
<1>2. OnePass' /\ NoneFailed' /\ OneRequest'
  BY <1>1 DEF UInv, OnePass, NoneFailed, OneRequest, resumeVars
<1>3. \A m \in Requests : Queued(m)' => Sent(m.resume)' /\ ~Answered(m.resume)'
  BY <1>1 DEF UInv, InBetween, Requests
<1>4. \A w \in Workers : Works(w)' => Sent(Resume(w))' /\ ~Answered(Resume(w))'
  <2>1. ASSUME NEW w \in Workers, Works(w)
        PROVE  Sent(Resume(w))' /\ ~Answered(Resume(w))'
    <3>1. Resume(w) \in Resumes
      BY <2>1, WorkingJob DEF Works
    <3>2. Sent(Resume(w)) /\ ~Answered(Resume(w))
      BY <2>1 DEF UInv, InBetween
    <3>3. PICK r \in Resumes : r = Resume(w) /\ r = Resume(w)'
      BY <1>1, <3>1
    <3>4. Sent(r)' /\ ~Answered(r)'
      BY <1>1, <3>2, <3>3
    <3> QED BY <3>3, <3>4
  <2> QED BY <1>1, <2>1
<1>5. InBetween'
  BY <1>1, <1>3, <1>4 DEF UInv, InBetween
<1> QED BY <1>2, <1>5 DEF UInv

LEMMA SubmitUndisturbed ==
  ASSUME TypeOK, UInv, NEW S \in SUBSET Resumes, Submit(S), UNCHANGED resumeVars
  PROVE  UInv'
<1>1. \A r \in Resumes : entry'[r] \in Verdicts => entry'[r] = entry[r]
  BY MessageAssumption DEF Submit, Verdicts
<1>2. UNCHANGED <<requested, completed, requestedAt, todo, confirmed, consumer>>
  BY DEF Submit, messageVars
<1>3. \A r \in Resumes : Answered(r)' => Answered(r)
  BY <1>1, <1>2 DEF Answered, AnswerUnderway
<1>4. AsDocumented'
  BY <1>1, <1>2 DEF UInv, AsDocumented, Resume, resumeVars
<1> QED BY <1>2, <1>3, <1>4, NoNewAnswer

LEMMA ConsumerUndisturbed ==
  ASSUME TypeOK, UInv, ConsumerStep, UNCHANGED resumeVars
  PROVE  UInv'
<1>a. /\ completed \in [Answers -> Nat]
      /\ entry \in [Resumes -> {"absent", "pending"} \cup Verdicts]
      /\ consumer.phase = "held" => consumer.answer \in Answers
  BY DEF TypeOK, MessagesTypeOK, HiringTypeOK, IdleConsumer
<1>b. /\ \A w \in Workers : job[w].phase \in {"answer", "report"} => job[w].verdict = doc[Resume(w)].status
      /\ \A x \in Answers : completed[x] > 0 => x.verdict = doc[x.resume].status
      /\ consumer.phase = "held" => consumer.answer.verdict = doc[consumer.answer.resume].status
      /\ \A r \in Resumes : entry[r] \in Verdicts => entry[r] = doc[r].status
  BY DEF UInv, AsDocumented
<1>c. UNCHANGED <<requested, requestedAt, todo, confirmed, doc, job>>
  BY DEF ConsumerStep, TakeResult, RecordFirst, IgnoreRepeat, RefuseResult, AckResult, messageVars,
         outboxVars, resumeVars
<1>1. ASSUME NEW a \in Answers, TakeResult(a)
      PROVE  UInv'
  <2>1. \A x \in Answers : completed'[x] > 0 => completed[x] > 0
    BY <1>a, <1>1 DEF TakeResult, Take
  <2>2. consumer'.phase = "held" /\ consumer'.answer = a /\ completed[a] > 0 /\ entry' = entry
    BY <1>1 DEF TakeResult, Handling, outboxVars
  <2>3. \A r \in Resumes : Answered(r)' => Answered(r)
    BY <2>1, <2>2 DEF Answered, AnswerUnderway
  <2>4. AsDocumented'
    BY <1>b, <1>c, <2>1, <2>2 DEF AsDocumented, Resume
  <2> QED BY <1>c, <2>3, <2>4, NoNewAnswer
<1>2. CASE RecordFirst
  <2>1. PICK a \in Answers : a = consumer.answer
    BY <1>a, <1>2 DEF RecordFirst
  <2>2. /\ consumer.phase = "held" /\ consumer'.phase = "settled" /\ completed' = completed
        /\ entry' = [entry EXCEPT ![a.resume] = a.verdict]
    BY <1>2, <2>1 DEF RecordFirst, Handling, messageVars
  <2>3. \A r \in Resumes : entry'[r] = IF r = a.resume THEN a.verdict ELSE entry[r]
    BY <1>a, <2>2
  <2>4. \A r \in Resumes : Answered(r)' => Answered(r)
    BY <2>1, <2>2, <2>3 DEF Answered, AnswerUnderway
  <2>5. AsDocumented'
    BY <1>b, <1>c, <2>1, <2>2, <2>3 DEF AsDocumented, Resume
  <2> QED BY <1>c, <2>4, <2>5, NoNewAnswer
<1>3. CASE IgnoreRepeat \/ RefuseResult \/ AckResult
  <2>1. consumer'.phase # "held" /\ UNCHANGED <<completed, entry>>
    BY <1>3 DEF IgnoreRepeat, RefuseResult, AckResult, Handling, IdleConsumer, messageVars, outboxVars
  <2>2. \A r \in Resumes : Answered(r)' => Answered(r)
    BY <2>1 DEF Answered, AnswerUnderway
  <2>3. AsDocumented'
    BY <1>b, <1>c, <2>1 DEF AsDocumented, Resume
  <2> QED BY <1>c, <2>2, <2>3, NoNewAnswer
<1> QED BY <1>1, <1>2, <1>3 DEF ConsumerStep

-----------------------------------------------------------------------------
(* The steps of the workers.                                                *)

(* A step of one worker that still has the resume to itself, and may write  *)
(* its document.                                                            *)
LEMMA StillWorks ==
  ASSUME TypeOK, UInv, NEW w \in Workers, Works(w),
         UNCHANGED <<hiringVars, requested, completed, retrying>>,
         NEW j \in Jobs, job' = [job EXCEPT ![w] = j],
         j.request = job[w].request, j.live = job[w].live, j.phase \notin {"ack", "nack"},
         j.phase \in {"mark", "report"} => j.copy = "kept",
         \A r \in Resumes \ {Resume(w)} : doc'[r] = doc[r],
         j.phase \in {"answer", "report"} => j.verdict = doc'[Resume(w)].status
  PROVE  UInv'
<1>a. job \in [Workers -> Jobs \cup {Idle}] /\ Resume(w) \in Resumes
  BY WorkingJob DEF TypeOK, ResumeTypeOK, Works
<1>b. job'[w] = j /\ \A v \in Workers \ {w} : job'[v] = job[v]
  BY <1>a
<1>c. j # Idle
  BY DEF Jobs, Idle, Phases
<1>1. /\ \A r : Sent(r) <=> Sent(r)'
      /\ \A m : Queued(m) <=> Queued(m)'
      /\ \A r : Answered(r) <=> Answered(r)'
  BY DEF Sent, Queued, Answered, AnswerUnderway, hiringVars
<1>2. \A v \in Workers : (Works(v) <=> Works(v)') /\ Resume(v)' = Resume(v)
  BY <1>b, <1>c DEF Works, At, Resume
<1>3. OnePass'
  BY DEF UInv, OnePass, hiringVars
<1>4. NoneFailed'
  BY <1>b, <1>c DEF UInv, NoneFailed, Works
<1>5. OneRequest'
  BY <1>1, <1>2 DEF UInv, OneRequest
<1>6. InBetween'
  BY <1>1, <1>2 DEF UInv, InBetween
<1>7. AsDocumented'
  <2>1. ASSUME NEW v \in Workers, job'[v].phase \in {"answer", "report"}
        PROVE  job'[v].verdict = doc'[Resume(v)'].status
    <3>1. CASE v = w
      BY <1>2, <1>b, <2>1, <3>1
    <3>2. CASE v # w
      <4>1. Works(v)
        BY <1>b, <2>1, <3>2 DEF Works, At, Idle
      <4>2. Resume(v) # Resume(w) /\ Resume(v) \in Resumes
        BY <3>2, <4>1, WorkingJob DEF UInv, OneRequest, Works
      <4> QED BY <1>2, <1>b, <2>1, <3>2, <4>2 DEF UInv, AsDocumented
    <3> QED BY <3>1, <3>2
  <2>2. ~Answered(Resume(w))
    BY DEF UInv, InBetween
  <2>3. ASSUME NEW a \in Answers, completed[a] > 0
        PROVE  a.verdict = doc'[a.resume].status
    <3>1. a.resume # Resume(w) /\ a.resume \in Resumes
      BY <2>2, <2>3 DEF Answered, AnswerUnderway, Answers
    <3> QED BY <2>3, <3>1 DEF UInv, AsDocumented
  <2>4. ASSUME consumer.phase = "held"
        PROVE  consumer.answer.verdict = doc'[consumer.answer.resume].status
    <3>1. consumer.answer \in Answers
      BY <2>4 DEF TypeOK, HiringTypeOK, IdleConsumer
    <3>2. consumer.answer.resume # Resume(w) /\ consumer.answer.resume \in Resumes
      BY <2>2, <2>4, <3>1 DEF Answered, AnswerUnderway, Answers
    <3> QED BY <2>4, <3>2 DEF UInv, AsDocumented
  <2>5. ASSUME NEW r \in Resumes, entry[r] \in Verdicts
        PROVE  entry[r] = doc'[r].status
    <3>1. r # Resume(w)
      BY <2>2, <2>5 DEF Answered
    <3> QED BY <2>5, <3>1 DEF UInv, AsDocumented
  <2>6. UNCHANGED <<completed, consumer, entry>>
    BY DEF hiringVars
  <2> QED BY <2>1, <2>3, <2>4, <2>5, <2>6 DEF AsDocumented
<1> QED BY <1>3, <1>4, <1>5, <1>6, <1>7 DEF UInv

LEMMA GoesOnWorking ==
  ASSUME TypeOK, UInv, NEW w \in Workers, Works(w),
         UNCHANGED <<hiringVars, requested, completed, retrying>>,
         NEW phase \in {"work", "retry", "bury"}, Go(w, phase),
         \A r \in Resumes \ {Resume(w)} : doc'[r] = doc[r]
  PROVE  UInv'
<1>1. job[w] \in Jobs
  BY WorkingJob DEF Works
<1>2. PICK j : j = [job[w] EXCEPT !.phase = phase]
  OBVIOUS
<1>3. j \in Jobs /\ j.request = job[w].request /\ j.live = job[w].live /\ j.phase = phase
  BY <1>1, <1>2 DEF Jobs, Phases
<1>4. job' = [job EXCEPT ![w] = j]
  BY <1>2 DEF Go, TypeOK, ResumeTypeOK
<1> QED BY <1>3, <1>4, StillWorks

LEMMA AnswersAsDocumented ==
  ASSUME TypeOK, UInv, NEW w \in Workers, Works(w),
         UNCHANGED <<hiringVars, requested, completed, retrying>>,
         NEW phase \in {"answer", "report"}, NEW verdict \in Verdicts, NEW identified \in BOOLEAN,
         Answering(w, phase, verdict, identified),
         phase = "report" => job[w].copy = "kept",
         \A r \in Resumes \ {Resume(w)} : doc'[r] = doc[r],
         doc'[Resume(w)].status = verdict
  PROVE  UInv'
<1>1. job[w] \in Jobs
  BY WorkingJob DEF Works
<1>2. PICK j : j = [job[w] EXCEPT !.phase = phase, !.verdict = verdict, !.identified = identified]
  OBVIOUS
<1>3. /\ j \in Jobs /\ j.request = job[w].request /\ j.live = job[w].live /\ j.phase = phase
      /\ j.verdict = verdict /\ j.copy = job[w].copy
  BY <1>1, <1>2 DEF Jobs, Phases
<1>4. job' = [job EXCEPT ![w] = j]
  BY <1>2 DEF Answering, TypeOK, ResumeTypeOK
<1> QED BY <1>3, <1>4, StillWorks

(* From the delivery up to the answer, the retry or the copy for the DLQ.   *)
LEMMA WorkUndisturbed ==
  ASSUME TypeOK, UInv, NEW w \in Workers, UNCHANGED hiringVars,
         \/ FindFinished(w) \/ FindUnfinished(w) \/ ClaimNew(w) \/ ClaimTaken(w) \/ ClaimAgain(w)
         \/ \E verdict \in Finished : Finish(w, verdict)
         \/ \E permanent \in BOOLEAN : WorkFails(w, permanent)
         \/ Bury(w) \/ MarkFailed(w)
  PROVE  UInv'
<1>1. job[w].phase \in {"look", "claim", "work", "bury", "mark"}
  BY DEF FindFinished, FindUnfinished, ClaimNew, ClaimTaken, ClaimAgain, Finish, WorkFails, Bury,
         MarkFailed, At
<1>2. Works(w)
  BY <1>1 DEF Works, At, Idle
<1>3. /\ job[w] \in Jobs /\ Resume(w) \in Resumes
      /\ doc[Resume(w)].status \in Finished \cup {"none", "processing", "failed"}
      /\ doc[Resume(w)].identified \in BOOLEAN
      /\ doc[Resume(w)] \in Docs
  <2>1. job[w] \in Jobs /\ Resume(w) \in Resumes
    BY <1>2, WorkingJob DEF Works
  <2>2. doc[Resume(w)] \in Docs
    BY <2>1 DEF TypeOK, ResumeTypeOK
  <2> QED BY <2>1, <2>2 DEF Docs
<1>a. doc \in [Resumes -> Docs]
  BY DEF TypeOK, ResumeTypeOK
<1>4. UNCHANGED <<requested, completed, retrying>>
  BY DEF FindFinished, FindUnfinished, ClaimNew, ClaimTaken, ClaimAgain, Finish, WorkFails, Bury,
         MarkFailed, queueVars
<1>5. Finished \subseteq Verdicts /\ "failed" \in Verdicts
  BY DEF Finished, Verdicts
<1>6. CASE FindFinished(w)
  BY <1>2, <1>3, <1>4, <1>5, <1>6, AnswersAsDocumented DEF FindFinished
<1>7. CASE FindUnfinished(w)
  <2>1. PICK j : j = [job[w] EXCEPT !.phase = "claim", !.fresh = (doc[Resume(w)].status = "none")]
    OBVIOUS
  <2>2. j \in Jobs /\ j.request = job[w].request /\ j.live = job[w].live /\ j.phase = "claim"
    BY <1>3, <2>1 DEF Jobs, Phases
  <2>3. job' = [job EXCEPT ![w] = j] /\ doc' = doc
    BY <1>7, <2>1 DEF FindUnfinished, TypeOK, ResumeTypeOK
  <2> QED BY <1>2, <1>4, <2>2, <2>3, StillWorks
<1>8. CASE ClaimNew(w) \/ ClaimAgain(w)
  <2>1. Go(w, "work") /\ \A r \in Resumes \ {Resume(w)} : doc'[r] = doc[r]
    BY <1>a, <1>8 DEF ClaimNew, ClaimAgain
  <2> QED BY <1>2, <1>4, <2>1, GoesOnWorking
<1>9. CASE ClaimTaken(w) \/ \E permanent \in BOOLEAN : WorkFails(w, permanent)
  <2>1. PICK phase \in {"retry", "bury"} : Go(w, phase)
    BY <1>9 DEF ClaimTaken, WorkFails, Fails
  <2>2. doc' = doc
    BY <1>9 DEF ClaimTaken, WorkFails
  <2> QED BY <1>2, <1>4, <2>1, <2>2, GoesOnWorking
<1>10. ASSUME NEW verdict \in Finished, Finish(w, verdict)
       PROVE  UInv'
  <2>1. /\ doc'[Resume(w)].status = verdict
        /\ \A r \in Resumes \ {Resume(w)} : doc'[r] = doc[r]
    <3>1. PICK row : row = [doc[Resume(w)] EXCEPT !.status = verdict]
      OBVIOUS
    <3>2. row.status = verdict
      BY <1>3, <3>1 DEF Docs
    <3>3. doc' = [doc EXCEPT ![Resume(w)] = row]
      BY <1>a, <1>10, <3>1 DEF Finish
    <3> QED BY <1>3, <1>a, <3>2, <3>3
  <2>2. Answering(w, "answer", verdict, doc[Resume(w)].identified)
    BY <1>10 DEF Finish
  <2> QED BY <1>2, <1>3, <1>4, <1>5, <2>1, <2>2, AnswersAsDocumented
<1>11. CASE Bury(w)
  <2>1. PICK j : j = [job[w] EXCEPT !.phase = "mark", !.copy = "kept"]
    OBVIOUS
  <2>2. /\ j \in Jobs /\ j.request = job[w].request /\ j.live = job[w].live
        /\ j.phase = "mark" /\ j.copy = "kept"
    BY <1>3, <2>1 DEF Jobs, Phases
  <2>3. job' = [job EXCEPT ![w] = j] /\ doc' = doc
    BY <1>11, <2>1 DEF Bury, TypeOK, ResumeTypeOK
  <2> QED BY <1>2, <1>4, <2>2, <2>3, StillWorks
<1>12. CASE MarkFailed(w)
  <2>1. /\ doc'[Resume(w)].status = "failed"
        /\ \A r \in Resumes \ {Resume(w)} : doc'[r] = doc[r]
    <3>1. PICK row : row = [doc[Resume(w)] EXCEPT !.status = "failed"]
      OBVIOUS
    <3>2. row.status = "failed"
      BY <1>3, <3>1 DEF Docs
    <3>3. doc' = [doc EXCEPT ![Resume(w)] = row]
      BY <1>a, <1>12, <3>1 DEF MarkFailed
    <3> QED BY <1>3, <1>a, <3>2, <3>3
  <2>2. Answering(w, "report", "failed", doc[Resume(w)].identified)
    BY <1>12 DEF MarkFailed
  <2>3. job[w].copy = "kept"
    BY <1>2, <1>12 DEF MarkFailed, At, UInv, NoneFailed, Works
  <2> QED BY <1>2, <1>3, <1>4, <1>5, <2>1, <2>2, <2>3, AnswersAsDocumented
<1> QED BY <1>6, <1>7, <1>8, <1>9, <1>10, <1>11, <1>12

(* The request goes from its queue to the worker.                           *)
LEMMA DeliverUndisturbed ==
  ASSUME TypeOK, UInv, NEW w \in Workers, UNCHANGED hiringVars, Deliver(w)
  PROVE  UInv'
<1>a. /\ requested \in [Requests -> Nat] /\ retrying \in [Requests -> Nat]
      /\ job \in [Workers -> Jobs \cup {Idle}]
  BY DEF TypeOK, MessagesTypeOK, ResumeTypeOK
<1>1. PICK m \in Requests : /\ requested[m] > 0
                            /\ requested' = Take(requested, m)
                            /\ job' = [job EXCEPT ![w] = Started(m)]
  BY DEF Deliver
<1>2. PICK j : j = Started(m)
  OBVIOUS
<1>3. /\ j.request = m /\ j.phase = "look" /\ j.live /\ j # Idle
  BY <1>2 DEF Started, Idle
<1>4. job'[w] = j /\ \A v \in Workers \ {w} : job'[v] = job[v]
  BY <1>a, <1>1, <1>2
<1>5. UNCHANGED <<retrying, completed, doc>> /\ job[w] = Idle
  BY DEF Deliver
<1>6. \A x \in Requests : requested'[x] = IF x = m THEN requested[m] - 1 ELSE requested[x]
  BY <1>a, <1>1 DEF Take
<1>7. Queued(m)
  BY <1>a, <1>1 DEF Queued
<1>8. \A x \in Requests : Queued(x)' <=> Queued(x) /\ x # m
  BY <1>a, <1>1, <1>5, <1>6 DEF Queued, UInv, OneRequest
<1>9. /\ \A r : Sent(r) <=> Sent(r)'
      /\ \A r : Answered(r) <=> Answered(r)'
  BY <1>5 DEF Sent, Answered, AnswerUnderway, hiringVars
<1>10. /\ \A v \in Workers \ {w} : (Works(v) <=> Works(v)') /\ Resume(v)' = Resume(v)
       /\ Works(w)' /\ Resume(w)' = m.resume /\ ~Works(w)
  BY <1>3, <1>4, <1>5 DEF Works, At, Resume
<1>11. OnePass'
  BY DEF UInv, OnePass, hiringVars
<1>12. NoneFailed'
  BY <1>3, <1>4 DEF UInv, NoneFailed
<1>13. OneRequest'
  <2>1. \A x \in Requests : (requested[x] + retrying[x] <= 1)'
    BY <1>a, <1>1, <1>5, <1>6 DEF UInv, OneRequest
  <2>2. \A x \in Requests : Queued(x)' => x.resume # m.resume
    BY <1>7, <1>8 DEF UInv, OneRequest
  <2>3. \A v \in Workers \ {w} : Works(v)' => Resume(v)' # m.resume
    BY <1>7, <1>10 DEF UInv, OneRequest
  <2> QED BY <1>8, <1>10, <2>1, <2>2, <2>3 DEF UInv, OneRequest
<1>14. InBetween'
  BY <1>7, <1>8, <1>9, <1>10 DEF UInv, InBetween
<1>15. AsDocumented'
  BY <1>3, <1>4, <1>5, <1>10 DEF UInv, AsDocumented, hiringVars
<1> QED BY <1>11, <1>12, <1>13, <1>14, <1>15 DEF UInv

(* A worker that is done with its delivery.                                 *)
LEMMA Done ==
  ASSUME TypeOK, NoneFailed, NEW w \in Workers, job[w] # Idle,
         Go(w, "ack") \/ Stop(w)
  PROVE  /\ ~Works(w)' /\ ~(job'[w].phase \in {"answer", "report"})
         /\ \A v \in Workers \ {w} :
              job'[v] = job[v] /\ (Works(v)' <=> Works(v)) /\ Resume(v)' = Resume(v)
         /\ NoneFailed'
<1>1. job \in [Workers -> Jobs \cup {Idle}] /\ job[w] \in Jobs
  BY DEF TypeOK, ResumeTypeOK
<1>2. PICK j : j = job'[w]
  OBVIOUS
<1>3. \/ j = Idle /\ j.phase = "idle"
      \/ j.phase = "ack" /\ j.live = job[w].live
  <2>1. CASE Go(w, "ack")
    <3>1. j = [job[w] EXCEPT !.phase = "ack"]
      BY <1>1, <1>2, <2>1 DEF Go
    <3> QED BY <1>1, <3>1 DEF Jobs
  <2>2. CASE Stop(w)
    BY <1>1, <1>2, <2>2 DEF Stop, Idle
  <2> QED BY <2>1, <2>2
<1>4. \A v \in Workers \ {w} : job'[v] = job[v]
  BY <1>1 DEF Go, Stop
<1>5. ~Works(w)' /\ ~(job'[w].phase \in {"answer", "report"})
  BY <1>2, <1>3 DEF Works, At
<1>6. NoneFailed'
  BY <1>2, <1>3, <1>4 DEF NoneFailed
<1>7. \A v \in Workers \ {w} : (Works(v)' <=> Works(v)) /\ Resume(v)' = Resume(v)
  BY <1>4 DEF Works, At, Resume
<1> QED BY <1>4, <1>5, <1>6, <1>7

(* The answer goes from the worker to its queue.                            *)
LEMMA PublishUndisturbed ==
  ASSUME TypeOK, UInv, NEW w \in Workers, UNCHANGED hiringVars, PublishAnswer(w) \/ ReportFailed(w)
  PROVE  UInv'
<1>1. /\ job[w].phase \in {"answer", "report"}
      /\ completed' = Put(completed, AnswerOf(w))
      /\ UNCHANGED <<requested, retrying, doc>>
  BY DEF PublishAnswer, ReportFailed, At
<1>2. Works(w) /\ job[w] # Idle
  BY <1>1 DEF Works, At, Idle
<1>3. job[w].phase = "report" => job[w].copy = "kept"
  BY <1>2 DEF UInv, NoneFailed
<1>4. Go(w, "ack")
  BY <1>3 DEF PublishAnswer, ReportFailed, AfterReport, At
<1>5. /\ ~Works(w)' /\ ~(job'[w].phase \in {"answer", "report"})
      /\ \A v \in Workers \ {w} :
           job'[v] = job[v] /\ (Works(v)' <=> Works(v)) /\ Resume(v)' = Resume(v)
      /\ NoneFailed'
  BY <1>2, <1>4, Done DEF UInv
<1>6. AnswerOf(w) \in Answers /\ Resume(w) \in Resumes
  BY <1>2, WorkingJob, BusyWorker DEF TypeOK
<1>7. PICK a \in Answers : a = AnswerOf(w) /\ a.resume = Resume(w) /\ a.verdict = job[w].verdict
  BY <1>6 DEF AnswerOf
<1>8. \A x \in Answers : completed'[x] > 0 <=> completed[x] > 0 \/ x = a
  BY <1>1, <1>7 DEF Put, TypeOK, MessagesTypeOK
<1>9. /\ \A r : Sent(r) <=> Sent(r)'
      /\ \A m : Queued(m) <=> Queued(m)'
      /\ \A r : Answered(r)' <=> Answered(r) \/ r = Resume(w)
  <2>1. \A r : Answered(r)' <=> Answered(r) \/ r = Resume(w)
    BY <1>7, <1>8 DEF Answered, AnswerUnderway, hiringVars
  <2> QED BY <1>1, <2>1 DEF Sent, Queued, hiringVars
<1>10. OnePass'
  BY DEF UInv, OnePass, hiringVars
<1>11. OneRequest'
  BY <1>1, <1>5, <1>9 DEF UInv, OneRequest
<1>12. InBetween'
  <2>1. \A m \in Requests : Queued(m) => m.resume # Resume(w)
    BY <1>2 DEF UInv, OneRequest
  <2>2. \A v \in Workers \ {w} : Works(v) => Resume(v) # Resume(w)
    BY <1>2 DEF UInv, OneRequest
  <2>3. Sent(Resume(w))
    BY <1>2 DEF UInv, InBetween
  <2>4. \A r \in Resumes : Answered(r)' => Sent(r)'
    BY <1>9, <2>3 DEF UInv, InBetween
  <2>5. \A m \in Requests : Queued(m)' => Sent(m.resume)' /\ ~Answered(m.resume)'
    BY <1>9, <2>1 DEF UInv, InBetween
  <2>6. \A v \in Workers : Works(v)' => Sent(Resume(v))' /\ ~Answered(Resume(v))'
    BY <1>5, <1>9, <2>2 DEF UInv, InBetween
  <2> QED BY <2>4, <2>5, <2>6 DEF InBetween
<1>13. AsDocumented'
  BY <1>1, <1>5, <1>7, <1>8 DEF UInv, AsDocumented, hiringVars
<1> QED BY <1>5, <1>10, <1>11, <1>12, <1>13 DEF UInv

(* The request goes from the worker to the retry queue.                     *)
LEMMA RetryUndisturbed ==
  ASSUME TypeOK, RetryBudget, UInv, NEW w \in Workers, UNCHANGED hiringVars, PublishRetry(w)
  PROVE  UInv'
<1>1. /\ job[w].phase = "retry" /\ Go(w, "ack")
      /\ retrying' = Put(retrying, [job[w].request EXCEPT !.attempt = @ + 1])
      /\ UNCHANGED <<requested, completed, doc>>
  BY DEF PublishRetry, At
<1>2. Works(w) /\ job[w] # Idle
  BY <1>1 DEF Works, At, Idle
<1>3. /\ ~Works(w)' /\ ~(job'[w].phase \in {"answer", "report"})
      /\ \A v \in Workers \ {w} :
           job'[v] = job[v] /\ (Works(v)' <=> Works(v)) /\ Resume(v)' = Resume(v)
      /\ NoneFailed'
  BY <1>1, <1>2, Done DEF UInv
<1>4. PICK m : m = [job[w].request EXCEPT !.attempt = @ + 1]
  OBVIOUS
<1>5. m \in Requests /\ m.resume = Resume(w)
  <2>1. job[w].request \in Requests /\ job[w].request.attempt \in 0 .. MaxRetries
    BY <1>2, WorkingJob, BusyWorker DEF TypeOK
  <2>2. job[w].request.attempt + 1 \in 0 .. MaxRetries
    BY <1>1, <2>1, MessageAssumption DEF RetryBudget, At
  <2> QED BY <1>4, <2>1, <2>2 DEF Requests, Resume
<1>a. requested \in [Requests -> Nat] /\ retrying \in [Requests -> Nat]
  BY DEF TypeOK, MessagesTypeOK, ResumeTypeOK
<1>6. \A x \in Requests : retrying'[x] = IF x = m THEN retrying[m] + 1 ELSE retrying[x]
  BY <1>a, <1>1, <1>4, <1>5 DEF Put
<1>7. \A x \in Requests : Queued(x)' <=> Queued(x) \/ x = m
  BY <1>a, <1>1, <1>6 DEF Queued
<1>8. \A x \in Requests : Queued(x) => x.resume # Resume(w)
  BY <1>2 DEF UInv, OneRequest
<1>9. \A v \in Workers \ {w} : Works(v) => Resume(v) # Resume(w)
  BY <1>2 DEF UInv, OneRequest
<1>10. /\ \A r : Sent(r) <=> Sent(r)'
       /\ \A r : Answered(r) <=> Answered(r)'
  BY <1>1 DEF Sent, Answered, AnswerUnderway, hiringVars
<1>11. OnePass'
  BY DEF UInv, OnePass, hiringVars
<1>12. OneRequest'
  <2>1. requested[m] + retrying[m] = 0
    BY <1>a, <1>5, <1>8 DEF Queued
  <2>2. \A x \in Requests : (requested[x] + retrying[x] <= 1)'
    BY <1>a, <1>1, <1>6, <2>1 DEF UInv, OneRequest
  <2> QED BY <1>3, <1>5, <1>7, <1>8, <1>9, <2>2 DEF UInv, OneRequest
<1>13. InBetween'
  <2>1. Sent(Resume(w)) /\ ~Answered(Resume(w))
    BY <1>2 DEF UInv, InBetween
  <2> QED BY <1>3, <1>5, <1>7, <1>10, <2>1 DEF UInv, InBetween
<1>14. AsDocumented'
  BY <1>1, <1>3 DEF UInv, AsDocumented, hiringVars
<1> QED BY <1>3, <1>11, <1>12, <1>13, <1>14 DEF UInv

LEMMA AckUndisturbed ==
  ASSUME TypeOK, UInv, NEW w \in Workers, UNCHANGED hiringVars, Ack(w)
  PROVE  UInv'
<1>1. /\ job[w].phase = "ack" /\ Stop(w) /\ UNCHANGED <<requested, retrying, completed, doc>>
  BY DEF Ack, At, queueVars
<1>2. job[w] # Idle /\ ~Works(w)
  BY <1>1 DEF Idle, Works, At
<1>3. /\ ~Works(w)' /\ ~(job'[w].phase \in {"answer", "report"})
      /\ \A v \in Workers \ {w} :
           job'[v] = job[v] /\ (Works(v)' <=> Works(v)) /\ Resume(v)' = Resume(v)
      /\ NoneFailed'
  BY <1>1, <1>2, Done DEF UInv
<1>4. /\ \A r : Sent(r) <=> Sent(r)'
      /\ \A m : Queued(m) <=> Queued(m)'
      /\ \A r : Answered(r) <=> Answered(r)'
  BY <1>1 DEF Sent, Queued, Answered, AnswerUnderway, hiringVars
<1>5. OnePass'
  BY DEF UInv, OnePass, hiringVars
<1>6. OneRequest'
  BY <1>1, <1>3, <1>4 DEF UInv, OneRequest
<1>7. InBetween'
  BY <1>3, <1>4 DEF UInv, InBetween
<1>8. AsDocumented'
  BY <1>1, <1>3 DEF UInv, AsDocumented, hiringVars
<1> QED BY <1>3, <1>5, <1>6, <1>7, <1>8 DEF UInv

LEMMA ExpiryUndisturbed ==
  ASSUME TypeOK, UInv, NEW m \in Requests, UNCHANGED hiringVars, ExpireRetry(m)
  PROVE  UInv'
<1>1. /\ requested \in [Requests -> Nat] /\ retrying \in [Requests -> Nat]
      /\ retrying[m] > 0 /\ UNCHANGED <<completed, doc, job>>
  BY DEF TypeOK, MessagesTypeOK, ResumeTypeOK, ExpireRetry
<1>2. \A x \in Requests : (requested[x] + retrying[x])' = requested[x] + retrying[x]
  BY <1>1 DEF ExpireRetry, Put, Take
<1>3. /\ \A r : Sent(r) <=> Sent(r)'
      /\ \A r : Answered(r) <=> Answered(r)'
      /\ \A w : (Works(w) <=> Works(w)') /\ Resume(w)' = Resume(w)
  BY <1>1 DEF Sent, Answered, AnswerUnderway, Works, At, Resume, hiringVars
<1>4. \A x \in Requests : Queued(x)' <=> Queued(x)
  BY <1>2 DEF Queued
<1>5. OnePass' /\ NoneFailed' /\ AsDocumented'
  BY <1>1 DEF UInv, OnePass, NoneFailed, AsDocumented, Resume, hiringVars
<1>6. OneRequest'
  BY <1>2, <1>3, <1>4 DEF UInv, OneRequest
<1>7. InBetween'
  BY <1>3, <1>4 DEF UInv, InBetween
<1> QED BY <1>5, <1>6, <1>7 DEF UInv

(* Resume Processing's steps together: none of them is of a failed channel. *)
LEMMA ResumeUndisturbed ==
  ASSUME TypeOK, RetryBudget, UInv, ResumeStep, UNCHANGED hiringVars
  PROVE  UInv'
<1>1. ASSUME NEW w \in Workers
      PROVE  ~Nack(w) /\ ~Abandon(w)
  BY DEF Nack, Abandon, At, Idle, UInv, NoneFailed
<1>2. ASSUME NEW w \in Workers, WorkerStep(w)
      PROVE  UInv'
  <2>1. CASE Deliver(w)
    BY <2>1, DeliverUndisturbed
  <2>2. CASE PublishAnswer(w) \/ ReportFailed(w)
    BY <2>2, PublishUndisturbed
  <2>3. CASE PublishRetry(w)
    BY <2>3, RetryUndisturbed
  <2>4. CASE Ack(w)
    BY <2>4, AckUndisturbed
  <2>5. CASE \/ FindFinished(w) \/ FindUnfinished(w)
             \/ ClaimNew(w) \/ ClaimTaken(w) \/ ClaimAgain(w)
             \/ \E verdict \in Finished : Finish(w, verdict)
             \/ \E permanent \in BOOLEAN : WorkFails(w, permanent)
             \/ Bury(w) \/ MarkFailed(w)
    BY <2>5, WorkUndisturbed
  <2> QED BY <1>1, <1>2, <2>1, <2>2, <2>3, <2>4, <2>5 DEF WorkerStep
<1> QED BY <1>2, ExpiryUndisturbed DEF ResumeStep

-----------------------------------------------------------------------------
(* In every reachable state, if nothing has failed, a resume is at one      *)
(* place at a time.                                                         *)

DInv == TypeOK /\ RetryBudget /\ (Undisturbed => UInv)

LEMMA Undisturbing == Safe => []DInv
<1>1. Init => DInv
  <2>1. ASSUME Init
        PROVE  UInv
    <3>1. /\ \A p \in Passes : todo[p] = {} /\ confirmed[p] = {}
          /\ \A w \in Workers : job[w] = Idle
          /\ \A m \in Requests : requested[m] = 0 /\ retrying[m] = 0
          /\ \A a \in Answers : completed[a] = 0
          /\ consumer.phase # "held"
      BY <2>1 DEF Init, MessagesInit, HiringInit, ResumeInit, EmptyBag, IdleConsumer
    <3>2. \A r \in Resumes : entry[r] \notin Verdicts
      BY <2>1, MessageAssumption DEF Init, HiringInit, Verdicts
    <3>3. \A r \in Resumes : ~Answered(r)
      <4>1. \A a \in Answers : ~(completed[a] > 0)
        BY <3>1
      <4>2. \A r \in Resumes : ~AnswerUnderway(r)
        BY <3>1, <4>1 DEF AnswerUnderway
      <4> QED BY <3>2, <4>2 DEF Answered
    <3>4. (\A w \in Workers : ~Works(w)) /\ (\A m \in Requests : ~Queued(m))
      BY <3>1 DEF Works, Queued
    <3>5. OnePass /\ NoneFailed
      BY <3>1 DEF OnePass, NoneFailed
    <3>6. OneRequest
      BY <3>1, <3>4 DEF OneRequest
    <3>7. InBetween
      BY <3>3, <3>4 DEF InBetween
    <3>8. AsDocumented
      BY <3>1, <3>2 DEF AsDocumented, Idle
    <3> QED BY <3>5, <3>6, <3>7, <3>8 DEF UInv
  <2> QED BY <2>1, InitTypes DEF DInv
<1>2. DInv /\ [Next]_vars => DInv'
  <2>1. ASSUME DInv, Next
        PROVE  DInv'
    <3>1. (TypeOK /\ RetryBudget)'
      BY <2>1, HiringTypes, ResumeTypes, RetryBudgetKept DEF DInv, Next
    <3>2. ASSUME Undisturbed'
          PROVE  UInv'
      <4>1. TypeOK /\ RetryBudget /\ UInv
        BY <2>1, <3>2, StillUndisturbed DEF DInv
      <4>2. \/ /\ \/ \E S \in SUBSET Resumes \ {{}} : Submit(S)
                  \/ \E p \in Passes : OutboxStep(p)
                  \/ ConsumerStep
               /\ UNCHANGED resumeVars
            \/ ResumeStep /\ UNCHANGED hiringVars
        BY <2>1, <3>2, StillUndisturbed DEF DInv
      <4> QED BY <4>1, <4>2, SubmitUndisturbed, OutboxUndisturbed, ConsumerUndisturbed,
                 ResumeUndisturbed
    <3> QED BY <3>1, <3>2 DEF DInv
  <2>2. ASSUME DInv, UNCHANGED vars
        PROVE  DInv'
    <3>1. TypeOK' /\ RetryBudget'
      BY <2>2 DEF DInv, vars, messageVars, hiringVars, resumeVars, TypeOK, MessagesTypeOK,
                  HiringTypeOK, ResumeTypeOK, RetryBudget, At
    <3>2. Undisturbed' => Undisturbed
      BY <2>2 DEF Undisturbed, vars, messageVars, resumeVars
    <3>3. UInv => UInv'
      BY <2>2 DEF vars, messageVars, hiringVars, resumeVars, UInv, OnePass, NoneFailed, OneRequest,
                  InBetween, AsDocumented, Queued, Works, Answered, AnswerUnderway, Sent, At, Resume
    <3> QED BY <2>2, <3>1, <3>2, <3>3 DEF DInv
  <2> QED BY <2>1, <2>2
<1> QED BY <1>1, <1>2, PTL DEF Safe

(* However many passes, workers and retries there are, as long as nothing   *)
(* fails and nobody replays there is one request for a resume at most       *)
(* (PublishPendingRequests: "two passes never send the same resume").       *)
THEOREM NoDuplicates == Safe => []NoDuplicateRequests
<1>1. DInv => NoDuplicateRequests
  <2>1. ASSUME TypeOK, UInv, NEW r \in Resumes
        PROVE  Cardinality(QueuedRequests(r)) + Cardinality(WorkersOn(r)) <= 1
    <3>1. QueuedRequests(r) = {} \/ \E m : QueuedRequests(r) = {m}
      BY <2>1 DEF QueuedRequests, UInv, OneRequest, Queued
    <3>2. WorkersOn(r) = {} \/ \E w : WorkersOn(r) = {w}
      BY <2>1 DEF WorkersOn, UInv, OneRequest, Works
    <3>3. QueuedRequests(r) = {} \/ WorkersOn(r) = {}
      BY <2>1 DEF QueuedRequests, WorkersOn, UInv, OneRequest, Queued, Works
    <3>4. Cardinality(QueuedRequests(r)) \in {0, 1}
      BY <3>1, FS_EmptySet, FS_Singleton
    <3>5. Cardinality(WorkersOn(r)) \in {0, 1}
      BY <3>2, FS_EmptySet, FS_Singleton
    <3> QED BY <3>3, <3>4, <3>5, FS_EmptySet
  <2>2. ASSUME TypeOK, UInv, NEW r \in Resumes, NEW m \in QueuedRequests(r)
        PROVE  requested[m] + retrying[m] = 1
    BY <2>2 DEF QueuedRequests, UInv, OneRequest, TypeOK, MessagesTypeOK, ResumeTypeOK
  <2> QED BY <2>1, <2>2 DEF DInv, NoDuplicateRequests
<1> QED BY <1>1, Undisturbing, PTL

(* As long as nothing fails and nobody replays, the two services agree:     *)
(* what RecordScreeningResult stored is the status Resume Processing's      *)
(* document has, and goes on having.                                        *)
THEOREM Agrees == Safe => []Agreement
<1>1. DInv => Agreement
  BY DEF DInv, Agreement, UInv, AsDocumented
<1> QED BY <1>1, Undisturbing, PTL

-----------------------------------------------------------------------------
(* Finished work settles.                                                   *)
(*                                                                          *)
(* Two deliveries that overlap may finish a document twice, and the later   *)
(* save wins (v_finished_reopened.cfg).  But only a delivery that looked    *)
(* before the document was finished writes to it, or one that could not     *)
(* look (StoreFails).  So once those have ended nobody writes it any more.  *)

Writing == {"claim", "work", "bury", "mark"}

(* What Go and Answering make of a job.                                     *)
LEMMA GoesTo ==
  ASSUME TypeOK, NEW w \in Workers, job[w].phase \in Phases, NEW phase \in Phases,
         \/ Go(w, phase)
         \/ \E verdict \in Verdicts, identified \in BOOLEAN : Answering(w, phase, verdict, identified)
  PROVE  \E j \in Jobs : /\ job' = [job EXCEPT ![w] = j]
                         /\ j.phase = phase /\ j.request = job[w].request
<1>1. job \in [Workers -> Jobs \cup {Idle}] /\ job[w] \in Jobs
  BY BusyWorker DEF TypeOK, ResumeTypeOK
<1>2. CASE Go(w, phase)
  <2>1. PICK j : j = [job[w] EXCEPT !.phase = phase]
    OBVIOUS
  <2>2. j \in Jobs /\ j.phase = phase /\ j.request = job[w].request
    BY <1>1, <2>1 DEF Jobs
  <2> QED BY <1>1, <1>2, <2>1, <2>2 DEF Go
<1>3. ASSUME NEW verdict \in Verdicts, NEW identified \in BOOLEAN,
             Answering(w, phase, verdict, identified)
      PROVE  \E j \in Jobs : /\ job' = [job EXCEPT ![w] = j]
                             /\ j.phase = phase /\ j.request = job[w].request
  <2>1. PICK j : j = [job[w] EXCEPT !.phase = phase, !.verdict = verdict, !.identified = identified]
    OBVIOUS
  <2>2. j \in Jobs /\ j.phase = phase /\ j.request = job[w].request
    BY <1>1, <2>1 DEF Jobs
  <2> QED BY <1>1, <1>3, <2>1, <2>2 DEF Answering
<1> QED BY <1>2, <1>3

(* A step of a worker leaves a settled document alone if the worker writes  *)
(* only in the phases that write, and comes to one of these only from       *)
(* another or from an unfinished document.                                  *)
LEMMA SettledStep ==
  ASSUME TypeOK, NEW r \in Resumes, Settled(r), NEW w \in Workers,
         NEW j, job' = [job EXCEPT ![w] = j],
         \/ doc' = doc
         \/ job[w].phase \in Writing /\ \A x \in Resumes \ {Resume(w)} : doc'[x] = doc[x],
         j.phase \in Writing =>
           /\ j.request = job[w].request
           /\ job[w].phase \in Writing \/ doc[Resume(w)].status \notin Finished
  PROVE  doc'[r] = doc[r] /\ Settled(r)'
<1>1. job'[w] = j /\ \A v \in Workers \ {w} : job'[v] = job[v]
  BY DEF TypeOK, ResumeTypeOK
<1>2. \A v \in Workers : job[v].phase \in Writing => Resume(v) # r
  BY DEF Settled, MayWrite, Writing
<1>3. doc'[r] = doc[r]
  BY <1>2
<1>4. ASSUME NEW v \in Workers, job'[v].phase \in Writing
      PROVE  job'[v].request.resume # r
  <2>1. CASE v = w
    BY <1>1, <1>2, <1>4, <2>1 DEF Settled, Resume
  <2>2. CASE v # w
    BY <1>1, <1>2, <1>4, <2>2 DEF Resume
  <2> QED BY <2>1, <2>2
<1> QED BY <1>3, <1>4 DEF Settled, MayWrite, Resume, Writing

(* So it does if it goes to a phase that does not write, or comes from one  *)
(* that does.                                                               *)
LEMMA SettledGo ==
  ASSUME TypeOK, NEW r \in Resumes, Settled(r), NEW w \in Workers,
         job[w].phase \in Phases, NEW phase \in Phases,
         \/ Go(w, phase)
         \/ \E verdict \in Verdicts, identified \in BOOLEAN : Answering(w, phase, verdict, identified),
         \/ doc' = doc
         \/ job[w].phase \in Writing /\ \A x \in Resumes \ {Resume(w)} : doc'[x] = doc[x],
         job[w].phase \in Writing \/ phase \notin Writing
  PROVE  doc'[r] = doc[r] /\ Settled(r)'
<1>1. PICK j \in Jobs : /\ job' = [job EXCEPT ![w] = j]
                        /\ j.phase = phase /\ j.request = job[w].request
  BY GoesTo
<1> QED BY <1>1, SettledStep

(* Every step of a worker does, but for the failed read.                    *)
LEMMA WorkerSettles ==
  ASSUME TypeOK, NEW r \in Resumes, Settled(r), NEW w \in Workers,
         WorkerStep(w) \/ WorkerFault(w)
  PROVE  /\ doc'[r] = doc[r]
         /\ Settled(r)' \/ (StoreFails(w) /\ Resume(w) = r)
<1>a. /\ doc \in [Resumes -> Docs] /\ job \in [Workers -> Jobs \cup {Idle}]
      /\ Writing \subseteq Phases /\ Idle.phase \notin Phases
  BY DEF TypeOK, ResumeTypeOK, Writing, Phases, Idle
<1>1. ASSUME Deliver(w)
      PROVE  doc'[r] = doc[r] /\ Settled(r)'
  <2>1. PICK m \in Requests : job' = [job EXCEPT ![w] = Started(m)] /\ doc' = doc
    BY <1>1 DEF Deliver
  <2>2. Started(m).phase \notin Writing
    BY DEF Started, Writing
  <2> QED BY <2>1, <2>2, SettledStep
<1>2. ASSUME FindUnfinished(w)
      PROVE  doc'[r] = doc[r] /\ Settled(r)'
  <2>1. job[w] \in Jobs
    BY <1>a, <1>2 DEF FindUnfinished, At, Phases, Idle
  <2>2. PICK j : j = [job[w] EXCEPT !.phase = "claim", !.fresh = (doc[Resume(w)].status = "none")]
    OBVIOUS
  <2>3. j.request = job[w].request /\ job' = [job EXCEPT ![w] = j]
    BY <1>a, <1>2, <2>1, <2>2 DEF FindUnfinished, Jobs
  <2> QED BY <1>2, <2>3, SettledStep DEF FindUnfinished
<1>3. ASSUME \/ FindFinished(w) \/ PublishAnswer(w) \/ PublishRetry(w) \/ ReportFailed(w)
             \/ PublishRefused(w)
      PROVE  doc'[r] = doc[r] /\ Settled(r)'
  <2>1. /\ job[w].phase \in Phases /\ doc' = doc
        /\ \E phase \in Phases \ Writing :
             \/ Go(w, phase)
             \/ \E verdict \in Verdicts, identified \in BOOLEAN : Answering(w, phase, verdict, identified)
    <3>1. CASE FindFinished(w)
      <4>1. job[w].phase \in Phases
        BY <3>1 DEF FindFinished, At, Phases
      <4>2. doc[Resume(w)] \in Docs
        BY <1>a, <4>1, BusyWorker DEF TypeOK
      <4>3. doc[Resume(w)].status \in Verdicts /\ doc[Resume(w)].identified \in BOOLEAN
        BY <3>1, <4>2 DEF FindFinished, Docs, Finished, Verdicts
      <4> QED BY <3>1, <4>1, <4>3 DEF FindFinished, Phases, Writing
    <3>2. CASE PublishAnswer(w) \/ PublishRetry(w) \/ ReportFailed(w) \/ PublishRefused(w)
      BY <3>2 DEF PublishAnswer, PublishRetry, ReportFailed, AfterReport, PublishRefused, At, Phases, Writing
    <3> QED BY <1>3, <3>1, <3>2
  <2> QED BY <2>1, SettledGo
<1>4. ASSUME ClaimNew(w) \/ ClaimAgain(w)
      PROVE  doc'[r] = doc[r] /\ Settled(r)'
  <2>1. job[w].phase \in Writing
    BY <1>4 DEF ClaimNew, ClaimAgain, At, Writing
  <2>2. \A x \in Resumes \ {Resume(w)} : doc'[x] = doc[x]
    BY <1>a, <1>4 DEF ClaimNew, ClaimAgain
  <2>3. Go(w, "work") /\ "work" \in Phases
    BY <1>4 DEF ClaimNew, ClaimAgain, Phases
  <2> QED BY <1>a, <2>1, <2>2, <2>3, SettledGo
<1>5. ASSUME ClaimTaken(w) \/ MarkFails(w) \/ \E permanent \in BOOLEAN : WorkFails(w, permanent)
      PROVE  doc'[r] = doc[r] /\ Settled(r)'
  <2>1. /\ job[w].phase \in Writing /\ doc' = doc
        /\ \E phase \in {"retry", "bury", "ack", "nack"} : Go(w, phase)
    BY <1>5 DEF ClaimTaken, MarkFails, AfterReport, WorkFails, Fails, At, Writing
  <2> QED BY <1>a, <2>1, SettledGo DEF Phases
<1>6. ASSUME NEW verdict \in Finished, Finish(w, verdict)
      PROVE  doc'[r] = doc[r] /\ Settled(r)'
  <2>1. /\ job[w].phase \in Writing /\ job[w].phase \in Phases /\ Resume(w) \in Resumes
    BY <1>6, BusyWorker DEF TypeOK, Finish, At, Phases, Writing
  <2>2. \A x \in Resumes \ {Resume(w)} : doc'[x] = doc[x]
    BY <1>a, <1>6 DEF Finish
  <2>3. verdict \in Verdicts /\ doc[Resume(w)].identified \in BOOLEAN
    BY <1>a, <2>1 DEF Finished, Verdicts, Docs
  <2>4. Answering(w, "answer", verdict, doc[Resume(w)].identified) /\ "answer" \in Phases
    BY <1>6 DEF Finish, Phases
  <2> QED BY <2>1, <2>2, <2>3, <2>4, SettledGo
<1>7. ASSUME MarkFailed(w)
      PROVE  doc'[r] = doc[r] /\ Settled(r)'
  <2>1. /\ job[w].phase \in Writing /\ job[w].phase \in Phases /\ Resume(w) \in Resumes
    BY <1>7, BusyWorker DEF TypeOK, MarkFailed, At, Phases, Writing
  <2>2. \A x \in Resumes \ {Resume(w)} : doc'[x] = doc[x]
    BY <1>a, <1>7 DEF MarkFailed
  <2>3. "failed" \in Verdicts /\ doc[Resume(w)].identified \in BOOLEAN
    BY <1>a, <2>1 DEF Verdicts, Docs
  <2>4. Answering(w, "report", "failed", doc[Resume(w)].identified) /\ "report" \in Phases
    BY <1>7 DEF MarkFailed, Phases
  <2> QED BY <2>1, <2>2, <2>3, <2>4, SettledGo
<1>8. ASSUME Buries(w)
      PROVE  doc'[r] = doc[r] /\ Settled(r)'
  <2>1. job[w] \in Jobs /\ doc' = doc /\ job[w].phase \in Writing
    BY <1>a, <1>8 DEF Buries, Bury, BuryRefused, BuryDropped, At, Idle, Writing
  <2>2. PICK copy : job' = [job EXCEPT ![w].phase = "mark", ![w].copy = copy]
    BY <1>8 DEF Buries, Bury, BuryRefused, BuryDropped
  <2>3. PICK j : j = [job[w] EXCEPT !.phase = "mark", !.copy = copy]
    OBVIOUS
  <2>4. j.request = job[w].request
    BY <2>1, <2>3 DEF Jobs
  <2>5. job' = [job EXCEPT ![w] = j]
    BY <1>a, <2>2, <2>3
  <2> QED BY <2>1, <2>4, <2>5, SettledStep
<1>9. ASSUME LoseChannel(w)
      PROVE  doc'[r] = doc[r] /\ Settled(r)'
  <2>1. job[w] \in Jobs /\ doc' = doc
    BY <1>a, <1>9 DEF LoseChannel
  <2>2. PICK j : j = [job[w] EXCEPT !.live = FALSE]
    OBVIOUS
  <2>3. j.request = job[w].request /\ j.phase = job[w].phase
    BY <2>1, <2>2 DEF Jobs
  <2>4. job' = [job EXCEPT ![w] = j]
    BY <1>a, <1>9, <2>2 DEF LoseChannel
  <2> QED BY <2>1, <2>3, <2>4, SettledStep
<1>10. ASSUME Ack(w) \/ Nack(w) \/ Abandon(w) \/ WorkerCrash(w)
       PROVE  doc'[r] = doc[r] /\ Settled(r)'
  <2>1. job' = [job EXCEPT ![w] = Idle] /\ doc' = doc
    BY <1>10 DEF Ack, Nack, Abandon, WorkerCrash, Stop
  <2> QED BY <1>a, <2>1, SettledStep
<1>11. ASSUME StoreFails(w)
       PROVE  doc'[r] = doc[r] /\ (Settled(r)' \/ Resume(w) = r)
  <2>1. doc' = doc /\ \A v \in Workers \ {w} : job'[v] = job[v]
    BY <1>a, <1>11 DEF StoreFails, Fails, Go
  <2>2. job[w] \in Jobs
    BY <1>a, <1>11 DEF StoreFails, Idle
  <2>3. job'[w].request = job[w].request
    <3>1. PICK phase : Go(w, phase)
      BY <1>11 DEF StoreFails, Fails
    <3>2. [job[w] EXCEPT !.phase = phase].request = job[w].request
      BY <2>2 DEF Jobs
    <3> QED BY <1>a, <3>1, <3>2 DEF Go
  <2>4. ASSUME Resume(w) # r, NEW v \in Workers, job'[v].phase \in Writing
        PROVE  job'[v].request.resume # r
    BY <2>1, <2>3, <2>4 DEF Resume, Settled, MayWrite, Writing
  <2> QED BY <2>1, <2>4 DEF Settled, MayWrite, Resume, Writing
<1>12. ASSUME ~StoreFails(w)
       PROVE  doc'[r] = doc[r] /\ Settled(r)'
  <2>1. CASE WorkerStep(w)
    BY <1>1, <1>2, <1>3, <1>4, <1>5, <1>6, <1>7, <1>8, <1>10, <2>1 DEF WorkerStep, Buries
  <2>2. CASE WorkerFault(w)
    BY <1>3, <1>5, <1>8, <1>9, <1>10, <1>12, <2>2 DEF WorkerFault, Buries
  <2> QED BY <2>1, <2>2
<1> QED BY <1>11, <1>12

(* Finished work settles (processScreeningRequest, "redelivery of finished  *)
(* work: answer again, do not redo it"): once the deliveries that may still *)
(* write to a finished document have ended, it stays as it is whatever is   *)
(* delivered again, on any number of workers, and whichever faults they     *)
(* meet, until MongoDB fails the read of a later delivery.                  *)
THEOREM ResultsSettle == Safe => ResultSettles
<1> DEFINE Stands(r) ==
      Settled(r) => /\ doc'[r] = doc[r]
                    /\ Settled(r)' \/ \E w \in Workers : StoreFails(w) /\ Resume(w) = r
<1>1. TypeOK /\ [Next]_vars => \A r \in Resumes : Stands(r)
  <2>1. ASSUME TypeOK, [Next]_vars, NEW r \in Resumes, Settled(r)
        PROVE  /\ doc'[r] = doc[r]
               /\ Settled(r)' \/ \E w \in Workers : StoreFails(w) /\ Resume(w) = r
    <3>1. CASE UNCHANGED <<doc, job>>
      BY <2>1, <3>1 DEF Settled, MayWrite, Resume
    <3>2. ASSUME NEW w \in Workers, WorkerStep(w) \/ WorkerFault(w)
          PROVE  /\ doc'[r] = doc[r]
                 /\ Settled(r)' \/ (StoreFails(w) /\ Resume(w) = r)
      BY <2>1, <3>2, WorkerSettles
    <3>3. Next => UNCHANGED <<doc, job>> \/ \E w \in Workers : WorkerStep(w) \/ WorkerFault(w)
      BY DEF Next, Hiring, ResumeProcessing, ResumeStep, ResumeFault, ExpireRetry, Replay,
             ReplayInterrupted, ReplayDropped, resumeVars
    <3> QED BY <2>1, <3>1, <3>2, <3>3 DEF vars, resumeVars
  <2> QED BY <2>1
<1> QED BY <1>1, TypeCorrect, PTL DEF Safe, ResultSettles
=============================================================================
