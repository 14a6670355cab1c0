-------------------------- MODULE ResumeScreening --------------------------
(***************************************************************************)
(* Resume Processing's half of the screening handover: the consumers of    *)
(* screening.requested (queue.js) running the pipeline of one resume       *)
(* (pipeline.js).  A worker is one delivery being handled; replicas and    *)
(* prefetch only decide how many workers there are.  Every await of the    *)
(* code ends a step, so two workers interleave at each database read,      *)
(* database write and publish.                                             *)
(*                                                                         *)
(* A worker that loses its channel goes on: the broker hands its delivery  *)
(* to another worker while the first still writes to MongoDB, until it     *)
(* next uses the channel.                                                  *)
(***************************************************************************)
EXTENDS ScreeningMessages

CONSTANTS
  Workers,    \* deliveries handled at the same time, over all replicas
  Scanned,    \* resumes whose PDF has no text: they can only be unparsable
  MaxReplays  \* bound: how often an operator replays a dead-lettered request

ASSUME ResumeAssumption == Scanned \subseteq Resumes /\ MaxReplays \in Nat

VARIABLES
  doc,           \* the ScreeningResult document of each resume
  job,           \* what each worker is doing
  retrying,      \* the queue screening.requested.retry
  deadLettered,  \* the queue screening.requested.dlq
  replays        \* how many dead-lettered requests were replayed

resumeVars == <<doc, job, retrying, deadLettered, replays>>
queueVars == <<requested, completed, retrying, deadLettered>>

Finished == Scores \cup {"unparsable"}

Docs == [status : Finished \cup {"none", "processing", "failed"}, identified : BOOLEAN]
NoDoc == [status |-> "none", identified |-> FALSE]

(***************************************************************************)
(* The phases of a worker, each named for its next step:                   *)
(*   look    read the document          claim   create or take the document*)
(*   work    fetch, extract, score      answer  publish a finished answer  *)
(*   retry   publish to the retry queue bury    publish to the DLQ         *)
(*   mark    record the failure         report  publish the failed answer  *)
(*   ack     acknowledge the delivery   nack    give the delivery back     *)
(***************************************************************************)
Phases == {"look", "claim", "work", "answer", "retry", "bury", "mark", "report", "ack", "nack"}

Idle == [phase |-> "idle"]

Jobs == [phase      : Phases,
         request    : Requests,
         live       : BOOLEAN,    \* its channel is open, the delivery unacked
         fresh      : BOOLEAN,    \* it found no document when it looked
         copy       : {"none", "kept", "refused", "dropped"},  \* that for the DLQ
         verdict    : Verdicts,
         identified : BOOLEAN]

Started(m) == [phase |-> "look", request |-> m, live |-> TRUE, fresh |-> FALSE,
               copy |-> "none", verdict |-> "failed", identified |-> FALSE]

ResumeTypeOK ==
  /\ doc \in [Resumes -> Docs]
  /\ job \in [Workers -> Jobs \cup {Idle}]
  /\ retrying \in [Requests -> Nat]
  /\ deadLettered \in [Resumes -> Nat]
  /\ replays \in 0 .. MaxReplays

ResumeInit ==
  /\ doc = [r \in Resumes |-> NoDoc]
  /\ job = [w \in Workers |-> Idle]
  /\ retrying = EmptyBag(Requests)
  /\ deadLettered = EmptyBag(Resumes)
  /\ replays = 0

-----------------------------------------------------------------------------
Resume(w) == job[w].request.resume

At(w, phase) == job[w].phase = phase

Go(w, phase) == job' = [job EXCEPT ![w].phase = phase]

Stop(w) == job' = [job EXCEPT ![w] = Idle]

(* The answer the worker publishes, as toCompleted builds it.               *)
AnswerOf(w) == [resume |-> Resume(w), verdict |-> job[w].verdict,
                identified |-> job[w].identified]

Answering(w, phase, verdict, identified) ==
  job' = [job EXCEPT ![w].phase = phase, ![w].verdict = verdict,
                     ![w].identified = identified]

(* The catch block of handle: retry what may pass, bury the rest.           *)
Fails(w, permanent) ==
  Go(w, IF ~permanent /\ job[w].request.attempt < MaxRetries THEN "retry" ELSE "bury")

-----------------------------------------------------------------------------
(* One delivery, step by step.                                              *)

Deliver(w) ==
  /\ job[w] = Idle
  /\ \E m \in Requests :
       /\ requested[m] > 0
       /\ requested' = Take(requested, m)
       /\ job' = [job EXCEPT ![w] = Started(m)]
  /\ UNCHANGED <<completed, faults, dropped, doc, retrying, deadLettered, replays>>

(* Redelivery of finished work: answer again.                               *)
FindFinished(w) ==
  /\ At(w, "look")
  /\ doc[Resume(w)].status \in Finished
  /\ Answering(w, "answer", doc[Resume(w)].status, doc[Resume(w)].identified)
  /\ UNCHANGED <<queueVars, faults, dropped, doc, replays>>

(* Mutant: a scored document is not taken for finished.                     *)
FindAny(w) ==
  /\ At(w, "look")
  /\ doc[Resume(w)].status # "unparsable"
  /\ job' = [job EXCEPT ![w].phase = "claim", ![w].fresh = (doc[Resume(w)].status = "none")]
  /\ UNCHANGED <<queueVars, faults, dropped, doc, replays>>

FindUnfinished(w) ==
  /\ At(w, "look")
  /\ doc[Resume(w)].status \notin Finished
  /\ job' = [job EXCEPT ![w].phase = "claim", ![w].fresh = (doc[Resume(w)].status = "none")]
  /\ UNCHANGED <<queueVars, faults, dropped, doc, replays>>

(* The document is created with a new candidate id ...                      *)
ClaimNew(w) ==
  /\ At(w, "claim") /\ job[w].fresh
  /\ doc[Resume(w)].status = "none"
  /\ doc' = [doc EXCEPT ![Resume(w)] = [status |-> "processing", identified |-> TRUE]]
  /\ Go(w, "work")
  /\ UNCHANGED <<queueVars, faults, dropped, replays>>

(* ... unless another worker created it since: a duplicate key.             *)
ClaimTaken(w) ==
  /\ At(w, "claim") /\ job[w].fresh
  /\ doc[Resume(w)].status # "none"
  /\ Fails(w, FALSE)
  /\ UNCHANGED <<queueVars, faults, dropped, doc, replays>>

(* A document that was there is set back to processing, whatever it says    *)
(* by now.  Its candidate id, if it has none, stays unset.                  *)
ClaimAgain(w) ==
  /\ At(w, "claim") /\ ~job[w].fresh
  /\ doc' = [doc EXCEPT ![Resume(w)].status = "processing"]
  /\ Go(w, "work")
  /\ UNCHANGED <<queueVars, faults, dropped, replays>>

(* Mutant: save answers with the document as it was before the update.      *)
FinishStale(w, verdict) ==
  /\ At(w, "work")
  /\ verdict \in (IF Resume(w) \in Scanned THEN {"unparsable"} ELSE Scores)
  /\ doc' = [doc EXCEPT ![Resume(w)].status = verdict]
  /\ Answering(w, "answer", doc[Resume(w)].status, doc[Resume(w)].identified)
  /\ UNCHANGED <<queueVars, faults, dropped, replays>>

(* Fetching, extracting and scoring lead to a result, which is saved over   *)
(* whatever the document says.                                              *)
Finish(w, verdict) ==
  /\ At(w, "work")
  /\ verdict \in (IF Resume(w) \in Scanned THEN {"unparsable"} ELSE Scores)
  /\ doc' = [doc EXCEPT ![Resume(w)].status = verdict]
  /\ Answering(w, "answer", verdict, doc[Resume(w)].identified)
  /\ UNCHANGED <<queueVars, faults, dropped, replays>>

(* Object storage, the AI Service or MongoDB is down, or refuses for good.  *)
WorkFails(w, permanent) ==
  /\ At(w, "work")
  /\ Fails(w, permanent)
  /\ UNCHANGED <<queueVars, faults, dropped, doc, replays>>

(* What the worker produced is in the broker: acknowledge the delivery.     *)
PublishAnswer(w) ==
  /\ At(w, "answer") /\ job[w].live
  /\ completed' = Put(completed, AnswerOf(w))
  /\ Go(w, "ack")
  /\ UNCHANGED <<requested, retrying, deadLettered, faults, dropped, doc, replays>>

PublishRetry(w) ==
  /\ At(w, "retry") /\ job[w].live
  /\ retrying' = Put(retrying, [job[w].request EXCEPT !.attempt = @ + 1])
  /\ Go(w, "ack")
  /\ UNCHANGED <<requested, completed, deadLettered, faults, dropped, doc, replays>>

Bury(w) ==
  /\ At(w, "bury") /\ job[w].live
  /\ deadLettered' = Put(deadLettered, Resume(w))
  /\ job' = [job EXCEPT ![w].phase = "mark", ![w].copy = "kept"]
  /\ UNCHANGED <<requested, completed, retrying, faults, dropped, doc, replays>>

(* Mutant: the failure is answered but not recorded.                        *)
MarkNothing(w) ==
  /\ At(w, "mark")
  /\ Answering(w, "report", "failed", doc[Resume(w)].identified)
  /\ UNCHANGED <<queueVars, faults, dropped, doc, replays>>

(* markFailed creates the document if need be, then without a candidate id. *)
MarkFailed(w) ==
  /\ At(w, "mark")
  /\ doc' = [doc EXCEPT ![Resume(w)].status = "failed"]
  /\ Answering(w, "report", "failed", doc[Resume(w)].identified)
  /\ UNCHANGED <<queueVars, faults, dropped, replays>>

(* settle waits for the confirm of the DLQ copy too, if it is not in yet.   *)
AfterReport(w) == IF job[w].copy = "refused" THEN "nack" ELSE "ack"

ReportFailed(w) ==
  /\ At(w, "report") /\ job[w].live
  /\ completed' = Put(completed, AnswerOf(w))
  /\ Go(w, AfterReport(w))
  /\ UNCHANGED <<requested, retrying, deadLettered, faults, dropped, doc, replays>>

Ack(w) ==
  /\ At(w, "ack") /\ job[w].live
  /\ Stop(w)
  /\ UNCHANGED <<queueVars, faults, dropped, doc, replays>>

(* Mutant: nack without requeue, which drops the message.                   *)
NackDropped(w) ==
  /\ At(w, "nack") /\ job[w].live
  /\ Stop(w)
  /\ UNCHANGED <<queueVars, faults, dropped, doc, replays>>

Nack(w) ==
  /\ At(w, "nack") /\ job[w].live
  /\ requested' = Put(requested, job[w].request)
  /\ Stop(w)
  /\ UNCHANGED <<completed, retrying, deadLettered, faults, dropped, doc, replays>>

(* Without its channel the worker ends at its next use of it.               *)
Abandon(w) ==
  /\ job[w].phase \in {"answer", "retry", "bury", "report", "ack", "nack"}
  /\ ~job[w].live
  /\ Stop(w)
  /\ UNCHANGED <<queueVars, faults, dropped, doc, replays>>

WorkerStep(w) ==
  \/ Deliver(w)
  \/ FindFinished(w) \/ FindUnfinished(w)
  \/ ClaimNew(w) \/ ClaimTaken(w) \/ ClaimAgain(w)
  \/ \E verdict \in Finished : Finish(w, verdict)
  \/ \E permanent \in BOOLEAN : WorkFails(w, permanent)
  \/ PublishAnswer(w) \/ PublishRetry(w) \/ Bury(w)
  \/ MarkFailed(w) \/ ReportFailed(w)
  \/ Ack(w) \/ Nack(w) \/ Abandon(w)

-----------------------------------------------------------------------------
(* The broker: a retry expires back onto screening.requested.               *)
ExpireRetry(m) ==
  /\ retrying[m] > 0
  /\ retrying' = Take(retrying, m)
  /\ requested' = Put(requested, m)
  /\ UNCHANGED <<completed, faults, dropped, doc, job, deadLettered, replays>>

(* An operator runs replay-dlq, which resets the retry count.               *)
Replay(r) ==
  /\ deadLettered[r] > 0
  /\ replays < MaxReplays
  /\ replays' = replays + 1
  /\ deadLettered' = Take(deadLettered, r)
  /\ requested' = Put(requested, FirstRequest(r))
  /\ UNCHANGED <<completed, faults, dropped, doc, job, retrying>>

(* The connection drops before the broker has the acknowledgement: the copy *)
(* in the DLQ stays too.                                                    *)
ReplayInterrupted(r) ==
  /\ deadLettered[r] > 0
  /\ replays < MaxReplays
  /\ Fault("channel")
  /\ replays' = replays + 1
  /\ requested' = Put(requested, FirstRequest(r))
  /\ UNCHANGED <<completed, doc, job, retrying, deadLettered>>

(* The broker refuses the request put back; replay-dlq does not wait to be  *)
(* told and acknowledges the copy in the DLQ.                               *)
ReplayDropped(r) ==
  /\ deadLettered[r] > 0
  /\ replays < MaxReplays
  /\ Drops(r)
  /\ replays' = replays + 1
  /\ deadLettered' = Take(deadLettered, r)
  /\ UNCHANGED <<requested, completed, doc, job, retrying>>

-----------------------------------------------------------------------------
(* Faults.                                                                  *)

(* MongoDB fails the read or the claim.  One that fails the profile or the  *)
(* save is a WorkFails: by its error code it may pass for a refusal of the  *)
(* AI Service, and so for permanent.                                        *)
StoreFails(w) ==
  /\ job[w].phase \in {"look", "claim"}
  /\ Fault("store")
  /\ Fails(w, FALSE)
  /\ UNCHANGED <<queueVars, doc, replays>>

(* markFailed throws: logged, and nothing is published.                     *)
MarkFails(w) ==
  /\ At(w, "mark")
  /\ Fault("store")
  /\ Go(w, AfterReport(w))
  /\ UNCHANGED <<queueVars, doc, replays>>

(* Mutant: settle acknowledges without waiting for the confirms.            *)
PublishUnconfirmed(w) ==
  /\ job[w].phase \in {"answer", "retry", "report"} /\ job[w].live
  /\ Fault("publish")
  /\ Go(w, "ack")
  /\ UNCHANGED <<queueVars, doc, replays>>

(* The broker refuses the answer or the retry.                              *)
PublishRefused(w) ==
  /\ job[w].phase \in {"answer", "retry", "report"} /\ job[w].live
  /\ Fault("publish")
  /\ Go(w, "nack")
  /\ UNCHANGED <<queueVars, doc, replays>>

(* The broker refuses the copy for the DLQ, and settle is still to come ... *)
BuryRefused(w) ==
  /\ At(w, "bury") /\ job[w].live
  /\ Fault("publish")
  /\ job' = [job EXCEPT ![w].phase = "mark", ![w].copy = "refused"]
  /\ UNCHANGED <<queueVars, doc, replays>>

(* ... or has nothing to wait for: the refusal came during markFailed, and  *)
(* the copy was sent without a callback that would have been told.          *)
BuryDropped(w) ==
  /\ At(w, "bury") /\ job[w].live
  /\ Drops(Resume(w))
  /\ job' = [job EXCEPT ![w].phase = "mark", ![w].copy = "dropped"]
  /\ UNCHANGED <<queueVars, doc, replays>>

LoseChannel(w) ==
  /\ job[w] # Idle /\ job[w].live
  /\ Fault("channel")
  /\ requested' = Put(requested, job[w].request)
  /\ job' = [job EXCEPT ![w].live = FALSE]
  /\ UNCHANGED <<completed, retrying, deadLettered, doc, replays>>

WorkerCrash(w) ==
  /\ job[w] # Idle
  /\ Fault("crash")
  /\ requested' = IF job[w].live THEN Put(requested, job[w].request) ELSE requested
  /\ Stop(w)
  /\ UNCHANGED <<completed, retrying, deadLettered, doc, replays>>

WorkerFault(w) ==
  \/ StoreFails(w) \/ MarkFails(w)
  \/ PublishRefused(w) \/ BuryRefused(w) \/ BuryDropped(w)
  \/ LoseChannel(w) \/ WorkerCrash(w)

ResumeStep ==
  \/ \E w \in Workers : WorkerStep(w)
  \/ \E m \in Requests : ExpireRetry(m)

ResumeFault ==
  \/ \E w \in Workers : WorkerFault(w)
  \/ \E r \in Resumes : Replay(r) \/ ReplayInterrupted(r) \/ ReplayDropped(r)
=============================================================================
