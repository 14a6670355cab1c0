------------------------- MODULE ScreeningHandover -------------------------
(***************************************************************************)
(* The screening handover end to end: the Hiring Service's outbox and      *)
(* consumer, the broker's queues, and Resume Processing's workers.  The    *)
(* two services share nothing but the queues.                              *)
(***************************************************************************)
EXTENDS HiringScreening, ResumeScreening

vars == <<messageVars, hiringVars, resumeVars>>

TypeOK == MessagesTypeOK /\ HiringTypeOK /\ ResumeTypeOK

Init == MessagesInit /\ HiringInit /\ ResumeInit

Hiring ==
  /\ \/ \E S \in SUBSET Resumes \ {{}} : Submit(S)
     \/ HiringStep
     \/ HiringFault
  /\ UNCHANGED resumeVars

ResumeProcessing ==
  /\ ResumeStep \/ ResumeFault
  /\ UNCHANGED hiringVars

Next == Hiring \/ ResumeProcessing

Safe == Init /\ [][Next]_vars

(***************************************************************************)
(* Fairness.  The relay ticks every five seconds for as long as the        *)
(* process lives, the consumers of both services run in loops that         *)
(* reconnect for ever, every await of a worker is bounded by a timeout or  *)
(* ends with its connection, and the broker holds the timer of a retry.    *)
(* Nothing makes a recruiter submit, an operator replay, or a fault happen.*)
(* A pass of the relay and one started by a submission are not told apart: *)
(* both read the same table under the same mutex.                          *)
(***************************************************************************)
Fairness ==
  /\ \A p \in Passes : WF_vars(OutboxStep(p) /\ UNCHANGED resumeVars)
  /\ WF_vars(ConsumerStep /\ UNCHANGED resumeVars)
  /\ \A w \in Workers : WF_vars(WorkerStep(w) /\ UNCHANGED hiringVars)
  /\ \A m \in Requests : WF_vars(ExpireRetry(m) /\ UNCHANGED hiringVars)

Spec == Safe /\ Fairness

-----------------------------------------------------------------------------
(* Where a resume is.                                                       *)

(* A worker answers for its delivery until what it produced in its place is *)
(* in the broker: from then on the copy does.                               *)
Carries(j) ==
  /\ j # Idle
  /\ j.live
  /\ j.phase # "ack"
  /\ ~(j.phase \in {"mark", "report"} /\ j.copy = "kept")

HeldByWorker(r) == \E w \in Workers : Carries(job[w]) /\ Resume(w) = r

RequestQueued(r) == \E m \in Requests : m.resume = r /\ (requested[m] > 0 \/ retrying[m] > 0)

AnswerUnderway(r) ==
  \/ \E a \in Answers : a.resume = r /\ completed[a] > 0
  \/ consumer.phase = "held" /\ consumer.answer.resume = r

InFlight(r) == RequestQueued(r) \/ HeldByWorker(r) \/ AnswerUnderway(r)

KeptForAPerson(r) == deadLettered[r] > 0 \/ refused[r] > 0

Carried(r) == InFlight(r) \/ KeptForAPerson(r)

-----------------------------------------------------------------------------
(* Safety.                                                                  *)

(* NFR-10, as far as the code keeps it.  A resume without an answer is still*)
(* in the outbox, or a request or an answer for it is under way, or a       *)
(* dead-letter queue keeps it for a person.  It rests on the order of       *)
(* publish, confirm and acknowledge in PublishPendingRequests, settle and   *)
(* handle.  The one way to lose it is a message that the broker refuses and *)
(* nobody waits for: a copy for a dead-letter queue (handle of queue.js,    *)
(* deadLetter of broker.go) or a request put back by replay-dlq.            *)
NoResumeLost ==
  \A r \in Resumes :
    entry[r] = "pending" => ~requestedAt[r] \/ Carried(r) \/ r \in dropped

(* queue.js: "Ack the request only once everything it produced is safely in *)
(* the broker (publisher confirms)".  A resume whose request was published  *)
(* and acknowledged would then never be lost.  It does not hold: see        *)
(* v_dead_letter_dropped.cfg.                                               *)
AckedIsSafe ==
  \A r \in Resumes : entry[r] = "pending" => ~requestedAt[r] \/ Carried(r)

(* RecordResult: the first answer stands.  No repeat, retry or replay may   *)
(* change what the recruiter was told.                                      *)
FirstAnswerStands ==
  [][\A r \in Resumes : entry[r] \in Verdicts => entry'[r] = entry[r]]_vars

(* A delivery that found its document unfinished, or could not read it, may *)
(* write to it, whatever it says by then.                                   *)
MayWrite(r) ==
  \E w \in Workers : job[w].phase \in {"claim", "work", "bury", "mark"} /\ Resume(w) = r

Settled(r) == doc[r].status \in Finished /\ ~MayWrite(r)

(* processScreeningRequest, "redelivery of finished work: answer again, do  *)
(* not redo it".  Once a document is finished and every delivery that looked*)
(* before has ended or has nothing to write, it stays as it is, however     *)
(* often the request is delivered, retried or replayed, on however many     *)
(* workers, and whichever of them die; until MongoDB fails the read of a    *)
(* later delivery, which then takes the document for unfinished.            *)
ResultSettles ==
  [][\A r \in Resumes : Settled(r) =>
       /\ doc'[r] = doc[r]
       /\ Settled(r)' \/ \E w \in Workers : StoreFails(w) /\ Resume(w) = r]_vars

(* processScreeningRequest: "safe to run twice", for overlapping deliveries *)
(* too.  It does not hold: see v_finished_reopened.cfg.                     *)
FinishedResultStands ==
  [][\A r \in Resumes : doc[r].status \in Finished => doc'[r].status = doc[r].status]_vars

QueuedRequests(r) == {m \in Requests : m.resume = r /\ requested[m] + retrying[m] > 0}
WorkersOn(r) == {w \in Workers : job[w] # Idle /\ ~At(w, "ack") /\ Resume(w) = r}

Undisturbed == faults = 0 /\ replays = 0

(* PublishPendingRequests: "two passes never send the same resume".  As     *)
(* long as nothing fails and nobody replays, at most one request for a      *)
(* resume exists, however many passes are started.                          *)
NoDuplicateRequests ==
  Undisturbed => \A r \in Resumes :
    /\ Cardinality(QueuedRequests(r)) + Cardinality(WorkersOn(r)) <= 1
    /\ \A m \in QueuedRequests(r) : requested[m] + retrying[m] = 1

(* As long as nothing fails and nobody replays, what Hiring recorded is     *)
(* what Resume Processing can justify: the status and score of its document.*)
Agreement ==
  Undisturbed => \A r \in Resumes : entry[r] \in Verdicts => doc[r].status = entry[r]

(* ADR-013 decision 4: a dead-lettered request is answered with a failure,  *)
(* "so Hiring never waits forever".  Waiting on a person alone is waiting   *)
(* for ever.  It does not hold: see v_dead_letter_silent.cfg.               *)
DeadLetterIsAnswered ==
  \A r \in Resumes :
    entry[r] = "pending" /\ deadLettered[r] > 0 => InFlight(r) \/ \E w \in Workers : job[w] # Idle

(* db.js: "every document carries candidate_id", so that retention can      *)
(* delete what was derived about one person.  It does not hold: see         *)
(* v_score_without_candidate.cfg.                                           *)
ScoresCarryCandidate ==
  \A r \in Resumes : doc[r].status \in Scores => doc[r].identified

-----------------------------------------------------------------------------
(* Liveness.                                                                *)

Promise == INSTANCE ScreeningPromise

(* NFR-10: an accepted resume gets an answer, and only one.                 *)
KeepsPromise == Promise!Spec

(* With MongoDB or PostgreSQL failing too, it gets an answer or ends in a   *)
(* dead-letter queue, where a person finds it, unless the broker refused a  *)
(* message about it that nobody waited for.                                 *)
AnsweredOrKept ==
  \A r \in Resumes :
    entry[r] = "pending" ~> entry[r] \in Verdicts \/ KeptForAPerson(r) \/ r \in dropped
=============================================================================
