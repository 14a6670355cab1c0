-------------------------- MODULE HiringScreening --------------------------
(***************************************************************************)
(* The Hiring Service's half of the screening handover:                    *)
(*   - accepting a batch (SubmitScreeningBatch),                           *)
(*   - the outbox: passes of PublishPendingRequests, started by a          *)
(*     submission or by the relay, send what is not yet requested and mark *)
(*     each resume requested once the broker has confirmed it,             *)
(*   - the consumer of screening.completed, which records the first answer *)
(*     of each resume and refuses what it can never accept.                *)
(* entry and requestedAt are rows of PostgreSQL and survive a crash; passes*)
(* and the consumer are goroutines of one process and do not.              *)
(***************************************************************************)
EXTENDS ScreeningMessages, FiniteSets

CONSTANTS
  Passes,       \* goroutines that may run PublishPendingRequests
  PublishLimit  \* publishLimit: how many requests one pass sends at most

ASSUME HiringAssumption == PublishLimit \in Nat \ {0}

VARIABLES
  entry,        \* status of each resume: "absent", "pending" or its verdict
  requestedAt,  \* whether requested_at of the row is set
  todo,         \* what is left of the snapshot of each running pass
  confirmed,    \* the resume of the pass confirmed but not yet marked
  consumer,     \* what the consumer of results is doing
  refused       \* results moved to screening.completed.dlq

hiringVars == <<entry, requestedAt, todo, confirmed, consumer, refused>>
outboxVars == <<entry, requestedAt, todo, confirmed>>

IdleConsumer == [phase |-> "idle"]
Handling(a, phase) == [phase |-> phase, answer |-> a]

HiringTypeOK ==
  /\ entry \in [Resumes -> {"absent", "pending"} \cup Verdicts]
  /\ requestedAt \in [Resumes -> BOOLEAN]
  /\ todo \in [Passes -> SUBSET Resumes]
  /\ confirmed \in [Passes -> SUBSET Resumes]
  /\ consumer \in {IdleConsumer} \cup [phase : {"held", "settled"}, answer : Answers]
  /\ refused \in [Resumes -> Nat]

HiringInit ==
  /\ entry = [r \in Resumes |-> "absent"]
  /\ requestedAt = [r \in Resumes |-> FALSE]
  /\ todo = [p \in Passes |-> {}]
  /\ confirmed = [p \in Passes |-> {}]
  /\ consumer = IdleConsumer
  /\ refused = [r \in Resumes |-> 0]

-----------------------------------------------------------------------------
(* Submitting.                                                              *)

(* A batch of resumes is stored in one transaction, every one pending.      *)
Submit(S) ==
  /\ \A r \in S : entry[r] = "absent"
  /\ entry' = [r \in Resumes |-> IF r \in S THEN "pending" ELSE entry[r]]
  /\ UNCHANGED <<messageVars, requestedAt, todo, confirmed, consumer, refused>>

-----------------------------------------------------------------------------
(* The outbox.                                                              *)

Unrequested == {r \in Resumes : entry[r] = "pending" /\ ~requestedAt[r]}

(* The mutex: a pass holds it as long as it has something left to send.     *)
PublishingFree == \A p \in Passes : todo[p] = {}

(* Mutant: two passes overlap.                                              *)
StartPassUnlocked(p) ==
  /\ todo[p] = {}
  /\ Unrequested # {}
  /\ todo' = [todo EXCEPT ![p] = Unrequested]
  /\ UNCHANGED <<messageVars, entry, requestedAt, confirmed, consumer, refused>>

(* The pass takes the mutex and reads its snapshot: everything unrequested, *)
(* cut at PublishLimit.  One that finds nothing to send gives the mutex back*)
(* and changes nothing.                                                     *)
StartPass(p) ==
  /\ PublishingFree
  /\ Unrequested # {}
  /\ \E S \in SUBSET Unrequested :
       /\ \/ S = Unrequested /\ Cardinality(S) <= PublishLimit
          \/ Cardinality(S) = PublishLimit
       /\ todo' = [todo EXCEPT ![p] = S]
  /\ UNCHANGED <<messageVars, entry, requestedAt, confirmed, consumer, refused>>

(* The broker stores the request and its confirmation arrives.              *)
SendRequest(p, r) ==
  /\ r \in todo[p]
  /\ confirmed[p] = {}
  /\ requested' = Put(requested, FirstRequest(r))
  /\ confirmed' = [confirmed EXCEPT ![p] = {r}]
  /\ UNCHANGED <<completed, faults, dropped, entry, requestedAt, todo, consumer, refused>>

MarkRequested(p, r) ==
  /\ r \in confirmed[p]
  /\ requestedAt' = [requestedAt EXCEPT ![r] = TRUE]
  /\ todo' = [todo EXCEPT ![p] = @ \ {r}]
  /\ confirmed' = [confirmed EXCEPT ![p] = {}]
  /\ UNCHANGED <<messageVars, entry, consumer, refused>>

EndPass(p) ==
  /\ todo' = [todo EXCEPT ![p] = {}]
  /\ confirmed' = [confirmed EXCEPT ![p] = {}]

(* The first error ends the pass: no connection, a refused or returned      *)
(* message, or no confirmation in time.  In the last case the broker may    *)
(* have stored the request all the same.                                    *)
SendFails(p, r, stored) ==
  /\ r \in todo[p]
  /\ confirmed[p] = {}
  /\ Fault("publish")
  /\ requested' = IF stored THEN Put(requested, FirstRequest(r)) ELSE requested
  /\ EndPass(p)
  /\ UNCHANGED <<completed, entry, requestedAt, consumer, refused>>

MarkRequestedFails(p) ==
  /\ confirmed[p] # {}
  /\ Fault("store")
  /\ EndPass(p)
  /\ UNCHANGED <<requested, completed, entry, requestedAt, consumer, refused>>

OutboxStep(p) ==
  \/ StartPass(p)
  \/ \E r \in Resumes : SendRequest(p, r) \/ MarkRequested(p, r)

OutboxFault(p) ==
  \/ \E r \in Resumes, stored \in BOOLEAN : SendFails(p, r, stored)
  \/ MarkRequestedFails(p)

-----------------------------------------------------------------------------
(* The consumer of results: one delivery at a time.                         *)

TakeResult(a) ==
  /\ consumer = IdleConsumer
  /\ completed[a] > 0
  /\ completed' = Take(completed, a)
  /\ consumer' = Handling(a, "held")
  /\ UNCHANGED <<requested, faults, dropped, outboxVars, refused>>

(* checkScreened: a scored resume needs the candidate id Resume Processing  *)
(* assigned.                                                                *)
Acceptable(a) == a.verdict \in Scores => a.identified

(* Mutant: RecordResult without its check for a pending entry.              *)
RecordAny ==
  /\ consumer.phase = "held"
  /\ Acceptable(consumer.answer)
  /\ entry' = [entry EXCEPT ![consumer.answer.resume] = consumer.answer.verdict]
  /\ consumer' = Handling(consumer.answer, "settled")
  /\ UNCHANGED <<messageVars, requestedAt, todo, confirmed, refused>>

(* RecordScreeningResult on the delivery held, and what handle makes of its *)
(* outcome.                                                                 *)
RecordFirst ==
  /\ consumer.phase = "held"
  /\ LET a == consumer.answer
     IN  /\ entry[a.resume] = "pending"
         /\ Acceptable(a)
         /\ entry' = [entry EXCEPT ![a.resume] = a.verdict]
         /\ consumer' = Handling(a, "settled")
  /\ UNCHANGED <<messageVars, requestedAt, todo, confirmed, refused>>

IgnoreRepeat ==
  /\ consumer.phase = "held"
  /\ entry[consumer.answer.resume] \in Verdicts
  /\ consumer' = Handling(consumer.answer, "settled")
  /\ UNCHANGED <<messageVars, outboxVars, refused>>

(* No such resume, or a result the domain does not accept.                  *)
NeverRecorded(a) ==
  \/ entry[a.resume] = "absent"
  \/ entry[a.resume] = "pending" /\ ~Acceptable(a)

(* deadLetter: the result is kept in screening.completed.dlq.               *)
RefuseResult ==
  /\ consumer.phase = "held"
  /\ NeverRecorded(consumer.answer)
  /\ refused' = Put(refused, consumer.answer.resume)
  /\ consumer' = Handling(consumer.answer, "settled")
  /\ UNCHANGED <<messageVars, outboxVars>>

AckResult ==
  /\ consumer.phase = "settled"
  /\ consumer' = IdleConsumer
  /\ UNCHANGED <<messageVars, outboxVars, refused>>

PutBackResult ==
  /\ completed' = Put(completed, consumer.answer)
  /\ consumer' = IdleConsumer

(* Mutant: the failed result is acknowledged rather than put back.          *)
RecordFailsDropped ==
  /\ consumer.phase = "held"
  /\ Fault("store")
  /\ consumer' = IdleConsumer
  /\ UNCHANGED <<requested, completed, outboxVars, refused>>

(* PostgreSQL fails while the result is recorded: it is delivered again.    *)
RecordFails ==
  /\ consumer.phase = "held"
  /\ Fault("store")
  /\ PutBackResult
  /\ UNCHANGED <<requested, outboxVars, refused>>

(* deadLetter publishes on a channel without confirms: the broker refuses   *)
(* the copy, and the result is acknowledged all the same.                   *)
RefusalDropped ==
  /\ consumer.phase = "held"
  /\ NeverRecorded(consumer.answer)
  /\ Drops(consumer.answer.resume)
  /\ consumer' = Handling(consumer.answer, "settled")
  /\ UNCHANGED <<requested, completed, outboxVars, refused>>

(* The copy cannot even be sent: the result is delivered again.             *)
RefuseFails ==
  /\ consumer.phase = "held"
  /\ NeverRecorded(consumer.answer)
  /\ Fault("channel")
  /\ PutBackResult
  /\ UNCHANGED <<requested, outboxVars, refused>>

(* The session drops while the result is handled.  handle still finishes,   *)
(* its acknowledgement is lost, and the next session gets the result again. *)
ResultUnacked ==
  /\ consumer.phase = "settled"
  /\ Fault("channel")
  /\ PutBackResult
  /\ UNCHANGED <<requested, outboxVars, refused>>

ConsumerStep ==
  \/ \E a \in Answers : TakeResult(a)
  \/ RecordFirst
  \/ IgnoreRepeat
  \/ RefuseResult
  \/ AckResult

(* The Hiring Service restarts: the rows stay, the passes and the consumer  *)
(* do not, and the broker takes the unacknowledged delivery back.  With     *)
(* neither under way a restart changes nothing.                             *)
HiringCrash ==
  /\ Fault("crash")
  /\ consumer # IdleConsumer \/ ~PublishingFree
  /\ todo' = [p \in Passes |-> {}]
  /\ confirmed' = [p \in Passes |-> {}]
  /\ consumer' = IdleConsumer
  /\ completed' = IF consumer = IdleConsumer THEN completed
                  ELSE Put(completed, consumer.answer)
  /\ UNCHANGED <<requested, entry, requestedAt, refused>>

HiringStep ==
  \/ \E p \in Passes : OutboxStep(p)
  \/ ConsumerStep

HiringFault ==
  \/ \E p \in Passes : OutboxFault(p)
  \/ RecordFails
  \/ RefuseFails
  \/ RefusalDropped
  \/ ResultUnacked
  \/ HiringCrash
=============================================================================
