------------------------- MODULE ScreeningMessages -------------------------
(***************************************************************************)
(* The contract between the Hiring Service and Resume Processing: the two  *)
(* shared RabbitMQ queues, the messages that travel on them, and the       *)
(* faults both sides have to live with.  Hiring's half of the screening    *)
(* handover is HiringScreening, Resume Processing's is ResumeScreening,    *)
(* and ScreeningHandover puts them together.                               *)
(*                                                                         *)
(* A queue is a bag: how many copies of each message it holds.  Several    *)
(* consumers, redelivery and per-message expiration mean that nothing may  *)
(* rely on the order of a queue, and a bag keeps duplicates apart from     *)
(* single copies.                                                          *)
(***************************************************************************)
EXTENDS Naturals

CONSTANTS
  Resumes,     \* the resumes a recruiter may submit, batch id included
  Scores,      \* the scores the AI Service may come up with
  MaxRetries,  \* MAX_RETRIES of Resume Processing
  FaultKinds,  \* the kinds of fault that may happen, a subset of AllFaultKinds
  MaxFaults    \* bound: how many faults happen in one behaviour

(***************************************************************************)
(* "crash"    a process dies and restarts with empty memory                *)
(* "channel"  a connection to the broker drops; unacked deliveries requeue *)
(* "publish"  the broker does not take a message, or its confirm is lost   *)
(* "store"    PostgreSQL or MongoDB fails one operation                    *)
(***************************************************************************)
AllFaultKinds == {"crash", "channel", "publish", "store"}

ASSUME MessageAssumption ==
  /\ MaxRetries \in Nat
  /\ MaxFaults \in Nat
  /\ FaultKinds \subseteq AllFaultKinds
  /\ Scores \cap {"unparsable", "failed", "none", "processing", "absent", "pending"} = {}

(* The outcomes a screening.completed message reports; a scored outcome is  *)
(* its score.                                                               *)
Verdicts == Scores \cup {"unparsable", "failed"}

(* attempt is the x-retry-count header.                                     *)
Requests == [resume : Resumes, attempt : 0 .. MaxRetries]

(* identified says whether the message carries a candidate_id.              *)
Answers == [resume : Resumes, verdict : Verdicts, identified : BOOLEAN]

FirstRequest(r) == [resume |-> r, attempt |-> 0]

EmptyBag(S) == [m \in S |-> 0]
Put(bag, m) == [bag EXCEPT ![m] = @ + 1]
Take(bag, m) == [bag EXCEPT ![m] = @ - 1]

VARIABLES
  requested,  \* the queue screening.requested
  completed,  \* the queue screening.completed
  faults,     \* how many faults have happened
  dropped     \* history: the resumes of which the broker refused a message
              \* whose confirmation nobody waited for

messageVars == <<requested, completed, faults, dropped>>

MessagesTypeOK ==
  /\ requested \in [Requests -> Nat]
  /\ completed \in [Answers -> Nat]
  /\ faults \in 0 .. MaxFaults
  /\ dropped \subseteq Resumes

MessagesInit ==
  /\ requested = EmptyBag(Requests)
  /\ completed = EmptyBag(Answers)
  /\ faults = 0
  /\ dropped = {}

Happens(kind) ==
  /\ kind \in FaultKinds
  /\ faults < MaxFaults
  /\ faults' = faults + 1

Fault(kind) == Happens(kind) /\ UNCHANGED dropped

(* The broker refuses a message about r, and nobody is told.                *)
Drops(r) == Happens("publish") /\ dropped' = dropped \cup {r}
=============================================================================
