# A formal model of HireAssist

HireAssist screens resumes against job openings and helps to prepare interviews.
This directory holds TLA+ modules that model its services, TLC configurations
that model-check them on small instances, and proofs, checked by TLAPS, of what
holds on every instance. `PROJECT.json` lists the runs, the mutants, the source
lines behind every definition, the hazards and the theorems.

Paths in this file are relative to the repository's root.

## 1. The system

| Service | Code | State | Operations |
|---|---|---|---|
| Gateway | `services/gateway` | verification keys, a token bucket per caller, the session cookie | verify a token, match a route, limit the rate, forward, renew a session |
| Identity | `services/identity` | members, roles, sessions, refresh tokens (PostgreSQL) | sign in, refresh, sign out, change password, invite, change role, remove |
| Hiring | `services/hiring` | job openings, screening batches and entries (PostgreSQL), interview guides (MongoDB), resume files (object storage) | the lifecycle of an opening, submit a batch, publish requests, record results, rank, override, shortlist, generate, revise and annotate a guide |
| Resume Processing | `services/resume-processing` | screening results, candidate profiles, the candidate counter (MongoDB) | screen one resume, retry, dead-letter, replay, erase a candidate |
| AI Service | `services/ai-service` | none | propose criteria, extract a profile, score, ask interview questions |
| Web client | `services/web` | the access token and what is on screen | call the API, refresh the session once for all callers |

How they interact. Hiring and Resume Processing share nothing but two RabbitMQ
queues, `screening.requested` and `screening.completed`, both delivered at least
once and in no order to rely on. Everything else is a synchronous call: the web
client through the Gateway, Hiring to the AI Service and to Resume Processing's
profiles, Resume Processing to the AI Service and to object storage. Hiring is
one process (its outbox is guarded by a mutex in memory and no document speaks of
replicas); Resume Processing runs as N replicas with a prefetch each
(`docs/OVERVIEW.md`, ADR-013).

What is hard in it, and what correctness means there:

| Component | Hard behaviour | Correct when |
|---|---|---|
| Screening handover | duplicated, refused and unconfirmed publishes; restarts between publish, write and acknowledge; two deliveries of one request at the same time; retries, dead-lettering, replay | no accepted resume is lost (one may be: `v_dead_letter_dropped`); the first answer stands; each resume gets an answer or ends where a person finds it; finished work settles |
| Job openings, submission | read-modify-write calls that overlap; a submission with hundreds of uploads between its check and its save | the table's constraint is never broken; recorded resumes have files; what is closed stays closed once no older copy is left; a batch carries the criteria it was accepted under |
| Screening decisions | decisions and answers that overwrite each other's row | the answer survives every decision; only screened resumes are decided on; decisions survive answers and repeats |
| Interview guides | whole-document saves around an AI call of up to a minute; notes addressed by position | one guide per candidate; notes stay with their question; attribution is true |
| Members | two admins demote or remove each other; a member removed between check and write | an admin remains; a removed record does not change; no call waits for ever |
| Sessions | a refresh token presented twice; row locks taken in different orders; sign-in racing a removal | a token is exchanged once; reuse ends the session; an active session belongs to an active member and its password; calls that wait for each other get on |
| Browser session | several tabs and calls share one cookie and find it used, expired or cleared at the same time; answers are lost | one refresh for all the callers of a page; who waits is told; nobody calls as somebody else; signed out stays signed out |
| Request path of the Gateway | tokens that nobody can revoke; a key replaced in three restarts of two services; buckets dropped while their caller may come back | what a token says was true a token's lifetime ago; no valid token is refused; each caller has its own budget, no more and no less |
| Verdicts and ranking | three services, in three languages, with three ideas of a valid verdict; rounding, ties, missing answers, must-haves looked up by name here and by position there | what one lets through the next one takes; the total is fair; better is higher; every view says the same |
| Broker connection and process | returns and confirmations on different channels, late ones of a request given up before; a mutex held over a wait for the broker; a shutdown that waits for both | marked requested only what reached the queue; the database is closed last; a signal ends the process; a lost connection comes back (it may not: `v_link_lost`) |
| Candidate records (not modelled) | erasing in several deletions while a screening still writes | what was derived about a person is gone for good |

The hazards behind this table, each at its source line, are the "hazards" of
`PROJECT.json`.

## 2. The modules

| Module | Models | Kind |
|---|---|---|
| `ScreeningMessages` | the queues as bags, the messages, the budget of faults | contract of two services |
| `HiringScreening` | submission, outbox, relay, consumer of results | component |
| `ResumeScreening` | one delivery after another in each worker, the retry and dead-letter queues, `replay-dlq` | component |
| `ScreeningHandover` | both, composed; the properties of the whole | composition |
| `ScreeningPromise` | accept, then one answer | abstract specification |
| `JobOpeningDomain` | the rules of `domain/job_opening.go` | operators |
| `JobOpenings` | openings and submissions as overlapping calls | component |
| `OpeningPromise` | the same operations, each a single step | abstract specification |
| `ScreeningDecisions` | a row of `screening_entries` under answers and decisions | component |
| `InterviewGuides` | a document of `interview_guides` under overlapping calls and open pages | component |
| `Members` | the transactions on `members` under the advisory lock | component |
| `Sessions` | the transactions on `sessions` and `refresh_tokens`, row lock by row lock | component |
| `SessionPromise` | one chain of tokens, each exchanged once, none after the end | abstract specification |
| `BrowserSession` | tabs, the cookie, the Gateway's handling of it; Identity as the chain | component and its environment |
| `RateLimiter` | the token buckets, their eviction | component |
| `RateBudget` | a budget per caller that is never forgotten | abstract specification |
| `Gateway` | one request from its route to its answer, the tokens Identity mints, the replacement of the key | component and its environment |
| `Verdicts` | the checks on a verdict in the AI Service, Resume Processing and Hiring; total, ranking, filters, views | composition of pure rules |
| `BrokerLink` | `RequestScreening` over a connection that drops, the sessions of `Run`, start and stop of the process | component |
| `MC*` | symmetry sets, constraints and views for TLC | model checking |
| `ScreeningHandoverProofs`, `JobOpeningsProofs`, `ScreeningDecisionsProofs`, `InterviewGuidesProofs`, `MembersProofs`, `SessionsProofs`, `BrokerLinkProofs`, `GatewayProofs` | theorems | proofs |

An action is named after the function it stands for. Definitions that a comment
introduces with "Mutant:" are plausible slips, used to show that each property
depends on the code it is about; no specification uses them.

### 2.1 The screening handover

| Model | Code |
|---|---|
| `entry`, `requestedAt` | columns `status`, `requested_at` of `screening_entries` |
| `todo[p]`, `confirmed[p]` | the snapshot a pass of `PublishPendingRequests` iterates over, and the resume confirmed but not yet marked; a non-empty `todo` holds the mutex |
| `requested`, `completed`, `retrying`, `deadLettered`, `refused` | `screening.requested`, `screening.completed`, `screening.requested.retry`, `screening.requested.dlq`, `screening.completed.dlq` |
| `consumer` | the one delivery the results consumer of `broker.go` handles |
| `job[w]` | one delivery in `handle` of `queue.js`; its `phase` is the await it is about to make |
| `job[w].live` | whether the channel the delivery came on is still open |
| `job[w].copy` | what became of the copy for the dead-letter queue: kept, refused with `settle` still to see it, or dropped |
| `dropped` | the resumes about which the broker refused a message that nobody waited for; history, nothing in the code |
| `doc[r]` | the screening result of (batch, resume) in MongoDB, and whether it has a candidate id |

Every await of `queue.js` and `pipeline.js` that touches shared state ends a step,
so that two workers interleave between the read of a document, its claim, the save
of the result, each publish and the acknowledgement. What is choice in the model:

* What the AI Service and object storage do: `WorkFails` may happen at any time,
  permanent or not; `Finish` takes any score. Only a scanned resume has a fixed
  outcome, `unparsable`. A resume may therefore fail without a fault being spent.
* Faults, a budget of `MaxFaults` of the kinds in `FaultKinds`: a process dies
  (`HiringCrash`, `WorkerCrash`), a connection drops (`LoseChannel`,
  `ResultUnacked`, `RefuseFails`, `ReplayInterrupted`), the broker refuses a message
  or its confirmation is lost (`SendFails`, `PublishRefused`, `BuryRefused`), the broker
  refuses a message and nobody is told (`BuryDropped`, `RefusalDropped`,
  `ReplayDropped`), a database operation fails (`StoreFails`, `MarkFails`,
  `MarkRequestedFails`, `RecordFails`).
* `Replay`: an operator runs `replay-dlq`.

**Messages nobody waits for.** Three copies are sent without anyone being told whether
the broker took them. `handle` sends the one for `screening.requested.dlq` without a
callback and awaits `markFailed` before `settle` waits for the confirms still missing,
so that a refusal in between goes unseen (`queue.js:121`); `deadLetter` publishes on a
channel without confirms (`broker.go:289`), and so does `replay-dlq`. A resume such a
message was about is in `dropped`. That history variable does not guard any action;
`NoResumeLost` and `AnsweredOrKept` name it as the one way to lose a resume, and
`v_dead_letter_dropped` (3.2) shows that it is a way.

What is abstracted, and why it loses nothing the properties speak of:

* Queues are bags. Several consumers, redelivery and per-message expiration leave
  no order to rely on, so every order is explored. Delays have no length: a retry
  expires some time after it was queued.
* A failed database operation did not happen. One that happened and was reported
  as failed looks like the operation followed by a crash, which is explored.
* `LoseChannel` takes one worker's channel. A replica's workers share a channel;
  losing it is several of these steps.
* `Workers` bounds the deliveries handled at once over all replicas, those included
  whose channel is gone: the worker goes on until it next needs the channel.
* A pass sends its snapshot in any order. A pass started by the relay and one
  started by a submission are the same.
* A crash with nothing under way changes nothing and is left out.
* Recording an answer is one step. `ScreeningDecisions` takes load and save apart
  and shows that no decision in between disturbs the answer; there is one consumer
  and it handles one delivery at a time.
* Malformed messages, refused before they touch a resume, and the erasing of a
  candidate are left out.

### 2.2 Job openings, decisions, interview guides

The three have the same shape in the code: an API call reads a row or document,
applies a rule of the domain to its copy, and later writes the whole copy back
without looking at what is there by then. In the model a call holds its copy in
`call[c]` between an action that reads and an action that saves. A call that the
domain refuses changes nothing and is left out; a call that fails, is abandoned,
or dies with its service ends without its save (`CallFails`, `DecisionNotSaved`,
`CallEnds`); a crash of the service is several of these.

**What happens when calls overlap.** The constant `Shared` is the set of openings,
resumes or guides on which calls may overlap. On the others the environment keeps
calls apart: at most one call (for guides, or open page) is at work at a time. Both
kinds exist in one run, and a property that needs calls to be apart says so by
quantifying over what is not shared. The distinction is the code's own:
`job_opening_repository.go:31` records that "concurrent saves of the same opening
are last-write-wins". On what is shared the losses are real:

* Opening: a pause read before a closing and saved after it reopens the opening and
  erases its outcome. FR-1.9 ("closing is final",
  `docs/FUNCTIONAL-REQUIREMENTS.md:55`) is therefore false as it stands. What is left of
  it, on every opening and with no assumption on who overlaps, is `ClosedStays`: an
  opening that is closed, and of which no call holds an older copy to save, never changes
  again. It is proved (`ClosingSettles`).
* Decision: of an override and a shortlist that overlap, the later save takes the
  other back; two overlapping shortlists both succeed, where `openapi.yaml` promises
  a 409 for a repeat.
* Guide: a note or a revision made while the AI Service is asked is overwritten by
  the regeneration; two overlapping revisions count once; and since a question is
  identified by its position, a note written on a page opened before a revision goes
  to whatever question has that position now.

What holds in spite of overlapping, on shared and unshared alike, is the more
interesting part: `OutcomeIffClosed`, `RecordedHasFile`, `ClosedStays`, `AnswerStands`,
`OnlyScreenedAreDecided`, `AttributedToItsAuthor`, `OneGuide`.

Particulars:

* `JobOpenings`: titles and descriptions are left out, a list of criteria is an
  element of `CriteriaSets`. A submission holds the opening it read, uploads file by
  file (`StoreResume`), checks the opening it holds once more and saves the batch
  with the criteria it holds.
* `ScreeningDecisions`: a score may be off the scale, in which case `checkScreened`
  and `Override` refuse it. A score that may be missing is a set of at most one.
* `InterviewGuides`: a question is its text, a note is represented by the text of
  the question it was written about, an attribution by the answer of the model it
  names. `Save` fails when a document with another `_id` is stored: MongoDB's
  `_id` cannot be changed by a replacement, and the index `Connect` creates is
  unique. That is why `OneGuide` holds although two first generations may overlap.

### 2.3 Members

`call[c]` is an open transaction: it waits for the advisory lock and reads the
member (`LockActiveMember`), counts the other admins if one is about to be lost
(`EnsureAnotherAdmin`), and commits. `Create` takes no lock. Each statement sees
what is committed when it starts (READ COMMITTED), and the lock goes with the
transaction, whether it commits or not. Passwords and sessions, which the same
transactions touch, are in `Sessions`; there the checks of this module are repeated
only as far as an active member goes.

### 2.4 Sessions

| Model | Code |
|---|---|
| `member`, `session`, `token` | tables `members`, `sessions`, `refresh_tokens` |
| `call[c].holds` | the rows a transaction has locked, until it commits or is rolled back; row 0 of a session is the session's own |
| `call[c].phase` | the statement it is about to run |
| `session[s].password` | the password checked at sign-in; history, no column |

`RotateRefreshToken` locks a token row and then its session (`FOR UPDATE OF t, s`);
ending the sessions of a member locks the sessions and then their tokens, in any
order of rows. So two transactions can wait for each other. PostgreSQL finds that
and rolls one of them back (`Deadlocked`, `Abort`); with that, `CallsGoOn` says, some
call can always go on. A statement sees what is committed when it starts, and the
locked rows as they are when it gets them. What a transaction writes appears when it
commits, a refused rotation's revocation included: that transaction commits although
its call is refused, and if it is the deadlock's victim, the call answers 500 and
nothing is revoked.

Expiry is a choice: a session past its cap is `expired` from some moment on, but not
while a rotation that has read the clock is at work on it. What this leaves out is a
rotation that starts after the cap while one from before it is under way: it is refused
and writes nothing. Sweeping deletes rows of
ended sessions. Sign-in reads the member, verifies the password for as long as it
takes, and starts a session whatever has happened to the member in between
(`auth.go:64`). A password change or a removal at that time leaves a session opened
with the old password; its rotations are refused where the member is removed, and
only there. The constant `Shared` names the members on whom these may overlap;
`SessionsAreCurrent` speaks of the others.

### 2.5 The browser

| Model | Code |
|---|---|
| `tab[t]` | `AuthProvider`'s state and `client.ts`'s `accessToken` and `refreshInFlight` |
| `cookie` | the refresh cookie, of the browser and so of all its tabs |
| `call[c]` | one call of `api()`: sent, waiting for the refresh, sent once more |
| `exchange[e]` | a sign-in, refresh or sign-out on its way through the Gateway |
| `chain[s]` | the Identity Service, as `SessionPromise` describes a session |

The headers of an answer, which set or clear the cookie, and its body, which the page
reads, are separate steps. An access token's life is not tracked: a 401 may come at
any time. A page that is closed or reloaded while exchanges are under way does not
read their answers; whether the browser still took the cookie is left open.

A *mishap* is what the client does not guard against: an exchange sent while another
one is under way, other than the page's own refresh; a sign-in under an open page of
somebody else; an answer that is lost. `TokenUsedOnce` and `CallsAsShown` are about
behaviours without one. With one they are false, and the documents say so: ADR-012:146
accepts that two tabs which refresh at once end the session. `NobodyIsForgotten` holds
with mishaps too. A refresh that fails with a 429 or a 502 returns the page to the
sign-in form while the cookie stays, so that a reload signs in again.

### 2.6 The request path of the Gateway

| Model | Code |
|---|---|
| `buckets`, `LimiterAllows` | `rateLimiter` and `allow`, whose mutex makes each use one step |
| `Tokens(b)` | `rate.Limiter` of `golang.org/x/time`, which works out lazily what has been added |
| `RouteTable`, `Match` | `routeTable`, `match`: the longest prefix that ends at a path boundary |
| `keys`, `KeyFor`, `Verify` | `verifier`, its `key` and `verify` |
| `NotFound` … `Forward` | the ways through `forward`, in its order: route, token, role, limit |
| `member`, `issuing[m]`, `tokens`, `signer` | Identity: the members table, a sign-in or refresh under way, what `mint` has signed and with which key |
| `held[m][role]` | when the member last lost the role; history, no column |
| `AddKey`, `SignWithNewKey`, `RemoveOldKey` | the three restarts the comment of `verifier` describes |

* One clock serves both services. `CallTime` is how long Identity may take to answer:
  a response after its server's `WriteTimeout` (ten seconds) does not arrive.
* A refresh reads the clock, exchanges its token, and then reads the role; sign-in
  reads the member, verifies the password for as long as it takes, and takes the time
  when it answers. That is why a token may be stale for `CallTime` more than it lives.
* `RateLimiterAssumption` (what is earned while idle fills a bucket) holds with the
  defaults of 20 a second, a burst of 40 and ten minutes. `main.go` takes other
  rates and bursts from the environment without checking it.
* A gateway that starts has no buckets, so a restart gives everyone a fresh burst
  (`Restart` of `RateBudget`).
* The limiter counts an authenticated request by its member and a public one by its
  address; a request turned away before it is not counted.
* Identity trusts the role in the headers the Gateway sets, also where it changes
  members. What `StaleForATokenAtMost` says of a forwarded request is therefore all
  that holds for the admin's routes too.
* Only the path of a request up to its forwarding is modelled here; the cookie on the
  way back is in `BrowserSession`.

### 2.7 Verdicts

`Verdicts` follows a judgement through the code that checks, keeps, takes in and shows
it. `Answers(J)` are the lists of assessments the model may give for a judgement `J`:
complete, with one missing, with one made up, with one judged twice. `ScoreResponse`
is what the AI Service makes of an accepted one, `Completed` the message Resume
Processing sends, `Acceptable` the checks of Hiring, `Rank`, `Pending`, `NeedsReview`,
`Shown` and `Evidence` what a Recruiter sees. Everything is a set comprehension or a
fold; the order of `Rank` comes out of `SetToSortSeq`.

* Positions count from 0 and ids from `c1`, as in the code: `CriterionID` and
  `ParseCriterionID` convert, the latter refusing what the former does not make.
  Resume Processing and the AI Service pass ids on and know nothing of positions.
* Hiring's clock moves only as far as answers can tell times apart, so that answers at
  the same time, which the stable sort orders by submission, occur.
* `validateCriteria` accepts a name twice in one list, and one of the instance's lists
  has two must-haves of one name. The filter looks only at the first of them, the list and
  the evidence at both: `v_same_name` (3.2) shows them disagree. `ListsAgree` says of the
  filter only what holds for the names a batch has once, and of the rest what holds for
  all.
* That a scored resume has a candidate id, which `checkScreened` asks for too, is part of
  the handover (`Acceptable` of `HiringScreening`).
* Retries and dead-lettering are left to the handover. A verdict that Hiring refuses
  would be dead-lettered there, which is what `VerdictsAccepted` excludes.

### 2.8 The connection to the broker, and the process

| Model | Code |
|---|---|
| `asking`, `holder`, `step`, `todo`, `current` | passes of `PublishPendingRequests`: waiting for the mutex `publishing`, and what the one that has it does |
| `locked`, `pub`, `returns` | the mutex, the channel and the buffered returns of `publisher` |
| `confirm` | what the deferred confirmation says |
| `session`, `alive` | `Run` and `session`, and the connection |
| `wire`, `inbox`, `queue`, `stored` | the broker's side: requests, returns and confirmations in order, `screening.requested` |
| `proc`, `relay`, `open` | `main`, the relay of `New`, and the closers not yet called, last acquired first |

A message that is `live` is one whose confirmation is still waited for; a pass that gives
up leaves its request, return and confirmation on their way. A connection that closes
takes what is on its way with it and answers the confirmation that is waited for with a nack, as the library does.
A session ends when it is told to, when its connection is closed (`Leave`), or when the
broker stops delivering on one that is open (`DeliveriesEnd`).

**What TLC finds (`v_link_lost`).** `broker.go` says that the broker "reconnects by
itself". If the connection drops while a confirmation is waited for, the library closes
the channel of returns, and the loop of `returned` receives from a closed channel for
ever. It holds `b.mu` and, through its caller, `publishing`: the session cannot clear
its publisher, so nothing reconnects, every later submission waits for `publishing`, and
a signal does not end the process. `ShutdownEnds` is stated for behaviours without it.

`ReturnsCapacity` is 16 in the code. Returns are read only when a confirmation is, so
sixteen returns of requests given up before would make the library's reader wait, and
with it every confirmation, until `confirmTimeout`.

## 3. What is checked

Every run is exhaustive for its instance, and every property of a passing run is
violated under the same configuration by at least one mutant of the code. A `TypeOK`
that no run names documents the types of its module; those of `JobOpenings`, `ScreeningDecisions`,
`InterviewGuides`, `Members`, `Sessions` and `Gateway` are proved.

| Run | Instance | Properties | Shows |
|---|---|---|---|
| `handover_faults` | 1 resume, 2 workers, 2 passes, 1 retry, 2 faults of any kind | `TypeOK` `NoResumeLost` `NoDuplicateRequests` `Agreement` `FirstAnswerStands` `ResultSettles` `AnsweredOrKept` | under every fault no answer is replaced, finished work settles, and each resume is answered or ends where a person finds it, or a copy of it was refused unnoticed; as long as nothing fails and nobody replays, nothing is sent twice and Hiring's verdict is the document's |
| `handover_recovery` | 2 resumes, one of them scanned, 1 worker, publish limit 1, 1 retry, 1 fault other than of the databases, 1 replay | `KeepsPromise` | the handover implements `ScreeningPromise`, liveness included |
| `openings` | 2 openings, one shared, 2 lists of criteria, 1 batch, 2 resumes, 2 calls | `OutcomeIffClosed` `RecordedHasFile` `ClosedStays` `KeepsPromise` | constraint, files and what is left of "closing is final" under any overlap; single-step behaviour where calls are apart |
| `decisions` | 2 resumes, one shared, scores 40, 90 and the refused 101, 2 calls | `OnlyScreenedAreDecided` `AnswerStands` `DecisionStands` | answers survive every decision; decisions survive answers |
| `members` | 3 members, 3 addresses, 2 calls, deadlock checked | `AdminRemains` `RemovedStays` `EveryCallEnds` | the lock protects the last admin and is always given back |
| `guides` | 2 guides, one shared, 2 ids, 2 texts, 2 questions, 3 revisions, 2 calls or pages | `AttributedToItsAuthor` `NotesBelong` `OneGuide` `NotesKept` | one guide, true attribution; notes kept where calls are apart |
| `sessions` | 2 members, one shared, 2 sessions of 3 tokens, 2 passwords, 2 calls | `OneTokenLeft` `RevokedHasNoToken` `SessionsAreCurrent` `CallsGoOn` `KeepsPromise` | a session is one chain whatever overlaps; ended is ended; deadlocks are broken |
| `browser` | 2 tabs, 2 sessions of 3 tokens, 2 calls, 2 exchanges, 1 mishap | `TokenUsedOnce` `CallsAsShown` `NobodyIsForgotten` | the shared refresh does what it is for |
| `gateway` | 1 member, 1 address, a request earned per unit of time, burst 2, idle time 2, tokens that live 1 unit, answers within 1, 2 tokens, 1 replacement of the key, deadlock checked | `StaleForATokenAtMost` `ValidTokenAccepted` `KeepsBudget` | tokens are stale for a bounded time, the replacement of the key refuses nobody, and the limiter implements `RateBudget` |
| `verdicts` | 3 resumes in 2 batches, 3 pairs of criteria lists, a name twice in one, scores 0 and 51, 1 override | `VerdictsAccepted` `TotalIsFair` `BetterRanksHigher` `ListsAgree` | the three services agree on verdicts, the total and the order are fair, and every view says the same |
| `link` | 2 resumes, 1 submission and the relay, room for 1 return, 2 messages on their way | `MarkedIsStored` `DatabaseOutlivesItsUsers` `ShutdownEnds` | only what reached the queue is marked; the database is closed last; a signal ends the process |

### 3.1 A run that disagrees with the code's own words

| Run | Property | Text | What TLC finds |
|---|---|---|---|
| `v_link_lost` | `ReconnectsByItself` | `broker.go:68`: "It reconnects by itself" | a connection lost while a confirmation is waited for is never there again (2.8) |

### 3.2 Disagreements kept beside the runs

Six configurations state what a text of the repository says and are violated by what the
code does. They are not among the runs of `PROJECT.json`; run them by hand, with the
module the table names.

| Configuration | Property | Text | What TLC finds |
|---|---|---|---|
| `v_dead_letter_silent` (`MCScreeningHandover`) | `DeadLetterIsAnswered` | `MESSAGES.md:96`: "Either way, a `failed` result is published so Hiring never waits forever" | a request is dead-lettered, recording the failure fails, and no failed result is published (`queue.js:126`): the resume stays pending |
| `v_finished_reopened` (`MCScreeningHandover`) | `FinishedResultStands` | `pipeline.js:7`: "Safe to run twice for the same (batch_id, resume_id)" | two copies of a request are handled at once; the one that read first sets the other's finished document back to processing (`pipeline.js:96`) |
| `v_score_without_candidate` (`MCScreeningHandover`) | `ScoresCarryCandidate` | `db.js:2`: "Every document carries candidate_id" | a document created by `markFailed` has no candidate id, and a replay scores it without one (`pipeline.js:83`) |
| `v_sign_out_undone` (`MCBrowserSession`) | `SignedOutStays` | `session_cookie.go:117`: a session whose sign-out is lost is one "no browser holds" any more | a refresh answered after the sign-out puts a usable token back into the browser (`AuthProvider.tsx:42`) |
| `v_dead_letter_dropped` (`MCScreeningHandover`) | `AckedIsSafe` | `queue.js:48`: "Ack the request only once everything it produced is safely in the broker (publisher confirms)" | the copy for the dead-letter queue is refused while `markFailed` runs, `markFailed` fails, and the request is acknowledged: the resume is pending, and nothing is left of its request (2.1) |
| `v_same_name` (`MCVerdicts`) | `MeetsUnlessUnmet` | `screening.go:260`: "Meets reports whether a screened resume was judged to meet the batch's must-have of this name: it does unless screening named it unmet" | with two must-haves of one name, of which the second is unmet, the resume passes the filter and is listed with the name unmet (2.7) |

One more configuration, `handover_refusals` (`MCScreeningHandover`), is no disagreement but
a longer way than the runs take: 1 resume, 1 worker, no retry, a replay and four faults. It
takes three for a score that Hiring refuses (MongoDB fails, the document is created
without its candidate, the failure is lost) and one more to lose the copy of that.
`NoResumeLost` and `AnsweredOrKept` hold of it.

### Bounds, and why they are enough

* *Two of everything that races.* Workers, passes, calls and pages are two, the
  least with which one acts between two steps of another. A resume, a guide or an
  opening is not read by an operation on another, so one or two of them do; the two
  of `openings`, `decisions` and `guides` differ in being shared or not. Members do
  interact, through the count of admins: with three, two changes can concern the two
  admins while a third member is there to be promoted.
* *Faults, replays, retries.* Two faults cover every pair, such as a lost
  confirmation followed by a crash; one replay lets a request be worked on after it
  was answered; one retry has both a first and a last attempt. `handover_recovery` has
  one fault, to afford a second resume and liveness; the theorems cover the rest of
  its safety.
* *`PublishLimit` = 1* cuts the snapshot of two resumes, so that the remainder
  depends on a later pass.
* *Two criteria lists, outcomes, texts and scores* tell an old value from a new one.
  Two questions make reordering possible, and three revisions hold a regeneration, a
  revision and a note between them.
* `OneGuideAtATime` constrains `guides` to one guide in existence or in use, of
  either kind, and `OneMemberAtATime` constrains `sessions` to the sessions of one
  member: neither interacts with its like.
* *One member, one address* in `gateway`: members share nothing but the limiter's map,
  in which the member's bucket and the address's already evict each other. Times are
  small and all of them matter: a token can outlive a role, an idle time and the wait for
  the old key. TLC sees times relative to now (`View`), so the run ends although the
  clock does not; the theorems need no bound. `OneBucketWhileReplacing` leaves one
  caller with a bucket once the operator has begun: the keys and the buckets meet only in
  a restart, which drops every bucket.
* *Scores 0 and 51* in `verdicts` make totals that round up, down and not at all with
  weights 1 and 2; two batches with their own criteria share one ranking, and a name is
  a must-have, a nice-to-have or absent in one, or there twice.
* *Two messages on their way* in `link` are a request given up and the one that waits.
* *Three tokens* in a session: one exchanged, one after it, and one more to see an
  exchange following a reuse. One mishap is one crossing, or one lost answer.
* Symmetry is used only for safety runs, over calls, workers, passes, scores, ids,
  texts, tabs and exchanges, none of which a definition tells apart.
* `CHECK_DEADLOCK FALSE` in all runs but `members` and `gateway`: those systems really stop, when
  every resume is answered and acknowledged and no fault or replay is left, when every
  opening is closed, when every session has ended and the bounds are spent, when every
  resume is judged, or when the process has exited. That the
  calls of `sessions` do not block each other is an invariant of its own, `CallsGoOn`.

### Fairness, and why the code justifies it

* Outbox: the relay ticks every five seconds as long as the process lives, and a
  pass runs to its end or its first error. Weak fairness of each pass.
* Consumers: both services consume in loops that reconnect for ever; every await of
  a worker is bounded by a timeout or ends with its connection. Weak fairness of the
  results consumer and of each worker.
* Broker: a message in the retry queue expires. Weak fairness of each `ExpireRetry`.
* Members: PostgreSQL runs the statements of a transaction and grants an advisory
  lock to its waiters in the order they came. The lock may be taken by others in
  between, which is why the fairness is strong.
* `link`: the steps of a pass, of a session and of the shutdown are those of goroutines
  that run on, with timers that fire (`confirmTimeout`, the backoff, the server's shutdown
  timeout): weak fairness. `Connect` and `Leave` are strong: a broker that is dialled
  again and again is reached at last, and Go's `select`, which chooses at random, sees the
  end of the context at last though results keep coming. Whether the broker answers, a
  connection drops, a queue is deleted or a signal comes is left open.
* Nothing makes a person submit, decide or replay, and nothing makes a fault happen.

`handover_recovery` excludes failing databases for two reasons: liveness then fails
as `v_dead_letter_silent` shows, and `markFailed` writes `failed` over whatever the
document says (`pipeline.js:170`), a scored document included, when the read of a
repeated delivery fails on its last attempt. `handover_faults` states what remains
true with them; `ResultSettles` names that read as the one exception.

## 4. What is proved

The theorems hold for every value of the constants that satisfies the named
assumptions (`MessageAssumption`, `HiringAssumption`, `ResumeAssumption`,
`DecisionsAssumption`, `GuidesAssumption`, `SeedAssumption`, `SessionsAssumption`,
`BrokerLinkAssumption`, `RateLimiterAssumption`, `GatewayAssumption`): any number of
resumes, workers, passes, faults, replays, openings, guides, questions, members,
sessions, calls, messages on their way, addresses and tokens, any rate, burst and
lifetime. No theorem asks for more than that.

| Module | Theorem | States |
|---|---|---|
| `ScreeningHandoverProofs` | `TypeCorrect` | `[](TypeOK /\ RetryBudget)` |
| | `FirstAnswer` | `FirstAnswerStands` |
| | `Implements` | every behaviour is one of `ScreeningPromise`'s safety part |
| | `NothingIsLost` | `[]NoResumeLost` |
| | `NoDuplicates`, `Agrees` | `[]NoDuplicateRequests`, `[]Agreement` |
| | `ResultsSettle` | `ResultSettles` |
| `JobOpeningsProofs` | `TypeCorrect`, `OutcomeOnlyOfClosed`, `EveryRecordHasItsFile` | `[]TypeOK`, `[]OutcomeIffClosed`, `[]RecordedHasFile` |
| | `ClosingSettles`, `Implements` | `ClosedStays`, `KeepsPromise` |
| `ScreeningDecisionsProofs` | `TypeCorrect`, `FirstAnswerStands`, `OnlyScreened`, `DecisionsStand` | `[]TypeOK`, `AnswerStands`, `[]OnlyScreenedAreDecided`, `DecisionStands` |
| `InterviewGuidesProofs` | `TypeCorrect`, `NamesItsAuthor`, `OneGuideEach` | `[]TypeOK`, `[]AttributedToItsAuthor`, `OneGuide` |
| | `NotesStand`, `NotesAreKept` | `[]NotesBelong`, `NotesKept` |
| `MembersProofs` | `TypeCorrect`, `LastAdminStays`, `RemovedRecordStays` | `[]TypeOK`, `[]AdminRemains`, `RemovedStays` |
| `SessionsProofs` | `TypeCorrect`, `OneTokenIsLeft`, `RevokedHasNone`, `ChangesEndSessions` | `[]TypeOK`, `[]OneTokenLeft`, `[]RevokedHasNoToken`, `[]SessionsAreCurrent` |
| | `SessionsKeepPromise` | `KeepsPromise`, the refinement of `SessionPromise` |
| `BrokerLinkProofs` | `MarkedStored`, `DatabaseClosedLast` | `[]MarkedIsStored`, `[]DatabaseOutlivesItsUsers` |
| `GatewayProofs` | `LimiterKeepsBudget` | `KeepsBudget`, the refinement of `RateBudget` |
| | `ForwardedWasTrue`, `NoTokenCutShort` | `StaleForATokenAtMost`, `ValidTokenAccepted` |

The arguments:

* **Nothing is lost.** `NoResumeLost` speaks of resumes marked requested and is not
  inductive: the step that marks needs to know that the broker has the request since
  its confirmation. `SentIsCarried` says so of every resume confirmed or marked.
  `OutboxOK` keeps passes to stored resumes, so that a resume that becomes pending
  is not yet sent. A worker lets go of its delivery when something else carries the
  resume. For the dead-letter copy that is so only if the broker kept it; if it refused
  it, `settle` will see that, or the resume is in `dropped` (`CopyOK`). `RetryBudget`
  keeps a retry within the type of its message: a worker about to publish one has an
  attempt below `MaxRetries`. Together they are `IInv`; every action then hands a resume
  on before it lets go of it, or drops it where the code waits for nobody (`NotLost`).
* **Nothing is done twice.** `NoDuplicateRequests` and `Agreement` speak of states in
  which nothing has failed and nobody has replayed (`Undisturbed`); such a state was
  reached through none but such states (`StillUndisturbed`), so `UInv` need only be kept
  by the ordinary steps. It says that a resume is in one place at a time: one pass at a
  time has the mutex and sends what nobody has sent (`OnePass`); what is sent is one
  message or with one worker (`OneRequest`), and no longer once it is answered
  (`InBetween`). Hence a document has one writer, which is done with it when the answer
  exists, so that what is said of a resume, by worker, message, consumer and row, is what
  its document says (`AsDocumented`).
* **Finished work settles.** A delivery writes to a document only between the read that
  found it unfinished, or failed, and its answer (`Writing`). Once a document is finished
  and no delivery is there, one that comes later reads it, finds it finished and goes
  straight to its answer, on any worker and after any retry, replay, crash or lost
  channel; only `StoreFails` sends it back among the writers. The proof follows one worker
  through its steps (`WorkerSettles`) and needs no invariant but the types. 3.2 shows what
  happens while a delivery is still there.
* **Openings.** `OutcomeIffClosed` includes the copies held by calls and is
  inductive with `TypeOK`. A recorded resume has its file because what a submission
  has left to upload accounts for what is not stored (`FilesFirst`). A closed opening of which no copy
  is left to save has none later either, because every rule refuses a closed opening: that
  is `ClosedStays`, and takes no more than the types. The refinement
  needs `ApartInv`: calls on unshared openings are `Apart`, hence their copies are
  what the domain makes of the row as it is now (`CopiesFresh`), so that a save is
  the abstract step, and every other step stutters.
* **Decisions.** A decision's copy always has the answer of the row
  (`DecidingScreened`), because an answer is recorded only while the row is pending
  (`RecordingPending`) and decisions start only after. On unshared resumes copies are
  fresh as to the decisions too (`CopiesFresh`).
* **Guides.** What is true of the stored guide must be true of the copies that calls hold
  and pages show, because any of them may be saved: they are attributed
  (`CopiesAttributed`) whatever overlaps. On private guides calls are apart
  (`OneAtATime`), so that a copy not yet changed is the guide as it is (`CopyIsCurrent`)
  and a changed one follows from it (`CopyFollows`). That `carryNotes` takes each note to
  its question, or drops it, is a lemma on the domain rules, proved with the well-founded
  order of the numbers.
* **Sessions.** The rows a call has locked are its own (`Exclusive`), hence what it has
  learnt of them stays true until it commits (`Frame`): each statement of each transaction
  then has a conjunct that says what is known when it starts (`RotationInv`,
  `ChangeInv`). What is kept of the rows is that a session's tokens are a chain: those
  exchanged, then at most one unused, then none (`SessionInv`). `SessionsReached` and
  `TokensReached` say that a change of password leaves no session, and no token of one,
  out. Under the refinement mapping, a commit of a rotation is the exchange or the end of
  a session, a commit of a change ends several, and statements before it stutter.
* **Members.** A call past the lock is its only holder (`LockHeld`); what it found
  is then still so when it commits: the member is active (`FoundActive`) and, if an
  admin is about to be lost, another one exists (`AnotherFound`).
* **Marked is stored.** A request is marked because its confirmation came and no return
  of it was found, so the invariant follows both on their way: before a confirmation
  comes the return of a request that was not stored (`ReturnsComeFirst`); once the
  confirmation is read, the return is among those to be looked through
  (`ConfirmedOrReturned`), and nothing has emptied these, because the pass holds the
  publisher's mutex (`HoldsPublisher`); and a confirmation of a request given up before
  is not taken for that of the one that waits (`LiveIsCurrent`, `OneLive`).
* **The database is closed last.** The closers not yet called are a beginning of
  `Closers`, and without the broker's among them relay and `Run` have ended (`Released`).
* **The limiter.** A bucket that is dropped was idle for the TTL, hence full by
  `RateLimiterAssumption` (`IdleIsFull`), which is what an unknown caller has. For that a
  bucket in use must have been used last no earlier than it was last drawn from
  (`BucketsOK`). A request then is the step `Allow` or `Refuse` of `RateBudget`, a unit of
  time `Refill`, a start `Restart`, and everything else `Other` or a stutter.
* **Stale tokens.** The role a call has in hand is the member's or was lost after the call
  began, and the call began at most `CallTime` ago (`CallOK`); the token it ends in
  inherits that (`TokenOK`). Losing a role sets `held` to now, which is later than any of
  these.
* **Keys.** By the phase of the replacement (`KeysInv`): as long as the old key signs,
  every token names it and the gateway serves it; after that, each token is of the new
  key, which the gateway has, or of the old one and expires before the gateway loses it.

Only model-checked: liveness (`KeepsPromise` of the handover with its fairness,
`AnsweredOrKept`, `EveryCallEnds`, `ShutdownEnds`) and `CallsGoOn`, which speaks of
ENABLED: both are out of the prover's reach. So is induction over data, hence all of
`Verdicts`, whose totals and ranking are folds; no module here uses a RECURSIVE operator.
The properties of `BrowserSession` could be proved and are not yet.

## 5. What is not modelled, and why

* *Candidate records.* Erasing a candidate (`rest.js`, `db.js`) is two deletions, the
  profile first and then the results, without a mark or a lock. If the second fails, another
  attempt answers 404 whatever is left; a screening of the candidate that is under way meanwhile writes its
  document again by an upsert, or creates the profile anew under another id. A model
  would show no more than that, and no document promises otherwise; the hazard is listed
  in `PROJECT.json` without a property.
* *Stateless or pure conversion*: the REST and gRPC layers apart from what `Verdicts` and
  `Gateway` take from them, clients of other services, criteria proposals, the texts of
  prompts. Where such a call can fail, the model that depends on it has the failure.
* *Doubles and generated code*: in-memory repositories, the fake screener, protobuf
  stubs (`aigrpc/gen`, a fifth of the Go code), mocks, samples.
* *Not built*: Compliance and Insights exist in the documents only.
* *Presentation*: the pages, translations and theme of the web client.
* *Deployment*: manifests and compose files.

## 6. Plan

Done: the handover (2.1), which is the system's core; openings, decisions and guides;
members, sessions, and the session in the browser; the Gateway's request path; verdicts
from the model to the ranking; the connection to the broker and the shutdown.

Next, in this order:

1. Theorems about `BrowserSession`: `NobodyIsForgotten` (inductive with "a page that is
   refreshing has exactly one refresh under way"), then `TokenUsedOnce` and `CallsAsShown`
   as long as no mishap has happened, along the lines of `Undisturbed`.
2. Composition: `BrokerLink` implements what `HiringScreening` takes from it, a publish
   that is confirmed or may have happened.
3. `CandidateRecords`, once the documents say what erasing promises about work under way.
