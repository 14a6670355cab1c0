----------------------------- MODULE BrokerLink -----------------------------
(***************************************************************************)
(* Hiring's connection to RabbitMQ and the process around it:              *)
(*   - a pass of PublishPendingRequests sends each request and waits until *)
(*     the broker confirms it, or hands it back for want of a queue        *)
(*     (RequestScreening, returned), under the mutex of the publisher,     *)
(*   - a session connects, consumes, and gives the publisher up when the   *)
(*     connection drops (Run, session, setPublisher),                      *)
(*   - a signal stops the process: the HTTP server first, then, in reverse *)
(*     order of what New acquired, all the rest (main, New).               *)
(* ScreeningHandover has a request sent in one step; here is what that     *)
(* step rests on.  The broker and the AMQP library are not part of the     *)
(* repository: they confirm in the order they are asked, hand a message    *)
(* back before they confirm it, and when a connection drops give up the    *)
(* confirmation that is waited for and close the channel of returns.       *)
(***************************************************************************)
EXTENDS Naturals, SequencesExt

CONSTANTS
  Resumes,          \* resumes recorded in PostgreSQL
  Handlers,         \* submissions that run a pass
  Relay,            \* the relay, which runs one on a timer
  Nobody,           \* no pass, and no resume
  ReturnsCapacity,  \* how many returns the channel of returns holds
  MaxInFlight       \* bound: messages and answers on their way at once

ASSUME BrokerLinkAssumption ==
  /\ Relay \notin Handlers /\ Nobody \notin Handlers \cup {Relay} \cup Resumes
  /\ ReturnsCapacity \in Nat \ {0} /\ MaxInFlight \in Nat \ {0}

Passes == Handlers \cup {Relay}

VARIABLES
  requestedAt,  \* the resumes marked requested
  asking,       \* the passes waiting for the mutex publishing
  holder,       \* the pass that has it
  step,         \* what that pass does next
  todo,         \* the resumes it has left to request
  current,      \* the one it is requesting
  confirm,      \* what the broker said of that request
  locked,       \* whether the pass holds the mutex mu of the publisher
  pub,          \* whether the publisher is set
  returns,      \* the channel of returns
  session,      \* what Run is doing
  alive,        \* whether the connection is open
  wire,         \* requests on their way to the broker
  inbox,        \* returns and confirmations on their way back
  queue,        \* whether screening.requested exists
  stored,       \* the resumes whose request reached it
  proc,         \* what main is doing
  relay,        \* whether the relay runs
  open          \* what New acquired and is not released yet, in order

passVars == <<requestedAt, asking, holder, step, todo, current, confirm, locked>>
linkVars == <<pub, returns, session, alive>>
wireVars == <<wire, inbox>>
brokerVars == <<queue, stored>>
procVars == <<proc, relay, open>>
vars == <<passVars, linkVars, wireVars, brokerVars, procVars>>

Closers == <<"database", "guides", "ai", "broker">>

Cancelled == proc # "serving"
DatabaseOpen == "database" \in Range(open)

Messages == [resume : Resumes, live : BOOLEAN]
Answers == [kind : {"return", "ack", "nack"}, resume : Resumes, live : BOOLEAN]

(* The types of the variables (ScreeningService, Broker, main).             *)
TypeOK ==
  /\ requestedAt \subseteq Resumes /\ asking \subseteq Passes /\ holder \in Passes \cup {Nobody}
  /\ step \in {"none", "send", "confirm", "mark", "spin"}
  /\ todo \subseteq Resumes /\ current \in Resumes \cup {Nobody}
  /\ confirm \in {"none", "ack", "nack"} /\ locked \in BOOLEAN
  /\ pub \in BOOLEAN /\ returns \in Seq(Resumes) /\ alive \in BOOLEAN
  /\ session \in {"dialing", "up", "handling", "clearing", "backoff", "done"}
  /\ wire \in Seq(Messages) /\ inbox \in Seq(Answers)
  /\ queue \in BOOLEAN /\ stored \subseteq Resumes
  /\ proc \in {"serving", "draining", "releasing", "exited"} /\ relay \in BOOLEAN
  /\ open \in Seq({"database", "guides", "ai", "broker"})

Init ==
  /\ requestedAt = {} /\ asking = {} /\ holder = Nobody /\ step = "none"
  /\ todo = {} /\ current = Nobody /\ confirm = "none" /\ locked = FALSE
  /\ pub = FALSE /\ returns = <<>> /\ session = "dialing" /\ alive = FALSE
  /\ wire = <<>> /\ inbox = <<>>
  /\ queue \in BOOLEAN /\ stored = {}
  /\ proc = "serving" /\ relay = TRUE /\ open = Closers

-----------------------------------------------------------------------------
(* A pass of PublishPendingRequests.                                        *)

Unrequested == Resumes \ requestedAt

(* A submission has saved its batch, or the relay's timer ticks.            *)
Ask(p) ==
  /\ p \notin asking /\ p # holder
  /\ ~Cancelled /\ (p = Relay => relay)
  /\ asking' = asking \cup {p}
  /\ UNCHANGED <<requestedAt, holder, step, todo, current, confirm, locked>>
  /\ UNCHANGED <<linkVars, wireVars, brokerVars, procVars>>

(* It has the mutex and reads what is to be requested.                      *)
Enter(p) ==
  /\ p \in asking /\ holder = Nobody
  /\ DatabaseOpen /\ (p = Relay => ~Cancelled)
  /\ Unrequested # {}
  /\ asking' = asking \ {p} /\ holder' = p
  /\ step' = "send" /\ todo' = Unrequested
  /\ UNCHANGED <<requestedAt, current, confirm, locked>>
  /\ UNCHANGED <<linkVars, wireVars, brokerVars, procVars>>

(* There is nothing to request, or it cannot be read.                       *)
FindNothing(p) ==
  /\ p \in asking /\ holder = Nobody
  /\ asking' = asking \ {p}
  /\ UNCHANGED <<requestedAt, holder, step, todo, current, confirm, locked>>
  /\ UNCHANGED <<linkVars, wireVars, brokerVars, procVars>>

EndPass ==
  /\ holder' = Nobody /\ step' = "none" /\ todo' = {}
  /\ current' = Nobody /\ confirm' = "none" /\ locked' = FALSE
  /\ UNCHANGED asking

(* RequestScreening without a publisher, or on a connection that is closed. *)
Unavailable ==
  /\ step = "send"
  /\ ~pub \/ ~alive
  /\ EndPass
  /\ UNCHANGED <<requestedAt, linkVars, wireVars, brokerVars, procVars>>

Published(r, lock) ==
  /\ step = "send" /\ r \in todo
  /\ pub /\ alive
  /\ Len(wire) + Len(inbox) < MaxInFlight
  /\ wire' = Append(wire, [resume |-> r, live |-> TRUE])
  /\ current' = r /\ step' = "confirm" /\ locked' = lock
  /\ UNCHANGED <<requestedAt, asking, holder, todo, confirm, inbox>>
  /\ UNCHANGED <<linkVars, brokerVars, procVars>>

(* Mutant: the mutex is given back before the confirmation is there.        *)
PublishUnlocked(r) == Published(r, FALSE)

(* RequestScreening has the publisher and its mutex, and publishes.         *)
Publish(r) == Published(r, TRUE)

(* The confirmation is there: what was handed back is looked through, of    *)
(* this publisher or, when it was given up meanwhile, of none.              *)
Handed == pub /\ current \in Range(returns)

CheckReturned ==
  /\ step = "confirm" /\ confirm # "none"
  /\ ~pub \/ alive
  /\ returns' = <<>>
  /\ IF confirm = "ack" /\ ~Handed
     THEN /\ step' = "mark" /\ confirm' = "none" /\ locked' = FALSE
          /\ UNCHANGED <<asking, holder, todo, current>>
     ELSE EndPass
  /\ UNCHANGED <<requestedAt, pub, session, alive>>
  /\ UNCHANGED <<wireVars, brokerVars, procVars>>

(* The connection is closed, and with it the channel of returns: a receive  *)
(* from a closed channel never finds it empty, and the loop never ends.     *)
SpinOnClosed ==
  /\ step = "confirm" /\ confirm # "none"
  /\ pub /\ ~alive
  /\ step' = "spin"
  /\ UNCHANGED <<requestedAt, asking, holder, todo, current, confirm, locked>>
  /\ UNCHANGED <<linkVars, wireVars, brokerVars, procVars>>

Abandoned(m) == [resume |-> m.resume, live |-> FALSE]
Answer(kind, m) == [kind |-> kind, resume |-> m.resume, live |-> m.live]

GivesUp ==
  /\ step = "confirm"
  /\ EndPass
  /\ wire' = [i \in DOMAIN wire |-> Abandoned(wire[i])]
  /\ inbox' = [i \in DOMAIN inbox |-> Answer(inbox[i].kind, Abandoned(inbox[i]))]
  /\ UNCHANGED <<requestedAt, linkVars, brokerVars, procVars>>

(* Mutant: without confirmTimeout, only the context of the relay ends.      *)
ContextEnds == holder = Relay /\ Cancelled /\ GivesUp

(* confirmTimeout has passed, or the request the pass belongs to has ended. *)
TimesOut == GivesUp

MarkRequested ==
  /\ step = "mark" /\ DatabaseOpen
  /\ requestedAt' = requestedAt \cup {current}
  /\ IF todo = {current}
     THEN EndPass
     ELSE /\ step' = "send" /\ todo' = todo \ {current} /\ current' = Nobody
          /\ UNCHANGED <<asking, holder, confirm, locked>>
  /\ UNCHANGED <<linkVars, wireVars, brokerVars, procVars>>

MarkFails ==
  /\ step = "mark"
  /\ EndPass
  /\ UNCHANGED <<requestedAt, linkVars, wireVars, brokerVars, procVars>>

PassStep ==
  \/ \E p \in Passes : Enter(p) \/ FindNothing(p)
  \/ Unavailable
  \/ \E r \in Resumes : Publish(r)
  \/ CheckReturned \/ TimesOut \/ MarkRequested \/ MarkFails

-----------------------------------------------------------------------------
(* Run and its sessions.                                                    *)

(* Connected, the queues declared, and the publisher set.                   *)
Connect ==
  /\ session = "dialing" /\ ~locked
  /\ session' = "up" /\ alive' = TRUE /\ pub' = TRUE /\ returns' = <<>>
  /\ wire' = <<>> /\ inbox' = <<>> /\ queue' = TRUE
  /\ UNCHANGED <<passVars, stored, procVars>>

NextSession(s) == IF Cancelled THEN "done" ELSE s

DialFails ==
  /\ session = "dialing"
  /\ session' = NextSession("backoff")
  /\ UNCHANGED <<pub, returns, alive>>
  /\ UNCHANGED <<passVars, wireVars, brokerVars, procVars>>

Redial ==
  /\ session = "backoff"
  /\ session' = NextSession("dialing")
  /\ UNCHANGED <<pub, returns, alive>>
  /\ UNCHANGED <<passVars, wireVars, brokerVars, procVars>>

(* A result is recorded (handle), by the goroutine of the session.          *)
TakeResult ==
  /\ session = "up" /\ alive
  /\ session' = "handling"
  /\ UNCHANGED <<pub, returns, alive>>
  /\ UNCHANGED <<passVars, wireVars, brokerVars, procVars>>

ResultHandled ==
  /\ session = "handling"
  /\ session' = "up"
  /\ UNCHANGED <<pub, returns, alive>>
  /\ UNCHANGED <<passVars, wireVars, brokerVars, procVars>>

Leave ==
  /\ session = "up"
  /\ Cancelled \/ ~alive
  /\ session' = "clearing"
  /\ UNCHANGED <<pub, returns, alive>>
  /\ UNCHANGED <<passVars, wireVars, brokerVars, procVars>>

(* The broker stops delivering results, for their queue is deleted or their *)
(* channel closed, on a connection that is still open.                      *)
DeliveriesEnd ==
  /\ session = "up" /\ alive
  /\ session' = "clearing"
  /\ UNCHANGED <<pub, returns, alive>>
  /\ UNCHANGED <<passVars, wireVars, brokerVars, procVars>>

(* What a closed connection leaves behind.                                  *)
Closed ==
  /\ alive' = FALSE /\ wire' = <<>> /\ inbox' = <<>>
  /\ confirm' = IF step = "confirm" /\ confirm = "none" THEN "nack" ELSE confirm
  /\ UNCHANGED <<requestedAt, asking, holder, step, todo, current, locked>>

(* The deferred calls of session: the publisher is given up, under its      *)
(* mutex, and then the connection.                                          *)
Clear ==
  /\ session = "clearing" /\ ~locked
  /\ pub' = FALSE /\ returns' = <<>>
  /\ Closed
  /\ session' = NextSession("backoff")
  /\ UNCHANGED <<brokerVars, procVars>>

SessionStep ==
  \/ Connect \/ DialFails \/ Redial
  \/ TakeResult \/ ResultHandled
  \/ Leave \/ DeliveriesEnd \/ Clear

-----------------------------------------------------------------------------
(* The broker, the connection, and the library's reader.                    *)

Drop ==
  /\ alive
  /\ Closed
  /\ UNCHANGED <<pub, returns, session, brokerVars, procVars>>

(* The broker takes a request: it stores it, hands it back or refuses it.   *)
BrokerTakes ==
  /\ alive /\ wire # <<>>
  /\ LET m == Head(wire) IN
     \/ /\ queue
        /\ stored' = stored \cup {m.resume}
        /\ inbox' = Append(inbox, Answer("ack", m))
     \/ /\ ~queue
        /\ inbox' = inbox \o <<Answer("return", m), Answer("ack", m)>>
        /\ UNCHANGED stored
     \/ /\ inbox' = Append(inbox, Answer("nack", m))
        /\ UNCHANGED stored
  /\ wire' = Tail(wire)
  /\ UNCHANGED <<passVars, linkVars, queue, procVars>>

(* A return waits until the channel of returns has room.                    *)
ReadReturn ==
  /\ alive /\ inbox # <<>> /\ Head(inbox).kind = "return"
  /\ Len(returns) < ReturnsCapacity
  /\ returns' = Append(returns, Head(inbox).resume)
  /\ inbox' = Tail(inbox)
  /\ UNCHANGED <<passVars, pub, session, alive, wire, brokerVars, procVars>>

ReadConfirm ==
  /\ alive /\ inbox # <<>> /\ Head(inbox).kind # "return"
  /\ confirm' = IF Head(inbox).live THEN Head(inbox).kind ELSE confirm
  /\ inbox' = Tail(inbox)
  /\ UNCHANGED <<requestedAt, asking, holder, step, todo, current, locked>>
  /\ UNCHANGED <<linkVars, wire, brokerVars, procVars>>

(* An operator deletes the queue; Resume Processing declares it too.        *)
QueueChanges ==
  /\ queue' = ~queue
  /\ UNCHANGED <<passVars, linkVars, wireVars, stored, procVars>>

-----------------------------------------------------------------------------
(* The process stops.                                                       *)

(* A signal ends the context of the relay and of Run.                       *)
Signal ==
  /\ proc = "serving"
  /\ proc' = "draining"
  /\ UNCHANGED <<passVars, linkVars, wireVars, brokerVars, relay, open>>

(* Shutdown returns: every handler is done, or ten seconds have passed.     *)
ServerStops ==
  /\ proc = "draining"
  /\ proc' = "releasing"
  /\ UNCHANGED <<passVars, linkVars, wireVars, brokerVars, relay, open>>

RelayEnds ==
  /\ Cancelled /\ relay
  /\ Relay \notin asking /\ holder # Relay
  /\ relay' = FALSE
  /\ UNCHANGED <<passVars, linkVars, wireVars, brokerVars, proc, open>>

(* The closer of the broker waits for the relay and for Run.                *)
MayClose(what) == what = "broker" => ~relay /\ session = "done"

(* Mutant: what was acquired first is released first.                       *)
ReleaseFirst ==
  /\ proc = "releasing" /\ open # <<>>
  /\ MayClose(Head(open))
  /\ open' = Tail(open)
  /\ UNCHANGED <<passVars, linkVars, wireVars, brokerVars, proc, relay>>

Release ==
  /\ proc = "releasing" /\ open # <<>>
  /\ MayClose(Last(open))
  /\ open' = Front(open)
  /\ UNCHANGED <<passVars, linkVars, wireVars, brokerVars, proc, relay>>

(* With the process end the passes that are still under way.                *)
Exit ==
  /\ proc = "releasing" /\ open = <<>>
  /\ proc' = "exited"
  /\ UNCHANGED <<passVars, linkVars, wireVars, brokerVars, relay, open>>

StopStep == ServerStops \/ RelayEnds \/ Release \/ Exit

-----------------------------------------------------------------------------
ReadStep == ReadReturn \/ ReadConfirm

Next ==
  /\ proc # "exited"
  /\ \/ \E p \in Passes : Ask(p)
     \/ PassStep \/ SpinOnClosed
     \/ SessionStep
     \/ Drop \/ BrokerTakes \/ ReadStep \/ QueueChanges
     \/ Signal \/ StopStep

(* Goroutines run on, timers fire, a broker that is dialled again and again *)
(* is reached at last, and select, which chooses among what is ready at     *)
(* random, sees the end of the context at last.  Whether the connection     *)
(* drops, the broker answers or delivers, the queue is deleted or a signal  *)
(* comes is left open.                                                      *)
Spec ==
  /\ Init /\ [][Next]_vars
  /\ WF_vars(PassStep) /\ WF_vars(SpinOnClosed)
  /\ WF_vars(DialFails) /\ WF_vars(Redial) /\ WF_vars(ResultHandled) /\ WF_vars(Clear)
  /\ SF_vars(Connect) /\ SF_vars(Leave)
  /\ WF_vars(ReadStep)
  /\ WF_vars(ServerStops) /\ WF_vars(RelayEnds) /\ WF_vars(Release) /\ WF_vars(Exit)

-----------------------------------------------------------------------------
(* Properties.                                                              *)

(* "At least once, never zero times" (PublishPendingRequests): a resume is  *)
(* marked requested only when its request reached the queue, whatever the   *)
(* connection did while the confirmation was waited for (RequestScreening,  *)
(* returned).                                                               *)
MarkedIsStored == requestedAt \subseteq stored

(* What New acquired is released while nothing in the background can still  *)
(* use it (New's closers): the relay and the consumer of results, which     *)
(* would lose what they have just done, always find the database open.      *)
DatabaseOutlivesItsUsers == holder = Relay \/ session = "handling" => DatabaseOpen

(* A signal always ends the process (main, New's wg.Wait), with requests in *)
(* flight, a broker that does not answer and passes waiting for each other, *)
(* as long as no pass is caught in returned.                                *)
ShutdownEnds == [](step # "spin") => (proc = "draining" ~> proc = "exited")

(* "It reconnects by itself" (Broker): a connection that is lost is there   *)
(* again, unless the process is told to stop.                               *)
ReconnectsByItself == ~alive ~> alive \/ Cancelled
=============================================================================
