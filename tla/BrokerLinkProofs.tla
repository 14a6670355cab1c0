-------------------------- MODULE BrokerLinkProofs --------------------------
(***************************************************************************)
(* A resume marked requested is one whose request reached the queue, for   *)
(* any number of resumes, passes, returns and messages in flight.          *)
(*                                                                         *)
(* MarkedIsStored alone is not inductive.  A request is marked because its *)
(* confirmation came and no return of it was found, so the argument has to *)
(* follow both on their way: IInv says that a confirmation on its way is   *)
(* preceded by the return of an unroutable request (ReturnsComeFirst),     *)
(* that once it was read the return is among those to be looked through    *)
(* (ConfirmedOrReturned), that nothing empties these in between, since the *)
(* pass holds the publisher's mutex (HoldsPublisher), and that a           *)
(* confirmation belongs to the request that waits for it (LiveIsCurrent).  *)
(***************************************************************************)
EXTENDS BrokerLink, TLAPS

(* What the broker says of a request that is still waited for.              *)
LiveConfirm(a) == a.kind # "return" /\ a.live

Typed ==
  /\ returns \in Seq(Resumes) /\ wire \in Seq(Messages) /\ inbox \in Seq(Answers)
  /\ requestedAt \subseteq Resumes /\ stored \subseteq Resumes
  /\ confirm \in {"none", "ack", "nack"}

HoldsPublisher ==
  /\ step = "confirm" => locked /\ pub
  /\ step \in {"none", "send", "mark"} => confirm = "none"
  /\ holder = Nobody => step = "none"

LiveIsCurrent ==
  /\ \A i \in DOMAIN wire : wire[i].live =>
       step = "confirm" /\ confirm = "none" /\ wire[i].resume = current
  /\ \A i \in DOMAIN inbox : LiveConfirm(inbox[i]) =>
       step = "confirm" /\ confirm = "none" /\ inbox[i].resume = current

OneLive ==
  /\ \A i, j \in DOMAIN wire : wire[i].live /\ wire[j].live => i = j
  /\ \A i, j \in DOMAIN inbox : LiveConfirm(inbox[i]) /\ LiveConfirm(inbox[j]) => i = j
  /\ \A i \in DOMAIN wire, j \in DOMAIN inbox : ~(wire[i].live /\ LiveConfirm(inbox[j]))

IsReturned(r) == \E k \in DOMAIN returns : returns[k] = r

ReturnsComeFirst ==
  \A i \in DOMAIN inbox : inbox[i].kind = "ack" /\ inbox[i].live =>
    \/ inbox[i].resume \in stored
    \/ IsReturned(inbox[i].resume)
    \/ \E j \in DOMAIN inbox : j < i /\ inbox[j].kind = "return"
                                     /\ inbox[j].resume = inbox[i].resume

ConfirmedOrReturned ==
  /\ step = "confirm" /\ confirm = "ack" /\ alive => current \in stored \/ IsReturned(current)
  /\ step = "mark" => current \in stored

IInv ==
  /\ Typed /\ HoldsPublisher /\ LiveIsCurrent /\ OneLive
  /\ ReturnsComeFirst /\ ConfirmedOrReturned /\ MarkedIsStored

-----------------------------------------------------------------------------
(* Sequences, as far as the steps change them.                              *)
LEMMA AppendElements ==
  ASSUME NEW S, NEW s \in Seq(S), NEW x \in S
  PROVE  /\ Append(s, x) \in Seq(S)
         /\ DOMAIN s = 1 .. Len(s) /\ DOMAIN Append(s, x) = 1 .. Len(s) + 1
         /\ \A i \in DOMAIN s : /\ i \in DOMAIN Append(s, x) /\ Append(s, x)[i] = s[i]
                                 /\ i \in Int /\ i < Len(s) + 1
         /\ Len(s) + 1 \in DOMAIN Append(s, x)
         /\ Append(s, x)[Len(s) + 1] = x
         /\ \A i \in DOMAIN Append(s, x) : i \in DOMAIN s \/ i = Len(s) + 1
  OBVIOUS

LEMMA TailElements ==
  ASSUME NEW S, NEW s \in Seq(S), s # <<>>
  PROVE  /\ Tail(s) \in Seq(S)
         /\ DOMAIN s = 1 .. Len(s) /\ 1 \in DOMAIN s /\ Head(s) = s[1]
         /\ DOMAIN Tail(s) = 1 .. Len(s) - 1
         /\ \A i \in DOMAIN Tail(s) : i + 1 \in DOMAIN s /\ Tail(s)[i] = s[i + 1]
         /\ \A i \in DOMAIN s : i = 1 \/ i - 1 \in DOMAIN Tail(s)
  OBVIOUS

LEMMA SameLength ==
  ASSUME NEW S, NEW T, NEW s \in Seq(S), NEW f, f = [i \in DOMAIN s |-> f[i]],
         \A i \in DOMAIN s : f[i] \in T
  PROVE  f \in Seq(T)
<1>1. DOMAIN s = 1 .. Len(s) /\ Len(s) \in Nat
  OBVIOUS
<1>2. f \in [1 .. Len(s) -> T]
  BY <1>1
<1> QED BY <1>1, <1>2

-----------------------------------------------------------------------------
linkState == <<requestedAt, stored, step, current, confirm, locked, holder, pub,
               returns, alive, wire, inbox>>

(* What does not touch the link keeps the invariant.                        *)
LEMMA Unchanged ==
  ASSUME IInv, UNCHANGED linkState
  PROVE  IInv'
  BY DEF linkState, IInv, Typed, HoldsPublisher, LiveIsCurrent, OneLive, LiveConfirm, IsReturned,
         ReturnsComeFirst, ConfirmedOrReturned, MarkedIsStored

(* A pass that ends without a live message on its way.                      *)
LEMMA PassEnds ==
  ASSUME IInv, EndPass, step # "confirm" \/ confirm # "none",
         UNCHANGED <<requestedAt, stored, pub, alive, wire, inbox>>,
         returns' = returns \/ returns' = <<>>
  PROVE  IInv'
<1> USE DEF IInv
<1>1. Typed'
  <2>1. <<>> \in Seq(Resumes)
    OBVIOUS
  <2> QED BY <2>1 DEF Typed, EndPass
<1>2. HoldsPublisher'
  BY DEF HoldsPublisher, EndPass
<1>3. /\ \A i \in DOMAIN wire : ~wire[i].live
      /\ \A i \in DOMAIN inbox : ~LiveConfirm(inbox[i])
  BY DEF LiveIsCurrent
<1>4. LiveIsCurrent' /\ OneLive'
  BY <1>3 DEF LiveIsCurrent, OneLive, LiveConfirm
<1>5. ReturnsComeFirst'
  BY <1>3 DEF ReturnsComeFirst, LiveConfirm
<1>6. ConfirmedOrReturned' /\ MarkedIsStored'
  BY DEF ConfirmedOrReturned, MarkedIsStored, EndPass
<1> QED BY <1>1, <1>2, <1>4, <1>5, <1>6

(* RequestScreening publishes: the only live message is the new one.        *)
LEMMA PublishKeeps ==
  ASSUME IInv, NEW r \in Resumes, Publish(r)
  PROVE  IInv'
<1> DEFINE m == [resume |-> r, live |-> TRUE]
<1> USE DEF IInv, Publish, Published, linkVars, brokerVars, procVars
<1>1. m \in Messages /\ wire \in Seq(Messages) /\ wire' = Append(wire, m)
  BY DEF Typed, Messages
<1>2. /\ \A i \in DOMAIN wire : ~wire[i].live
      /\ \A i \in DOMAIN inbox : ~LiveConfirm(inbox[i])
  BY DEF LiveIsCurrent
<1>3. /\ wire' \in Seq(Messages)
      /\ \A i \in DOMAIN wire' : wire'[i].live => i = Len(wire) + 1 /\ wire'[i] = m
  BY <1>1, <1>2, AppendElements
<1>4. confirm = "none"
  BY DEF HoldsPublisher
<1>5. Typed' /\ HoldsPublisher'
  BY <1>3 DEF Typed, HoldsPublisher
<1>6. LiveIsCurrent' /\ OneLive'
  BY <1>2, <1>3, <1>4 DEF LiveIsCurrent, OneLive, LiveConfirm
<1>7. ReturnsComeFirst' /\ ConfirmedOrReturned' /\ MarkedIsStored'
  BY <1>2, <1>4 DEF ReturnsComeFirst, LiveConfirm, ConfirmedOrReturned, MarkedIsStored
<1> QED BY <1>5, <1>6, <1>7

(* The confirmation is there and no return of the request.                  *)
LEMMA CheckKeeps ==
  ASSUME IInv, CheckReturned
  PROVE  IInv'
<1> USE DEF IInv
<1>1. CASE confirm = "ack" /\ ~Handed
  <2> USE <1>1 DEF CheckReturned, linkVars, wireVars, brokerVars, procVars
  <2>1. pub /\ alive
    BY DEF HoldsPublisher
  <2>2. current \in stored
    BY <2>1 DEF ConfirmedOrReturned, IsReturned, Handed, Range
  <2>3. /\ \A i \in DOMAIN wire : ~wire[i].live
        /\ \A i \in DOMAIN inbox : ~LiveConfirm(inbox[i])
    BY DEF LiveIsCurrent
  <2>4. Typed' /\ HoldsPublisher'
    BY DEF Typed, HoldsPublisher
  <2>5. LiveIsCurrent' /\ OneLive' /\ ReturnsComeFirst'
    BY <2>3 DEF LiveIsCurrent, OneLive, LiveConfirm, ReturnsComeFirst
  <2>6. ConfirmedOrReturned' /\ MarkedIsStored'
    BY <2>2 DEF ConfirmedOrReturned, MarkedIsStored
  <2> QED BY <2>4, <2>5, <2>6
<1>2. CASE ~(confirm = "ack" /\ ~Handed)
  BY <1>2, PassEnds DEF CheckReturned, linkVars, wireVars, brokerVars, procVars
<1> QED BY <1>1, <1>2

(* A pass gives up: what is still on its way is nobody's any more.          *)
LEMMA TimeOutKeeps ==
  ASSUME IInv, TimesOut
  PROVE  IInv'
<1> USE DEF IInv, TimesOut, GivesUp, linkVars, brokerVars, procVars
<1>1. wire \in Seq(Messages) /\ inbox \in Seq(Answers)
  BY DEF Typed
<1>2. /\ wire' \in Seq(Messages) /\ inbox' \in Seq(Answers)
      /\ \A i \in DOMAIN wire' : ~wire'[i].live
      /\ \A i \in DOMAIN inbox' : ~inbox'[i].live
  <2>1. \A i \in DOMAIN wire : wire'[i] \in Messages /\ ~wire'[i].live
    <3> SUFFICES ASSUME NEW i \in DOMAIN wire
                 PROVE  wire'[i] \in Messages /\ ~wire'[i].live
      OBVIOUS
    <3>1. wire[i] \in Messages /\ wire'[i] = Abandoned(wire[i])
      BY <1>1
    <3> QED BY <3>1 DEF Abandoned, Messages
  <2>2. \A i \in DOMAIN inbox : inbox'[i] \in Answers /\ ~inbox'[i].live
    <3> SUFFICES ASSUME NEW i \in DOMAIN inbox
                 PROVE  inbox'[i] \in Answers /\ ~inbox'[i].live
      OBVIOUS
    <3>1. inbox[i] \in Answers /\ inbox'[i] = Answer(inbox[i].kind, Abandoned(inbox[i]))
      BY <1>1
    <3> QED BY <3>1 DEF Abandoned, Answer, Answers
  <2>3. wire' \in Seq(Messages)
    <3>1. wire' = [i \in DOMAIN wire |-> wire'[i]]
      OBVIOUS
    <3> QED BY <1>1, <2>1, <3>1, SameLength
  <2>4. inbox' \in Seq(Answers)
    <3>1. inbox' = [i \in DOMAIN inbox |-> inbox'[i]]
      OBVIOUS
    <3> QED BY <1>1, <2>2, <3>1, SameLength
  <2> QED BY <2>1, <2>2, <2>3, <2>4
<1>3. Typed' /\ HoldsPublisher'
  BY <1>2 DEF Typed, HoldsPublisher, EndPass
<1>4. LiveIsCurrent' /\ OneLive' /\ ReturnsComeFirst'
  BY <1>2 DEF LiveIsCurrent, OneLive, LiveConfirm, ReturnsComeFirst
<1>5. ConfirmedOrReturned' /\ MarkedIsStored'
  BY DEF ConfirmedOrReturned, MarkedIsStored, EndPass
<1> QED BY <1>3, <1>4, <1>5

(* The mark is set on a request that reached the queue.                     *)
LEMMA MarkKeeps ==
  ASSUME IInv, MarkRequested
  PROVE  IInv'
<1> USE DEF IInv, MarkRequested, EndPass, linkVars, wireVars, brokerVars, procVars
<1>1. current \in stored /\ confirm = "none"
  BY DEF ConfirmedOrReturned, HoldsPublisher
<1>2. /\ \A i \in DOMAIN wire : ~wire[i].live
      /\ \A i \in DOMAIN inbox : ~LiveConfirm(inbox[i])
  BY DEF LiveIsCurrent
<1>3. confirm' = "none" /\ step' \in {"none", "send"} /\ (holder' = Nobody => step' = "none")
  BY <1>1 DEF HoldsPublisher
<1>4. Typed' /\ HoldsPublisher' /\ MarkedIsStored' /\ ConfirmedOrReturned'
  BY <1>1, <1>3 DEF Typed, HoldsPublisher, MarkedIsStored, ConfirmedOrReturned
<1>5. LiveIsCurrent' /\ OneLive' /\ ReturnsComeFirst'
  BY <1>2 DEF LiveIsCurrent, OneLive, LiveConfirm, ReturnsComeFirst
<1> QED BY <1>4, <1>5

(* Nothing is on its way over a connection that is not open, or new.        *)
LEMMA EmptyWires ==
  ASSUME Typed, wire' = <<>>, inbox' = <<>>
  PROVE  /\ wire' \in Seq(Messages) /\ inbox' \in Seq(Answers)
         /\ LiveIsCurrent' /\ OneLive' /\ ReturnsComeFirst'
  BY DEF LiveIsCurrent, OneLive, ReturnsComeFirst

LEMMA ConnectKeeps ==
  ASSUME IInv, Connect
  PROVE  IInv'
<1> USE DEF IInv, Connect, passVars, procVars
<1>1. step # "confirm"
  BY DEF HoldsPublisher
<1>2. <<>> \in Seq(Resumes)
  OBVIOUS
<1>3. Typed' /\ LiveIsCurrent' /\ OneLive' /\ ReturnsComeFirst'
  BY <1>2, EmptyWires DEF Typed
<1>4. HoldsPublisher' /\ ConfirmedOrReturned' /\ MarkedIsStored'
  BY <1>1 DEF HoldsPublisher, ConfirmedOrReturned, MarkedIsStored
<1> QED BY <1>3, <1>4

(* The connection drops: what was waited for is taken for refused.          *)
LEMMA DropKeeps ==
  ASSUME IInv, Drop
  PROVE  IInv'
<1> USE DEF IInv, Drop, Closed, brokerVars, procVars
<1>1. Typed' /\ LiveIsCurrent' /\ OneLive' /\ ReturnsComeFirst'
  BY EmptyWires DEF Typed
<1>2. HoldsPublisher' /\ ConfirmedOrReturned' /\ MarkedIsStored'
  BY DEF HoldsPublisher, ConfirmedOrReturned, MarkedIsStored
<1> QED BY <1>1, <1>2

(* The session gives the publisher up while no pass holds its mutex.        *)
LEMMA ClearKeeps ==
  ASSUME IInv, Clear
  PROVE  IInv'
<1> USE DEF IInv, Clear, Closed, brokerVars, procVars
<1>1. step # "confirm"
  BY DEF HoldsPublisher
<1>2. <<>> \in Seq(Resumes)
  OBVIOUS
<1>3. Typed' /\ LiveIsCurrent' /\ OneLive' /\ ReturnsComeFirst'
  BY <1>2, EmptyWires DEF Typed
<1>4. HoldsPublisher' /\ ConfirmedOrReturned' /\ MarkedIsStored'
  BY <1>1 DEF HoldsPublisher, ConfirmedOrReturned, MarkedIsStored
<1> QED BY <1>3, <1>4

(* A return is read: it is now among those to be looked through.            *)
LEMMA ReadReturnKeeps ==
  ASSUME IInv, ReadReturn
  PROVE  IInv'
<1>1. inbox \in Seq(Answers) /\ inbox # <<>> /\ returns \in Seq(Resumes) /\ inbox' = Tail(inbox)
  BY DEF IInv, Typed, ReadReturn
<1>a. /\ Tail(inbox) \in Seq(Answers)
      /\ DOMAIN inbox = 1 .. Len(inbox) /\ 1 \in DOMAIN inbox /\ Head(inbox) = inbox[1]
      /\ DOMAIN Tail(inbox) = 1 .. Len(inbox) - 1
      /\ \A i \in DOMAIN Tail(inbox) : i + 1 \in DOMAIN inbox /\ Tail(inbox)[i] = inbox[i + 1]
      /\ \A i \in DOMAIN inbox : i = 1 \/ i - 1 \in DOMAIN Tail(inbox)
  BY <1>1, TailElements
<1> USE DEF IInv, ReadReturn, passVars, brokerVars, procVars
<1>2. /\ inbox' \in Seq(Answers)
      /\ inbox[1].kind = "return"
      /\ DOMAIN inbox = 1 .. Len(inbox) /\ 1 \in DOMAIN inbox /\ Head(inbox) = inbox[1]
      /\ \A i \in DOMAIN inbox' : i \in Int /\ i + 1 \in DOMAIN inbox /\ inbox'[i] = inbox[i + 1]
      /\ \A i \in DOMAIN inbox : i = 1 \/ i - 1 \in DOMAIN inbox'
  BY <1>1, <1>a
<1>3. inbox[1].resume \in Resumes
  <2>1. inbox[1] \in Answers
    BY <1>1, <1>2
  <2> QED BY <2>1 DEF Answers
<1>4. /\ returns' \in Seq(Resumes)
      /\ \A k \in DOMAIN returns : k \in DOMAIN returns' /\ returns'[k] = returns[k]
      /\ \E k \in DOMAIN returns' : returns'[k] = inbox[1].resume
  <2>1. returns' = Append(returns, inbox[1].resume)
    BY <1>2
  <2> QED BY <1>1, <1>3, <2>1, AppendElements
<1>5. Typed' /\ HoldsPublisher' /\ MarkedIsStored'
  BY <1>2, <1>4 DEF Typed, HoldsPublisher, MarkedIsStored
<1>6. LiveIsCurrent' /\ OneLive'
  BY <1>2 DEF LiveIsCurrent, OneLive, LiveConfirm
<1>7. ConfirmedOrReturned'
  BY <1>4 DEF ConfirmedOrReturned, IsReturned
<1>8. ReturnsComeFirst'
  <2> SUFFICES ASSUME NEW i \in DOMAIN inbox', inbox'[i].kind = "ack", inbox'[i].live
               PROVE  \/ inbox'[i].resume \in stored'
                      \/ \E k \in DOMAIN returns' : returns'[k] = inbox'[i].resume
                      \/ \E j \in DOMAIN inbox' : j < i /\ inbox'[j].kind = "return"
                                                       /\ inbox'[j].resume = inbox'[i].resume
    BY DEF ReturnsComeFirst, IsReturned
  <2>1. i + 1 \in DOMAIN inbox /\ inbox'[i] = inbox[i + 1] /\ i \in Int
    BY <1>2
  <2>2. CASE inbox[i + 1].resume \in stored
    BY <2>1, <2>2
  <2>3. CASE IsReturned(inbox[i + 1].resume)
    BY <1>4, <2>1, <2>3 DEF IsReturned
  <2>4. ASSUME NEW j \in DOMAIN inbox, j < i + 1, inbox[j].kind = "return",
               inbox[j].resume = inbox[i + 1].resume
        PROVE  \/ \E k \in DOMAIN returns' : returns'[k] = inbox'[i].resume
               \/ \E l \in DOMAIN inbox' : l < i /\ inbox'[l].kind = "return"
                                                /\ inbox'[l].resume = inbox'[i].resume
    <3>1. CASE j = 1
      BY <1>4, <2>1, <2>4, <3>1
    <3>2. CASE j # 1
      <4>1. /\ j - 1 \in DOMAIN inbox' /\ j \in Int
            /\ inbox'[j - 1] = inbox[j]
        BY <1>2, <3>2
      <4>2. j - 1 < i
        BY <2>1, <2>4, <4>1
      <4> QED BY <2>1, <2>4, <4>1, <4>2
    <3> QED BY <3>1, <3>2
  <2> QED BY <2>1, <2>2, <2>3, <2>4 DEF ReturnsComeFirst
<1> QED BY <1>5, <1>6, <1>7, <1>8

(* What the broker does to the requests on their way: it takes the first.   *)
LEMMA TakenFromWire ==
  ASSUME IInv, alive, wire # <<>>, wire' = Tail(wire)
  PROVE  /\ wire' \in Seq(Messages) /\ Head(wire) \in Messages
         /\ 1 \in DOMAIN wire /\ Head(wire) = wire[1]
         /\ \A i \in DOMAIN wire' : /\ i \in Int /\ i # 0 /\ i + 1 \in DOMAIN wire
                                    /\ wire'[i] = wire[i + 1]
<1>1. wire \in Seq(Messages)
  BY DEF IInv, Typed
<1>2. /\ Tail(wire) \in Seq(Messages)
      /\ DOMAIN wire = 1 .. Len(wire) /\ 1 \in DOMAIN wire /\ Head(wire) = wire[1]
      /\ DOMAIN Tail(wire) = 1 .. Len(wire) - 1
      /\ \A i \in DOMAIN Tail(wire) : i + 1 \in DOMAIN wire /\ Tail(wire)[i] = wire[i + 1]
  BY <1>1, TailElements
<1>3. wire[1] \in Messages
  BY <1>1, <1>2
<1> QED BY <1>2, <1>3

(* An answer is put behind the others: the invariant holds when it is       *)
(* either nobody's or a confirmation that is true or follows its return.    *)
LEMMA AnswerKeeps ==
  ASSUME IInv, alive, wire # <<>>, wire' = Tail(wire),
         NEW before \in Seq(Answers), NEW a \in Answers,
         a.resume = Head(wire).resume, a.live = Head(wire).live,
         before = inbox \/ \E b \in Answers : /\ before = Append(inbox, b)
                                              /\ b.kind = "return" /\ b.resume = a.resume,
         inbox' = Append(before, a), a.kind \in {"ack", "nack"},
         stored' = stored \/ stored' = stored \cup {a.resume},
         a.kind = "ack" => a.resume \in stored' \/ before # inbox,
         UNCHANGED <<requestedAt, step, current, confirm, locked, holder, pub, returns, alive>>
  PROVE  IInv'
<1> DEFINE n == Len(before) + 1
<1>1. /\ wire' \in Seq(Messages) /\ 1 \in DOMAIN wire /\ Head(wire) = wire[1]
      /\ \A i \in DOMAIN wire' : i \in Int /\ i # 0 /\ i + 1 \in DOMAIN wire
                                 /\ wire'[i] = wire[i + 1]
  BY TakenFromWire
<1>2. inbox \in Seq(Answers)
  BY DEF IInv, Typed
<1>3. /\ inbox' \in Seq(Answers)
      /\ n \in DOMAIN inbox' /\ inbox'[n] = a
      /\ \A i \in DOMAIN before : i \in DOMAIN inbox' /\ inbox'[i] = before[i]
      /\ \A i \in DOMAIN before : i \in Int /\ i < n
      /\ \A i \in DOMAIN inbox' : i \in DOMAIN before \/ i = n
  <2>1. /\ Append(before, a) \in Seq(Answers)
        /\ \A i \in DOMAIN before : /\ i \in DOMAIN Append(before, a)
                                     /\ Append(before, a)[i] = before[i]
                                     /\ i \in Int /\ i < Len(before) + 1
        /\ Len(before) + 1 \in DOMAIN Append(before, a)
        /\ Append(before, a)[Len(before) + 1] = a
        /\ \A i \in DOMAIN Append(before, a) : i \in DOMAIN before \/ i = Len(before) + 1
    BY AppendElements
  <2> QED BY <2>1
<1> HIDE DEF n
<1>4. /\ \A i \in DOMAIN inbox : i \in DOMAIN before /\ before[i] = inbox[i]
      /\ \A i \in DOMAIN before : i \in DOMAIN inbox \/ before[i].kind = "return"
      /\ before # inbox => \E i \in DOMAIN before : /\ before[i].kind = "return"
                                                    /\ before[i].resume = a.resume
  <2>1. CASE before = inbox
    BY <2>1
  <2>2. ASSUME NEW b \in Answers, before = Append(inbox, b),
               b.kind = "return", b.resume = a.resume
        PROVE  <1>4
    <3>1. /\ \A i \in DOMAIN inbox : i \in DOMAIN before /\ before[i] = inbox[i]
          /\ before[Len(inbox) + 1] = b
          /\ \A i \in DOMAIN before : i \in DOMAIN inbox \/ i = Len(inbox) + 1
          /\ DOMAIN before = 1 .. Len(inbox) + 1 /\ Len(inbox) \in Nat
      BY <1>2, <2>2, AppendElements
    <3>2. Len(inbox) + 1 \in DOMAIN before
      BY <3>1
    <3> QED BY <2>2, <3>1, <3>2
  <2> QED BY <2>1, <2>2
<1>5. /\ \A i \in DOMAIN inbox : i \in DOMAIN inbox' /\ inbox'[i] = inbox[i] /\ i < n
      /\ \A i \in DOMAIN inbox' : \/ i \in DOMAIN inbox /\ inbox'[i] = inbox[i]
                                  \/ inbox'[i].kind = "return"
                                  \/ i = n
  BY <1>3, <1>4
<1>a. \A i \in DOMAIN inbox' : LiveConfirm(inbox'[i]) =>
        \/ i \in DOMAIN inbox /\ inbox'[i] = inbox[i] /\ LiveConfirm(inbox[i])
        \/ i = n /\ inbox'[i] = a /\ a.live
  <2> SUFFICES ASSUME NEW i \in DOMAIN inbox', inbox'[i].kind # "return", inbox'[i].live
               PROVE  \/ /\ i \in DOMAIN inbox /\ inbox'[i] = inbox[i]
                         /\ inbox[i].kind # "return" /\ inbox[i].live
                      \/ i = n /\ inbox'[i] = a /\ a.live
    BY DEF LiveConfirm
  <2> QED BY <1>3, <1>5
<1>6. /\ stored \subseteq stored' /\ stored' \subseteq Resumes
      /\ a.resume \in Resumes
  <2>1. a.resume \in Resumes
    BY DEF Answers
  <2> QED BY <2>1 DEF IInv, Typed
<1>7. a.live => wire[1].live
  BY <1>1
<1>8. Typed' /\ HoldsPublisher' /\ MarkedIsStored' /\ ConfirmedOrReturned'
  BY <1>1, <1>3, <1>6 DEF IInv, Typed, HoldsPublisher, MarkedIsStored, ConfirmedOrReturned,
                          IsReturned
<1>9. LiveIsCurrent'
  <2>1. \A i \in DOMAIN wire' : wire'[i].live =>
          step = "confirm" /\ confirm = "none" /\ wire'[i].resume = current
    BY <1>1 DEF IInv, LiveIsCurrent
  <2>2. a.live => step = "confirm" /\ confirm = "none" /\ a.resume = current
    BY <1>1, <1>7 DEF IInv, LiveIsCurrent
  <2>3. \A i \in DOMAIN inbox' : LiveConfirm(inbox'[i]) =>
          step = "confirm" /\ confirm = "none" /\ inbox'[i].resume = current
    BY <1>a, <2>2 DEF IInv, LiveIsCurrent
  <2> QED BY <2>1, <2>3 DEF LiveIsCurrent, LiveConfirm
<1>10. OneLive'
  <2>1. \A i, j \in DOMAIN wire' : wire'[i].live /\ wire'[j].live => i = j
    <3> SUFFICES ASSUME NEW i \in DOMAIN wire', NEW j \in DOMAIN wire',
                        wire'[i].live, wire'[j].live
                 PROVE  i = j
      OBVIOUS
    <3>1. i + 1 = j + 1
      BY <1>1 DEF IInv, OneLive
    <3> QED BY <1>1, <3>1
  <2>2. ~a.live \/ \A i \in DOMAIN wire' : ~wire'[i].live
    <3> SUFFICES ASSUME a.live, NEW i \in DOMAIN wire', wire'[i].live
                 PROVE  FALSE
      OBVIOUS
    <3>1. i + 1 = 1
      BY <1>1, <1>7 DEF IInv, OneLive
    <3> QED BY <1>1, <3>1
  <2>3. a.live => \A i \in DOMAIN inbox : ~LiveConfirm(inbox[i])
    BY <1>1, <1>7 DEF IInv, OneLive
  <2>4. \A i, j \in DOMAIN inbox' : LiveConfirm(inbox'[i]) /\ LiveConfirm(inbox'[j]) => i = j
    BY <1>a, <2>3 DEF IInv, OneLive
  <2>5. \A i \in DOMAIN wire', j \in DOMAIN inbox' : ~(wire'[i].live /\ LiveConfirm(inbox'[j]))
    <3> SUFFICES ASSUME NEW i \in DOMAIN wire', NEW j \in DOMAIN inbox',
                        wire'[i].live, LiveConfirm(inbox'[j])
                 PROVE  FALSE
      OBVIOUS
    <3>1. j \in DOMAIN inbox /\ LiveConfirm(inbox[j])
      BY <1>a, <2>2
    <3>2. i + 1 \in DOMAIN wire /\ wire[i + 1].live
      BY <1>1
    <3> QED BY <3>1, <3>2 DEF IInv, OneLive
  <2> QED BY <2>1, <2>4, <2>5 DEF OneLive, LiveConfirm
<1>11. ReturnsComeFirst'
  <2> SUFFICES ASSUME NEW i \in DOMAIN inbox', inbox'[i].kind = "ack", inbox'[i].live
               PROVE  \/ inbox'[i].resume \in stored'
                      \/ IsReturned(inbox'[i].resume)
                      \/ \E j \in DOMAIN inbox' : j < i /\ inbox'[j].kind = "return"
                                                       /\ inbox'[j].resume = inbox'[i].resume
    BY DEF ReturnsComeFirst, IsReturned
  <2>1. CASE i \in DOMAIN inbox /\ inbox'[i] = inbox[i]
    <3>1. \/ inbox[i].resume \in stored \/ IsReturned(inbox[i].resume)
          \/ \E j \in DOMAIN inbox : j < i /\ inbox[j].kind = "return"
                                          /\ inbox[j].resume = inbox[i].resume
      BY <2>1 DEF IInv, ReturnsComeFirst
    <3> QED BY <1>5, <1>6, <2>1, <3>1
  <2>2. CASE i = n
    <3>1. CASE a.resume \in stored'
      BY <1>3, <2>2, <3>1
    <3>2. CASE before # inbox
      <4>1. PICK j \in DOMAIN before : before[j].kind = "return" /\ before[j].resume = a.resume
        BY <1>4, <3>2
      <4>2. j < n
        BY <1>3
      <4> QED BY <1>3, <2>2, <4>1, <4>2
    <3> QED BY <1>3, <2>2, <3>1, <3>2
  <2> QED BY <1>5, <2>1, <2>2
<1> QED BY <1>8, <1>9, <1>10, <1>11 DEF IInv

LEMMA BrokerTakesKeeps ==
  ASSUME IInv, BrokerTakes
  PROVE  IInv'
<1> DEFINE m == Head(wire)
<1> USE DEF BrokerTakes, passVars, linkVars, procVars
<1>1. m \in Messages /\ inbox \in Seq(Answers)
  BY TakenFromWire DEF IInv, Typed
<1>2. ASSUME NEW k \in {"return", "ack", "nack"}
      PROVE  /\ Answer(k, m) \in Answers /\ Answer(k, m).kind = k
             /\ Answer(k, m).resume = m.resume /\ Answer(k, m).live = m.live
  BY <1>1 DEF Answer, Answers, Messages
<1> HIDE DEF m
<1>3. CASE stored' = stored \cup {m.resume} /\ inbox' = Append(inbox, Answer("ack", m))
  BY <1>1, <1>2, <1>3, AnswerKeeps DEF m
<1>4. CASE stored' = stored /\ inbox' = inbox \o <<Answer("return", m), Answer("ack", m)>>
  <2> DEFINE before == Append(inbox, Answer("return", m))
  <2>1. before \in Seq(Answers) /\ before # inbox
    BY <1>1, <1>2
  <2>2. inbox' = Append(before, Answer("ack", m))
    BY <1>1, <1>2, <1>4
  <2>3. \E b \in Answers : before = Append(inbox, b) /\ b.kind = "return"
                           /\ b.resume = Answer("ack", m).resume
    BY <1>2
  <2> HIDE DEF before
  <2> QED BY <1>1, <1>2, <1>4, <2>1, <2>2, <2>3, AnswerKeeps DEF m
<1>5. CASE stored' = stored /\ inbox' = Append(inbox, Answer("nack", m))
  BY <1>1, <1>2, <1>5, AnswerKeeps DEF m
<1> QED BY <1>3, <1>4, <1>5 DEF m

(* A confirmation is read: the return it follows was read before.           *)
LEMMA ReadConfirmKeeps ==
  ASSUME IInv, ReadConfirm
  PROVE  IInv'
<1>1. inbox \in Seq(Answers) /\ inbox # <<>> /\ inbox' = Tail(inbox)
  BY DEF IInv, Typed, ReadConfirm
<1>2. /\ inbox' \in Seq(Answers)
      /\ 1 \in DOMAIN inbox /\ Head(inbox) = inbox[1] /\ inbox[1] \in Answers
      /\ \A i \in DOMAIN inbox : i \in Int /\ i >= 1
      /\ \A i \in DOMAIN inbox' : /\ i \in Int /\ i + 1 \in DOMAIN inbox /\ i + 1 # 1
                                  /\ inbox'[i] = inbox[i + 1]
      /\ \A i \in DOMAIN inbox : i = 1 \/ i - 1 \in DOMAIN inbox'
  <2>1. /\ Tail(inbox) \in Seq(Answers)
        /\ DOMAIN inbox = 1 .. Len(inbox) /\ 1 \in DOMAIN inbox /\ Head(inbox) = inbox[1]
        /\ DOMAIN Tail(inbox) = 1 .. Len(inbox) - 1
        /\ \A i \in DOMAIN Tail(inbox) : i + 1 \in DOMAIN inbox /\ Tail(inbox)[i] = inbox[i + 1]
        /\ \A i \in DOMAIN inbox : i = 1 \/ i - 1 \in DOMAIN Tail(inbox)
    BY <1>1, TailElements
  <2>2. inbox[1] \in Answers
    BY <1>1, <2>1
  <2> QED BY <1>1, <2>1, <2>2
<1> USE DEF ReadConfirm, linkVars, brokerVars, procVars
<1>3. inbox[1].kind \in {"ack", "nack"}
  BY <1>2 DEF Answers
<1>4. OneLive'
  BY <1>2 DEF IInv, OneLive, LiveConfirm
<1>5. ReturnsComeFirst'
  <2> SUFFICES ASSUME NEW i \in DOMAIN inbox', inbox'[i].kind = "ack", inbox'[i].live
               PROVE  \/ inbox'[i].resume \in stored
                      \/ IsReturned(inbox'[i].resume)
                      \/ \E j \in DOMAIN inbox' : j < i /\ inbox'[j].kind = "return"
                                                       /\ inbox'[j].resume = inbox'[i].resume
    BY DEF ReturnsComeFirst, IsReturned
  <2>1. i + 1 \in DOMAIN inbox /\ inbox'[i] = inbox[i + 1] /\ i \in Int
    BY <1>2
  <2>2. \/ inbox[i + 1].resume \in stored \/ IsReturned(inbox[i + 1].resume)
        \/ \E j \in DOMAIN inbox : j < i + 1 /\ inbox[j].kind = "return"
                                   /\ inbox[j].resume = inbox[i + 1].resume
    BY <2>1 DEF IInv, ReturnsComeFirst
  <2>3. ASSUME NEW j \in DOMAIN inbox, j < i + 1, inbox[j].kind = "return",
               inbox[j].resume = inbox[i + 1].resume
        PROVE  \E l \in DOMAIN inbox' : l < i /\ inbox'[l].kind = "return"
                                        /\ inbox'[l].resume = inbox'[i].resume
    <3>1. j # 1
      BY <1>3, <2>3
    <3>2. j - 1 \in DOMAIN inbox' /\ j \in Int
      BY <1>2, <3>1
    <3>3. inbox'[j - 1] = inbox[j] /\ j - 1 < i
      <4>1. inbox'[j - 1] = inbox[(j - 1) + 1] /\ (j - 1) + 1 = j
        BY <1>2, <3>2
      <4> QED BY <2>1, <2>3, <3>2, <4>1
    <3> QED BY <2>1, <2>3, <3>2, <3>3
  <2> QED BY <2>1, <2>2, <2>3
<1>6. CASE inbox[1].live
  <2>1. step = "confirm" /\ confirm = "none" /\ inbox[1].resume = current
    BY <1>2, <1>3, <1>6 DEF IInv, LiveIsCurrent, LiveConfirm
  <2>2. \A i \in DOMAIN wire : ~wire[i].live
    BY <1>2, <1>3, <1>6 DEF IInv, OneLive, LiveConfirm
  <2>3. \A i \in DOMAIN inbox : i = 1 \/ ~LiveConfirm(inbox[i])
    BY <1>2, <1>3, <1>6 DEF IInv, OneLive, LiveConfirm
  <2>4. LiveIsCurrent'
    BY <1>2, <2>2, <2>3 DEF LiveIsCurrent, LiveConfirm
  <2>5. confirm' = inbox[1].kind
    BY <1>2, <1>6
  <2>6. inbox[1].kind = "ack" => current \in stored \/ IsReturned(current)
    <3>1. ~\E j \in DOMAIN inbox : j < 1
      BY <1>2
    <3> QED BY <1>2, <1>6, <2>1, <3>1 DEF IInv, ReturnsComeFirst
  <2>7. Typed' /\ HoldsPublisher' /\ ConfirmedOrReturned' /\ MarkedIsStored'
    BY <1>2, <1>3, <2>1, <2>5, <2>6 DEF IInv, Typed, HoldsPublisher, ConfirmedOrReturned,
                                        IsReturned, MarkedIsStored
  <2> QED BY <1>4, <1>5, <2>4, <2>7 DEF IInv
<1>7. CASE ~inbox[1].live
  <2>1. confirm' = confirm
    BY <1>2, <1>7
  <2>2. Typed' /\ HoldsPublisher' /\ ConfirmedOrReturned' /\ MarkedIsStored'
    BY <1>2, <2>1 DEF IInv, Typed, HoldsPublisher, ConfirmedOrReturned, IsReturned,
                      MarkedIsStored
  <2>3. LiveIsCurrent'
    BY <1>2, <2>1 DEF IInv, LiveIsCurrent, LiveConfirm
  <2> QED BY <1>4, <1>5, <2>2, <2>3 DEF IInv
<1> QED BY <1>6, <1>7

-----------------------------------------------------------------------------
LEMMA InitHolds == Init => IInv
<1> SUFFICES ASSUME Init PROVE IInv
  OBVIOUS
<1>1. Typed /\ LiveIsCurrent /\ OneLive /\ ReturnsComeFirst
  <2>1. <<>> \in Seq(Resumes) /\ <<>> \in Seq(Messages) /\ <<>> \in Seq(Answers)
    OBVIOUS
  <2> QED BY <2>1 DEF Init, Typed, LiveIsCurrent, OneLive, ReturnsComeFirst
<1>2. HoldsPublisher /\ ConfirmedOrReturned /\ MarkedIsStored
  BY DEF Init, HoldsPublisher, ConfirmedOrReturned, MarkedIsStored
<1> QED BY <1>1, <1>2 DEF IInv

(* A pass gets the mutex publishing: it has not sent anything yet.          *)
LEMMA EnterKeeps ==
  ASSUME IInv, NEW p \in Passes, Enter(p)
  PROVE  IInv'
<1> USE DEF IInv, Enter, linkVars, wireVars, brokerVars, procVars
<1>1. step = "none" /\ confirm = "none" /\ p # Nobody
  BY BrokerLinkAssumption DEF HoldsPublisher, Passes
<1>2. Typed' /\ HoldsPublisher' /\ ConfirmedOrReturned' /\ MarkedIsStored'
  BY <1>1 DEF Typed, HoldsPublisher, ConfirmedOrReturned, MarkedIsStored
<1>3. LiveIsCurrent' /\ OneLive' /\ ReturnsComeFirst'
  BY <1>1 DEF LiveIsCurrent, OneLive, LiveConfirm, ReturnsComeFirst, IsReturned
<1> QED BY <1>2, <1>3

(* The loop over a closed channel of returns: the pass does nothing else.   *)
LEMMA SpinKeeps ==
  ASSUME IInv, SpinOnClosed
  PROVE  IInv'
<1> USE DEF IInv, SpinOnClosed, linkVars, wireVars, brokerVars, procVars
<1>1. Typed' /\ HoldsPublisher' /\ ConfirmedOrReturned' /\ MarkedIsStored'
  BY DEF Typed, HoldsPublisher, ConfirmedOrReturned, MarkedIsStored
<1>2. LiveIsCurrent' /\ OneLive' /\ ReturnsComeFirst'
  BY DEF LiveIsCurrent, OneLive, LiveConfirm, ReturnsComeFirst, IsReturned
<1> QED BY <1>1, <1>2

LEMMA PassKeeps ==
  ASSUME IInv, PassStep
  PROVE  IInv'
<1>1. ASSUME NEW p \in Passes, Enter(p) PROVE IInv'
  BY <1>1, EnterKeeps
<1>2. ASSUME NEW p \in Passes, FindNothing(p) PROVE IInv'
  BY <1>2, Unchanged DEF FindNothing, linkVars, wireVars, brokerVars, procVars, linkState
<1>3. CASE Unavailable
  BY <1>3, PassEnds DEF Unavailable, linkVars, wireVars, brokerVars, procVars
<1>4. ASSUME NEW r \in Resumes, Publish(r) PROVE IInv'
  BY <1>4, PublishKeeps
<1>5. CASE MarkFails
  BY <1>5, PassEnds DEF MarkFails, linkVars, wireVars, brokerVars, procVars
<1> QED BY <1>1, <1>2, <1>3, <1>4, <1>5, CheckKeeps, TimeOutKeeps, MarkKeeps DEF PassStep

LEMMA SessionKeeps ==
  ASSUME IInv, SessionStep
  PROVE  IInv'
<1>1. CASE DialFails \/ Redial \/ TakeResult \/ ResultHandled \/ Leave \/ DeliveriesEnd
  BY <1>1, Unchanged DEF DialFails, Redial, TakeResult, ResultHandled, Leave, DeliveriesEnd,
                         passVars, wireVars, brokerVars, procVars, linkState
<1> QED BY <1>1, ConnectKeeps, ClearKeeps DEF SessionStep

LEMMA StopKeeps ==
  ASSUME IInv, StopStep \/ Signal
  PROVE  IInv'
  BY Unchanged DEF StopStep, ServerStops, RelayEnds, Release, Exit, Signal,
                   passVars, linkVars, wireVars, brokerVars, linkState

LEMMA NextKeeps == IInv /\ [Next]_vars => IInv'
<1> SUFFICES ASSUME IInv, [Next]_vars PROVE IInv'
  OBVIOUS
<1>1. CASE UNCHANGED vars
  BY <1>1, Unchanged DEF vars, passVars, linkVars, wireVars, brokerVars, linkState
<1>2. ASSUME NEW p \in Passes, Ask(p) PROVE IInv'
  BY <1>2, Unchanged DEF Ask, linkVars, wireVars, brokerVars, procVars, linkState
<1>3. CASE QueueChanges
  BY <1>3, Unchanged DEF QueueChanges, passVars, linkVars, wireVars, procVars, linkState
<1> QED BY <1>1, <1>2, <1>3, PassKeeps, SpinKeeps, SessionKeeps, DropKeeps, BrokerTakesKeeps,
           ReadReturnKeeps, ReadConfirmKeeps, StopKeeps DEF Next, ReadStep

(* A resume is marked requested only when its request reached the queue:    *)
(* what RequestScreening tells PublishPendingRequests of a request is true, *)
(* with any number of passes, connections and requests given up before.     *)
THEOREM MarkedStored == Spec => []MarkedIsStored
<1>1. IInv => MarkedIsStored
  BY DEF IInv
<1> QED BY <1>1, InitHolds, NextKeeps, PTL DEF Spec

-----------------------------------------------------------------------------
(* Nothing New acquired is released before the relay and Run have ended,    *)
(* for good.                                                                *)
Released ==
  \/ open = Closers
  \/ ~relay /\ session = "done"

RelayRuns == Relay \in asking \/ holder = Relay => relay

LInv == Released /\ RelayRuns

(* The broker is the first to be closed.                                    *)
LEMMA ReleasedInOrder ==
  ASSUME Released, Release
  PROVE  Released'
<1> USE DEF Release, procVars, linkVars
<1>1. CASE open = Closers
  <2>1. Last(open) = "broker"
    BY <1>1 DEF Last, Closers
  <2> QED BY <2>1 DEF MayClose, Released
<1>2. CASE ~relay /\ session = "done"
  BY <1>2 DEF Released
<1> QED BY <1>1, <1>2 DEF Released

LEMMA LKeeps == LInv /\ [Next]_vars => LInv'
<1> SUFFICES ASSUME LInv, [Next]_vars PROVE LInv'
  OBVIOUS
<1> USE DEF LInv, passVars, linkVars, wireVars, brokerVars, procVars
<1>1. CASE UNCHANGED vars
  BY <1>1 DEF vars, Released, RelayRuns
<1>2. ASSUME NEW p \in Passes, Ask(p) \/ Enter(p) \/ FindNothing(p) PROVE LInv'
  <2>1. RelayRuns'
    BY <1>2 DEF Ask, Enter, FindNothing, RelayRuns
  <2> QED BY <1>2, <2>1 DEF Ask, Enter, FindNothing, Released
<1>3. CASE PassStep \/ SpinOnClosed
  <2>1. ASSUME NEW r \in Resumes, Publish(r) PROVE LInv'
    BY <2>1 DEF Publish, Published, Released, RelayRuns
  <2>2. CASE Unavailable \/ CheckReturned \/ TimesOut \/ MarkRequested \/ MarkFails \/ SpinOnClosed
    <3>1. /\ UNCHANGED <<session, proc, relay, open, asking>>
          /\ holder' = holder \/ holder' = Nobody
      BY <2>2 DEF Unavailable, CheckReturned, TimesOut, GivesUp, MarkRequested, MarkFails,
                  SpinOnClosed, EndPass
    <3> QED BY <3>1, BrokerLinkAssumption DEF Released, RelayRuns
  <2> QED BY <1>2, <1>3, <2>1, <2>2 DEF PassStep
<1>4. CASE SessionStep
  <2>1. UNCHANGED <<relay, open, asking, holder>> /\ session # "done"
    BY <1>4 DEF SessionStep, Connect, DialFails, Redial, TakeResult, ResultHandled, Leave, DeliveriesEnd,
                Clear, Closed
  <2> QED BY <2>1 DEF Released, RelayRuns
<1>5. CASE Drop \/ BrokerTakes \/ ReadStep \/ QueueChanges \/ Signal \/ ServerStops \/ Exit
  <2>1. UNCHANGED <<session, relay, open, asking, holder>>
    BY <1>5 DEF Drop, Closed, BrokerTakes, ReadStep, ReadReturn, ReadConfirm, QueueChanges,
                Signal, ServerStops, Exit
  <2> QED BY <2>1 DEF Released, RelayRuns
<1>6. CASE RelayEnds
  BY <1>6 DEF RelayEnds, Released, RelayRuns
<1>7. CASE Release
  <2>1. UNCHANGED <<relay, asking, holder>>
    BY <1>7 DEF Release
  <2> QED BY <1>7, <2>1, ReleasedInOrder DEF RelayRuns
<1> QED BY <1>1, <1>2, <1>3, <1>4, <1>5, <1>6, <1>7 DEF Next, StopStep

(* Whatever the order in which the relay, Run and the HTTP server end, the  *)
(* database is closed after the last pass of the relay and the last result: *)
(* New's closers are in the order they have to be.                          *)
THEOREM DatabaseClosedLast == Spec => []DatabaseOutlivesItsUsers
<1>1. Init => LInv
  <2> SUFFICES ASSUME Init PROVE LInv
    OBVIOUS
  <2>1. Released
    BY DEF Init, Released
  <2>2. RelayRuns
    BY DEF Init, RelayRuns
  <2> QED BY <2>1, <2>2 DEF LInv
<1>2. LInv => DatabaseOutlivesItsUsers
  <2> SUFFICES ASSUME LInv, holder = Relay \/ session = "handling" PROVE DatabaseOpen
    BY DEF DatabaseOutlivesItsUsers
  <2>1. open = <<"database", "guides", "ai", "broker">>
    BY DEF LInv, Released, RelayRuns, Closers
  <2>2. 1 \in DOMAIN open /\ open[1] = "database"
    BY <2>1
  <2> QED BY <2>2 DEF DatabaseOpen, Range
<1> QED BY <1>1, <1>2, LKeeps, PTL DEF Spec
=============================================================================
