--------------------------- MODULE SessionsProofs ---------------------------
(***************************************************************************)
(* What holds of sessions for every number of members, sessions, calls,    *)
(* tokens and passwords.                                                   *)
(*                                                                         *)
(* The argument is about locks.  A row is locked by one call at a time,    *)
(* and what a call has learnt of a row it has locked stays true, because   *)
(* the other calls that write the row lock it first.  CallInv is what a    *)
(* call knows, Frame is why the steps of the others leave it so, and       *)
(* SessionInv is what the writes then keep.                                *)
(***************************************************************************)
EXTENDS Sessions, FiniteSetTheorems, TLAPS

ChangeOps == {"set", "replace", "remove"}
CallStates == {Idle} \cup SignIns \cup Rotations \cup Changes

(* The calls that have the membership lock.                                 *)
HasMembershipLock(k) == k.op \in ChangeOps /\ k.phase \in {"sessions", "tokens"}

(* Two calls that may be under way at the same time.                        *)
Together(k, l) ==
  /\ k.holds \cap l.holds = {}
  /\ ~(HasMembershipLock(k) /\ HasMembershipLock(l))
  /\ k.op = "signin" /\ l.op \in ChangeOps /\ k.member = l.member => k.member \in Shared

Exclusive == \A c, d \in Calls : c # d => Together(call[c], call[d])

Current(m, password) == ~member[m].removed /\ password = member[m].password

SignInInv(k) ==
  k.op = "signin" /\ k.member \notin Shared => Current(k.member, k.password)

(* RotateRefreshToken, statement by statement.                              *)
RotationInv(k) ==
  k.op = "rotate" =>
    /\ k.holds \subseteq {<<k.session, k.number>>, <<k.session, 0>>}
    /\ session[k.session] # Missing
    /\ token[k.session][k.number] # "none"
    /\ token[k.session][k.number] = "unused" => k.number < MaxTokens
    /\ k.phase # "token" =>
         <<k.session, k.number>> \in k.holds /\ token[k.session][k.number] # "deleted"
    /\ k.phase \in {"write", "revoke"} => <<k.session, 0>> \in k.holds
    /\ k.phase = "write" => token[k.session][k.number] # "used" /\ GoesOn(k.session)

(* SetPassword, ReplaceOwnPassword and Remove, statement by statement: what *)
(* is locked of the member's rows, ...                                      *)
HeldRows(k) ==
  /\ \A s \in SessionIds : <<s, 0>> \in k.left \cup k.holds =>
       session[s] # Missing /\ session[s].member = k.member
  /\ \A s \in SessionIds : <<s, 0>> \in k.holds => Stored(s)
  /\ \A s \in SessionIds, n \in 1..MaxTokens : <<s, n>> \in k.holds => token[s][n] = "unused"

(* ... that no session that goes on is left out, ...                        *)
SessionsReached(k) ==
  HasMembershipLock(k) /\ k.member \notin Shared =>
    \A s \in SessionIds : session[s] # Missing /\ session[s].member = k.member /\ GoesOn(s) =>
      \/ <<s, 0>> \in k.holds
      \/ k.phase = "sessions" /\ <<s, 0>> \in k.left

(* ... nor any unused token of the sessions that will be revoked.           *)
TokensReached(k) ==
  k.phase = "tokens" =>
    \A s \in SessionIds : <<s, 0>> \in k.holds =>
      \A n \in Unused(s) : <<s, n>> \in k.left \cup k.holds

ChangeInv(k) ==
  k.op \in ChangeOps =>
    /\ HeldRows(k)
    /\ SessionsReached(k)
    /\ TokensReached(k)
    /\ HasMembershipLock(k) /\ k.op # "remove" => member[k.member].password < MaxPasswords

CallInv(k) == SignInInv(k) /\ RotationInv(k) /\ ChangeInv(k)

(* The tokens of a session: those exchanged, one more at most, and no more. *)
ChainOf(s, j) ==
  \A n \in 1..MaxTokens :
    /\ n <= j <=> token[s][n] = "used"
    /\ n > j + 1 => token[s][n] = "none"

SessionInv(s) ==
  /\ session[s] = Missing => \A n \in 1..MaxTokens : token[s][n] = "none"
  /\ \E j \in 0..MaxTokens : ChainOf(s, j)
  /\ session[s] # Missing /\ session[s].revoked => Unused(s) = {}
  /\ session[s] # Missing /\ GoesOn(s) /\ session[s].member \notin Shared =>
       Current(session[s].member, session[s].password)

IInv ==
  /\ TypeOK
  /\ Exclusive
  /\ \A c \in Calls : CallInv(call[c])
  /\ \A s \in SessionIds : SessionInv(s)

-----------------------------------------------------------------------------
(* Types of calls.                                                          *)

(* The op of a call says what it is.                                        *)
LEMMA ByOp ==
  ASSUME NEW k \in CallStates
  PROVE  /\ k.op = "rotate" => k \in Rotations
         /\ k.op \in ChangeOps => k \in Changes
         /\ k.op = "signin" => k \in SignIns
         /\ k.holds \in SUBSET Rows
BY DEF CallStates, Idle, SignIns, Rotations, Changes, ChangeOps

(* A step that writes one call only.                                        *)
LEMMA CallStep ==
  ASSUME IInv, NEW c \in Calls, NEW k \in CallStates, CallInv(k),
         \A d \in Calls \ {c} : Together(k, call[d]) /\ Together(call[d], k),
         call' = [call EXCEPT ![c] = k], UNCHANGED <<member, session, token>>
  PROVE  IInv'
<1>1. /\ call \in [Calls -> CallStates]
      /\ \A d \in Calls : call'[d] = IF d = c THEN k ELSE call[d]
  BY DEF IInv, TypeOK, CallStates
<1>2. TypeOK'
  BY <1>1 DEF IInv, TypeOK, CallStates
<1>3. Exclusive'
  BY <1>1 DEF IInv, Exclusive, Together, HasMembershipLock
<1>4. \A l : CallInv(l) <=> CallInv(l)'
  BY DEF CallInv, SignInInv, RotationInv, ChangeInv, HeldRows, SessionsReached, TokensReached,
         Current, GoesOn, Stored, Unused
<1>5. \A d \in Calls : CallInv(call[d])'
  BY <1>1, <1>4 DEF IInv
<1>6. \A s \in SessionIds : SessionInv(s)'
  BY DEF IInv, SessionInv, ChainOf, Unused, GoesOn, Current
<1> QED BY <1>2, <1>3, <1>5, <1>6 DEF IInv

LEMMA IdleStep ==
  ASSUME IInv, NEW c \in Calls, Ends(c), UNCHANGED <<member, session, token>>
  PROVE  IInv'
<1>1. Idle \in CallStates /\ Idle.op = "idle" /\ Idle.holds = {}
  BY DEF CallStates, Idle
<1>2. CallInv(Idle)
  BY <1>1 DEF CallInv, SignInInv, RotationInv, ChangeInv, ChangeOps
<1>3. \A l : Together(Idle, l) /\ Together(l, Idle)
  BY <1>1 DEF Together, HasMembershipLock, ChangeOps
<1> QED BY <1>1, <1>2, <1>3, CallStep DEF Ends

-----------------------------------------------------------------------------
(* Steps that only read and lock.                                           *)

LEMMA CallTypes ==
  ASSUME IInv, NEW c \in Calls
  PROVE  /\ call[c] \in CallStates /\ CallInv(call[c])
         /\ call[c].op = "rotate" => call[c] \in Rotations
         /\ call[c].op \in ChangeOps => call[c] \in Changes
         /\ call[c].op = "signin" => call[c] \in SignIns
<1>1. call[c] \in CallStates /\ CallInv(call[c])
  BY DEF IInv, TypeOK, CallStates
<1> QED BY <1>1, ByOp

(* SignIn finds an active member who is not being changed, if not shared.   *)
LEMMA SignInKeeps ==
  ASSUME IInv, NEW c \in Calls, NEW m \in MemberIds, SignIn(c, m)
  PROVE  IInv'
<1> DEFINE k == [op |-> "signin", member |-> m, password |-> member[m].password, holds |-> {}]
<1>1. member[m].password \in 1..MaxPasswords
  BY DEF IInv, TypeOK, Members
<1>2. k \in CallStates
  BY <1>1 DEF CallStates, SignIns
<1>3. CallInv(k)
  BY DEF SignIn, CallInv, SignInInv, RotationInv, ChangeInv, ChangeOps, Current
<1>4. \A d \in Calls \ {c} : Together(k, call[d]) /\ Together(call[d], k)
  BY DEF SignIn, Together, HasMembershipLock, Changing, ChangeOps
<1>5. call' = [call EXCEPT ![c] = k] /\ UNCHANGED <<member, session, token>>
  BY DEF SignIn
<1> HIDE DEF k
<1> QED BY <1>2, <1>3, <1>4, <1>5, CallStep

(* A rotation under way locks rows nobody else has.                         *)
LEMMA RotationStep ==
  ASSUME IInv, NEW c \in Calls, NEW k \in Rotations, k.op = "rotate",
         \A d \in Calls \ {c} : k.holds \cap call[d].holds = {},
         RotationInv(k), call' = [call EXCEPT ![c] = k],
         UNCHANGED <<member, session, token>>
  PROVE  IInv'
<1>1. CallInv(k)
  BY DEF CallInv, SignInInv, ChangeInv, ChangeOps
<1>2. \A d \in Calls \ {c} : Together(k, call[d]) /\ Together(call[d], k)
  BY DEF Together, HasMembershipLock, ChangeOps
<1> QED BY <1>1, <1>2, CallStep DEF CallStates

(* Somebody presents a token that was issued.                               *)
LEMMA PresentKeeps ==
  ASSUME IInv, NEW c \in Calls, NEW s \in SessionIds, NEW n \in 1..MaxTokens,
         RotateRefreshToken(c, s, n)
  PROVE  IInv'
<1> DEFINE k == [op |-> "rotate", phase |-> "token", session |-> s, number |-> n,
                 removed |-> member[session[s].member].removed, holds |-> {}]
<1>1. session[s] # Missing /\ session[s].member \in MemberIds
  BY DEF IInv, TypeOK, RotateRefreshToken, Stored, SessionRows
<1>2. k.removed \in BOOLEAN
  BY <1>1 DEF IInv, TypeOK, Members
<1>3. k \in CallStates
  BY <1>2 DEF CallStates, Rotations
<1>4. CallInv(k)
  BY <1>1 DEF RotateRefreshToken, CallInv, SignInInv, RotationInv, ChangeInv, ChangeOps
<1>5. \A d \in Calls \ {c} : Together(k, call[d]) /\ Together(call[d], k)
  BY DEF Together, HasMembershipLock, ChangeOps
<1>6. call' = [call EXCEPT ![c] = k] /\ UNCHANGED <<member, session, token>>
  BY DEF RotateRefreshToken
<1> HIDE DEF k
<1> QED BY <1>3, <1>4, <1>5, <1>6, CallStep

LEMMA LockTokenKeeps ==
  ASSUME IInv, NEW c \in Calls, LockToken(c)
  PROVE  IInv'
<1>1. call[c] \in Rotations /\ call[c].op = "rotate" /\ RotationInv(call[c])
  BY CallTypes DEF LockToken, Rotating, CallInv
<1>2. Presented(c) \in Rows
  BY <1>1 DEF Presented, Rows, Rotations
<1>0. PICK k : k = [call[c] EXCEPT !.phase = "session", !.holds = {Presented(c)}]
  OBVIOUS
<1>3. /\ k \in Rotations
      /\ k.op = "rotate" /\ k.phase = "session" /\ k.holds = {Presented(c)}
      /\ k.session = call[c].session /\ k.number = call[c].number
  <2>1. {Presented(c)} \in SUBSET Rows
    BY <1>2
  <2> QED BY <1>0, <1>1, <2>1 DEF Rotations
<1>4. call' = [call EXCEPT ![c] = k]
  BY <1>0 DEF LockToken, IInv, TypeOK
<1>5. RotationInv(k)
  <2> QED BY <1>1, <1>3 DEF RotationInv, LockToken, Presented, State
<1>6. \A d \in Calls \ {c} : {Presented(c)} \cap call[d].holds = {}
  BY DEF LockToken, Free
<1> QED BY <1>3, <1>4, <1>5, <1>6, RotationStep DEF LockToken

(* Having the token, the rotation locks the session and knows the outcome.  *)
LEMMA LockSessionKeeps ==
  ASSUME IInv, NEW c \in Calls, Rotating(c, "session"),
         NEW phase \in {"write", "revoke"}, LockSession(c, phase),
         phase = "write" => State(c) # "used" /\ ~Ended(call[c].session)
  PROVE  IInv'
<1>1. call[c] \in Rotations /\ call[c].op = "rotate" /\ RotationInv(call[c])
  BY CallTypes DEF Rotating, CallInv
<1> DEFINE row == <<call[c].session, 0>>
           holds == call[c].holds \cup {row}
<1>0. PICK k : k = [call[c] EXCEPT !.phase = phase, !.holds = holds]
  OBVIOUS
<1>2. holds \in SUBSET Rows
  BY <1>1, SessionsAssumption DEF Rows, Rotations
<1>3. /\ k \in Rotations /\ k.op = "rotate" /\ k.phase = phase /\ k.holds = holds
      /\ k.session = call[c].session /\ k.number = call[c].number
  BY <1>0, <1>1, <1>2 DEF Rotations
<1>4. call' = [call EXCEPT ![c] = k]
  BY <1>0 DEF LockSession, IInv, TypeOK
<1>5. RotationInv(k)
  <2> QED BY <1>1, <1>3 DEF RotationInv, Rotating, State, Ended, GoesOn
<1>6. \A d \in Calls \ {c} : holds \cap call[d].holds = {}
  BY DEF LockSession, Free, IInv, Exclusive, Together
<1> QED BY <1>3, <1>4, <1>5, <1>6, RotationStep DEF LockSession

(* A change under way: nobody else has its rows or the membership lock, and *)
(* its member does not sign in, if not shared.                              *)
LEMMA ChangeStep ==
  ASSUME IInv, NEW c \in Calls, NEW k \in Changes, ChangeInv(k),
         \A d \in Calls \ {c} :
           /\ k.holds \cap call[d].holds = {}
           /\ ~(HasMembershipLock(k) /\ HasMembershipLock(call[d]))
           /\ call[d].op = "signin" /\ call[d].member = k.member => k.member \in Shared,
         call' = [call EXCEPT ![c] = k],
         UNCHANGED <<member, session, token>>
  PROVE  IInv'
<1>1. k.op \in ChangeOps
  BY DEF Changes, ChangeOps
<1>2. CallInv(k)
  BY <1>1 DEF CallInv, SignInInv, RotationInv, ChangeOps
<1>3. \A d \in Calls \ {c} : Together(k, call[d]) /\ Together(call[d], k)
  BY <1>1 DEF Together, ChangeOps
<1> QED BY <1>2, <1>3, CallStep DEF CallStates

LEMMA ChangeMemberKeeps ==
  ASSUME IInv, NEW c \in Calls, NEW op \in ChangeOps, NEW m \in MemberIds, ChangeMember(c, op, m)
  PROVE  IInv'
<1>0. PICK k : k = [op |-> op, phase |-> "lock", member |-> m, left |-> {}, holds |-> {}]
  OBVIOUS
<1>1. k \in Changes
  BY <1>0 DEF Changes, ChangeOps
<1>2. ChangeInv(k)
  BY <1>0 DEF ChangeInv, HeldRows, SessionsReached, TokensReached, HasMembershipLock
<1>3. \A d \in Calls \ {c} :
        /\ k.holds \cap call[d].holds = {}
        /\ ~HasMembershipLock(k)
        /\ call[d].op = "signin" /\ call[d].member = k.member => k.member \in Shared
  BY <1>0 DEF HasMembershipLock, ChangeMember, SigningIn
<1>4. call' = [call EXCEPT ![c] = k] /\ UNCHANGED <<member, session, token>>
  BY <1>0 DEF ChangeMember
<1> QED BY <1>1, <1>2, <1>3, <1>4, ChangeStep

(* A change that goes on has had its rows to itself.                        *)
LEMMA ChangeUnderWay ==
  ASSUME IInv, NEW c \in Calls, call[c].op \in ChangeOps
  PROVE  /\ call[c] \in Changes /\ ChangeInv(call[c])
         /\ \A d \in Calls \ {c} :
              /\ call[c].holds \cap call[d].holds = {}
              /\ ~(HasMembershipLock(call[c]) /\ HasMembershipLock(call[d]))
              /\ call[d].op = "signin" /\ call[d].member = call[c].member =>
                   call[c].member \in Shared
<1>1. call[c] \in Changes /\ ChangeInv(call[c])
  BY CallTypes DEF CallInv
<1>2. \A d \in Calls \ {c} : Together(call[c], call[d]) /\ Together(call[d], call[c])
  BY DEF IInv, Exclusive
<1> QED BY <1>1, <1>2 DEF Together

(* lockActiveMember: from now on no other change has the lock, and every    *)
(* session of the member that goes on is on the list.                       *)
LEMMA LockActiveMemberKeeps ==
  ASSUME IInv, NEW c \in Calls, LockActiveMember(c)
  PROVE  IInv'
<1> DEFINE left == {<<s, 0>> : s \in {s \in SessionIds :
                      Stored(s) /\ session[s].member = call[c].member /\ ~session[s].revoked}}
<1>0. PICK k : k = [call[c] EXCEPT !.phase = "sessions", !.left = left]
  OBVIOUS
<1>1. call[c].op \in ChangeOps
  BY DEF LockActiveMember, Change, ChangeOps
<1>2. /\ call[c] \in Changes /\ ChangeInv(call[c])
      /\ \A d \in Calls \ {c} :
           /\ call[c].holds \cap call[d].holds = {}
           /\ call[d].op = "signin" /\ call[d].member = call[c].member =>
                call[c].member \in Shared
  BY <1>1, ChangeUnderWay
<1>3. left \in SUBSET Rows
  BY SessionsAssumption DEF Rows
<1>4. \A s \in SessionIds :
        session[s] # Missing /\ session[s].member = call[c].member /\ GoesOn(s) =>
          <<s, 0>> \in left
  BY DEF GoesOn, Stored
<1>9. \A s \in SessionIds : <<s, 0>> \in left =>
        session[s] # Missing /\ session[s].member = call[c].member
  BY DEF Stored
<1> HIDE DEF left
<1>5. /\ k \in Changes /\ k.op = call[c].op /\ k.phase = "sessions"
      /\ k.left = left /\ k.holds = call[c].holds /\ k.member = call[c].member
  BY <1>0, <1>2, <1>3 DEF Changes
<1>6. call' = [call EXCEPT ![c] = k]
  BY <1>0 DEF LockActiveMember, IInv, TypeOK, left
<1>7. ChangeInv(k)
  <2>1. HeldRows(k)
    BY <1>1, <1>2, <1>5, <1>9 DEF ChangeInv, HeldRows
  <2>2. SessionsReached(k)
    BY <1>4, <1>5 DEF SessionsReached
  <2>3. TokensReached(k)
    BY <1>5 DEF TokensReached
  <2>4. k.op # "remove" => member[k.member].password < MaxPasswords
    BY <1>5 DEF LockActiveMember
  <2> QED BY <2>1, <2>2, <2>3, <2>4 DEF ChangeInv
<1>8. \A d \in Calls \ {c} : ~HasMembershipLock(call[d])
  BY DEF LockActiveMember, MembershipLockFree, HasMembershipLock, Change, ChangeOps
<1> QED BY <1>2, <1>5, <1>6, <1>7, <1>8, ChangeStep DEF LockActiveMember

(* UPDATE sessions: a session is passed by only if it does not go on.       *)
LEMMA LockMemberSessionKeeps ==
  ASSUME IInv, NEW c \in Calls, NEW s \in SessionIds, LockMemberSession(c, s)
  PROVE  IInv'
<1> DEFINE row == <<s, 0>>
           wanted == Stored(s) /\ ~session[s].revoked
           holds == IF wanted THEN call[c].holds \cup {row} ELSE call[c].holds
           left == call[c].left \ {row}
<1>0. PICK k : k = [call[c] EXCEPT !.left = left, !.holds = holds]
  OBVIOUS
<1>1. call[c].op \in ChangeOps /\ call[c].phase = "sessions" /\ row \in call[c].left
  BY DEF LockMemberSession, Change, ChangeOps
<1>2. /\ call[c] \in Changes /\ ChangeInv(call[c])
      /\ \A d \in Calls \ {c} :
           /\ call[c].holds \cap call[d].holds = {}
           /\ ~(HasMembershipLock(call[c]) /\ HasMembershipLock(call[d]))
           /\ call[d].op = "signin" /\ call[d].member = call[c].member =>
                call[c].member \in Shared
  BY <1>1, ChangeUnderWay
<1>3. left \in SUBSET Rows /\ holds \in SUBSET Rows
  BY <1>1, <1>2 DEF Changes
<1>4. /\ k \in Changes /\ k.op = call[c].op /\ k.phase = "sessions"
      /\ k.left = left /\ k.holds = holds /\ k.member = call[c].member
  <2> HIDE DEF left, holds
  <2> QED BY <1>0, <1>1, <1>2, <1>3 DEF Changes
<1>5. call' = [call EXCEPT ![c] = k]
  BY <1>0 DEF LockMemberSession, Locked, IInv, TypeOK
<1>6. \A r : r \in holds => r \in call[c].holds \/ (r = row /\ wanted)
  OBVIOUS
<1>7. \A r : r \in left \cup holds => r \in call[c].left \cup call[c].holds
  BY <1>1
<1>8. \A r : r \in call[c].left \cup call[c].holds => r \in left \cup holds \/ (r = row /\ ~wanted)
  OBVIOUS
<1>9. call[c].holds \subseteq holds
  OBVIOUS
<1> HIDE DEF left, holds
<1>10. HeldRows(k)
  <2>1. \A r \in SessionIds, n \in 1..MaxTokens : <<r, n>> # row
    OBVIOUS
  <2> QED BY <1>1, <1>2, <1>4, <1>6, <1>7, <2>1 DEF ChangeInv, HeldRows
<1>11. SessionsReached(k)
  <2>1. ASSUME NEW r \in SessionIds, call[c].member \notin Shared,
               session[r] # Missing, session[r].member = call[c].member, GoesOn(r)
        PROVE  <<r, 0>> \in left \cup holds
    <3>1. <<r, 0>> \in call[c].left \cup call[c].holds
      BY <1>1, <1>2, <2>1 DEF ChangeInv, SessionsReached, HasMembershipLock
    <3>2. <<r, 0>> = row => wanted
      BY <2>1 DEF GoesOn, Stored
    <3> QED BY <1>8, <3>1, <3>2
  <2> QED BY <1>4, <2>1 DEF SessionsReached
<1>12. ChangeInv(k)
  BY <1>1, <1>2, <1>4, <1>10, <1>11 DEF ChangeInv, TokensReached, HasMembershipLock
<1>13. \A d \in Calls \ {c} : k.holds \cap call[d].holds = {}
  BY <1>2, <1>4, <1>6 DEF LockMemberSession, Free
<1> QED BY <1>1, <1>2, <1>4, <1>5, <1>12, <1>13, ChangeStep DEF LockMemberSession, HasMembershipLock

(* deleteUnusedTokens: every unused token of a session locked is on the list.*)
LEMMA DeleteUnusedTokensKeeps ==
  ASSUME IInv, NEW c \in Calls, DeleteUnusedTokens(c)
  PROVE  IInv'
<1> DEFINE left == {row \in Rows : /\ row[2] # 0 /\ Stored(row[1])
                                   /\ session[row[1]].member = call[c].member
                                   /\ token[row[1]][row[2]] = "unused"}
<1>0. PICK k : k = [call[c] EXCEPT !.phase = "tokens", !.left = left]
  OBVIOUS
<1>1. call[c].op \in ChangeOps /\ call[c].phase = "sessions" /\ call[c].left = {}
  BY DEF DeleteUnusedTokens, Change, ChangeOps
<1>2. /\ call[c] \in Changes /\ ChangeInv(call[c])
      /\ \A d \in Calls \ {c} :
           /\ call[c].holds \cap call[d].holds = {}
           /\ ~(HasMembershipLock(call[c]) /\ HasMembershipLock(call[d]))
           /\ call[d].op = "signin" /\ call[d].member = call[c].member =>
                call[c].member \in Shared
  BY <1>1, ChangeUnderWay
<1>3. left \in SUBSET Rows
  OBVIOUS
<1>4. \A s \in SessionIds : <<s, 0>> \notin left
  OBVIOUS
<1>5. ASSUME NEW s \in SessionIds, <<s, 0>> \in call[c].holds, NEW n \in Unused(s)
      PROVE  <<s, n>> \in left
  <2>1. Stored(s) /\ session[s].member = call[c].member
    BY <1>1, <1>2, <1>5 DEF ChangeInv, HeldRows
  <2>2. <<s, n>> \in Rows /\ n # 0 /\ token[s][n] = "unused"
    BY SessionsAssumption DEF Unused, Rows
  <2> QED BY <2>1, <2>2
<1> HIDE DEF left
<1>6. /\ k \in Changes /\ k.op = call[c].op /\ k.phase = "tokens"
      /\ k.left = left /\ k.holds = call[c].holds /\ k.member = call[c].member
  BY <1>0, <1>2, <1>3 DEF Changes
<1>7. call' = [call EXCEPT ![c] = k]
  BY <1>0 DEF DeleteUnusedTokens, IInv, TypeOK, left
<1>8. HeldRows(k)
  BY <1>1, <1>2, <1>4, <1>6 DEF ChangeInv, HeldRows
<1>9. SessionsReached(k)
  BY <1>1, <1>2, <1>6 DEF ChangeInv, SessionsReached, HasMembershipLock
<1>10. TokensReached(k)
  BY <1>5, <1>6 DEF TokensReached
<1>11. ChangeInv(k)
  BY <1>1, <1>2, <1>6, <1>8, <1>9, <1>10 DEF ChangeInv, HasMembershipLock
<1> QED BY <1>1, <1>2, <1>6, <1>7, <1>11, ChangeStep DEF DeleteUnusedTokens, HasMembershipLock

(* A token on the list is passed by only if it is not unused any more.      *)
LEMMA LockMemberTokenKeeps ==
  ASSUME IInv, NEW c \in Calls, NEW s \in SessionIds, NEW n \in 1..MaxTokens,
         LockMemberToken(c, s, n)
  PROVE  IInv'
<1> DEFINE row == <<s, n>>
           wanted == Stored(s) /\ token[s][n] = "unused"
           holds == IF wanted THEN call[c].holds \cup {row} ELSE call[c].holds
           left == call[c].left \ {row}
<1>0. PICK k : k = [call[c] EXCEPT !.left = left, !.holds = holds]
  OBVIOUS
<1>1. call[c].op \in ChangeOps /\ call[c].phase = "tokens" /\ row \in call[c].left
  BY DEF LockMemberToken, Change, ChangeOps
<1>2. /\ call[c] \in Changes /\ ChangeInv(call[c])
      /\ \A d \in Calls \ {c} :
           /\ call[c].holds \cap call[d].holds = {}
           /\ ~(HasMembershipLock(call[c]) /\ HasMembershipLock(call[d]))
           /\ call[d].op = "signin" /\ call[d].member = call[c].member =>
                call[c].member \in Shared
  BY <1>1, ChangeUnderWay
<1>3. left \in SUBSET Rows /\ holds \in SUBSET Rows
  BY <1>1, <1>2 DEF Changes
<1>4. /\ k \in Changes /\ k.op = call[c].op /\ k.phase = "tokens"
      /\ k.left = left /\ k.holds = holds /\ k.member = call[c].member
  <2> HIDE DEF left, holds
  <2> QED BY <1>0, <1>1, <1>2, <1>3 DEF Changes
<1>5. call' = [call EXCEPT ![c] = k]
  BY <1>0 DEF LockMemberToken, Locked, IInv, TypeOK
<1>6. \A r : r \in holds => r \in call[c].holds \/ (r = row /\ wanted)
  OBVIOUS
<1>7. \A r : r \in left \cup holds => r \in call[c].left \cup call[c].holds
  BY <1>1
<1>8. \A r : r \in call[c].left \cup call[c].holds => r \in left \cup holds \/ (r = row /\ ~wanted)
  OBVIOUS
<1>9. call[c].holds \subseteq holds
  OBVIOUS
<1>a. \A r \in SessionIds : <<r, 0>> # row
  OBVIOUS
<1>b. \A r, i : <<r, i>> = row => r = s /\ i = n
  OBVIOUS
<1> HIDE DEF left, holds, row
<1>10. HeldRows(k)
  BY <1>1, <1>2, <1>4, <1>6, <1>7, <1>a, <1>b DEF ChangeInv, HeldRows
<1>11. SessionsReached(k)
  BY <1>1, <1>2, <1>4, <1>9 DEF ChangeInv, SessionsReached, HasMembershipLock
<1>12. TokensReached(k)
  <2>1. ASSUME NEW r \in SessionIds, <<r, 0>> \in holds, NEW i \in Unused(r)
        PROVE  <<r, i>> \in left \cup holds
    <3>1. <<r, 0>> \in call[c].holds
      BY <1>6, <1>a, <2>1
    <3>2. <<r, i>> \in call[c].left \cup call[c].holds
      BY <1>1, <1>2, <3>1 DEF ChangeInv, TokensReached
    <3>3. <<r, i>> = row => wanted
      <4>1. Stored(r)
        BY <1>1, <1>2, <3>1 DEF ChangeInv, HeldRows
      <4> QED BY <4>1, <1>b DEF Unused
    <3> QED BY <1>8, <3>2, <3>3
  <2> QED BY <1>4, <2>1 DEF TokensReached
<1>13. ChangeInv(k)
  BY <1>1, <1>2, <1>4, <1>10, <1>11, <1>12 DEF ChangeInv, HasMembershipLock
<1>14. \A d \in Calls \ {c} : k.holds \cap call[d].holds = {}
  BY <1>2, <1>4, <1>6 DEF LockMemberToken, Free, row
<1> QED BY <1>1, <1>2, <1>4, <1>5, <1>13, <1>14, ChangeStep DEF LockMemberToken, HasMembershipLock

-----------------------------------------------------------------------------
(* Steps that write.                                                        *)

(* Tokens and sessions only move on: none is issued or started twice.       *)
MovesOn ==
  /\ \A s \in SessionIds, n \in 1..MaxTokens : token[s][n] # "none" =>
       /\ token'[s][n] # "none"
       /\ token'[s][n] = "unused" => token[s][n] = "unused"
  /\ \A s \in SessionIds : session[s] # Missing =>
       /\ session'[s] # Missing /\ session'[s].member = session[s].member
       /\ GoesOn(s)' => GoesOn(s)
  /\ \A s \in SessionIds : session[s] = Missing /\ session'[s] # Missing =>
       SigningIn(session'[s].member)

(* What call d has learnt of the rows it has locked stays true.             *)
Frame(d) ==
  /\ \A s \in SessionIds, n \in 1..MaxTokens : <<s, n>> \in call[d].holds =>
       token'[s][n] = token[s][n]
  /\ \A s \in SessionIds : <<s, 0>> \in call[d].holds =>
       /\ Unused(s)' \subseteq Unused(s)
       /\ Stored(s) => Stored(s)'
       /\ call[d].op = "rotate" /\ GoesOn(s) => GoesOn(s)'
  /\ \/ call[d].op = "signin" /\ call[d].member \notin Shared
     \/ HasMembershipLock(call[d])
     => member'[call[d].member] = member[call[d].member]

LEMMA FrameKeeps ==
  ASSUME IInv, NEW d \in Calls, call'[d] = call[d], MovesOn, Frame(d)
  PROVE  CallInv(call[d])'
<1>1. CallInv(call[d])
  BY CallTypes
<1>2. SignInInv(call[d])'
  BY <1>1 DEF CallInv, SignInInv, Frame, Current
<1>3. RotationInv(call[d])'
  <2> SUFFICES ASSUME call[d].op = "rotate"
               PROVE  RotationInv(call[d])'
    BY DEF RotationInv
  <2> DEFINE s == call[d].session
             n == call[d].number
  <2>1. s \in SessionIds /\ n \in 1..MaxTokens
    BY CallTypes DEF Rotations
  <2>2. RotationInv(call[d])
    BY <1>1 DEF CallInv
  <2>3. session'[s] # Missing /\ token'[s][n] # "none"
    BY <2>1, <2>2 DEF RotationInv, MovesOn
  <2>4. token'[s][n] = "unused" => n < MaxTokens
    BY <2>1, <2>2 DEF RotationInv, MovesOn
  <2>5. call[d].phase # "token" => token'[s][n] = token[s][n]
    BY <2>1, <2>2 DEF RotationInv, Frame
  <2>6. call[d].phase = "write" => GoesOn(s)'
    BY <2>1, <2>2 DEF RotationInv, Frame
  <2> QED BY <2>2, <2>3, <2>4, <2>5, <2>6 DEF RotationInv, GoesOn
<1>4. ChangeInv(call[d])'
  <2> SUFFICES ASSUME call[d].op \in ChangeOps
               PROVE  ChangeInv(call[d])'
    BY DEF ChangeInv
  <2>1. ChangeInv(call[d])
    BY <1>1 DEF CallInv
  <2>2. HeldRows(call[d])'
    BY <2>1 DEF ChangeInv, HeldRows, MovesOn, Frame
  <2>3. SessionsReached(call[d])'
    <3>1. ASSUME NEW s \in SessionIds, HasMembershipLock(call[d]), call[d].member \notin Shared,
                 session'[s] # Missing, session'[s].member = call[d].member, GoesOn(s)'
          PROVE  session[s] # Missing /\ session[s].member = call[d].member /\ GoesOn(s)
      <4>1. CASE session[s] = Missing
        <5>1. PICK e \in Calls : call[e].op = "signin" /\ call[e].member = call[d].member
          BY <3>1, <4>1 DEF MovesOn, SigningIn
        <5>2. e # d
          BY <5>1 DEF ChangeOps
        <5> QED BY <3>1, <5>1, <5>2 DEF IInv, Exclusive, Together
      <4>2. CASE session[s] # Missing
        BY <3>1, <4>2 DEF MovesOn
      <4> QED BY <4>1, <4>2
    <3> QED BY <2>1, <3>1 DEF ChangeInv, SessionsReached, HasMembershipLock
  <2>4. TokensReached(call[d])'
    BY <2>1 DEF ChangeInv, TokensReached, Frame
  <2>5. HasMembershipLock(call[d]) /\ call[d].op # "remove" =>
          member'[call[d].member].password < MaxPasswords
    BY <2>1 DEF ChangeInv, Frame
  <2> QED BY <2>2, <2>3, <2>4, <2>5 DEF ChangeInv, HasMembershipLock
<1> QED BY <1>2, <1>3, <1>4 DEF CallInv

(* A call that ends, or none, writes; the others are framed.                *)
LEMMA WriteStep ==
  ASSUME IInv, TypeOK', MovesOn,
         \A d \in Calls : call'[d] = Idle \/ (call'[d] = call[d] /\ Frame(d)),
         \A s \in SessionIds : SessionInv(s)'
  PROVE  IInv'
<1>1. Idle.op = "idle" /\ Idle.holds = {}
  BY DEF Idle
<1>2. ASSUME NEW d \in Calls
      PROVE  CallInv(call[d])'
  <2>1. CASE call'[d] = Idle
    BY <1>1, <2>1 DEF CallInv, SignInInv, RotationInv, ChangeInv, ChangeOps
  <2>2. CASE call'[d] = call[d] /\ Frame(d)
    BY <2>2, FrameKeeps
  <2> QED BY <2>1, <2>2
<1>3. Exclusive'
  BY <1>1 DEF IInv, Exclusive, Together, HasMembershipLock, ChangeOps
<1> QED BY <1>2, <1>3 DEF IInv

(* A row locked is that of a session there is, and of a token issued.       *)
LEMMA HeldIsThere ==
  ASSUME IInv, NEW d \in Calls, NEW s \in SessionIds, NEW n \in 0..MaxTokens,
         <<s, n>> \in call[d].holds
  PROVE  /\ session[s] # Missing
         /\ n # 0 => token[s][n] # "none"
         /\ call[d].op = "rotate" => s = call[d].session
<1>1. call[d] \in CallStates /\ CallInv(call[d])
  BY CallTypes
<1>2. CASE call[d].op = "rotate"
  BY <1>1, <1>2 DEF CallInv, RotationInv
<1>3. CASE call[d].op \in ChangeOps
  <2>1. HeldRows(call[d])
    BY <1>1, <1>3 DEF CallInv, ChangeInv
  <2>2. CASE n = 0
    BY <1>3, <2>1, <2>2 DEF HeldRows, Stored, ChangeOps
  <2>3. CASE n # 0
    <3>1. n \in 1..MaxTokens
      BY <2>3
    <3>2. token[s][n] = "unused"
      BY <2>1, <3>1 DEF HeldRows
    <3> QED BY <1>3, <3>1, <3>2 DEF IInv, SessionInv, ChangeOps
  <2> QED BY <2>2, <2>3
<1>4. call[d].op = "rotate" \/ call[d].op \in ChangeOps
  BY <1>1 DEF CallStates, Idle, SignIns, Rotations, Changes, ChangeOps
<1> QED BY <1>2, <1>3, <1>4

LEMMA States ==
  ASSUME IInv
  PROVE  /\ member \in [MemberIds -> Members]
         /\ session \in [SessionIds -> {Missing} \cup SessionRows]
         /\ token \in [SessionIds -> [1..MaxTokens -> TokenStates]]
         /\ call \in [Calls -> CallStates]
         /\ \A s \in SessionIds : session[s] # Missing => session[s] \in SessionRows
         /\ \A s \in SessionIds : SessionInv(s)
BY DEF IInv, TypeOK, CallStates

LEMMA Missed == Missing.status = "missing" /\ Missing \notin SessionRows
BY DEF Missing, SessionRows

(* A session reaches its cap: no rotation is at work on it.                 *)
LEMMA ExpireKeeps ==
  ASSUME IInv, NEW s \in SessionIds, Expire(s)
  PROVE  IInv'
<1>1. session[s] \in SessionRows /\ session[s] # Missing
  BY States, Missed DEF Expire
<1>2. PICK row : row = [session[s] EXCEPT !.status = "expired"]
  OBVIOUS
<1>3. /\ row \in SessionRows /\ row # Missing /\ row.status = "expired"
      /\ row.member = session[s].member /\ row.revoked = session[s].revoked
  BY <1>1, <1>2, Missed DEF SessionRows
<1>4. session' = [session EXCEPT ![s] = row] /\ UNCHANGED <<member, token, call>>
  BY <1>2 DEF Expire
<1>5. /\ session'[s] = row
      /\ \A r \in SessionIds \ {s} : session'[r] = session[r]
  BY <1>4, States
<1>6. TypeOK'
  BY <1>3, <1>4, States DEF IInv, TypeOK
<1>7. ~GoesOn(s)'
  BY <1>3, <1>5 DEF GoesOn
<1>8. MovesOn
  BY <1>1, <1>3, <1>4, <1>5, <1>7 DEF MovesOn, GoesOn
<1>9. ASSUME NEW d \in Calls
      PROVE  Frame(d)
  <2>1. \A r \in SessionIds : <<r, 0>> \in call[d].holds /\ call[d].op = "rotate" => r # s
    BY HeldIsThere, SessionsAssumption DEF Expire
  <2> QED BY <2>1, <1>1, <1>3, <1>4, <1>5 DEF Frame, Unused, Stored, GoesOn
<1>10. \A r \in SessionIds : SessionInv(r)'
  BY <1>1, <1>3, <1>4, <1>5, <1>7, States DEF SessionInv, ChainOf, Unused, Current, GoesOn
<1> QED BY <1>4, <1>6, <1>8, <1>9, <1>10, WriteStep

(* StartSession: the new session is the only one whose tokens change, and   *)
(* nobody has a row of the old ones.                                        *)
LEMMA StartSessionKeeps ==
  ASSUME IInv, NEW c \in Calls, NEW s \in SessionIds, StartSession(c, s)
  PROVE  IInv'
<1>1. call[c] \in SignIns /\ SignInInv(call[c]) /\ session[s] = Missing
  BY CallTypes DEF StartSession, CallInv
<1>2. PICK new : new = [status |-> "live", member |-> call[c].member, revoked |-> FALSE,
                        password |-> call[c].password]
  OBVIOUS
<1>3. /\ new \in SessionRows /\ new # Missing /\ new.revoked = FALSE
      /\ new.member = call[c].member /\ new.password = call[c].password
  BY <1>1, <1>2, Missed DEF SessionRows, SignIns
<1>4. PICK old \in SUBSET Sweepable(c) :
        session' = [r \in SessionIds |->
          IF r = s THEN new ELSE IF r \in old THEN [session[r] EXCEPT !.status = "swept"]
          ELSE session[r]]
  BY <1>2 DEF StartSession
<1>5. \A r \in old : /\ r \in SessionIds /\ session[r] # Missing /\ session[r].status = "expired"
                     /\ \A d \in Calls \ {c} : <<r, 0>> \notin call[d].holds
  BY SessionsAssumption DEF Sweepable, Stored, Free
<1>6. /\ session'[s] = new
      /\ \A r \in SessionIds : session[r] # Missing =>
           /\ session'[r] # Missing /\ session'[r] \in SessionRows
           /\ session'[r].member = session[r].member
           /\ session'[r].revoked = session[r].revoked
           /\ session'[r].password = session[r].password
           /\ r \notin old => session'[r] = session[r]
           /\ r \in old => session'[r].status = "swept"
      /\ \A r \in SessionIds \ {s} : session[r] = Missing => session'[r] = Missing
  <2>1. session'[s] = new
    BY <1>4
  <2>2. ASSUME NEW r \in SessionIds, session[r] # Missing
        PROVE  /\ session'[r] # Missing /\ session'[r] \in SessionRows
               /\ session'[r].member = session[r].member
               /\ session'[r].revoked = session[r].revoked
               /\ session'[r].password = session[r].password
               /\ r \notin old => session'[r] = session[r]
               /\ r \in old => session'[r].status = "swept"
    <3>1. r # s /\ session[r] \in SessionRows
      BY <1>1, <2>2, States
    <3>2. CASE r \notin old
      BY <1>4, <2>2, <3>1, <3>2
    <3>3. CASE r \in old
      <4>1. PICK row : row = [session[r] EXCEPT !.status = "swept"]
        OBVIOUS
      <4>2. /\ row \in SessionRows /\ row # Missing /\ row.member = session[r].member
            /\ row.revoked = session[r].revoked /\ row.password = session[r].password
            /\ row.status = "swept"
        BY <3>1, <4>1, Missed DEF SessionRows
      <4>3. session'[r] = row
        BY <1>4, <3>1, <3>3, <4>1
      <4> QED BY <3>3, <4>2, <4>3
    <3> QED BY <3>2, <3>3
  <2>3. ASSUME NEW r \in SessionIds \ {s}, session[r] = Missing
        PROVE  session'[r] = Missing
    BY <1>4, <1>5, <2>3
  <2> QED BY <2>1, <2>2, <2>3
<1>7. /\ token' = [token EXCEPT ![s] = [@ EXCEPT ![1] = "unused"]]
      /\ call' = [call EXCEPT ![c] = Idle] /\ UNCHANGED member
  BY DEF StartSession, Ends
<1>8. \A n \in 1..MaxTokens : token[s][n] = "none"
  BY <1>1, States DEF SessionInv
<1>9. /\ \A r \in SessionIds \ {s} : token'[r] = token[r]
      /\ \A n \in 1..MaxTokens : token'[s][n] = IF n = 1 THEN "unused" ELSE "none"
      /\ token' \in [SessionIds -> [1..MaxTokens -> TokenStates]]
  BY <1>7, <1>8, States DEF TokenStates
<1>10. /\ call'[c] = Idle
       /\ \A d \in Calls \ {c} : call'[d] = call[d]
       /\ call' \in [Calls -> CallStates]
  BY <1>7, States DEF CallStates
<1>11. session' \in [SessionIds -> {Missing} \cup SessionRows]
  <2>1. \A r \in SessionIds : session'[r] \in {Missing} \cup SessionRows
    BY <1>3, <1>6
  <2> QED BY <1>4, <2>1
<1>12. TypeOK'
  BY <1>7, <1>9, <1>10, <1>11, States DEF TypeOK, CallStates
<1>13. SigningIn(call[c].member)
  BY DEF StartSession, SigningIn
<1>14. \A r \in SessionIds : session[r] # Missing /\ GoesOn(r)' => GoesOn(r)
  BY <1>5, <1>6 DEF GoesOn
<1>15. MovesOn
  BY <1>1, <1>3, <1>6, <1>8, <1>9, <1>13, <1>14 DEF MovesOn
<1>16. ASSUME NEW d \in Calls \ {c}
       PROVE  Frame(d)
  <2>1. \A r \in SessionIds, n \in 0..MaxTokens : <<r, n>> \in call[d].holds => r # s
    BY <1>1, HeldIsThere
  <2>2. \A r \in SessionIds, n \in 1..MaxTokens : <<r, n>> \in call[d].holds => token'[r][n] = token[r][n]
    BY <1>9, <2>1
  <2>3. \A r \in SessionIds : <<r, 0>> \in call[d].holds =>
          /\ session'[r] = session[r] /\ token'[r] = token[r]
    BY <1>5, <1>6, <1>9, <2>1, HeldIsThere, SessionsAssumption
  <2> QED BY <1>7, <2>2, <2>3 DEF Frame, Unused, Stored, GoesOn
<1>17. SessionInv(s)'
  <2>1. ChainOf(s, 0)'
    BY <1>9 DEF ChainOf
  <2>2. 0 \in 0..MaxTokens
    BY SessionsAssumption
  <2>3. new.member \notin Shared => Current(new.member, new.password)'
    BY <1>1, <1>3, <1>7 DEF SignInInv, Current, StartSession
  <2> QED BY <1>3, <1>6, <2>1, <2>2, <2>3 DEF SessionInv
<1>18. ASSUME NEW r \in SessionIds \ {s}
       PROVE  SessionInv(r)'
  <2>1. SessionInv(r) /\ token'[r] = token[r] /\ member' = member
    BY <1>7, <1>9, States
  <2>2. (\E j \in 0..MaxTokens : ChainOf(r, j))' /\ Unused(r)' = Unused(r)
    BY <2>1 DEF SessionInv, ChainOf, Unused
  <2>3. CASE session[r] = Missing
    BY <1>6, <2>1, <2>2, <2>3 DEF SessionInv
  <2>4. CASE session[r] # Missing
    BY <1>6, <1>14, <2>1, <2>2, <2>4 DEF SessionInv, Current
  <2> QED BY <2>3, <2>4
<1> QED BY <1>10, <1>12, <1>15, <1>16, <1>17, <1>18, WriteStep

(* The only token of a chain that is unused is the last one issued.         *)
LEMMA LastOfChain ==
  ASSUME IInv, NEW s \in SessionIds, NEW n \in Unused(s)
  PROVE  /\ n \in 1..MaxTokens
         /\ ChainOf(s, n - 1)
         /\ Issued(s) = 1..n
         /\ Cardinality(Issued(s)) = n
         /\ Unused(s) = {n}
<1>1. n \in 1..MaxTokens /\ token[s][n] = "unused"
  BY DEF Unused
<1>2. PICK j \in 0..MaxTokens : ChainOf(s, j)
  BY States DEF SessionInv
<1>3. n = j + 1
  BY <1>1, <1>2, SessionsAssumption DEF ChainOf
<1>4. ChainOf(s, n - 1)
  BY <1>2, <1>3, SessionsAssumption
<1>5. Issued(s) = 1..n
  <2>1. \A i \in 1..MaxTokens : token[s][i] # "none" <=> i <= n
    BY <1>1, <1>2, <1>3, SessionsAssumption DEF ChainOf
  <2> QED BY <1>1, <2>1, SessionsAssumption DEF Issued
<1>6. Cardinality(1..n) = n
  <2>1. 1 \in Int /\ n \in Int /\ n >= 1
    BY <1>1, SessionsAssumption
  <2>2. Cardinality(1..n) = IF 1 > n THEN 0 ELSE n - 1 + 1
    BY <2>1, FS_Interval
  <2> QED BY <2>1, <2>2
<1>7. \A i \in Unused(s) : i = n
  BY <1>1, <1>2, <1>3, SessionsAssumption DEF ChainOf, Unused
<1> QED BY <1>1, <1>4, <1>5, <1>6, <1>7

(* What an exchange writes: the token presented was the last one issued.    *)
LEMMA ExchangeWrites ==
  ASSUME IInv, NEW c \in Calls, Exchange(c)
  PROVE  \E s \in SessionIds, n \in 1..MaxTokens :
         /\ s = call[c].session /\ n = call[c].number /\ n + 1 \in 1..MaxTokens
         /\ n \in Unused(s) /\ session[s] # Missing /\ GoesOn(s)
         /\ <<s, 0>> \in call[c].holds /\ <<s, n>> \in call[c].holds
         /\ \A r \in SessionIds \ {s} : token'[r] = token[r]
         /\ \A i \in 1..MaxTokens :
              token'[s][i] = IF i = n THEN "used" ELSE IF i = n + 1 THEN "unused" ELSE token[s][i]
         /\ token' \in [SessionIds -> [1..MaxTokens -> TokenStates]]
<1> DEFINE s == call[c].session
           n == call[c].number
<1>1. call[c] \in Rotations /\ RotationInv(call[c]) /\ call[c].op = "rotate" /\ call[c].phase = "write"
  BY CallTypes DEF Exchange, Rotating, CallInv
<1>2. s \in SessionIds /\ n \in 1..MaxTokens
  BY <1>1 DEF Rotations
<1>3. token[s][n] = "unused"
  BY <1>1, <1>2, States DEF RotationInv, TokenStates
<1>4. n \in Unused(s)
  BY <1>2, <1>3 DEF Unused
<1>5. n + 1 \in 1..MaxTokens
  BY <1>1, <1>2, <1>3, SessionsAssumption DEF RotationInv
<1>6. session[s] # Missing /\ GoesOn(s) /\ <<s, 0>> \in call[c].holds /\ <<s, n>> \in call[c].holds
  BY <1>1 DEF RotationInv
<1>7. Cardinality(Issued(s)) = n
  BY <1>2, <1>4, LastOfChain
<1>8. token' = [token EXCEPT ![s] = [@ EXCEPT ![n] = "used", ![n + 1] = "unused"]]
  BY <1>7 DEF Exchange
<1> HIDE DEF s, n
<1>9. \A r \in SessionIds \ {s} : token'[r] = token[r]
  BY <1>8, States
<1>10. token'[s] = [token[s] EXCEPT ![n] = "used", ![n + 1] = "unused"]
  BY <1>2, <1>8, States
<1>11. token'[s] \in [1..MaxTokens -> TokenStates]
  <2>1. token[s] \in [1..MaxTokens -> TokenStates]
    BY <1>2, States
  <2> QED BY <1>10, <2>1 DEF TokenStates
<1>12. \A i \in 1..MaxTokens :
         token'[s][i] = IF i = n THEN "used" ELSE IF i = n + 1 THEN "unused" ELSE token[s][i]
  <2>1. token[s] \in [1..MaxTokens -> TokenStates] /\ n # n + 1
    BY <1>2, States, SessionsAssumption
  <2> QED BY <1>2, <1>5, <1>10, <2>1
<1>13. token' \in [SessionIds -> [1..MaxTokens -> TokenStates]]
  BY <1>2, <1>8, <1>10, <1>11, States
<1>14. s = call[c].session /\ n = call[c].number
  BY DEF s, n
<1> QED BY <1>2, <1>4, <1>5, <1>6, <1>9, <1>12, <1>13, <1>14, Zenon

LEMMA ExchangeKeeps ==
  ASSUME IInv, NEW c \in Calls, Exchange(c)
  PROVE  IInv'
<1>1. PICK s \in SessionIds, n \in 1..MaxTokens :
      /\ n + 1 \in 1..MaxTokens
      /\ n \in Unused(s) /\ session[s] # Missing /\ GoesOn(s)
      /\ <<s, 0>> \in call[c].holds /\ <<s, n>> \in call[c].holds
      /\ \A r \in SessionIds \ {s} : token'[r] = token[r]
      /\ \A i \in 1..MaxTokens :
           token'[s][i] = IF i = n THEN "used" ELSE IF i = n + 1 THEN "unused" ELSE token[s][i]
      /\ token' \in [SessionIds -> [1..MaxTokens -> TokenStates]]
  BY ExchangeWrites
<1>2. call' = [call EXCEPT ![c] = Idle] /\ UNCHANGED <<member, session>>
  BY DEF Exchange, Ends
<1>3. /\ call'[c] = Idle
      /\ \A d \in Calls \ {c} : call'[d] = call[d]
      /\ call' \in [Calls -> CallStates]
  BY <1>2, States DEF CallStates
<1>4. TypeOK'
  BY <1>1, <1>2, <1>3, States DEF TypeOK, CallStates
<1>5. ChainOf(s, n - 1) /\ token[s][n + 1] = "none" /\ token[s][n] = "unused"
  <2>1. ChainOf(s, n - 1)
    BY <1>1, LastOfChain
  <2>2. token[s][n + 1] = "none"
    BY <2>1, <1>1, SessionsAssumption DEF ChainOf
  <2> QED BY <2>1, <2>2, <1>1 DEF Unused
<1>6. MovesOn
  <2>1. ASSUME NEW r \in SessionIds, NEW i \in 1..MaxTokens, token[r][i] # "none"
        PROVE  token'[r][i] # "none" /\ (token'[r][i] = "unused" => token[r][i] = "unused")
    <3>1. CASE r = s
      BY <1>1, <1>5, <2>1, <3>1
    <3>2. CASE r # s
      BY <1>1, <2>1, <3>2
    <3> QED BY <3>1, <3>2
  <2> QED BY <1>2, <2>1 DEF MovesOn, GoesOn
<1>7. ASSUME NEW d \in Calls \ {c}
      PROVE  Frame(d)
  <2>1. call[c].holds \cap call[d].holds = {}
    BY DEF IInv, Exclusive, Together
  <2>2. ASSUME NEW r \in SessionIds, NEW i \in 1..MaxTokens, <<r, i>> \in call[d].holds
        PROVE  token'[r][i] = token[r][i]
    <3>1. token[r][i] # "none"
      BY <2>2, HeldIsThere
    <3>2. CASE r = s
      <4>1. i # n /\ i # n + 1
        BY <1>1, <1>5, <2>1, <2>2, <3>1, <3>2
      <4> QED BY <1>1, <3>2, <4>1
    <3>3. CASE r # s
      BY <1>1, <3>3
    <3> QED BY <3>2, <3>3
  <2>3. \A r \in SessionIds : <<r, 0>> \in call[d].holds => token'[r] = token[r]
    BY <1>1, <2>1
  <2> QED BY <1>2, <2>2, <2>3 DEF Frame, Unused, Stored, GoesOn
<1>8. SessionInv(s)'
  <2>1. ChainOf(s, n)'
    <3>1. ASSUME NEW i \in 1..MaxTokens
          PROVE  (i <= n <=> token'[s][i] = "used") /\ (i > n + 1 => token'[s][i] = "none")
      <4>1. ChainOf(s, n - 1) /\ n \in Nat /\ i \in Nat /\ token[s][n + 1] = "none"
        BY <1>1, <1>5, SessionsAssumption
      <4>2. (i <= n - 1 <=> token[s][i] = "used") /\ (i > n - 1 + 1 => token[s][i] = "none")
        BY <4>1 DEF ChainOf
      <4>3. token'[s][i] = IF i = n THEN "used" ELSE IF i = n + 1 THEN "unused" ELSE token[s][i]
        BY <1>1
      <4> QED BY <4>1, <4>2, <4>3
    <3> QED BY <3>1 DEF ChainOf
  <2>2. n \in 0..MaxTokens
    BY <1>1
  <2>3. session'[s] # Missing /\ ~session'[s].revoked
    BY <1>1, <1>2 DEF GoesOn
  <2>4. session[s].member \notin Shared => Current(session[s].member, session[s].password)
    BY <1>1, States DEF SessionInv
  <2>5. (session[s].member \notin Shared => Current(session[s].member, session[s].password))'
    BY <1>2, <2>4 DEF Current
  <2> QED BY <2>1, <2>2, <2>3, <2>5 DEF SessionInv
<1>9. ASSUME NEW r \in SessionIds \ {s}
      PROVE  SessionInv(r)'
  <2>1. SessionInv(r) /\ token'[r] = token[r]
    BY <1>1, States
  <2>2. (\E j \in 0..MaxTokens : ChainOf(r, j))' /\ Unused(r)' = Unused(r)
    BY <2>1 DEF SessionInv, ChainOf, Unused
  <2> QED BY <1>2, <2>1, <2>2 DEF SessionInv, Current, GoesOn
<1> QED BY <1>3, <1>4, <1>6, <1>7, <1>8, <1>9, WriteStep

(* A write that ends sessions and deletes unused tokens, and does both only *)
(* to rows nobody else has locked.  R are the sessions, T the tokens.       *)
EndsRows(c, R, T) ==
  /\ \A s \in SessionIds :
       IF s \in R THEN session'[s] = [session[s] EXCEPT !.revoked = TRUE]
                  ELSE session'[s] = session[s]
  /\ \A s \in SessionIds, n \in 1..MaxTokens :
       token'[s][n] = IF <<s, n>> \in T THEN "deleted" ELSE token[s][n]
  /\ \A s \in R : /\ session[s] # Missing
                  /\ \A n \in Unused(s) : <<s, n>> \in T
                  /\ \A d \in Calls \ {c} : <<s, 0>> \notin call[d].holds
  /\ \A s \in SessionIds, n \in 1..MaxTokens : <<s, n>> \in T =>
       /\ token[s][n] = "unused"
       /\ \A d \in Calls \ {c} : <<s, n>> \notin call[d].holds

(* Whoever ends sessions so keeps the invariant, if the members do as well. *)
LEMMA EndsRowsKeeps ==
  ASSUME IInv, NEW c \in Calls, NEW R \in SUBSET SessionIds, NEW T, EndsRows(c, R, T),
         call' = [call EXCEPT ![c] = Idle],
         session' \in [SessionIds -> {Missing} \cup SessionRows],
         token' \in [SessionIds -> [1..MaxTokens -> TokenStates]],
         member' \in [MemberIds -> Members],
         \A d \in Calls \ {c} :
           \/ call[d].op = "signin" /\ call[d].member \notin Shared
           \/ HasMembershipLock(call[d])
           => member'[call[d].member] = member[call[d].member],
         \A s \in SessionIds : session[s] # Missing /\ session[s].member \notin Shared =>
           \/ s \in R \/ ~GoesOn(s)
           \/ member'[session[s].member] = member[session[s].member]
  PROVE  IInv'
<1>1. /\ call'[c] = Idle
      /\ \A d \in Calls \ {c} : call'[d] = call[d]
      /\ call' \in [Calls -> CallStates]
  BY States DEF CallStates
<1>2. TypeOK'
  BY <1>1 DEF TypeOK, CallStates
(* The sessions in R have ended, with no token left.                        *)
<1>6. ASSUME NEW s \in SessionIds
      PROVE  /\ session[s] = Missing <=> session'[s] = Missing
             /\ session[s] # Missing =>
                  session'[s].status = session[s].status /\ session'[s].member = session[s].member
             /\ Unused(s)' = {n \in Unused(s) : <<s, n>> \notin T}
             /\ GoesOn(s)' <=> s \notin R /\ GoesOn(s)
  <2>1. Unused(s)' = {n \in Unused(s) : <<s, n>> \notin T}
    BY DEF EndsRows, Unused
  <2>2. CASE s \in R
    <3>1. session[s] \in SessionRows /\ session'[s] = [session[s] EXCEPT !.revoked = TRUE]
      BY <2>2, States DEF EndsRows
    <3>2. PICK row : row = [session[s] EXCEPT !.revoked = TRUE]
      OBVIOUS
    <3>3. /\ row \in SessionRows /\ row # Missing /\ row.revoked = TRUE
          /\ row.status = session[s].status /\ row.member = session[s].member
          /\ row.password = session[s].password
      BY <3>1, <3>2, Missed DEF SessionRows
    <3>4. session'[s] = row /\ session[s] # Missing
      BY <2>2, <3>1, <3>2 DEF EndsRows
    <3> QED BY <2>1, <2>2, <3>3, <3>4 DEF GoesOn
  <2>3. CASE s \notin R
    <3>1. session'[s] = session[s]
      BY <2>3 DEF EndsRows
    <3>2. session[s] # Missing => session[s] \in SessionRows /\ session[s].revoked \in BOOLEAN
      BY States DEF SessionRows
    <3> QED BY <2>1, <2>3, <3>1, <3>2 DEF GoesOn
  <2> QED BY <2>2, <2>3
<1>7. \A s \in SessionIds, n \in 1..MaxTokens :
        \/ token'[s][n] = token[s][n] /\ <<s, n>> \notin T
        \/ /\ token[s][n] = "unused" /\ token'[s][n] = "deleted"
           /\ \A d \in Calls \ {c} : <<s, n>> \notin call[d].holds
  BY DEF EndsRows
<1>8. \A s \in SessionIds \ R : session'[s] = session[s]
  BY DEF EndsRows
<1>9. /\ \A s \in R : session[s] # Missing /\ \A n \in Unused(s) : <<s, n>> \in T
      /\ \A s \in R : \A d \in Calls \ {c} : <<s, 0>> \notin call[d].holds
  BY DEF EndsRows
<1>3. MovesOn
  BY <1>6, <1>7 DEF MovesOn
<1>4. ASSUME NEW d \in Calls \ {c}
      PROVE  Frame(d)
  <2>1. \A s \in SessionIds, n \in 1..MaxTokens : <<s, n>> \in call[d].holds => token'[s][n] = token[s][n]
    BY <1>7
  <2>2. ASSUME NEW s \in SessionIds, <<s, 0>> \in call[d].holds
        PROVE  /\ Unused(s)' \subseteq Unused(s)
               /\ Stored(s) => Stored(s)'
               /\ GoesOn(s) => GoesOn(s)'
    <3>1. s \notin R /\ session'[s] = session[s]
      BY <1>8, <1>9, <2>2
    <3> QED BY <3>1, <1>6 DEF Stored
  <2> QED BY <2>1, <2>2 DEF Frame
<1>5. ASSUME NEW s \in SessionIds
      PROVE  SessionInv(s)'
  <2>1. SessionInv(s)
    BY States
  <2>2. session'[s] = Missing => \A n \in 1..MaxTokens : token'[s][n] = "none"
    <3>1. session'[s] = Missing => session[s] = Missing
      BY <1>6
    <3>2. session[s] = Missing => \A n \in 1..MaxTokens : token[s][n] = "none"
      BY <2>1 DEF SessionInv
    <3> QED BY <3>1, <3>2, <1>7
  <2>3. \E j \in 0..MaxTokens : ChainOf(s, j)'
    <3>1. PICK j \in 0..MaxTokens : ChainOf(s, j)
      BY <2>1 DEF SessionInv
    <3>2. \A n \in 1..MaxTokens :
            /\ token'[s][n] = "used" <=> token[s][n] = "used"
            /\ token[s][n] = "none" => token'[s][n] = "none"
      BY <1>7
    <3>3. ASSUME NEW n \in 1..MaxTokens
          PROVE  (n <= j <=> token'[s][n] = "used") /\ (n > j + 1 => token'[s][n] = "none")
      <4>1. (n <= j <=> token[s][n] = "used") /\ (n > j + 1 => token[s][n] = "none")
        BY <3>1 DEF ChainOf
      <4>2. /\ token'[s][n] = "used" <=> token[s][n] = "used"
            /\ token[s][n] = "none" => token'[s][n] = "none"
        BY <3>2
      <4> QED BY <4>1, <4>2
    <3>4. ChainOf(s, j)'
      BY <3>3 DEF ChainOf
    <3> QED BY <3>4
  <2>4. session'[s] # Missing /\ session'[s].revoked => Unused(s)' = {}
    <3>1. CASE s \in R
      BY <3>1, <1>6, <1>9
    <3>2. CASE s \notin R
      <4>1. session[s] # Missing /\ session[s].revoked => Unused(s) = {}
        BY <2>1 DEF SessionInv
      <4>2. session'[s] = session[s] /\ Unused(s)' \subseteq Unused(s)
        BY <3>2, <1>6, <1>8
      <4> QED BY <4>1, <4>2
    <3> QED BY <3>1, <3>2
  <2>5. session'[s] # Missing /\ GoesOn(s)' /\ session'[s].member \notin Shared =>
          Current(session[s].member, session[s].password)'
    <3> SUFFICES ASSUME session'[s] # Missing, GoesOn(s)', session'[s].member \notin Shared
                 PROVE  Current(session[s].member, session[s].password)'
      OBVIOUS
    <3>1. s \notin R /\ GoesOn(s) /\ session[s] # Missing
      BY <1>6
    <3>2. session'[s] = session[s]
      BY <3>1, <1>8
    <3>3. Current(session[s].member, session[s].password)
      BY <2>1, <3>1, <3>2 DEF SessionInv
    <3>4. member'[session[s].member] = member[session[s].member]
      BY <3>1, <3>2
    <3> QED BY <3>2, <3>3, <3>4 DEF Current
  <2> QED BY <2>2, <2>3, <2>4, <2>5 DEF SessionInv
<1> QED BY <1>1, <1>2, <1>3, <1>4, <1>5, WriteStep

(* revokeSession: the rotation has its session, and waits for its tokens.   *)
LEMMA RevokeSessionKeeps ==
  ASSUME IInv, NEW c \in Calls, RevokeSession(c)
  PROVE  IInv' /\ \E R \in SUBSET SessionIds, T \in SUBSET Rows : EndsRows(c, R, T)
<1>1. call[c] \in Rotations /\ RotationInv(call[c]) /\ call[c].op = "rotate" /\ call[c].phase = "revoke"
  BY CallTypes DEF RevokeSession, Rotating, CallInv
<1>2. PICK s \in SessionIds : s = call[c].session
  BY <1>1 DEF Rotations
<1>3. session[s] # Missing /\ <<s, 0>> \in call[c].holds
  BY <1>1, <1>2 DEF RotationInv
<1>4. /\ \A n \in Unused(s) : \A d \in Calls \ {c} : <<s, n>> \notin call[d].holds
      /\ session' = [session EXCEPT ![s].revoked = TRUE]
      /\ token' = [token EXCEPT ![s] =
           [n \in 1..MaxTokens |-> IF n \in Unused(s) THEN "deleted" ELSE @[n]]]
      /\ call' = [call EXCEPT ![c] = Idle] /\ member' = member
  BY <1>2 DEF RevokeSession, Free, Ends
<1>5. PICK T \in SUBSET Rows : T = {<<s, n>> : n \in Unused(s)}
  <2>1. \A n \in Unused(s) : <<s, n>> \in Rows
    BY SessionsAssumption DEF Rows, Unused
  <2> QED BY <2>1
<1>6. \A r \in SessionIds, n \in 1..MaxTokens : <<r, n>> \in T <=> r = s /\ token[s][n] = "unused"
  BY <1>5 DEF Unused
<1>7. PICK R \in SUBSET SessionIds : R = {s}
  OBVIOUS
<1>8. PICK row : row = [session[s] EXCEPT !.revoked = TRUE]
  OBVIOUS
<1>9. row \in SessionRows
  BY <1>3, <1>8, States DEF SessionRows
<1>10. PICK chain \in [1..MaxTokens -> TokenStates] :
         chain = [n \in 1..MaxTokens |-> IF n \in Unused(s) THEN "deleted" ELSE token[s][n]]
  BY States DEF TokenStates
<1>11. /\ session' = [session EXCEPT ![s] = row]
       /\ token' = [token EXCEPT ![s] = chain]
  BY <1>4, <1>8, <1>10
<1>12. /\ session' \in [SessionIds -> {Missing} \cup SessionRows]
       /\ token' \in [SessionIds -> [1..MaxTokens -> TokenStates]]
       /\ member' \in [MemberIds -> Members]
  BY <1>4, <1>9, <1>11, States
<1>13. EndsRows(c, R, T)
  <2>1. \A r \in SessionIds :
          IF r \in R THEN session'[r] = [session[r] EXCEPT !.revoked = TRUE]
                     ELSE session'[r] = session[r]
    BY <1>7, <1>8, <1>11, States
  <2>2. ASSUME NEW r \in SessionIds, NEW n \in 1..MaxTokens
        PROVE  token'[r][n] = IF <<r, n>> \in T THEN "deleted" ELSE token[r][n]
    <3>1. CASE r = s
      BY <1>6, <1>10, <1>11, <3>1, States DEF Unused
    <3>2. CASE r # s
      BY <1>6, <1>11, <3>2, States
    <3> QED BY <3>1, <3>2
  <2>3. \A n \in Unused(s) : <<s, n>> \in T
    BY <1>5
  <2>4. \A d \in Calls \ {c} : <<s, 0>> \notin call[d].holds
    BY <1>3 DEF IInv, Exclusive, Together
  <2>5. \A r \in SessionIds, n \in 1..MaxTokens : <<r, n>> \in T =>
          /\ token[r][n] = "unused"
          /\ \A d \in Calls \ {c} : <<r, n>> \notin call[d].holds
    BY <1>4, <1>6 DEF Unused
  <2> QED BY <1>3, <1>7, <2>1, <2>2, <2>3, <2>4, <2>5 DEF EndsRows
<1> QED BY <1>4, <1>12, <1>13, EndsRowsKeeps

(* The transaction of a change commits.  Whoever has the membership lock has *)
(* the member as well, whom no sign-in that matters is about; the sessions  *)
(* of the member that went on have ended.                                   *)
LEMMA CommitChangeKeeps ==
  ASSUME IInv, NEW c \in Calls, CommitChange(c)
  PROVE  IInv' /\ \E R \in SUBSET SessionIds, T \in SUBSET Rows : EndsRows(c, R, T)
<1>1. /\ call[c].op \in ChangeOps /\ call[c].phase = "tokens" /\ call[c].left = {}
      /\ HasMembershipLock(call[c])
  BY DEF CommitChange, Change, ChangeOps, HasMembershipLock
<1>2. /\ call[c] \in Changes /\ ChangeInv(call[c])
      /\ \A d \in Calls \ {c} :
           /\ call[c].holds \cap call[d].holds = {}
           /\ ~(HasMembershipLock(call[c]) /\ HasMembershipLock(call[d]))
           /\ call[d].op = "signin" /\ call[d].member = call[c].member =>
                call[c].member \in Shared
  BY <1>1, ChangeUnderWay
<1>3. PICK m \in MemberIds : m = call[c].member
  BY <1>2 DEF Changes
<1>4. PICK T \in SUBSET Rows : T = call[c].holds
  BY <1>2 DEF Changes
<1>5. PICK R \in SUBSET SessionIds : R = {s \in SessionIds : <<s, 0>> \in T}
  OBVIOUS
<1>6. /\ member' = [member EXCEPT ![m] = Changed(@, call[c].op)]
      /\ session' = [s \in SessionIds |->
           IF <<s, 0>> \in T THEN [session[s] EXCEPT !.revoked = TRUE] ELSE session[s]]
      /\ token' = [s \in SessionIds |-> [n \in 1..MaxTokens |->
           IF <<s, n>> \in T THEN "deleted" ELSE token[s][n]]]
      /\ call' = [call EXCEPT ![c] = Idle]
  BY <1>3, <1>4 DEF CommitChange, Ends
<1>7. HeldRows(call[c]) /\ SessionsReached(call[c]) /\ TokensReached(call[c])
  BY <1>1, <1>2 DEF ChangeInv
<1>8. member' \in [MemberIds -> Members]
  <2>1. PICK new : new = Changed(member[m], call[c].op)
    OBVIOUS
  <2>2. /\ member[m] \in Members
        /\ call[c].op # "remove" => member[m].password + 1 \in 1..MaxPasswords
    <3>1. member[m] \in Members
      BY States
    <3>2. call[c].op # "remove" => member[m].password < MaxPasswords
      BY <1>1, <1>2, <1>3 DEF ChangeInv
    <3> QED BY <3>1, <3>2, SessionsAssumption DEF Members
  <2>3. CASE call[c].op = "set"
    <3>1. new = [member[m] EXCEPT !.password = @ + 1, !.temporary = TRUE]
      BY <2>1, <2>3 DEF Changed
    <3>2. new \in Members
      BY <3>1, <2>2, <2>3 DEF Members
    <3> QED BY <1>6, <2>1, <3>2, States
  <2>4. CASE call[c].op = "replace"
    <3>1. new = [member[m] EXCEPT !.password = @ + 1, !.temporary = FALSE]
      BY <2>1, <2>4 DEF Changed
    <3>2. new \in Members
      BY <3>1, <2>2, <2>4 DEF Members
    <3> QED BY <1>6, <2>1, <3>2, States
  <2>5. CASE call[c].op = "remove"
    <3>1. new = [member[m] EXCEPT !.removed = TRUE]
      BY <2>1, <2>5 DEF Changed
    <3>2. new \in Members
      BY <3>1, <2>2 DEF Members
    <3> QED BY <1>6, <2>1, <3>2, States
  <2> QED BY <1>1, <2>3, <2>4, <2>5 DEF ChangeOps
<1>9. session' \in [SessionIds -> {Missing} \cup SessionRows]
  <2>1. ASSUME NEW s \in SessionIds
        PROVE  session'[s] \in {Missing} \cup SessionRows
    <3>1. CASE <<s, 0>> \in T
      <4>1. session[s] \in SessionRows
        BY <1>4, <1>7, <3>1, States DEF HeldRows
      <4>2. PICK row : row = [session[s] EXCEPT !.revoked = TRUE]
        OBVIOUS
      <4>3. row \in SessionRows
        BY <4>1, <4>2 DEF SessionRows
      <4> QED BY <1>6, <3>1, <4>2, <4>3
    <3>2. CASE <<s, 0>> \notin T
      BY <1>6, <3>2, States
    <3> QED BY <3>1, <3>2
  <2> QED BY <1>6, <2>1
<1>10. token' \in [SessionIds -> [1..MaxTokens -> TokenStates]]
  <2>1. \A s \in SessionIds, n \in 1..MaxTokens :
          (IF <<s, n>> \in T THEN "deleted" ELSE token[s][n]) \in TokenStates
    BY States DEF TokenStates
  <2> QED BY <1>6, <2>1
<1>11. EndsRows(c, R, T)
  <2>1. \A s \in SessionIds :
          IF s \in R THEN session'[s] = [session[s] EXCEPT !.revoked = TRUE]
                     ELSE session'[s] = session[s]
    BY <1>5, <1>6
  <2>2. \A s \in SessionIds, n \in 1..MaxTokens :
          token'[s][n] = IF <<s, n>> \in T THEN "deleted" ELSE token[s][n]
    BY <1>6
  <2>3. \A s \in R : session[s] # Missing /\ \A n \in Unused(s) : <<s, n>> \in T
    BY <1>1, <1>4, <1>5, <1>7 DEF HeldRows, TokensReached
  <2>4. \A row \in T : \A d \in Calls \ {c} : row \notin call[d].holds
    BY <1>2, <1>4
  <2>5. \A s \in SessionIds, n \in 1..MaxTokens : <<s, n>> \in T => token[s][n] = "unused"
    BY <1>4, <1>7 DEF HeldRows
  <2> QED BY <1>5, <2>1, <2>2, <2>3, <2>4, <2>5 DEF EndsRows
<1>12. \A l \in MemberIds : l # m => member'[l] = member[l]
  BY <1>6, States
<1>13. ASSUME NEW d \in Calls \ {c},
              \/ call[d].op = "signin" /\ call[d].member \notin Shared
              \/ HasMembershipLock(call[d])
       PROVE  member'[call[d].member] = member[call[d].member]
  <2>1. call[d].op = "signin" /\ call[d].member \notin Shared /\ call[d].member # m
    BY <1>1, <1>2, <1>3, <1>13
  <2>2. call[d].member \in MemberIds
    BY <2>1, CallTypes DEF SignIns
  <2> QED BY <1>12, <2>1, <2>2
<1>14. ASSUME NEW s \in SessionIds, session[s] # Missing, session[s].member \notin Shared,
              s \notin R, GoesOn(s)
       PROVE  member'[session[s].member] = member[session[s].member]
  <2>1. session[s].member # m
    BY <1>1, <1>3, <1>4, <1>5, <1>7, <1>14 DEF SessionsReached
  <2>2. session[s].member \in MemberIds
    BY <1>14, States DEF SessionRows
  <2> QED BY <1>12, <2>1, <2>2
<1> QED BY <1>6, <1>8, <1>9, <1>10, <1>11, <1>13, <1>14, EndsRowsKeeps

-----------------------------------------------------------------------------
(* The specification.                                                       *)

LEMMA InitHolds == Init => IInv
<1> SUFFICES ASSUME Init
             PROVE  IInv
  OBVIOUS
<1>1. TypeOK
  <2>1. member \in [MemberIds -> Members]
    <3>1. 1 \in 1..MaxPasswords
      BY SessionsAssumption
    <3>2. \A temporary \in BOOLEAN :
            [removed |-> FALSE, temporary |-> temporary, password |-> 1] \in Members
      BY <3>1 DEF Members
    <3> QED BY <3>2 DEF Init
  <2> QED BY <2>1 DEF Init, TypeOK, TokenStates
<1>2. \A c \in Calls : call[c] = Idle /\ Idle.op = "idle" /\ Idle.holds = {}
  BY DEF Init, Idle
<1>3. Exclusive /\ \A c \in Calls : CallInv(call[c])
  BY <1>2 DEF Exclusive, Together, HasMembershipLock, CallInv, SignInInv, RotationInv, ChangeInv,
              ChangeOps
<1>4. ASSUME NEW s \in SessionIds
      PROVE  SessionInv(s)
  <2>1. session[s] = Missing /\ \A n \in 1..MaxTokens : token[s][n] = "none"
    BY DEF Init
  <2>2. ChainOf(s, 0) /\ 0 \in 0..MaxTokens
    BY <2>1, SessionsAssumption DEF ChainOf
  <2> QED BY <2>1, <2>2 DEF SessionInv
<1> QED BY <1>1, <1>3, <1>4 DEF IInv

LEMMA ProceedKeeps ==
  ASSUME IInv, NEW c \in Calls, Proceed(c)
  PROVE  IInv'
<1>1. CASE \E s \in SessionIds : StartSession(c, s)
  BY <1>1, StartSessionKeeps
<1>2. CASE LockToken(c)
  BY <1>2, LockTokenKeeps
<1>3. CASE FindDeleted(c) \/ FindEnded(c) \/ RefuseChange(c) \/ Abort(c)
  BY <1>3, IdleStep DEF FindDeleted, FindEnded, RefuseChange, Abort
<1>4. CASE FindReused(c) \/ FindRemoved(c)
  <2>1. Rotating(c, "session") /\ LockSession(c, "revoke")
    BY <1>4 DEF FindReused, FindRemoved
  <2> QED BY <2>1, LockSessionKeeps
<1>5. CASE FindUsable(c)
  <2>1. /\ Rotating(c, "session") /\ LockSession(c, "write")
        /\ State(c) # "used" /\ ~Ended(call[c].session)
    BY <1>5 DEF FindUsable
  <2> QED BY <2>1, LockSessionKeeps
<1>6. CASE Exchange(c)
  BY <1>6, ExchangeKeeps
<1>7. CASE RevokeSession(c)
  BY <1>7, RevokeSessionKeeps
<1>8. CASE LockActiveMember(c)
  BY <1>8, LockActiveMemberKeeps
<1>9. CASE \E s \in SessionIds : LockMemberSession(c, s)
  BY <1>9, LockMemberSessionKeeps
<1>10. CASE DeleteUnusedTokens(c)
  BY <1>10, DeleteUnusedTokensKeeps
<1>11. CASE \E s \in SessionIds, n \in 1..MaxTokens : LockMemberToken(c, s, n)
  BY <1>11, LockMemberTokenKeeps
<1>12. CASE CommitChange(c)
  BY <1>12, CommitChangeKeeps
<1> QED BY <1>1, <1>2, <1>3, <1>4, <1>5, <1>6, <1>7, <1>8, <1>9, <1>10, <1>11, <1>12 DEF Proceed

LEMMA StutterKeeps ==
  ASSUME IInv, UNCHANGED vars
  PROVE  IInv'
<1>1. UNCHANGED <<member, session, token, call>>
  BY DEF vars
<1>2. TypeOK' /\ Exclusive'
  BY <1>1 DEF IInv, TypeOK, Exclusive, Together, HasMembershipLock
<1>3. \A l : CallInv(l) <=> CallInv(l)'
  BY <1>1 DEF CallInv, SignInInv, RotationInv, ChangeInv, HeldRows, SessionsReached, TokensReached,
              Current, GoesOn, Stored, Unused
<1>4. \A d \in Calls : CallInv(call[d])'
  BY <1>1, <1>3 DEF IInv
<1>5. \A s \in SessionIds : SessionInv(s)'
  BY <1>1 DEF IInv, SessionInv, ChainOf, Unused, GoesOn, Current
<1> QED BY <1>2, <1>4, <1>5 DEF IInv

LEMMA NextKeeps == IInv /\ [Next]_vars => IInv'
<1> SUFFICES ASSUME IInv, [Next]_vars
             PROVE  IInv'
  OBVIOUS
<1>1. ASSUME NEW c \in Calls, NEW m \in MemberIds,
             SignIn(c, m) \/ \E op \in {"set", "replace", "remove"} : ChangeMember(c, op, m)
      PROVE  IInv'
  BY <1>1, SignInKeeps, ChangeMemberKeeps DEF ChangeOps
<1>2. ASSUME NEW c \in Calls, NEW s \in SessionIds, NEW n \in 1..MaxTokens,
             RotateRefreshToken(c, s, n)
      PROVE  IInv'
  BY <1>2, PresentKeeps
<1>3. ASSUME NEW c \in Calls, Proceed(c)
      PROVE  IInv'
  BY <1>3, ProceedKeeps
<1>4. ASSUME NEW c \in Calls, Fail(c)
      PROVE  IInv'
  BY <1>4, IdleStep DEF Fail
<1>5. ASSUME NEW s \in SessionIds, Expire(s)
      PROVE  IInv'
  BY <1>5, ExpireKeeps
<1>6. CASE UNCHANGED vars
  BY <1>6, StutterKeeps
<1> QED BY <1>1, <1>2, <1>3, <1>4, <1>5, <1>6 DEF Next

(* The invariant is inductive.                                              *)
THEOREM Inductive == Spec => []IInv
BY InitHolds, NextKeeps, PTL DEF Spec

(* Every variable keeps its type (db/01-schema.sql).                        *)
THEOREM TypeCorrect == Spec => []TypeOK
<1>1. IInv => TypeOK
  BY DEF IInv
<1> QED BY <1>1, Inductive, PTL

(* "A token can be exchanged exactly once": of one session, at most one     *)
(* token is left, however many holders present the same one.                *)
THEOREM OneTokenIsLeft == Spec => []OneTokenLeft
<1>1. IInv => OneTokenLeft
  <2> SUFFICES ASSUME IInv, NEW s \in SessionIds
               PROVE  Cardinality(Unused(s)) <= 1
    BY DEF OneTokenLeft
  <2>1. CASE Unused(s) = {}
    BY <2>1, FS_EmptySet
  <2>2. CASE Unused(s) # {}
    <3>1. PICK n \in Unused(s) : TRUE
      BY <2>2
    <3>2. Unused(s) = {n}
      BY LastOfChain
    <3>3. Cardinality({n}) = 1
      BY FS_Singleton
    <3> QED BY <3>2, <3>3
  <2> QED BY <2>1, <2>2
<1> QED BY <1>1, Inductive, PTL

(* A session that was revoked has no token that could still be used.        *)
THEOREM RevokedHasNone == Spec => []RevokedHasNoToken
<1>1. IInv => RevokedHasNoToken
  BY DEF IInv, SessionInv, RevokedHasNoToken
<1> QED BY <1>1, Inductive, PTL

(* FR-6.4 and ADR-009: the sessions that go on are those of active members, *)
(* opened with the password the member has now, however a change of         *)
(* password or a removal interleaves with rotations and revocations.        *)
THEOREM ChangesEndSessions == Spec => []SessionsAreCurrent
<1>1. IInv => SessionsAreCurrent
  BY DEF IInv, SessionInv, SessionsAreCurrent, Current
<1> QED BY <1>1, Inductive, PTL

-----------------------------------------------------------------------------
(* The promise.                                                             *)

Exchanged == [s \in SessionIds |-> {n \in 1..MaxTokens : token[s][n] = "used"}]
Over == [s \in SessionIds |-> session[s] # Missing /\ ~GoesOn(s)]

(* The steps that exchange nothing and end the sessions in S.               *)
LEMMA EndsOnly ==
  ASSUME NEW S \in SUBSET SessionIds,
         \A s \in SessionIds, n \in 1..MaxTokens : token'[s][n] = "used" <=> token[s][n] = "used",
         \A s \in SessionIds :
           session'[s] # Missing /\ ~(session'[s].status = "live" /\ ~session'[s].revoked)
             <=> (session[s] # Missing /\ ~GoesOn(s)) \/ s \in S
  PROVE  Promise!Next
<1>1. \A s \in SessionIds :
        {n \in 1..MaxTokens : token[s][n] = "used"}' = {n \in 1..MaxTokens : token[s][n] = "used"}
  OBVIOUS
<1>2. \A s \in SessionIds :
        (session[s] # Missing /\ ~GoesOn(s))' = ((session[s] # Missing /\ ~GoesOn(s)) \/ s \in S)
  BY Zenon DEF GoesOn
<1>3. Promise!End(S)
  BY <1>1, <1>2, Zenon DEF Promise!End
<1> QED BY <1>3 DEF Promise!Next

LEMMA CallsOnly ==
  ASSUME UNCHANGED <<session, token>>
  PROVE  UNCHANGED <<Exchanged, Over>>
BY DEF Exchanged, Over, GoesOn

LEMMA ExpirePromise ==
  ASSUME IInv, NEW s \in SessionIds, Expire(s)
  PROVE  Promise!Next
<1>1. session[s] \in SessionRows /\ session[s] # Missing
  BY States, Missed DEF Expire
<1>2. PICK row : row = [session[s] EXCEPT !.status = "expired"]
  OBVIOUS
<1>3. row # Missing /\ row.status = "expired"
  BY <1>1, <1>2, Missed DEF SessionRows
<1>4. session' = [session EXCEPT ![s] = row] /\ token' = token
  BY <1>2 DEF Expire
<1>5. /\ session'[s] = row
      /\ \A r \in SessionIds \ {s} : session'[r] = session[r]
  BY <1>4, States
<1>6. ASSUME NEW r \in SessionIds
      PROVE  session'[r] # Missing /\ ~(session'[r].status = "live" /\ ~session'[r].revoked)
               <=> (session[r] # Missing /\ ~GoesOn(r)) \/ r \in {s}
  BY <1>3, <1>5 DEF GoesOn
<1> QED BY <1>4, <1>6, EndsOnly

LEMMA EndsRowsPromise ==
  ASSUME IInv, NEW c \in Calls, NEW R \in SUBSET SessionIds, NEW T \in SUBSET Rows,
         EndsRows(c, R, T)
  PROVE  Promise!Next
<1>1. \A s \in SessionIds, n \in 1..MaxTokens : token'[s][n] = "used" <=> token[s][n] = "used"
  BY DEF EndsRows
<1>2. ASSUME NEW s \in SessionIds
      PROVE  session'[s] # Missing /\ ~(session'[s].status = "live" /\ ~session'[s].revoked)
               <=> (session[s] # Missing /\ ~GoesOn(s)) \/ s \in R
  <2>1. CASE s \in R
    <3>1. session[s] \in SessionRows /\ session[s] # Missing
      BY <2>1, States DEF EndsRows
    <3>2. PICK row : row = [session[s] EXCEPT !.revoked = TRUE]
      OBVIOUS
    <3>3. row # Missing /\ row.revoked = TRUE
      BY <3>1, <3>2, Missed DEF SessionRows
    <3>4. session'[s] = row
      BY <2>1, <3>2 DEF EndsRows
    <3> QED BY <2>1, <3>1, <3>3, <3>4
  <2>2. CASE s \notin R
    <3>1. session'[s] = session[s]
      BY <2>2 DEF EndsRows
    <3> QED BY <2>2, <3>1 DEF GoesOn
  <2> QED BY <2>1, <2>2
<1> QED BY <1>1, <1>2, EndsOnly

(* The token retired is the next of its chain.                              *)
LEMMA ExchangePromise ==
  ASSUME IInv, NEW c \in Calls, Exchange(c)
  PROVE  Promise!Next
<1>1. PICK s \in SessionIds, n \in 1..MaxTokens :
      /\ n + 1 \in 1..MaxTokens
      /\ n \in Unused(s) /\ session[s] # Missing /\ GoesOn(s)
      /\ <<s, 0>> \in call[c].holds /\ <<s, n>> \in call[c].holds
      /\ \A r \in SessionIds \ {s} : token'[r] = token[r]
      /\ \A i \in 1..MaxTokens :
           token'[s][i] = IF i = n THEN "used" ELSE IF i = n + 1 THEN "unused" ELSE token[s][i]
      /\ token' \in [SessionIds -> [1..MaxTokens -> TokenStates]]
  BY ExchangeWrites
<1>2. PICK used \in SUBSET (1..MaxTokens) : used = {i \in 1..MaxTokens : token[s][i] = "used"}
  OBVIOUS
<1>3. \A i \in 1..MaxTokens : i <= n - 1 <=> token[s][i] = "used"
  BY <1>1, LastOfChain DEF ChainOf
<1>4. n \in 1..MaxTokens /\ used = 1..(n - 1)
  BY <1>1, <1>2, <1>3, SessionsAssumption DEF Unused
<1>5. Cardinality(used) + 1 = n
  <2>1. 1 \in Int /\ n - 1 \in Int
    BY <1>4
  <2>2. Cardinality(1..(n - 1)) = IF 1 > n - 1 THEN 0 ELSE n - 1 - 1 + 1
    BY <2>1, FS_Interval
  <2> QED BY <1>4, <2>2, SessionsAssumption
<1>6. {i \in 1..MaxTokens : token'[s][i] = "used"} = used \cup {n}
  <2>1. \A i \in 1..MaxTokens : token'[s][i] = "used" <=> i \in used \/ i = n
    <3>1. \A i \in 1..MaxTokens : i = n + 1 => token[s][i] # "used" /\ i # n
      BY <1>3, <1>4
    <3> QED BY <1>1, <1>2, <3>1
  <2> QED BY <1>2, <1>4, <2>1
<1>7. Exchanged[s] = used /\ Over[s] = FALSE
  BY <1>1, <1>2 DEF Exchanged, Over
<1>8. Exchanged' = [Exchanged EXCEPT ![s] = used \cup {n}]
  <2>1. \A r \in SessionIds \ {s} :
          {i \in 1..MaxTokens : token'[r][i] = "used"} = {i \in 1..MaxTokens : token[r][i] = "used"}
    BY <1>1
  <2> QED BY <1>6, <2>1 DEF Exchanged
<1>9. Exchanged' = [Exchanged EXCEPT ![s] = @ \cup {Cardinality(@) + 1}]
  BY <1>5, <1>7, <1>8
<1>10. Over' = Over
  BY DEF Exchange, Over, GoesOn
<1>11. ~Over[s]
  BY <1>7
<1>12. Promise!Exchange(s)
  <2>1. \A S : Promise!Cardinality(S) = Cardinality(S)
    BY DEF Cardinality, Promise!Cardinality
  <2> QED BY <1>9, <1>10, <1>11, <2>1 DEF Promise!Exchange, Exchanged, Over
<1> QED BY <1>12 DEF Promise!Next

(* A session that starts has not ended, and one that is swept has.          *)
LEMMA StartPromise ==
  ASSUME IInv, NEW c \in Calls, NEW s \in SessionIds, StartSession(c, s)
  PROVE  Promise!Next
<1>1. session[s] = Missing /\ \A n \in 1..MaxTokens : token[s][n] = "none"
  BY States DEF StartSession, SessionInv
<1>2. PICK new : new = [status |-> "live", member |-> call[c].member, revoked |-> FALSE,
                        password |-> call[c].password]
  OBVIOUS
<1>3. new.status = "live" /\ new.revoked = FALSE
  BY <1>2
<1>4. PICK old \in SUBSET Sweepable(c) :
        session' = [r \in SessionIds |->
          IF r = s THEN new ELSE IF r \in old THEN [session[r] EXCEPT !.status = "swept"]
          ELSE session[r]]
  BY <1>2 DEF StartSession
<1>5. \A r \in old : r \in SessionIds /\ session[r] # Missing /\ session[r].status = "expired"
  BY DEF Sweepable, Stored
<1>6. \A r \in SessionIds, n \in 1..MaxTokens : token'[r][n] = "used" <=> token[r][n] = "used"
  BY <1>1, States DEF StartSession
<1>8. PICK S \in SUBSET SessionIds : S = {}
  OBVIOUS
<1>7. ASSUME NEW r \in SessionIds
      PROVE  session'[r] # Missing /\ ~(session'[r].status = "live" /\ ~session'[r].revoked)
               <=> (session[r] # Missing /\ ~GoesOn(r)) \/ r \in S
  <2>1. CASE r = s
    BY <1>1, <1>3, <1>4, <1>8, <2>1
  <2>2. CASE r # s /\ r \in old
    <3>1. PICK row : row = [session[r] EXCEPT !.status = "swept"]
      OBVIOUS
    <3>2. row # Missing /\ row.status = "swept"
      <4>1. session[r] \in SessionRows
        BY <1>5, <2>2, States
      <4> QED BY <3>1, <4>1, Missed DEF SessionRows
    <3>3. session'[r] = row
      BY <1>4, <2>2, <3>1
    <3> QED BY <1>5, <1>8, <2>2, <3>2, <3>3 DEF GoesOn
  <2>3. CASE r # s /\ r \notin old
    <3>1. session'[r] = session[r]
      BY <1>4, <2>3
    <3> QED BY <1>8, <3>1 DEF GoesOn
  <2> QED BY <2>1, <2>2, <2>3
<1> QED BY <1>6, <1>7, EndsOnly

LEMMA NextPromise == IInv /\ [Next]_vars => [Promise!Next]_<<Exchanged, Over>>
<1> SUFFICES ASSUME IInv, [Next]_vars, ~UNCHANGED <<session, token>>
             PROVE  Promise!Next
  BY CallsOnly
<1>1. ASSUME NEW s \in SessionIds, Expire(s)
      PROVE  Promise!Next
  BY <1>1, ExpirePromise
<1>2. ASSUME NEW c \in Calls, NEW s \in SessionIds, StartSession(c, s)
      PROVE  Promise!Next
  BY <1>2, StartPromise
<1>3. ASSUME NEW c \in Calls, Exchange(c)
      PROVE  Promise!Next
  BY <1>3, ExchangePromise
<1>4. ASSUME NEW c \in Calls, RevokeSession(c) \/ CommitChange(c)
      PROVE  Promise!Next
  BY <1>4, RevokeSessionKeeps, CommitChangeKeeps, EndsRowsPromise
<1>5. ~UNCHANGED vars
  BY DEF vars
<1>6. \A c \in Calls : Proceed(c) =>
        \/ \E s \in SessionIds : StartSession(c, s)
        \/ Exchange(c) \/ RevokeSession(c) \/ CommitChange(c)
  BY DEF Proceed, LockToken, FindDeleted, FindReused, FindEnded, FindRemoved, FindUsable, LockSession,
         LockActiveMember, RefuseChange, LockMemberSession, DeleteUnusedTokens, LockMemberToken, Abort
<1>7. \/ \E c \in Calls : Proceed(c)
      \/ \E s \in SessionIds : Expire(s)
  BY <1>5 DEF Next, SignIn, ChangeMember, RotateRefreshToken, Fail
<1> QED BY <1>1, <1>2, <1>3, <1>4, <1>6, <1>7

(* ADR-009: whatever calls arrive at the same moment, and whichever of them *)
(* are rolled back, a session is one chain of refresh tokens, each of them  *)
(* exchanged once and in the order of their issue, none after its end.      *)
THEOREM SessionsKeepPromise == Spec => KeepsPromise
<1>1. Init => Promise!Init
  BY DEF Init, Promise!Init
<1>2. IInv /\ [Next]_vars =>
        [Promise!Next]_<<[s \in SessionIds |-> {n \in 1..MaxTokens : token[s][n] = "used"}],
                         [s \in SessionIds |-> session[s] # Missing /\ ~GoesOn(s)]>>
  BY NextPromise DEF Exchanged, Over
<1> QED BY <1>1, <1>2, InitHolds, NextKeeps, PTL DEF Spec, KeepsPromise, Promise!Spec
=============================================================================
