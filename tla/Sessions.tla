------------------------------ MODULE Sessions ------------------------------
(***************************************************************************)
(* Sessions and refresh tokens of the Identity Service (sessions.go,       *)
(* auth.go), with the operations on members that end them (store.go).      *)
(*                                                                         *)
(* A session is the chain of refresh tokens that starts at one sign-in; a  *)
(* token is known by its place in the chain.  Every operation is a         *)
(* transaction that locks rows one after another and shows what it wrote   *)
(* when it commits, so a call's record holds the rows it has locked.  Two  *)
(* transactions that wait for each other are found by PostgreSQL, which    *)
(* rolls one of them back.                                                 *)
(***************************************************************************)
EXTENDS Naturals, FiniteSets

CONSTANTS
  MemberIds,      \* members, all of them active at first
  SessionIds,     \* ids of sessions
  Calls,          \* API calls that may be in flight at the same time
  Shared,         \* the members whose sign-in and change of password, or
                  \* removal, may be in flight at the same time
  MaxTokens,      \* bound: refresh tokens issued in a session
  MaxPasswords    \* bound: passwords a member has, one after another

ASSUME SessionsAssumption == MaxTokens \in Nat \ {0} /\ MaxPasswords \in Nat \ {0}

VARIABLES
  member,    \* table members
  session,   \* table sessions
  token,     \* table refresh_tokens
  call       \* what each call in flight does, and the rows it has locked

vars == <<member, session, token, call>>

Members == [removed : BOOLEAN, temporary : BOOLEAN, password : 1..MaxPasswords]

(* password is the one checked at sign-in: kept for the properties only.    *)
Missing == [status |-> "missing"]
SessionRows == [status : {"live", "expired", "swept"}, member : MemberIds,
                revoked : BOOLEAN, password : 1..MaxPasswords]

(* A row that was deleted stays "deleted": its token is not issued again.   *)
TokenStates == {"none", "unused", "used", "deleted"}

(* The row of a session is its number 0, those of its tokens the others.    *)
Rows == SessionIds \X (0..MaxTokens)

Idle == [op |-> "idle", holds |-> {}]

SignIns == [op : {"signin"}, member : MemberIds, password : 1..MaxPasswords, holds : {{}}]
Rotations == [op : {"rotate"}, phase : {"token", "session", "write", "revoke"},
              session : SessionIds, number : 1..MaxTokens,
              removed : BOOLEAN, holds : SUBSET Rows]
Changes == [op : {"set", "replace", "remove"}, phase : {"lock", "sessions", "tokens"},
            member : MemberIds, left : SUBSET Rows, holds : SUBSET Rows]

(* Every variable has its type (db/01-schema.sql, sessions.go).             *)
TypeOK ==
  /\ member \in [MemberIds -> Members]
  /\ session \in [SessionIds -> {Missing} \cup SessionRows]
  /\ token \in [SessionIds -> [1..MaxTokens -> TokenStates]]
  /\ call \in [Calls -> {Idle} \cup SignIns \cup Rotations \cup Changes]

Init ==
  /\ member \in [MemberIds -> {[removed |-> FALSE, temporary |-> temporary, password |-> 1] :
                                 temporary \in BOOLEAN}]
  /\ session = [s \in SessionIds |-> Missing]
  /\ token = [s \in SessionIds |-> [n \in 1..MaxTokens |-> "none"]]
  /\ call = [c \in Calls |-> Idle]

-----------------------------------------------------------------------------
(* Rows and locks.                                                          *)

Stored(s) == session[s] # Missing /\ session[s].status # "swept"
Unused(s) == {n \in 1..MaxTokens : token[s][n] = "unused"}

Free(c, row) == \A d \in Calls \ {c} : row \notin call[d].holds

Go(c, phase) == call' = [call EXCEPT ![c].phase = phase]
Ends(c) == call' = [call EXCEPT ![c] = Idle]

SigningIn(m) == \E d \in Calls : call[d].op = "signin" /\ call[d].member = m
Changing(m) == \E d \in Calls : call[d].op \in {"set", "replace", "remove"} /\ call[d].member = m

-----------------------------------------------------------------------------
(* Signing in.                                                              *)

(* Bound: a sign-in under way has an id left for its session.               *)
IdLeft ==
  Cardinality({d \in Calls : call[d].op = "signin"})
    < Cardinality({s \in SessionIds : session[s] = Missing})

(* FindCredentials finds the member, and the password is the member's own;  *)
(* a temporary one opens no session.                                        *)
SignIn(c, m) ==
  /\ call[c] = Idle
  /\ IdLeft
  /\ ~member[m].removed /\ ~member[m].temporary
  /\ m \in Shared \/ ~Changing(m)
  /\ call' = [call EXCEPT ![c] = [op |-> "signin", member |-> m,
                                  password |-> member[m].password, holds |-> {}]]
  /\ UNCHANGED <<member, session, token>>

(* Of the expired sessions, those that ended more than a day ago.  A delete *)
(* waits for the calls that have a row of it locked.                        *)
Sweepable(c) ==
  {s \in SessionIds : Stored(s) /\ session[s].status = "expired"
                        /\ \A n \in 0..MaxTokens : Free(c, <<s, n>>)}

(* StartSession: the session and its first token, long after the password   *)
(* was checked.                                                             *)
StartSession(c, s) ==
  /\ call[c].op = "signin"
  /\ session[s] = Missing
  /\ \E old \in SUBSET Sweepable(c) :
       session' = [r \in SessionIds |->
         IF r = s THEN [status |-> "live", member |-> call[c].member, revoked |-> FALSE,
                        password |-> call[c].password]
         ELSE IF r \in old THEN [session[r] EXCEPT !.status = "swept"]
         ELSE session[r]]
  /\ token' = [token EXCEPT ![s][1] = "unused"]
  /\ Ends(c)
  /\ UNCHANGED member

(* A session reaches its cap.  A rotation goes by the time it started at:   *)
(* the cap counts once those that started before it are through.  One that  *)
(* starts in between is refused, and writes nothing.                        *)
Expire(s) ==
  /\ session[s].status = "live"
  /\ \A c \in Calls : call[c].op = "rotate" => call[c].session # s
  /\ session' = [session EXCEPT ![s].status = "expired"]
  /\ UNCHANGED <<member, token, call>>

-----------------------------------------------------------------------------
(* Exchanging a refresh token.                                              *)

(* Somebody presents a token that was issued: its holder, a second tab, or  *)
(* a retry after a lost answer.  The join reads the member when the         *)
(* statement starts; the rows it locks are read once more when it has them. *)
RotateRefreshToken(c, s, n) ==
  /\ call[c] = Idle
  /\ Stored(s)
  /\ \/ token[s][n] = "used"
     \/ token[s][n] = "unused" /\ n < MaxTokens
  /\ call' = [call EXCEPT ![c] = [op |-> "rotate", phase |-> "token", session |-> s,
                                  number |-> n, removed |-> member[session[s].member].removed,
                                  holds |-> {}]]
  /\ UNCHANGED <<member, session, token>>

Rotating(c, phase) == call[c].op = "rotate" /\ call[c].phase = phase

Presented(c) == <<call[c].session, call[c].number>>
State(c) == token[call[c].session][call[c].number]

(* FOR UPDATE OF t, s: first the token ...                                  *)
LockToken(c) ==
  /\ Rotating(c, "token")
  /\ Free(c, Presented(c))
  /\ State(c) # "deleted" /\ Stored(call[c].session)
  /\ call' = [call EXCEPT ![c].phase = "session", ![c].holds = {Presented(c)}]
  /\ UNCHANGED <<member, session, token>>

(* ... which may be deleted by now: ErrInvalidRefresh.                      *)
FindDeleted(c) ==
  /\ Rotating(c, "token")
  /\ Free(c, Presented(c))
  /\ State(c) = "deleted" \/ ~Stored(call[c].session)
  /\ Ends(c)
  /\ UNCHANGED <<member, session, token>>

(* ... and then the session, after which the outcome is known.              *)
LockSession(c, phase) ==
  /\ Free(c, <<call[c].session, 0>>)
  /\ call' = [call EXCEPT ![c].phase = phase, ![c].holds = @ \cup {<<call[c].session, 0>>}]
  /\ UNCHANGED <<member, session, token>>

(* Mutant: a session goes on beyond its cap.                                *)
EndedIfRevoked(s) == session[s].revoked

Ended(s) == session[s].revoked \/ session[s].status # "live"

FindReused(c) ==
  /\ Rotating(c, "session")
  /\ State(c) = "used"
  /\ LockSession(c, "revoke")

(* Mutant: a refused rotation leaves its transaction open.                  *)
FindEndedOpen(c) ==
  /\ Rotating(c, "session")
  /\ Free(c, <<call[c].session, 0>>)
  /\ State(c) # "used"
  /\ Ended(call[c].session)
  /\ call' = [call EXCEPT ![c] = [op |-> "open", holds |-> {Presented(c)}]]
  /\ UNCHANGED <<member, session, token>>

(* ErrSessionEnded: nothing is written.                                     *)
FindEnded(c) ==
  /\ Rotating(c, "session")
  /\ Free(c, <<call[c].session, 0>>)
  /\ State(c) # "used"
  /\ Ended(call[c].session)
  /\ Ends(c)
  /\ UNCHANGED <<member, session, token>>

FindRemoved(c) ==
  /\ Rotating(c, "session")
  /\ State(c) # "used"
  /\ ~Ended(call[c].session)
  /\ call[c].removed
  /\ LockSession(c, "revoke")

FindUsable(c) ==
  /\ Rotating(c, "session")
  /\ State(c) # "used"
  /\ ~Ended(call[c].session)
  /\ ~call[c].removed
  /\ LockSession(c, "write")

Issued(s) == {n \in 1..MaxTokens : token[s][n] # "none"}

(* Mutant: the presented token is not retired.                              *)
ExchangeAndKeep(c) ==
  /\ Rotating(c, "write")
  /\ LET s == call[c].session
     IN  token' = [token EXCEPT ![s] = [@ EXCEPT ![Cardinality(Issued(s)) + 1] = "unused"]]
  /\ Ends(c)
  /\ UNCHANGED <<member, session>>

(* The presented token is retired and the next one issued.                  *)
Exchange(c) ==
  /\ Rotating(c, "write")
  /\ LET s == call[c].session
     IN  token' = [token EXCEPT ![s] =
           [@ EXCEPT ![call[c].number] = "used", ![Cardinality(Issued(s)) + 1] = "unused"]]
  /\ Ends(c)
  /\ UNCHANGED <<member, session>>

(* Mutant: the tokens of the session stay.                                  *)
RevokeSessionOnly(c) ==
  /\ Rotating(c, "revoke")
  /\ session' = [session EXCEPT ![call[c].session].revoked = TRUE]
  /\ Ends(c)
  /\ UNCHANGED <<member, token>>

(* revokeSession, committed although the call is refused.                   *)
RevokeSession(c) ==
  /\ Rotating(c, "revoke")
  /\ LET s == call[c].session
     IN  /\ \A n \in Unused(s) : Free(c, <<s, n>>)
         /\ session' = [session EXCEPT ![s].revoked = TRUE]
         /\ token' = [token EXCEPT ![s] =
              [n \in 1..MaxTokens |-> IF n \in Unused(s) THEN "deleted" ELSE @[n]]]
  /\ Ends(c)
  /\ UNCHANGED member

-----------------------------------------------------------------------------
(* Changing a member: SetPassword, ReplaceOwnPassword, Remove.              *)

ChangeMember(c, op, m) ==
  /\ call[c] = Idle
  /\ op = "replace" => ~member[m].removed
  /\ op # "remove" => member[m].password < MaxPasswords
  /\ m \in Shared \/ ~SigningIn(m)
  /\ call' = [call EXCEPT ![c] = [op |-> op, phase |-> "lock", member |-> m,
                                  left |-> {}, holds |-> {}]]
  /\ UNCHANGED <<member, session, token>>

Change(c, phase) == call[c].op \in {"set", "replace", "remove"} /\ call[c].phase = phase

MembershipLockFree(c) ==
  \A d \in Calls \ {c} : ~Change(d, "sessions") /\ ~Change(d, "tokens")

(* lockActiveMember, and the sessions revokeMemberSessions will update: the *)
(* ones there are when its statement starts.                                *)
LockActiveMember(c) ==
  /\ Change(c, "lock")
  /\ MembershipLockFree(c)
  /\ ~member[call[c].member].removed
  /\ call[c].op # "remove" => member[call[c].member].password < MaxPasswords
  /\ call' = [call EXCEPT ![c].phase = "sessions",
       ![c].left = {<<s, 0>> : s \in {s \in SessionIds :
         Stored(s) /\ session[s].member = call[c].member /\ ~session[s].revoked}}]
  /\ UNCHANGED <<member, session, token>>

(* ErrRemoved, or ErrLastAdmin, or the bound on passwords.                  *)
RefuseChange(c) ==
  /\ Change(c, "lock")
  /\ MembershipLockFree(c)
  /\ Ends(c)
  /\ UNCHANGED <<member, session, token>>

Locked(c, row, wanted) ==
  call' = [call EXCEPT ![c].left = @ \ {row},
                       ![c].holds = IF wanted THEN @ \cup {row} ELSE @]

(* UPDATE sessions: a session revoked or swept in the meantime is passed by.*)
LockMemberSession(c, s) ==
  /\ Change(c, "sessions")
  /\ <<s, 0>> \in call[c].left
  /\ Free(c, <<s, 0>>)
  /\ Locked(c, <<s, 0>>, Stored(s) /\ ~session[s].revoked)
  /\ UNCHANGED <<member, session, token>>

(* deleteUnusedTokens starts: it sees the unused tokens there are now.      *)
DeleteUnusedTokens(c) ==
  /\ Change(c, "sessions")
  /\ call[c].left = {}
  /\ call' = [call EXCEPT ![c].phase = "tokens",
       ![c].left = {row \in Rows : /\ row[2] # 0 /\ Stored(row[1])
                                   /\ session[row[1]].member = call[c].member
                                   /\ token[row[1]][row[2]] = "unused"}]
  /\ UNCHANGED <<member, session, token>>

(* A token exchanged in the meantime is passed by.                          *)
LockMemberToken(c, s, n) ==
  /\ Change(c, "tokens")
  /\ <<s, n>> \in call[c].left
  /\ Free(c, <<s, n>>)
  /\ Locked(c, <<s, n>>, Stored(s) /\ token[s][n] = "unused")
  /\ UNCHANGED <<member, session, token>>

Changed(m, op) ==
  CASE op = "set"     -> [m EXCEPT !.password = @ + 1, !.temporary = TRUE]
    [] op = "replace" -> [m EXCEPT !.password = @ + 1, !.temporary = FALSE]
    [] op = "remove"  -> [m EXCEPT !.removed = TRUE]

(* Mutant: the sessions of the member go on.                                *)
CommitMemberOnly(c) ==
  /\ Change(c, "tokens")
  /\ call[c].left = {}
  /\ member' = [member EXCEPT ![call[c].member] = Changed(@, call[c].op)]
  /\ Ends(c)
  /\ UNCHANGED <<session, token>>

(* The transaction commits: the member has changed, the sessions locked are *)
(* revoked and the tokens locked are deleted.                               *)
CommitChange(c) ==
  /\ Change(c, "tokens")
  /\ call[c].left = {}
  /\ member' = [member EXCEPT ![call[c].member] = Changed(@, call[c].op)]
  /\ session' = [s \in SessionIds |->
       IF <<s, 0>> \in call[c].holds THEN [session[s] EXCEPT !.revoked = TRUE] ELSE session[s]]
  /\ token' = [s \in SessionIds |-> [n \in 1..MaxTokens |->
       IF <<s, n>> \in call[c].holds THEN "deleted" ELSE token[s][n]]]
  /\ Ends(c)

-----------------------------------------------------------------------------
(* Waiting.                                                                 *)

(* The rows a call waits for next.                                          *)
Wanted(c) ==
  CASE Rotating(c, "token")   -> {Presented(c)}
    [] Rotating(c, "session") -> {<<call[c].session, 0>>}
    [] Rotating(c, "revoke")  ->
         {<<call[c].session, n>> : n \in Unused(call[c].session)}
    [] Change(c, "sessions") \/ Change(c, "tokens") -> call[c].left
    [] OTHER -> {}

Blocks(d, c) == d # c /\ call[d].holds \cap Wanted(c) # {}

(* Calls that wait for one another in a circle.                             *)
Deadlocked(c) ==
  \E D \in SUBSET Calls : c \in D /\ \A d \in D : \E e \in D : Blocks(e, d)

(* PostgreSQL finds a deadlock and rolls one transaction back.              *)
Abort(c) ==
  /\ Deadlocked(c)
  /\ Ends(c)
  /\ UNCHANGED <<member, session, token>>

(* The database or the service fails, or the client goes away.              *)
Fail(c) ==
  /\ call[c] # Idle
  /\ Ends(c)
  /\ UNCHANGED <<member, session, token>>

Proceed(c) ==
  \/ \E s \in SessionIds : StartSession(c, s)
  \/ LockToken(c) \/ FindDeleted(c)
  \/ FindReused(c) \/ FindEnded(c) \/ FindRemoved(c) \/ FindUsable(c)
  \/ Exchange(c) \/ RevokeSession(c)
  \/ LockActiveMember(c) \/ RefuseChange(c)
  \/ \E s \in SessionIds : LockMemberSession(c, s)
  \/ DeleteUnusedTokens(c)
  \/ \E s \in SessionIds, n \in 1..MaxTokens : LockMemberToken(c, s, n)
  \/ CommitChange(c)
  \/ Abort(c)

Next ==
  \/ \E c \in Calls :
       \/ \E m \in MemberIds :
            \/ SignIn(c, m)
            \/ \E op \in {"set", "replace", "remove"} : ChangeMember(c, op, m)
       \/ \E s \in SessionIds, n \in 1..MaxTokens : RotateRefreshToken(c, s, n)
       \/ Proceed(c)
       \/ Fail(c)
  \/ \E s \in SessionIds : Expire(s)

Spec == Init /\ [][Next]_vars

-----------------------------------------------------------------------------
(* Properties.                                                              *)

GoesOn(s) == session[s].status = "live" /\ ~session[s].revoked

(* "A token can be exchanged exactly once" (RotateRefreshToken): of one     *)
(* session, at most one token is left to exchange, however many holders     *)
(* present the same one at the same moment.                                 *)
OneTokenLeft == \A s \in SessionIds : Cardinality(Unused(s)) <= 1

(* revokeSession "throws away the refresh tokens that could still be used": *)
(* none is left, also when one was issued while the session was revoked.    *)
RevokedHasNoToken ==
  \A s \in SessionIds : session[s] # Missing /\ session[s].revoked => Unused(s) = {}

(* FR-6.4 and ADR-009: a new password or a removal ends the sessions there  *)
(* are.  Unless a sign-in was under way at that moment, every session that  *)
(* goes on is one of an active member and was opened with the password the  *)
(* member has now.                                                          *)
SessionsAreCurrent ==
  \A s \in SessionIds :
    session[s] # Missing /\ GoesOn(s) /\ session[s].member \notin Shared =>
      /\ ~member[session[s].member].removed
      /\ session[s].password = member[session[s].member].password

Promise == INSTANCE SessionPromise
  WITH exchanged <- [s \in SessionIds |-> {n \in 1..MaxTokens : token[s][n] = "used"}],
       ended <- [s \in SessionIds |-> session[s] # Missing /\ ~GoesOn(s)]

(* However exchanges, revocations and removals interleave, and whichever of *)
(* them is rolled back, a session is a single chain of tokens that ends.    *)
KeepsPromise == Promise!Spec

(* A rotation locks a token and then its session, a revocation the session  *)
(* and then its tokens: still, whatever calls wait for, one of them can go  *)
(* on, or PostgreSQL finds that none can.                                   *)
CallsGoOn ==
  (\E c \in Calls : call[c] # Idle) => \E c \in Calls : call[c] # Idle /\ ENABLED Proceed(c)
=============================================================================
