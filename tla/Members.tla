------------------------------ MODULE Members ------------------------------
(***************************************************************************)
(* The members of an installation and their roles (Identity Service).      *)
(* A change that could leave the installation without an admin runs in a   *)
(* transaction that first takes one advisory lock, then reads the member,  *)
(* counts the other admins if an admin is about to be lost, and commits.   *)
(* Each statement sees what is committed when it starts.                   *)
(***************************************************************************)
EXTENDS Naturals

CONSTANTS
  MemberIds,   \* ids of members, present or future
  Emails,      \* e-mail addresses
  Seed,        \* the admin the installation starts with
  Calls        \* API calls that may be in flight at the same time

ASSUME SeedAssumption == Seed \in MemberIds /\ Emails # {}

VARIABLES
  member,      \* table members
  locked,      \* the calls holding membershipLock: at most one
  call         \* the transaction of each call in flight

vars == <<member, locked, call>>

Roles == {"admin", "recruiter"}
AskedRoles == Roles \cup {"owner"}   \* what a request may ask for
Member == [email : Emails, role : Roles, removed : BOOLEAN]
Missing == [role |-> "none", removed |-> FALSE]

Idle == [phase |-> "idle"]
Transactions == [phase : {"lock", "count", "write"}, op : {"role", "remove"},
                 id : MemberIds, role : Roles]

(* Every variable has its type (store.go, db/01-schema.sql).                *)
TypeOK ==
  /\ member \in [MemberIds -> Member \cup {Missing}]
  /\ locked \subseteq Calls
  /\ call \in [Calls -> {Idle} \cup Transactions]

Active(m) == member[m] # Missing /\ ~member[m].removed
ActiveAdmin(m) == Active(m) /\ member[m].role = "admin"

(* db/02-seed.sql: one admin.                                               *)
Init ==
  /\ \E e \in Emails :
       member = [m \in MemberIds |->
         IF m = Seed THEN [email |-> e, role |-> "admin", removed |-> FALSE] ELSE Missing]
  /\ locked = {}
  /\ call = [c \in Calls |-> Idle]

-----------------------------------------------------------------------------
(* Adding a member takes no lock; an e-mail belongs to one active member.   *)
Create(m, e, role) ==
  /\ member[m] = Missing
  /\ \A n \in MemberIds : Active(n) => member[n].email # e
  /\ member' = [member EXCEPT ![m] = [email |-> e, role |-> role, removed |-> FALSE]]
  /\ UNCHANGED <<locked, call>>

Begin(c, op, m, role) ==
  /\ call[c] = Idle
  /\ call' = [call EXCEPT ![c] = [phase |-> "lock", op |-> op, id |-> m, role |-> role]]
  /\ UNCHANGED <<member, locked>>

ChangeRole(c, m, role) == role \in Roles /\ Begin(c, "role", m, role)

Remove(c, m) == Begin(c, "remove", m, "recruiter")

(* An admin is lost when an admin is removed or demoted.                    *)
LosesAdmin(t) == member[t.id].role = "admin" /\ (t.op = "remove" \/ t.role # "admin")

Go(c, phase) == call' = [call EXCEPT ![c].phase = phase]
AfterRead(c) == IF LosesAdmin(call[c]) THEN "count" ELSE "write"

(* Mutant: the advisory lock is not waited for.                             *)
ReadUnlocked(c) ==
  /\ call[c].phase = "lock"
  /\ Active(call[c].id)
  /\ locked' = locked \cup {c}
  /\ Go(c, AfterRead(c))
  /\ UNCHANGED member

(* Mutant: removed members may still be changed.                            *)
LockAnyMember(c) ==
  /\ call[c].phase = "lock"
  /\ locked = {}
  /\ member[call[c].id] # Missing
  /\ locked' = {c}
  /\ Go(c, AfterRead(c))
  /\ UNCHANGED member

(* lockActiveMember: the lock is free or comes free, and the member read    *)
(* under it is active.                                                      *)
LockActiveMember(c) ==
  /\ call[c].phase = "lock"
  /\ locked = {}
  /\ Active(call[c].id)
  /\ locked' = {c}
  /\ Go(c, AfterRead(c))
  /\ UNCHANGED member

Others(m) == {n \in MemberIds : n # m /\ ActiveAdmin(n)}

(* ensureAnotherAdmin finds another active admin.                           *)
EnsureAnotherAdmin(c) ==
  /\ call[c].phase = "count"
  /\ Others(call[c].id) # {}
  /\ Go(c, "write")
  /\ UNCHANGED <<member, locked>>

Ends(c) ==
  /\ locked' = locked \ {c}
  /\ call' = [call EXCEPT ![c] = Idle]

(* Mutant: a refused change leaves its transaction open.                    *)
RefuseOpen(c) ==
  /\ \/ call[c].phase = "lock" /\ locked = {} /\ ~Active(call[c].id)
     \/ call[c].phase = "count" /\ Others(call[c].id) = {}
  /\ call' = [call EXCEPT ![c] = Idle]
  /\ UNCHANGED <<member, locked>>

(* ErrNotFound, ErrRemoved or ErrLastAdmin: the transaction is rolled back. *)
Refuse(c) ==
  /\ \/ call[c].phase = "lock" /\ locked = {} /\ ~Active(call[c].id)
     \/ call[c].phase = "count" /\ Others(call[c].id) = {}
  /\ Ends(c)
  /\ UNCHANGED member

(* The update, and the commit that shows it and gives the lock back.        *)
Commit(c) ==
  /\ call[c].phase = "write"
  /\ LET t == call[c]
     IN  member' = [member EXCEPT ![t.id] =
           IF t.op = "remove" THEN [@ EXCEPT !.removed = TRUE]
                              ELSE [@ EXCEPT !.role = t.role]]
  /\ Ends(c)

(* The database or the service fails: the transaction is rolled back.       *)
Fail(c) ==
  /\ call[c] # Idle
  /\ Ends(c)
  /\ UNCHANGED member

Proceed(c) == LockActiveMember(c) \/ EnsureAnotherAdmin(c) \/ Refuse(c) \/ Commit(c)

Next ==
  \/ \E m \in MemberIds, e \in Emails, role \in Roles : Create(m, e, role)
  \/ \E c \in Calls :
       \/ \E m \in MemberIds :
            \/ \E role \in AskedRoles : ChangeRole(c, m, role)
            \/ Remove(c, m)
       \/ Proceed(c)
       \/ Fail(c)

Safe == Init /\ [][Next]_vars

(* PostgreSQL executes the statements of a transaction it has, and grants   *)
(* an advisory lock to its waiters in the order they came.                  *)
Spec == Safe /\ \A c \in Calls : SF_vars(Proceed(c))

-----------------------------------------------------------------------------
(* Properties.                                                              *)

(* FR-6.3: an active admin remains, whatever changes are made at the same   *)
(* moment.                                                                  *)
AdminRemains == \E m \in MemberIds : ActiveAdmin(m)

(* FR-6.2: a removed member's record stays as it was: no change that passed *)
(* its check before the removal is written after it.                        *)
RemovedStays ==
  [][\A m \in MemberIds :
       member[m] # Missing /\ member[m].removed => member'[m] = member[m]]_vars

(* No call waits for the lock, or holds it, for ever.                       *)
EveryCallEnds == \A c \in Calls : (call[c] # Idle) ~> (call[c] = Idle)
=============================================================================
