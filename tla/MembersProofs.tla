--------------------------- MODULE MembersProofs ---------------------------
(***************************************************************************)
(* Proofs about Members, for every number of members and of calls: an      *)
(* active admin always remains, and the record of a removed member never   *)
(* changes.  Neither is inductive: what a transaction found under the lock *)
(* must still be so when it commits, which is what the lock is for.        *)
(***************************************************************************)
EXTENDS Members, TLAPS

USE DEF Idle, Missing, Roles

InTransaction(c) == call[c].phase \in {"count", "write"}

(* A call past the lock holds it, and nobody else does.                     *)
LockHeld == \A c \in Calls : InTransaction(c) => locked = {c}

(* The member a transaction has read is active still.                       *)
FoundActive == \A c \in Calls : InTransaction(c) => Active(call[c].id)

(* A transaction about to lose an admin has found another, who is still one.*)
AnotherFound ==
  \A c \in Calls :
    call[c].phase = "write" /\ LosesAdmin(call[c]) => Others(call[c].id) # {}

Inv ==
  /\ TypeOK
  /\ LockHeld
  /\ FoundActive
  /\ AnotherFound
  /\ AdminRemains

KeepsRemoved ==
  \A m \in MemberIds : member[m] # Missing /\ member[m].removed => member'[m] = member[m]

-----------------------------------------------------------------------------
(* Steps that leave the members alone and at most move calls on.            *)

(* Every other call is where it was.                                        *)
OnlyMoves(c) == \A d \in Calls : d # c => call'[d] = call[d]

LEMMA EndStep ==
  ASSUME Inv, NEW c \in Calls, Ends(c), UNCHANGED member
  PROVE  Inv' /\ KeepsRemoved
<1>1. \A d \in Calls : call'[d] = IF d = c THEN Idle ELSE call[d]
  BY DEF Inv, TypeOK, Ends
<1>2. TypeOK'
  BY DEF Inv, TypeOK, Ends
<1>3. LockHeld'
  BY <1>1 DEF Inv, LockHeld, InTransaction, Ends
<1>4. FoundActive' /\ AnotherFound' /\ AdminRemains'
  BY <1>1 DEF Inv, FoundActive, InTransaction, AnotherFound, AdminRemains, LosesAdmin, Others,
              ActiveAdmin, Active
<1> QED BY <1>2, <1>3, <1>4 DEF Inv, KeepsRemoved

LEMMA BeginStep ==
  ASSUME Inv, NEW c \in Calls, NEW m \in MemberIds, NEW op \in {"role", "remove"},
         NEW role \in Roles, Begin(c, op, m, role)
  PROVE  Inv' /\ KeepsRemoved
<1>1. \A d \in Calls :
        call'[d] = IF d = c THEN [phase |-> "lock", op |-> op, id |-> m, role |-> role] ELSE call[d]
  BY DEF Inv, TypeOK, Begin
<1>2. TypeOK'
  BY DEF Inv, TypeOK, Begin, Transactions
<1>3. member' = member /\ locked' = locked
  BY DEF Begin
<1>4. LockHeld' /\ FoundActive' /\ AnotherFound' /\ AdminRemains'
  BY <1>1, <1>3 DEF Inv, LockHeld, FoundActive, InTransaction, AnotherFound, AdminRemains,
                    LosesAdmin, Others, ActiveAdmin, Active
<1> QED BY <1>2, <1>3, <1>4 DEF Inv, KeepsRemoved

(* A call moves on to a phase it may be in under the lock.                  *)
LEMMA GoStep ==
  ASSUME Inv, NEW c \in Calls, NEW phase \in {"count", "write"}, Go(c, phase),
         UNCHANGED member, locked' = {c}, call[c] \in Transactions,
         locked \subseteq {c},
         Active(call[c].id),
         phase = "write" /\ LosesAdmin(call[c]) => Others(call[c].id) # {}
  PROVE  Inv' /\ KeepsRemoved
<1>1. [call[c] EXCEPT !.phase = phase] \in Transactions
  BY DEF Transactions
<1>2. TypeOK'
  BY <1>1 DEF Inv, TypeOK, Go
<1>3. /\ call'[c].phase = phase /\ call'[c].op = call[c].op
      /\ call'[c].id = call[c].id /\ call'[c].role = call[c].role
  BY DEF Inv, TypeOK, Go, Transactions
<1>4. OnlyMoves(c)
  BY DEF Inv, TypeOK, Go, OnlyMoves
<1>5. \A d \in Calls : d # c => ~InTransaction(d)
  BY DEF Inv, LockHeld
<1>6. LockHeld'
  BY <1>4, <1>5 DEF LockHeld, InTransaction, OnlyMoves
<1>7. FoundActive'
  BY <1>3, <1>4, <1>5 DEF FoundActive, InTransaction, OnlyMoves, Active
<1>8. AnotherFound'
  BY <1>3, <1>4 DEF Inv, AnotherFound, OnlyMoves, LosesAdmin, Others, ActiveAdmin, Active
<1>9. AdminRemains'
  BY DEF Inv, AdminRemains, ActiveAdmin, Active
<1> QED BY <1>2, <1>6, <1>7, <1>8, <1>9 DEF Inv, KeepsRemoved

-----------------------------------------------------------------------------
(* Steps that change the members.                                           *)

LEMMA CreateStep ==
  ASSUME Inv, NEW m \in MemberIds, NEW e \in Emails, NEW role \in Roles, Create(m, e, role)
  PROVE  Inv' /\ KeepsRemoved
<1>1. \A n \in MemberIds :
        member'[n] = IF n = m THEN [email |-> e, role |-> role, removed |-> FALSE] ELSE member[n]
  BY DEF Inv, TypeOK, Create
<1>2. call' = call /\ locked' = locked
  BY DEF Create
<1>3. TypeOK'
  BY DEF Inv, TypeOK, Create, Member
<1>4. \A n \in MemberIds : Active(n) => n # m /\ member'[n] = member[n] /\ Active(n)'
  BY <1>1 DEF Create, Active
<1>5. \A n \in MemberIds : ActiveAdmin(n) => ActiveAdmin(n)'
  BY <1>4 DEF ActiveAdmin
<1>6. LockHeld' /\ FoundActive'
  BY <1>2, <1>4 DEF Inv, LockHeld, FoundActive, InTransaction, TypeOK, Transactions
<1>7. AnotherFound'
  <2>1. SUFFICES ASSUME NEW c \in Calls, call[c].phase = "write", LosesAdmin(call[c])'
                 PROVE  Others(call[c].id)' # {}
    BY <1>2 DEF AnotherFound, LosesAdmin
  <2>2. call[c] \in Transactions /\ Active(call[c].id)
    BY <2>1 DEF Inv, TypeOK, FoundActive, InTransaction
  <2>3. LosesAdmin(call[c])
    BY <1>2, <1>4, <2>1, <2>2 DEF LosesAdmin, Transactions
  <2>4. Others(call[c].id) # {}
    BY <2>1, <2>3 DEF Inv, AnotherFound
  <2> QED BY <1>2, <1>5, <2>4 DEF Others
<1>8. AdminRemains'
  BY <1>5 DEF Inv, AdminRemains
<1>9. KeepsRemoved
  BY <1>1 DEF KeepsRemoved, Create
<1> QED BY <1>3, <1>6, <1>7, <1>8, <1>9 DEF Inv

LEMMA CommitStep ==
  ASSUME Inv, NEW c \in Calls, Commit(c)
  PROVE  Inv' /\ KeepsRemoved
<1> DEFINE t == call[c]
<1>1. t \in Transactions /\ t.phase = "write" /\ InTransaction(c)
  BY DEF Inv, TypeOK, Commit, InTransaction
<1>2. t.id \in MemberIds /\ Active(t.id) /\ member[t.id] \in Member
  BY <1>1 DEF Inv, TypeOK, FoundActive, Active, Transactions
<1>3. \A n \in MemberIds : n # t.id => member'[n] = member[n]
  BY DEF Inv, TypeOK, Commit
<1>4. /\ member'[t.id] \in Member
      /\ t.op = "remove" => member'[t.id].removed
      /\ t.op # "remove" => ~member'[t.id].removed /\ member'[t.id].role = t.role
  BY <1>1, <1>2 DEF Inv, TypeOK, Commit, Member, Transactions, Active
<1>5. \A d \in Calls : call'[d] = IF d = c THEN Idle ELSE call[d]
  BY DEF Inv, TypeOK, Commit, Ends
<1>6. \A d \in Calls : ~(InTransaction(d)')
  BY <1>1, <1>5 DEF Inv, LockHeld, InTransaction
<1>7. LockHeld' /\ FoundActive' /\ AnotherFound'
  BY <1>6 DEF LockHeld, FoundActive, AnotherFound, InTransaction
<1>8. TypeOK'
  <2>1. member' \in [MemberIds -> Member \cup {Missing}]
    BY <1>2, <1>3, <1>4 DEF Inv, TypeOK, Commit
  <2> QED BY <2>1 DEF Inv, TypeOK, Commit, Ends
<1>9. AdminRemains'
  <2>1. CASE LosesAdmin(t)
    <3>1. PICK n \in MemberIds : n # t.id /\ ActiveAdmin(n)
      BY <1>1, <2>1 DEF Inv, AnotherFound, Others
    <3>2. ActiveAdmin(n)'
      BY <1>3, <3>1 DEF ActiveAdmin, Active
    <3> QED BY <3>2 DEF AdminRemains
  <2>2. CASE ~LosesAdmin(t)
    <3>1. PICK n \in MemberIds : ActiveAdmin(n)
      BY DEF Inv, AdminRemains
    <3>2. CASE n # t.id
      BY <1>3, <3>1, <3>2 DEF AdminRemains, ActiveAdmin, Active
    <3>3. CASE n = t.id
      <4>1. t.op # "remove" /\ t.role = "admin"
        BY <2>2, <3>1, <3>3 DEF LosesAdmin, ActiveAdmin
      <4>2. ActiveAdmin(n)'
        BY <1>4, <3>3, <4>1 DEF ActiveAdmin, Active, Member, Inv, TypeOK
      <4> QED BY <4>2 DEF AdminRemains
    <3> QED BY <3>2, <3>3
  <2> QED BY <2>1, <2>2
<1>10. KeepsRemoved
  BY <1>2, <1>3 DEF KeepsRemoved, Active
<1> QED BY <1>7, <1>8, <1>9, <1>10 DEF Inv

-----------------------------------------------------------------------------
LEMMA Step ==
  ASSUME Inv, [Next]_vars
  PROVE  Inv' /\ KeepsRemoved
<1>1. CASE UNCHANGED vars
  BY <1>1 DEF vars, Inv, TypeOK, LockHeld, FoundActive, InTransaction, AnotherFound,
              AdminRemains, LosesAdmin, Others, ActiveAdmin, Active, KeepsRemoved
<1>2. ASSUME NEW c \in Calls, NEW m \in MemberIds,
             (\E role \in AskedRoles : ChangeRole(c, m, role)) \/ Remove(c, m)
      PROVE  Inv' /\ KeepsRemoved
  BY <1>2, BeginStep DEF ChangeRole, Remove
<1>3. ASSUME NEW c \in Calls, LockActiveMember(c)
      PROVE  Inv' /\ KeepsRemoved
  <2>1. call[c] \in Transactions
    BY <1>3 DEF Inv, TypeOK, LockActiveMember
  <2>2. AfterRead(c) \in {"count", "write"}
        /\ (AfterRead(c) = "write" => ~LosesAdmin(call[c]))
    BY DEF AfterRead
  <2> QED BY <1>3, <2>1, <2>2, GoStep DEF LockActiveMember
<1>4. ASSUME NEW c \in Calls, EnsureAnotherAdmin(c)
      PROVE  Inv' /\ KeepsRemoved
  <2>1. call[c] \in Transactions /\ locked = {c} /\ Active(call[c].id)
    BY <1>4 DEF Inv, TypeOK, LockHeld, FoundActive, InTransaction, EnsureAnotherAdmin
  <2> QED BY <1>4, <2>1, GoStep DEF EnsureAnotherAdmin
<1>5. ASSUME NEW c \in Calls, Refuse(c) \/ Fail(c)
      PROVE  Inv' /\ KeepsRemoved
  BY <1>5, EndStep DEF Refuse, Fail
<1> QED BY <1>1, <1>2, <1>3, <1>4, <1>5, CreateStep, CommitStep DEF Next, Proceed

LEMMA Start == Init => Inv
<1> SUFFICES ASSUME Init PROVE Inv
  OBVIOUS
<1>1. PICK e \in Emails :
        member = [m \in MemberIds |->
          IF m = Seed THEN [email |-> e, role |-> "admin", removed |-> FALSE] ELSE Missing]
  BY DEF Init
<1>2. ActiveAdmin(Seed)
  BY <1>1, SeedAssumption DEF ActiveAdmin, Active
<1> QED BY <1>1, <1>2, SeedAssumption
        DEF Init, Inv, TypeOK, Member, LockHeld, FoundActive, InTransaction, AnotherFound,
            AdminRemains

(* Every reachable state is well typed.                                     *)
THEOREM TypeCorrect == Safe => []TypeOK
<1>1. Inv => TypeOK
  BY DEF Inv
<1> QED BY <1>1, Start, Step, PTL DEF Safe

(* FR-6.3, for any number of members and of changes made at the same time.  *)
THEOREM LastAdminStays == Safe => []AdminRemains
<1>1. Inv => AdminRemains
  BY DEF Inv
<1> QED BY <1>1, Start, Step, PTL DEF Safe

(* FR-6.2: what is known of a removed member stays.                         *)
THEOREM RemovedRecordStays == Safe => RemovedStays
<1>1. Inv /\ [Next]_vars => Inv' /\ [KeepsRemoved]_vars
  BY Step
<1> QED BY <1>1, Start, PTL DEF Safe, RemovedStays, KeepsRemoved
=============================================================================
