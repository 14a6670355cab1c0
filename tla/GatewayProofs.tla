--------------------------- MODULE GatewayProofs ---------------------------
(***************************************************************************)
(* What the gateway promises, for any members, addresses, rates, bursts    *)
(* and lifetimes of tokens:                                                *)
(*   - its limiter, which forgets idle callers, limits like one that never *)
(*     does, because a bucket that has been idle for the TTL is full       *)
(*     (RateLimiterAssumption),                                            *)
(*   - what a forwarded token says was true less than a token's lifetime   *)
(*     and an answer's time ago,                                           *)
(*   - no valid token is refused while the key is replaced.                *)
(***************************************************************************)
EXTENDS Gateway, TLAPS

(* A request is looked at and turned away before the limiter.               *)
TurnedAway ==
  \E path \in Paths, t \in tokens \cup {NoToken} :
    NotFound(path, t) \/ Unauthenticated(path, t) \/ WrongRole(path, t)

-----------------------------------------------------------------------------
(* Types.                                                                   *)

LEMMA SignInTyped ==
  ASSUME TypeOK, NEW m \in MemberIds, issuing[m].op = "sign-in"
  PROVE  /\ issuing[m] \in SignIns
         /\ issuing[m].role \in StoredRoles /\ issuing[m].since \in Nat
<1>1. issuing[m] \in {Nothing} \cup SignIns \cup Refreshes
  BY DEF TypeOK
<1>2. issuing[m] # Nothing /\ issuing[m] \notin Refreshes
  BY DEF Nothing, Refreshes
<1>3. issuing[m] \in SignIns
  BY <1>1, <1>2
<1> QED BY <1>3 DEF SignIns

LEMMA RefreshTyped ==
  ASSUME TypeOK, NEW m \in MemberIds, issuing[m].op = "refresh"
  PROVE  /\ issuing[m] \in Refreshes
         /\ issuing[m].rotated \in BOOLEAN /\ issuing[m].since \in Nat
<1>1. issuing[m] \in {Nothing} \cup SignIns \cup Refreshes
  BY DEF TypeOK
<1>2. issuing[m] # Nothing /\ issuing[m] \notin SignIns
  BY DEF Nothing, SignIns
<1>3. issuing[m] \in Refreshes
  BY <1>1, <1>2
<1> QED BY <1>3 DEF Refreshes

LEMMA MintTyped ==
  ASSUME TypeOK, NEW m \in MemberIds, NEW role \in StoredRoles, NEW from \in Nat,
         Mint(m, role, from)
  PROVE  tokens' \subseteq AccessTokens
<1>1. ClaimRole(role) \in ClaimRoles
  BY DEF ClaimRole, ClaimRoles
<1>2. signer.kid \in KeyIds /\ signer.key \in PublicKeys
  BY DEF TypeOK, Signers
<1>3. from + AccessTTL \in Nat
  BY GatewayAssumption
<1>4. [sub |-> m, role |-> ClaimRole(role), exp |-> from + AccessTTL,
       kid |-> signer.kid, key |-> signer.key] \in AccessTokens
  BY <1>1, <1>2, <1>3 DEF AccessTokens
<1> QED BY <1>4 DEF Mint, TypeOK

LEMMA CallerTyped ==
  ASSUME TypeOK, NEW path \in Paths, NEW t \in tokens \cup {NoToken}, NEW address \in Addresses,
         Admitted(Match(path), t)
  PROVE  LimitKey(Who(Match(path), t), address) \in Callers
<1> DEFINE who == Who(Match(path), t)
<1>1. who = NoMember \/ who \in MemberIds
  <2>1. Match(path).needs = "public" \/ t \in AccessTokens
    BY DEF Admitted, Verify, TypeOK
  <2> QED BY <2>1 DEF Who, AccessTokens
<1> HIDE DEF who
<1>2. <<"addr", address>> \in Callers
  BY DEF Callers
<1>3. who # NoMember => <<"member", who>> \in Callers
  BY <1>1 DEF Callers
<1>4. LimitKey(who, address) \in Callers
  BY <1>2, <1>3 DEF LimitKey
<1> QED BY <1>4 DEF who

(* The limiter keeps buckets, whoever asks.                                 *)
LEMMA TokensBounded ==
  ASSUME now \in Nat, NEW b \in Buckets, b.last <= now, b.tokens <= Burst
  PROVE  Tokens(b) \in Nat /\ Tokens(b) <= Burst
<1>1. b.tokens \in Nat /\ now - b.last \in Nat /\ Rate \in Nat /\ Burst \in Nat
  BY RateLimiterAssumption DEF Buckets
<1>2. Rate * (now - b.last) \in Nat
  BY <1>1
<1> QED BY <1>1, <1>2 DEF Tokens, NoMoreThanBurst

(* Every bucket in use was used last no earlier than it was last drawn from.*)
InUse(b) == b.known => b.last <= b.lastUse /\ b.lastUse <= now /\ b.tokens <= Burst
BucketsOK == \A c \in Callers : InUse(buckets[c])

(* A bucket that is dropped was full: nobody gains by it.                   *)
LEMMA IdleIsFull ==
  ASSUME now \in Nat, NEW b \in Buckets, b.known, InUse(b), Idle(b)
  PROVE  Tokens(b) = Burst
<1>1. /\ b.tokens \in Nat /\ b.last \in Nat /\ b.lastUse \in Nat
      /\ Rate \in Nat /\ Burst \in Nat /\ IdleBucketTTL \in Nat
  BY RateLimiterAssumption DEF Buckets
<1>2. now - b.last >= IdleBucketTTL
  BY <1>1 DEF InUse, Idle
<1> DEFINE gone == now - b.last
<1>3. gone \in Nat /\ gone >= IdleBucketTTL
  BY <1>1, <1>2 DEF InUse
<1> HIDE DEF gone
<1>4. Rate * gone >= Rate * IdleBucketTTL
  BY <1>1, <1>3
<1>5. Rate * gone >= Burst /\ Rate * gone \in Nat
  BY <1>1, <1>3, <1>4, RateLimiterAssumption
<1> QED BY <1>1, <1>5 DEF Tokens, NoMoreThanBurst, gone

BudgetOf(b) == IF b.known THEN Tokens(b) ELSE Burst

(* What allow works on: the buckets of the others are worth what they were, *)
(* and the caller has one that is worth what it was.                        *)
LEMMA EvictedIsFull ==
  ASSUME now \in Nat, buckets \in [Callers -> Buckets], BucketsOK, NEW c \in Callers
  PROVE  /\ WithBucket(c) \in [Callers -> Buckets]
         /\ \A d \in Callers : /\ InUse(WithBucket(c)[d])
                               /\ BudgetOf(WithBucket(c)[d]) = BudgetOf(buckets[d])
         /\ WithBucket(c)[c].known
<1>1. Burst \in Nat /\ Rate \in Nat
  BY RateLimiterAssumption
<1>2. NewBucket \in Buckets /\ NewBucket.known /\ InUse(NewBucket)
  BY <1>1 DEF NewBucket, Buckets, InUse
<1>3. NoBucket \in Buckets /\ ~NoBucket.known
  BY DEF NoBucket, Buckets
<1>4. BudgetOf(NewBucket) = Burst /\ BudgetOf(NoBucket) = Burst
  <2>1. NewBucket.tokens = Burst /\ NewBucket.last = now
    BY DEF NewBucket
  <2>2. Rate * (now - now) = 0
    BY <1>1
  <2>3. Tokens(NewBucket) = Burst
    BY <1>1, <2>1, <2>2 DEF Tokens, NoMoreThanBurst
  <2> QED BY <1>2, <1>3, <2>3 DEF BudgetOf
<1>5. CASE buckets[c].known
  BY <1>5 DEF WithBucket, BucketsOK
<1>6. CASE ~buckets[c].known
  <2>1. /\ EvictIdle \in [Callers -> Buckets]
        /\ \A d \in Callers : EvictIdle[d] = buckets[d] \/ EvictIdle[d] = NoBucket
        /\ \A d \in Callers : EvictIdle[d] # buckets[d] => buckets[d].known /\ Idle(buckets[d])
    BY <1>3 DEF EvictIdle
  <2>2. /\ WithBucket(c) \in [Callers -> Buckets] /\ WithBucket(c)[c] = NewBucket
        /\ \A d \in Callers : d # c => WithBucket(c)[d] = EvictIdle[d]
    BY <1>2, <1>6, <2>1 DEF WithBucket
  <2>3. \A d \in Callers : d # c => BudgetOf(EvictIdle[d]) = BudgetOf(buckets[d])
                                    /\ InUse(EvictIdle[d])
    <3> SUFFICES ASSUME NEW d \in Callers
                 PROVE  BudgetOf(EvictIdle[d]) = BudgetOf(buckets[d]) /\ InUse(EvictIdle[d])
      OBVIOUS
    <3>1. InUse(buckets[d]) /\ buckets[d] \in Buckets
      BY DEF BucketsOK
    <3>2. CASE EvictIdle[d] = buckets[d]
      BY <3>1, <3>2
    <3>3. CASE EvictIdle[d] # buckets[d]
      <4>1. EvictIdle[d] = NoBucket /\ buckets[d].known /\ Idle(buckets[d])
        BY <2>1, <3>3
      <4>2. BudgetOf(buckets[d]) = Burst
        BY <3>1, <4>1, IdleIsFull DEF BudgetOf
      <4> QED BY <1>3, <1>4, <4>1, <4>2 DEF InUse
    <3> QED BY <3>2, <3>3
  <2>4. BudgetOf(buckets[c]) = Burst
    BY <1>6 DEF BudgetOf
  <2> QED BY <1>2, <1>4, <2>2, <2>3, <2>4
<1> QED BY <1>5, <1>6

(* allow: the caller is allowed when it has a budget, and only its own      *)
(* budget is spent.                                                         *)
LEMMA LimiterStep ==
  ASSUME now \in Nat, now' = now, buckets \in [Callers -> Buckets], BucketsOK,
         NEW c \in Callers, NEW allowed \in BOOLEAN, LimiterAllows(c, allowed)
  PROVE  /\ buckets' \in [Callers -> Buckets] /\ BucketsOK'
         /\ BudgetOf(buckets[c]) \in Nat /\ BudgetOf(buckets[c]) <= Burst
         /\ allowed => /\ BudgetOf(buckets[c]) >= 1
                       /\ BudgetOf(buckets[c])' = BudgetOf(buckets[c]) - 1
         /\ ~allowed => /\ BudgetOf(buckets[c]) < 1
                        /\ BudgetOf(buckets[c])' = BudgetOf(buckets[c])
         /\ \A d \in Callers : d # c => BudgetOf(buckets[d])' = BudgetOf(buckets[d])
<1> DEFINE W == WithBucket(c)
           b == W[c]
           spent == [known |-> TRUE, tokens |-> Tokens(b) - 1, last |-> now, lastUse |-> now]
           kept == [b EXCEPT !.lastUse = now]
           new == IF allowed THEN spent ELSE kept
<1>1. /\ W \in [Callers -> Buckets]
      /\ \A d \in Callers : InUse(W[d]) /\ BudgetOf(W[d]) = BudgetOf(buckets[d])
      /\ b.known
  BY EvictedIsFull
<1>2. allowed = (Tokens(b) >= 1) /\ buckets' = [W EXCEPT ![c] = new]
  BY DEF LimiterAllows
<1>3. Burst \in Nat /\ Rate \in Nat
  BY RateLimiterAssumption
<1> HIDE DEF W
<1>4. /\ b \in Buckets /\ b.known /\ InUse(b)
      /\ b.tokens \in Nat /\ b.last \in Nat /\ b.last <= now /\ b.tokens <= Burst
  <2>1. b \in Buckets /\ b.known /\ InUse(b)
    BY <1>1
  <2> QED BY <2>1 DEF Buckets, InUse
<1> HIDE DEF b
<1>5. Tokens(b) \in Nat /\ Tokens(b) <= Burst
  BY <1>4, TokensBounded
<1>6. BudgetOf(buckets[c]) = Tokens(b)
  BY <1>1, <1>4 DEF BudgetOf, b
<1>7. ASSUME allowed
      PROVE  spent \in Buckets /\ InUse(spent) /\ Tokens(spent) = Tokens(b) - 1
  <2>0. Tokens(b) >= 1
    BY <1>2, <1>7, Zenon
  <2>1. Tokens(b) - 1 \in Nat /\ Tokens(b) - 1 <= Burst
    BY <1>3, <1>5, <2>0
  <2>2. spent \in Buckets /\ InUse(spent)
    BY <2>1 DEF Buckets, InUse
  <2>3. Rate * (now - now) = 0
    BY <1>3
  <2>4. spent.tokens = Tokens(b) - 1 /\ spent.last = now
    OBVIOUS
  <2>5. Tokens(spent) = NoMoreThanBurst(Tokens(b) - 1)
    BY <2>1, <2>3, <2>4 DEF Tokens
  <2> QED BY <1>3, <2>1, <2>2, <2>5 DEF NoMoreThanBurst
<1>8. kept \in Buckets /\ InUse(kept) /\ kept.known /\ Tokens(kept) = Tokens(b)
  <2>1. kept \in Buckets /\ kept.tokens = b.tokens /\ kept.last = b.last /\ kept.lastUse = now
        /\ kept.known = b.known
    BY <1>4 DEF Buckets
  <2> QED BY <1>4, <2>1 DEF InUse, Tokens
<1> DEFINE rest == IF allowed THEN Tokens(b) - 1 ELSE Tokens(b)
<1>9. new \in Buckets /\ InUse(new) /\ BudgetOf(new) = rest
  <2>1. CASE allowed
    BY <1>7, <2>1 DEF BudgetOf
  <2>2. CASE ~allowed
    BY <1>8, <2>2 DEF BudgetOf
  <2> QED BY <2>1, <2>2
<1> HIDE DEF new, spent, kept
<1>10. /\ buckets' \in [Callers -> Buckets] /\ buckets'[c] = new
       /\ \A d \in Callers : d # c => buckets'[d] = W[d]
  BY <1>1, <1>2, <1>9
<1>11. \A d \in Callers : BudgetOf(buckets[d])' = BudgetOf(buckets'[d])
                          /\ (InUse(buckets[d])' <=> InUse(buckets'[d]))
  BY DEF BudgetOf, InUse, Tokens
<1>12. BucketsOK'
  BY <1>1, <1>9, <1>10, <1>11 DEF BucketsOK
<1>13. BudgetOf(buckets[c])' = rest
  BY <1>9, <1>10, <1>11
<1>14. \A d \in Callers : d # c => BudgetOf(buckets[d])' = BudgetOf(buckets[d])
  BY <1>1, <1>10, <1>11
<1>15. /\ allowed => Tokens(b) >= 1 /\ rest = Tokens(b) - 1
       /\ ~allowed => ~(Tokens(b) >= 1) /\ rest = Tokens(b)
  BY <1>2, Zenon
<1>16. ~(Tokens(b) >= 1) => Tokens(b) < 1
  BY <1>5
<1> HIDE DEF rest
<1> QED BY <1>5, <1>6, <1>10, <1>12, <1>13, <1>14, <1>15, <1>16

-----------------------------------------------------------------------------
(* The types, and buckets that were used no later than now, are kept.       *)
LimiterInv == TypeOK /\ BucketsOK

LEMMA InitLimiter == Init => LimiterInv
<1> SUFFICES ASSUME Init PROVE LimiterInv
  OBVIOUS
<1> USE DEF Init
<1>1. buckets \in [Callers -> Buckets]
  BY DEF NewRateLimiter, NoBucket, Buckets
<1>2. BucketsOK
  BY DEF NewRateLimiter, NoBucket, BucketsOK, InUse
<1>3. member \in [MemberIds -> [role : StoredRoles, removed : BOOLEAN]]
  <2>1. [role : StoredRoles, removed : {FALSE}] \subseteq [role : StoredRoles, removed : BOOLEAN]
    OBVIOUS
  <2> QED BY <2>1
<1>4. /\ held \in [MemberIds -> [StoredRoles -> Nat]]
      /\ issuing \in [MemberIds -> {Nothing} \cup SignIns \cup Refreshes]
      /\ now \in Nat
  BY DEF Never
<1>5. signer \in Signers
  BY DEF Signers, KeyIds, PublicKeys
<1>6. keys \in [KeyIds -> PublicKeys \cup {NoKey}]
  BY DEF KeySet, KeyIds, PublicKeys, NoKey
<1>7. rotation \in [phase : {"one key", "two keys", "signing", "done"}, since : Nat]
  BY DEF Never
<1>8. tokens \subseteq AccessTokens
  OBVIOUS
<1> QED BY <1>1, <1>2, <1>3, <1>4, <1>5, <1>6, <1>7, <1>8 DEF LimiterInv, TypeOK

(* A step that leaves the limiter and the clock alone leaves the buckets in *)
(* order.                                                                   *)
LEMMA BucketsUntouched ==
  ASSUME BucketsOK, buckets' = buckets, now' = now
  PROVE  BucketsOK'
BY DEF BucketsOK, InUse

LEMMA BucketsForgotten ==
  ASSUME now \in Nat, now' = now, buckets' = NewRateLimiter
  PROVE  /\ buckets' \in [Callers -> Buckets] /\ BucketsOK'
         /\ \A c \in Callers : BudgetOf(buckets[c])' = Burst
<1>1. /\ buckets' \in [Callers -> Buckets]
      /\ \A c \in Callers : ~buckets'[c].known
  BY DEF NewRateLimiter, NoBucket, Buckets
<1> QED BY <1>1 DEF BucketsOK, InUse, BudgetOf

LEMMA BucketsLater ==
  ASSUME now \in Nat, now' = now + 1, buckets \in [Callers -> Buckets], BucketsOK,
         buckets' = buckets
  PROVE  BucketsOK'
BY DEF BucketsOK, InUse, Buckets

LEMMA MemberSteps ==
  ASSUME LimiterInv, NEW m \in MemberIds,
         \/ IssueAtSignIn(m) \/ Rotate(m) \/ IssueAtRefresh(m) \/ Unanswered(m) \/ RemoveMember(m)
         \/ \E role \in StoredRoles : ChangeRole(m, role)
  PROVE  LimiterInv'
<1> USE DEF LimiterInv
<1>1. CASE IssueAtSignIn(m)
  <2>1. issuing[m].role \in StoredRoles
    BY <1>1, SignInTyped DEF IssueAtSignIn
  <2>2. Mint(m, issuing[m].role, now) /\ now \in Nat
    BY <1>1 DEF IssueAtSignIn, Issue, TypeOK
  <2>3. tokens' \subseteq AccessTokens
    BY <2>1, <2>2, MintTyped
  <2>4. UNCHANGED <<now, buckets, member, held, signer, keys, rotation>>
        /\ issuing' = [issuing EXCEPT ![m] = Nothing]
    BY <1>1 DEF IssueAtSignIn, Issue, keyVars
  <2> QED BY <2>3, <2>4, BucketsUntouched DEF TypeOK
<1>2. CASE IssueAtRefresh(m)
  <2>1. member[m].role \in StoredRoles /\ issuing[m].since \in Nat
    BY <1>2, RefreshTyped DEF IssueAtRefresh, TypeOK
  <2>2. Mint(m, member[m].role, issuing[m].since)
    BY <1>2 DEF IssueAtRefresh, Issue
  <2>3. tokens' \subseteq AccessTokens
    BY <2>1, <2>2, MintTyped
  <2>4. UNCHANGED <<now, buckets, member, held, signer, keys, rotation>>
        /\ issuing' = [issuing EXCEPT ![m] = Nothing]
    BY <1>2 DEF IssueAtRefresh, Issue, keyVars
  <2> QED BY <2>3, <2>4, BucketsUntouched DEF TypeOK
<1>3. CASE Rotate(m)
  <2>1. issuing[m] \in Refreshes
    BY <1>3, RefreshTyped DEF Rotate
  <2>2. [issuing[m] EXCEPT !.rotated = TRUE] \in Refreshes
    BY <2>1 DEF Refreshes
  <2>3. issuing' \in [MemberIds -> {Nothing} \cup SignIns \cup Refreshes]
    BY <1>3, <2>2 DEF Rotate, TypeOK
  <2>4. UNCHANGED <<now, buckets, member, held, tokens, signer, keys, rotation>>
    BY <1>3 DEF Rotate, keyVars
  <2> QED BY <2>3, <2>4, BucketsUntouched DEF TypeOK
<1>4. CASE Unanswered(m)
  <2>1. UNCHANGED <<now, buckets, member, held, tokens, signer, keys, rotation>>
        /\ issuing' = [issuing EXCEPT ![m] = Nothing]
    BY <1>4 DEF Unanswered, keyVars
  <2> QED BY <2>1, BucketsUntouched DEF TypeOK
<1>5. CASE RemoveMember(m)
  <2>1. UNCHANGED <<now, buckets, issuing, tokens, signer, keys, rotation>>
    BY <1>5 DEF RemoveMember, keyVars
  <2>2. member[m].role \in StoredRoles /\ now \in Nat
    BY DEF TypeOK
  <2>3. member' \in [MemberIds -> [role : StoredRoles, removed : BOOLEAN]]
    <3>1. [member[m] EXCEPT !.removed = TRUE] \in [role : StoredRoles, removed : BOOLEAN]
      BY DEF TypeOK
    <3> QED BY <1>5, <3>1 DEF RemoveMember, TypeOK
  <2>4. held' \in [MemberIds -> [StoredRoles -> Nat]]
    BY <1>5, <2>2 DEF RemoveMember, TypeOK
  <2> QED BY <2>1, <2>3, <2>4, BucketsUntouched DEF TypeOK
<1>6. ASSUME NEW role \in StoredRoles, ChangeRole(m, role)
      PROVE  LimiterInv'
  <2>1. UNCHANGED <<now, buckets, issuing, tokens, signer, keys, rotation>>
    BY <1>6 DEF ChangeRole, keyVars
  <2>2. member[m].role \in StoredRoles /\ now \in Nat
    BY DEF TypeOK
  <2>3. member' \in [MemberIds -> [role : StoredRoles, removed : BOOLEAN]]
    <3>1. [member[m] EXCEPT !.role = role] \in [role : StoredRoles, removed : BOOLEAN]
      BY DEF TypeOK
    <3>2. member' = [member EXCEPT ![m] = [member[m] EXCEPT !.role = role]]
      BY <1>6 DEF ChangeRole
    <3> QED BY <3>1, <3>2 DEF TypeOK
  <2>4. held' \in [MemberIds -> [StoredRoles -> Nat]]
    BY <1>6, <2>2 DEF ChangeRole, TypeOK
  <2> QED BY <2>1, <2>3, <2>4, BucketsUntouched DEF TypeOK
<1> QED BY <1>1, <1>2, <1>3, <1>4, <1>5, <1>6

LEMMA KeySetTyped ==
  ASSUME NEW config, \A kid \in DOMAIN config : config[kid] \in PublicKeys
  PROVE  KeySet(config) \in [KeyIds -> PublicKeys \cup {NoKey}]
BY DEF KeySet

LEMMA KeySteps ==
  ASSUME LimiterInv, AddKey \/ SignWithNewKey \/ RemoveOldKey
  PROVE  LimiterInv'
<1> USE DEF LimiterInv
<1>1. CASE AddKey
  <2> DEFINE config == [kid \in {signer.kid, "second"} |-> IF kid = "second" THEN 2 ELSE 1]
  <2>1. KeySet(config) \in [KeyIds -> PublicKeys \cup {NoKey}]
    BY KeySetTyped DEF PublicKeys
  <2>2. keys' = KeySet(config) /\ buckets' = NewRateLimiter
        /\ UNCHANGED <<now, member, held, issuing, tokens, signer>>
        /\ rotation' = [rotation EXCEPT !.phase = "two keys"]
    BY <1>1 DEF AddKey, StartGateway, identityVars
  <2> HIDE DEF config
  <2> QED BY <2>1, <2>2, BucketsForgotten DEF TypeOK
<1>2. CASE RemoveOldKey
  <2> DEFINE config == [kid \in {"second"} |-> 2]
  <2>1. KeySet(config) \in [KeyIds -> PublicKeys \cup {NoKey}]
    BY KeySetTyped DEF PublicKeys
  <2>2. keys' = KeySet(config) /\ buckets' = NewRateLimiter
        /\ UNCHANGED <<now, member, held, issuing, tokens, signer>>
        /\ rotation' = [rotation EXCEPT !.phase = "done"]
    BY <1>2 DEF RemoveOldKey, StartGateway, identityVars
  <2> HIDE DEF config
  <2> QED BY <2>1, <2>2, BucketsForgotten DEF TypeOK
<1>3. CASE SignWithNewKey
  <2>1. signer' \in Signers /\ rotation' = [phase |-> "signing", since |-> now]
        /\ issuing' = [m \in MemberIds |-> Nothing]
    BY <1>3 DEF SignWithNewKey, Signers, KeyIds, PublicKeys
  <2>3. /\ issuing' \in [MemberIds -> {Nothing} \cup SignIns \cup Refreshes]
        /\ rotation' \in [phase : {"one key", "two keys", "signing", "done"}, since : Nat]
    BY <2>1 DEF TypeOK
  <2>2. UNCHANGED <<now, buckets, member, held, tokens, keys>>
    BY <1>3 DEF SignWithNewKey
  <2> QED BY <2>1, <2>2, <2>3, BucketsUntouched DEF TypeOK
<1> QED BY <1>1, <1>2, <1>3

LEMMA TickSteps ==
  ASSUME LimiterInv, Tick
  PROVE  LimiterInv'
<1>1. /\ UNCHANGED <<buckets, member, held, issuing, tokens, signer, keys, rotation>>
      /\ now' = now + 1 /\ now \in Nat
  BY DEF Tick, identityVars, keyVars, LimiterInv, TypeOK
<1>2. buckets \in [Callers -> Buckets] /\ BucketsOK
  BY DEF LimiterInv, TypeOK
<1>3. BucketsOK'
  BY <1>1, <1>2, BucketsLater
<1>4. now' \in Nat
  BY <1>1
<1> QED BY <1>1, <1>3, <1>4 DEF LimiterInv, TypeOK

(* What a request that passes the checks before the limiter does.           *)
Limited(path, t, address, allowed) ==
  /\ Admitted(Match(path), t)
  /\ LimiterAllows(LimitKey(Who(Match(path), t), address), allowed)
  /\ Says(IF allowed THEN "forwarded" ELSE "too many", Match(path), t,
          LimitKey(Who(Match(path), t), address))
  /\ UNCHANGED <<now, member, held, tokens, signer, keys, rotation>>

LEMMA AnswerTyped ==
  ASSUME TypeOK, NEW path \in Paths, NEW m \in MemberIds, Answer(path, m)
  PROVE  issuing' \in [MemberIds -> {Nothing} \cup SignIns \cup Refreshes]
<1>1. CASE issuing' = [issuing EXCEPT ![m] = [op |-> "sign-in", role |-> member[m].role,
                                              since |-> now]]
  <2>1. [op |-> "sign-in", role |-> member[m].role, since |-> now] \in SignIns
    BY DEF TypeOK, SignIns
  <2> QED BY <1>1, <2>1 DEF TypeOK
<1>2. CASE issuing' = [issuing EXCEPT ![m] = [op |-> "refresh", rotated |-> FALSE, since |-> now]]
  <2>1. [op |-> "refresh", rotated |-> FALSE, since |-> now] \in Refreshes
    BY DEF TypeOK, Refreshes
  <2> QED BY <1>2, <2>1 DEF TypeOK
<1>3. CASE issuing' = issuing
  BY <1>3 DEF TypeOK
<1> QED BY <1>1, <1>2, <1>3 DEF Answer

LEMMA RequestsAreLimited ==
  ASSUME NEW path \in Paths, NEW t \in tokens \cup {NoToken}, NEW address \in Addresses
  PROVE  /\ TooMany(path, t, address) =>
              Limited(path, t, address, FALSE) /\ UNCHANGED issuing
         /\ \A m \in MemberIds : Forward(path, t, address, m) =>
              Limited(path, t, address, TRUE) /\ Answer(path, m)
BY DEF TooMany, Forward, Limited, identityVars, keyVars

LEMMA RequestSteps ==
  ASSUME LimiterInv, NEW path \in Paths, NEW t \in tokens \cup {NoToken},
         NEW address \in Addresses,
         TooMany(path, t, address) \/ \E m \in MemberIds : Forward(path, t, address, m)
  PROVE  LimiterInv'
<1> USE DEF LimiterInv
<1>1. PICK allowed \in BOOLEAN : Limited(path, t, address, allowed)
  BY RequestsAreLimited
<1>2. issuing' \in [MemberIds -> {Nothing} \cup SignIns \cup Refreshes]
  BY RequestsAreLimited, AnswerTyped DEF TypeOK
<1>3. LimitKey(Who(Match(path), t), address) \in Callers
  BY <1>1, CallerTyped DEF Limited
<1>4. buckets' \in [Callers -> Buckets] /\ BucketsOK'
  BY <1>1, <1>3, LimiterStep DEF Limited, TypeOK
<1> QED BY <1>1, <1>2, <1>4 DEF Limited, TypeOK

LEMMA TurnedAwaySteps ==
  ASSUME TurnedAway
  PROVE  /\ UNCHANGED <<now, buckets, member, held, issuing, tokens, signer, keys, rotation>>
         /\ reply'.status \in {"no route", "unauthenticated", "role"}
<1>1. PICK path \in Paths, t \in tokens \cup {NoToken} :
        NotFound(path, t) \/ Unauthenticated(path, t) \/ WrongRole(path, t)
  BY DEF TurnedAway
<1>2. PICK status \in {"no route", "unauthenticated", "role"} : Turned(status, Match(path), t)
  BY <1>1 DEF NotFound, Unauthenticated, WrongRole
<1> QED BY <1>2 DEF Turned, Says, identityVars, keyVars

LEMMA NextLimiter == LimiterInv /\ [Next]_vars => LimiterInv'
<1> SUFFICES ASSUME LimiterInv, [Next]_vars PROVE LimiterInv'
  OBVIOUS
<1>1. CASE TurnedAway
  BY <1>1, TurnedAwaySteps, BucketsUntouched DEF LimiterInv, TypeOK
<1>2. CASE UNCHANGED vars
  BY <1>2, BucketsUntouched DEF LimiterInv, TypeOK, vars, identityVars, keyVars
<1> QED BY <1>1, <1>2, MemberSteps, KeySteps, TickSteps, RequestSteps DEF Next, TurnedAway

-----------------------------------------------------------------------------
(* The limiter keeps the budget of RateBudget.                              *)
budgets == [c \in Callers |-> Budget(c)]

LEMMA BudgetIsBudgetOf == \A c \in Callers : /\ Budget(c) = BudgetOf(buckets[c])
                                             /\ Budget(c)' = BudgetOf(buckets[c])'
BY DEF Budget, BudgetOf

LEMMA NobodyAsked ==
  ASSUME reply'.status \notin {"forwarded", "too many"}
  PROVE  Asked' = Promise!Nobody
BY DEF Asked, Promise!Nobody, NoReply

(* Where neither the clock nor the limiter moves, nothing is asked of it.   *)
LEMMA QuietSteps ==
  ASSUME UNCHANGED <<now, buckets>>, reply'.status \notin {"forwarded", "too many"}
  PROVE  Promise!Other
<1>1. \A c \in Callers : Budget(c)' = Budget(c)
  BY DEF Budget, Tokens
<1>2. budgets' = budgets
  BY <1>1 DEF budgets
<1> QED BY <1>2, NobodyAsked DEF Promise!Other, budgets

(* A unit of time adds Rate to every bucket, known or forgotten.            *)
LEMMA TickRefills ==
  ASSUME LimiterInv, now' = now + 1, buckets' = buckets, NEW c \in Callers
  PROVE  Budget(c)' = Promise!Capped(Budget(c) + Rate)
<1>1. /\ now \in Nat /\ buckets[c] \in Buckets /\ InUse(buckets[c])
      /\ Rate \in Nat /\ Burst \in Nat
  BY RateLimiterAssumption DEF LimiterInv, TypeOK, BucketsOK
<1> DEFINE b == buckets[c]
           gone == now - b.last
<1>2. CASE ~b.known
  <2>1. Budget(c) = Burst /\ Budget(c)' = Burst
    BY <1>2 DEF Budget
  <2> QED BY <1>1, <2>1 DEF Promise!Capped
<1>3. CASE b.known
  <2>1. b.tokens \in Nat /\ b.last \in Nat /\ b.lastUse \in Nat
    BY <1>1 DEF Buckets
  <2>2. b.last <= now
    BY <1>1, <1>3, <2>1 DEF InUse
  <2>3. gone \in Nat /\ (now + 1) - b.last = gone + 1
    BY <1>1, <2>1, <2>2
  <2>4. Budget(c) = NoMoreThanBurst(b.tokens + Rate * gone)
    BY <1>3 DEF Budget, Tokens
  <2>5. Budget(c)' = NoMoreThanBurst(b.tokens + Rate * (gone + 1))
    BY <1>3, <2>3 DEF Budget, Tokens
  <2> HIDE DEF gone
  <2>6. Rate * (gone + 1) = Rate * gone + Rate /\ Rate * gone \in Nat
    BY <1>1, <2>3
  <2> DEFINE earned == b.tokens + Rate * gone
  <2>7. earned \in Nat /\ b.tokens + Rate * (gone + 1) = earned + Rate
    BY <1>1, <2>1, <2>6
  <2> HIDE DEF earned
  <2>8. NoMoreThanBurst(earned + Rate) = Promise!Capped(NoMoreThanBurst(earned) + Rate)
    BY <1>1, <2>7 DEF NoMoreThanBurst, Promise!Capped
  <2> QED BY <2>4, <2>5, <2>7, <2>8 DEF earned
<1> QED BY <1>2, <1>3

LEMMA TickIsRefill ==
  ASSUME LimiterInv, Tick
  PROVE  Promise!Refill
<1>1. now' = now + 1 /\ buckets' = buckets /\ reply' = NoReply
  BY DEF Tick
<1>2. reply'.status \notin {"forwarded", "too many"}
  BY <1>1 DEF NoReply
<1>3. \A c \in Callers : Budget(c)' = Promise!Capped(Budget(c) + Rate)
  BY <1>1, TickRefills
<1>4. budgets' = [c \in Callers |-> Promise!Capped(budgets[c] + Rate)]
  BY <1>3 DEF budgets
<1> QED BY <1>2, <1>4, NobodyAsked DEF Promise!Refill, budgets

LEMMA StartIsRestart ==
  ASSUME LimiterInv, AddKey \/ RemoveOldKey
  PROVE  Promise!Restart
<1>1. /\ buckets' = NewRateLimiter /\ reply' = NoReply /\ now' = now
      /\ now \in Nat
  BY DEF AddKey, RemoveOldKey, StartGateway, LimiterInv, TypeOK
<1>2. reply'.status \notin {"forwarded", "too many"}
  BY <1>1 DEF NoReply
<1>3. \A c \in Callers : Budget(c)' = Burst
  BY <1>1, BucketsForgotten, BudgetIsBudgetOf
<1>4. budgets' = [c \in Callers |-> Burst]
  BY <1>3 DEF budgets
<1> QED BY <1>2, <1>4, NobodyAsked DEF Promise!Restart, budgets

LEMMA RequestIsAsked ==
  ASSUME LimiterInv, NEW path \in Paths, NEW t \in tokens \cup {NoToken},
         NEW address \in Addresses, NEW allowed \in BOOLEAN, Limited(path, t, address, allowed)
  PROVE  \E c \in Callers : Promise!Allow(c) \/ Promise!Refuse(c)
<1> DEFINE caller == LimitKey(Who(Match(path), t), address)
<1>1. caller \in Callers
  BY CallerTyped DEF Limited, LimiterInv
<1>2. /\ LimiterAllows(caller, allowed) /\ now' = now
      /\ Says(IF allowed THEN "forwarded" ELSE "too many", Match(path), t, caller)
  BY DEF Limited
<1> HIDE DEF caller
<1>3. now \in Nat /\ buckets \in [Callers -> Buckets] /\ BucketsOK
  BY DEF LimiterInv, TypeOK
<1>4. /\ Budget(caller) \in Nat
      /\ allowed => Budget(caller) >= 1 /\ Budget(caller)' = Budget(caller) - 1
      /\ ~allowed => Budget(caller) < 1 /\ Budget(caller)' = Budget(caller)
      /\ \A d \in Callers : d # caller => Budget(d)' = Budget(d)
  BY <1>1, <1>2, <1>3, LimiterStep, BudgetIsBudgetOf
<1>5. Asked' = [caller |-> caller, allowed |-> allowed]
  BY <1>2 DEF Asked, Says
<1>6. CASE allowed
  <2>1. budgets' = [budgets EXCEPT ![caller] = @ - 1]
    BY <1>1, <1>4, <1>6 DEF budgets
  <2>2. budgets[caller] >= 1 /\ Asked' = [caller |-> caller, allowed |-> TRUE]
    BY <1>1, <1>4, <1>5, <1>6 DEF budgets
  <2>3. Promise!Allow(caller)
    BY <2>1, <2>2 DEF Promise!Allow, budgets
  <2> QED BY <1>1, <2>3
<1>7. CASE ~allowed
  <2>1. budgets' = budgets
    BY <1>1, <1>4, <1>7 DEF budgets
  <2>2. budgets[caller] < 1 /\ Asked' = [caller |-> caller, allowed |-> FALSE]
    BY <1>1, <1>4, <1>5, <1>7 DEF budgets
  <2>3. Promise!Refuse(caller)
    BY <2>1, <2>2 DEF Promise!Refuse, budgets
  <2> QED BY <1>1, <2>3
<1> QED BY <1>6, <1>7

LEMMA StepKeepsBudget ==
  LimiterInv /\ [Next]_vars => [Promise!Next]_<<budgets, Asked>>
<1> SUFFICES ASSUME LimiterInv, [Next]_vars
             PROVE  [Promise!Next]_<<budgets, Asked>>
  OBVIOUS
<1>1. CASE UNCHANGED vars
  <2>1. UNCHANGED <<now, buckets, reply>>
    BY <1>1 DEF vars
  <2>2. budgets' = budgets /\ Asked' = Asked
    BY <2>1 DEF budgets, Budget, Tokens, Asked
  <2> QED BY <2>2
<1>2. CASE TurnedAway
  <2>1. Promise!Other
    BY <1>2, TurnedAwaySteps, QuietSteps
  <2> QED BY <2>1 DEF Promise!Next
<1>3. CASE Tick
  BY <1>3, TickIsRefill DEF Promise!Next
<1>4. CASE AddKey \/ RemoveOldKey
  BY <1>4, StartIsRestart DEF Promise!Next
<1>5. CASE SignWithNewKey
  <2>1. UNCHANGED <<now, buckets>> /\ reply' = NoReply
    BY <1>5 DEF SignWithNewKey
  <2> QED BY <2>1, QuietSteps DEF NoReply, Promise!Next
<1>6. ASSUME NEW m \in MemberIds,
             \/ IssueAtSignIn(m) \/ Rotate(m) \/ IssueAtRefresh(m) \/ Unanswered(m)
             \/ RemoveMember(m)
             \/ \E role \in StoredRoles : ChangeRole(m, role)
      PROVE  [Promise!Next]_<<budgets, Asked>>
  <2>1. UNCHANGED <<now, buckets>> /\ reply' = NoReply
    BY <1>6 DEF IssueAtSignIn, Rotate, IssueAtRefresh, Issue, Unanswered, RemoveMember, ChangeRole
  <2> QED BY <2>1, QuietSteps DEF NoReply, Promise!Next
<1>7. ASSUME NEW path \in Paths, NEW t \in tokens \cup {NoToken}, NEW address \in Addresses,
             TooMany(path, t, address) \/ \E m \in MemberIds : Forward(path, t, address, m)
      PROVE  [Promise!Next]_<<budgets, Asked>>
  <2>1. PICK allowed \in BOOLEAN : Limited(path, t, address, allowed)
    BY <1>7, RequestsAreLimited
  <2>2. \E c \in Callers : Promise!Allow(c) \/ Promise!Refuse(c)
    BY <2>1, RequestIsAsked
  <2> QED BY <2>2 DEF Promise!Next
<1> QED BY <1>1, <1>2, <1>3, <1>4, <1>5, <1>6, <1>7 DEF Next, TurnedAway

(* The limiter that forgets (ratelimit.go allow, evictIdle) is a limiter    *)
(* that never does: each caller has its own budget, and is refused only     *)
(* when its own requests have spent it.                                     *)
THEOREM LimiterKeepsBudget == Spec => KeepsBudget
<1>1. Init => Promise!Init
  <2> SUFFICES ASSUME Init PROVE Promise!Init
    OBVIOUS
  <2>1. \A c \in Callers : Budget(c) = Burst
    BY DEF Init, NewRateLimiter, NoBucket, Budget
  <2>2. Asked = Promise!Nobody
    BY DEF Init, Asked, NoReply, Promise!Nobody
  <2> QED BY <2>1, <2>2 DEF Promise!Init
<1>2. LimiterInv /\ [Next]_vars => [Promise!Next]_<<[c \in Callers |-> Budget(c)], Asked>>
  BY StepKeepsBudget DEF budgets
<1> QED BY <1>1, <1>2, InitLimiter, NextLimiter, PTL DEF Spec, KeepsBudget, Promise!Spec

-----------------------------------------------------------------------------
(* What a token says.  A call that will end in a token began no longer than *)
(* CallTime ago, and the role it has in hand, if it is no longer the        *)
(* member's, was lost after it began; so it is with a token, for as long as *)
(* it lives.                                                                *)
Has(m, role) == member[m].role = role /\ ~member[m].removed

Lost(m, role, at) == held[m][role] # Never /\ at <= held[m][role]

CallOK(m) ==
  /\ issuing[m] # Nothing =>
       /\ issuing[m].since \in Nat /\ issuing[m].since <= now
       /\ now <= issuing[m].since + CallTime
  /\ issuing[m].op = "sign-in" =>
       \/ Has(m, issuing[m].role)
       \/ Lost(m, issuing[m].role, issuing[m].since)
  /\ issuing[m].op = "refresh" /\ issuing[m].rotated =>
       \/ Has(m, member[m].role)
       \/ Lost(m, member[m].role, issuing[m].since)

TokenOK(t) ==
  /\ t.exp <= now + AccessTTL
  /\ \E role \in StoredRoles :
       /\ ClaimRole(role) = t.role
       /\ \/ Has(t.sub, role)
          \/ Lost(t.sub, role, t.exp - (AccessTTL + CallTime))

ClockOK ==
  /\ now >= 1
  /\ \A m \in MemberIds, role \in StoredRoles : held[m][role] <= now

StaleInv ==
  /\ TypeOK /\ ClockOK
  /\ \A m \in MemberIds : CallOK(m)
  /\ \A t \in tokens : TokenOK(t)

(* A role is lost at the time it is lost.                                   *)
LEMMA RolesLost ==
  ASSUME TypeOK, NEW m \in MemberIds,
         RemoveMember(m) \/ \E role \in StoredRoles : ChangeRole(m, role),
         NEW n \in MemberIds, NEW r \in StoredRoles
  PROVE  /\ held[n][r]' \in Nat
         /\ held[n][r]' = held[n][r] \/ held[n][r]' = now
         /\ Has(n, r) => Has(n, r)' \/ held[n][r]' = now
         /\ member'[n].role # member[n].role => ~member'[n].removed
         /\ UNCHANGED <<now, issuing, tokens>>
<1>1. /\ member \in [MemberIds -> [role : StoredRoles, removed : BOOLEAN]]
      /\ held \in [MemberIds -> [StoredRoles -> Nat]] /\ now \in Nat
  BY DEF TypeOK
<1>2. CASE RemoveMember(m)
  <2>1. /\ held' = [held EXCEPT ![m][member[m].role] = now]
        /\ member' = [member EXCEPT ![m].removed = TRUE]
        /\ UNCHANGED <<now, issuing, tokens>>
    BY <1>2 DEF RemoveMember
  <2>2. member[n]'.role = member[n].role
    BY <1>1, <2>1
  <2>3. n # m => member[n]' = member[n]
    BY <1>1, <2>1
  <2>4. /\ held[n][r]' \in Nat
        /\ held[n][r]' = held[n][r] \/ held[n][r]' = now
        /\ n = m /\ r = member[m].role => held[n][r]' = now
    BY <1>1, <2>1
  <2> QED BY <2>1, <2>2, <2>3, <2>4 DEF Has
<1>3. ASSUME NEW role \in StoredRoles, ChangeRole(m, role)
      PROVE  /\ held[n][r]' \in Nat
             /\ held[n][r]' = held[n][r] \/ held[n][r]' = now
             /\ Has(n, r) => Has(n, r)' \/ held[n][r]' = now
             /\ member'[n].role # member[n].role => ~member'[n].removed
             /\ UNCHANGED <<now, issuing, tokens>>
  <2>1. /\ held' = [held EXCEPT ![m][member[m].role] = now]
        /\ member' = [member EXCEPT ![m] = [member[m] EXCEPT !.role = role]]
        /\ ~member[m].removed
        /\ UNCHANGED <<now, issuing, tokens>>
    BY <1>3 DEF ChangeRole
  <2>2. n # m => member[n]' = member[n]
    BY <1>1, <2>1
  <2>3. ~member'[m].removed /\ member'[m].role = role
    BY <1>1, <2>1
  <2>4. /\ held[n][r]' \in Nat
        /\ held[n][r]' = held[n][r] \/ held[n][r]' = now
        /\ n = m /\ r = member[m].role => held[n][r]' = now
    BY <1>1, <2>1
  <2> QED BY <2>1, <2>2, <2>3, <2>4 DEF Has
<1> QED BY <1>2, <1>3

LEMMA RoleOrLoss ==
  ASSUME TypeOK, ClockOK, NEW m \in MemberIds,
         RemoveMember(m) \/ \E role \in StoredRoles : ChangeRole(m, role),
         NEW n \in MemberIds, NEW r \in StoredRoles, NEW at \in Int, at <= now,
         Has(n, r) \/ Lost(n, r, at)
  PROVE  \/ Has(n, r)'
         \/ held'[n][r] # Never /\ at <= held'[n][r]
<1>1. now \in Nat /\ now >= 1 /\ held[n][r] \in Nat
  BY DEF TypeOK, ClockOK
<1>2. CASE Has(n, r) /\ ~Has(n, r)'
  BY <1>1, <1>2, RolesLost DEF Never
<1>3. CASE Lost(n, r, at)
  BY <1>1, <1>3, RolesLost DEF Never, Lost
<1> QED BY <1>2, <1>3

LEMMA RolesKeepStale ==
  ASSUME StaleInv, TypeOK', NEW m \in MemberIds,
         RemoveMember(m) \/ \E role \in StoredRoles : ChangeRole(m, role)
  PROVE  StaleInv'
<1>1. TypeOK /\ ClockOK /\ now \in Nat /\ now >= 1
  BY DEF StaleInv, ClockOK, TypeOK
<1>2. UNCHANGED <<now, issuing, tokens>>
  BY DEF RemoveMember, ChangeRole
<1>3. ClockOK'
  <2> SUFFICES ASSUME NEW n \in MemberIds, NEW r \in StoredRoles
               PROVE  held'[n][r] <= now
    BY <1>1, <1>2 DEF ClockOK
  <2>1. held[n][r] <= now /\ (held[n][r]' = held[n][r] \/ held[n][r]' = now)
    BY <1>1, RolesLost DEF ClockOK
  <2> QED BY <1>1, <2>1
<1>4. ASSUME NEW n \in MemberIds
      PROVE  CallOK(n)'
  <2>1. CallOK(n)
    BY DEF StaleInv
  <2>2. issuing[n] # Nothing => issuing[n].since \in Int /\ issuing[n].since <= now
    BY <2>1 DEF CallOK
  <2>3. ASSUME issuing[n].op = "sign-in"
        PROVE  Has(n, issuing[n].role)' \/ Lost(n, issuing[n].role, issuing[n].since)'
    <3>1. issuing[n].role \in StoredRoles /\ issuing[n] # Nothing
      BY <1>1, <2>3, SignInTyped DEF Nothing
    <3>2. Has(n, issuing[n].role) \/ Lost(n, issuing[n].role, issuing[n].since)
      BY <2>1, <2>3 DEF CallOK
    <3>3. \/ member'[n].role = issuing[n].role /\ ~member'[n].removed
          \/ held'[n][issuing[n].role] # Never /\ issuing[n].since <= held'[n][issuing[n].role]
      BY <1>1, <2>2, <3>1, <3>2, RoleOrLoss DEF Has
    <3> QED BY <1>2, <3>3 DEF Has, Lost
  <2>4. ASSUME issuing[n].op = "refresh", issuing[n].rotated
        PROVE  Has(n, member[n].role)' \/ Lost(n, member[n].role, issuing[n].since)'
    <3>1. CASE member'[n].role # member[n].role
      <4>1. "admin" \in StoredRoles
        BY DEF StoredRoles
      <4>2. ~member'[n].removed
        BY <1>1, <3>1, <4>1, RolesLost
      <4> QED BY <4>2 DEF Has
    <3>2. CASE member'[n].role = member[n].role
      <4>1. member[n].role \in StoredRoles
        BY <1>1 DEF TypeOK
      <4>5. issuing[n] # Nothing
        BY <2>4 DEF Nothing
      <4>2. Has(n, member[n].role) \/ Lost(n, member[n].role, issuing[n].since)
        BY <2>1, <2>4 DEF CallOK
      <4>3. \/ member'[n].role = member[n].role /\ ~member'[n].removed
            \/ /\ held'[n][member[n].role] # Never
               /\ issuing[n].since <= held'[n][member[n].role]
        BY <1>1, <2>2, <4>1, <4>2, <4>5, RoleOrLoss DEF Has
      <4> QED BY <1>2, <3>2, <4>3 DEF Has, Lost
    <3> QED BY <3>1, <3>2
  <2> QED BY <1>2, <2>1, <2>3, <2>4 DEF CallOK
<1>5. ASSUME NEW t \in tokens
      PROVE  TokenOK(t)'
  <2>1. t \in AccessTokens /\ TokenOK(t)
    BY DEF StaleInv, TypeOK
  <2> DEFINE at == t.exp - (AccessTTL + CallTime)
  <2>2. t.sub \in MemberIds /\ at \in Int /\ at <= now
    BY <1>1, <2>1, GatewayAssumption DEF AccessTokens, TokenOK
  <2>3. PICK r \in StoredRoles : ClaimRole(r) = t.role /\ (Has(t.sub, r) \/ Lost(t.sub, r, at))
    BY <2>1 DEF TokenOK
  <2>4. \/ Has(t.sub, r)'
        \/ held'[t.sub][r] # Never /\ at <= held'[t.sub][r]
    BY <1>1, <2>2, <2>3, RoleOrLoss
  <2> QED BY <1>2, <2>1, <2>3, <2>4 DEF TokenOK, Has, Lost, ClaimRole
<1> QED BY <1>2, <1>3, <1>4, <1>5 DEF StaleInv

LEMMA CallsKeepStale ==
  ASSUME StaleInv, TypeOK', UNCHANGED <<now, member, held>>,
         \A n \in MemberIds : issuing'[n] = issuing[n] \/ issuing'[n] = Nothing \/ CallOK(n)',
         \A t \in tokens' : t \in tokens \/ TokenOK(t)
  PROVE  StaleInv'
<1>1. ClockOK'
  BY DEF StaleInv, ClockOK
<1>2. ASSUME NEW n \in MemberIds
      PROVE  CallOK(n)'
  <2>1. CASE issuing'[n] = issuing[n]
    BY <2>1 DEF StaleInv, CallOK, Has, Lost
  <2>2. CASE issuing'[n] = Nothing
    BY <2>2 DEF CallOK, Nothing
  <2> QED BY <2>1, <2>2
<1>3. ASSUME NEW t \in tokens'
      PROVE  TokenOK(t)'
  <2>1. TokenOK(t)
    BY DEF StaleInv
  <2> QED BY <2>1 DEF TokenOK, Has, Lost, ClaimRole
<1> QED BY <1>1, <1>2, <1>3 DEF StaleInv

LEMMA LostSinceBefore ==
  ASSUME NEW m, NEW role, held[m][role] \in Nat, NEW at \in Int, NEW before \in Int,
         before <= at, Lost(m, role, at)
  PROVE  Lost(m, role, before)
BY DEF Lost

(* Sign-in counts the token from the answer, at most CallTime after the     *)
(* role was read; refresh from before the role is read.                     *)
LEMMA IssueKeepsStale ==
  ASSUME StaleInv, TypeOK', NEW m \in MemberIds, IssueAtSignIn(m) \/ IssueAtRefresh(m)
  PROVE  StaleInv'
<1>1. TypeOK /\ CallOK(m) /\ now \in Nat /\ AccessTTL \in Nat /\ CallTime \in Nat
  BY GatewayAssumption DEF StaleInv, TypeOK
<1>0. held \in [MemberIds -> [StoredRoles -> Nat]]
  BY <1>1 DEF TypeOK
<1>2. PICK role \in StoredRoles, from \in Nat :
        /\ tokens' = tokens \cup {[sub |-> m, role |-> ClaimRole(role), exp |-> from + AccessTTL,
                                   kid |-> signer.kid, key |-> signer.key]}
        /\ from <= now
        /\ Has(m, role) \/ Lost(m, role, from - CallTime)
  <2>1. CASE IssueAtSignIn(m)
    <3>1. issuing[m].op = "sign-in" /\ Issue(m, issuing[m].role, now)
      BY <2>1 DEF IssueAtSignIn
    <3>2. issuing[m].role \in StoredRoles /\ issuing[m].since \in Nat
      BY <1>1, <3>1, SignInTyped
    <3>3. now - CallTime <= issuing[m].since
      <4>1. issuing[m] # Nothing
        BY <3>1 DEF Nothing
      <4> QED BY <1>1, <3>2, <4>1 DEF CallOK
    <3>4. Has(m, issuing[m].role) \/ Lost(m, issuing[m].role, issuing[m].since)
      BY <1>1, <3>1 DEF CallOK
    <3>5. held[m][issuing[m].role] \in Nat
      BY <1>0, <3>2
    <3>6. Has(m, issuing[m].role) \/ Lost(m, issuing[m].role, now - CallTime)
      BY <1>1, <3>2, <3>3, <3>4, <3>5, LostSinceBefore
    <3>7. tokens' = tokens \cup {[sub |-> m, role |-> ClaimRole(issuing[m].role),
                                  exp |-> now + AccessTTL, kid |-> signer.kid, key |-> signer.key]}
      BY <3>1 DEF Issue, Mint
    <3> QED BY <1>1, <3>2, <3>6, <3>7
  <2>2. CASE IssueAtRefresh(m)
    <3>1. /\ issuing[m].op = "refresh" /\ issuing[m].rotated
          /\ Issue(m, member[m].role, issuing[m].since)
      BY <2>2 DEF IssueAtRefresh
    <3>2. issuing[m].since \in Nat
      BY <1>1, <3>1, RefreshTyped
    <3>3. member[m].role \in StoredRoles
      BY <1>1 DEF TypeOK
    <3>4. issuing[m].since <= now
      <4>1. issuing[m] # Nothing
        BY <3>1 DEF Nothing
      <4> QED BY <1>1, <4>1 DEF CallOK
    <3>5. Has(m, member[m].role) \/ Lost(m, member[m].role, issuing[m].since)
      BY <1>1, <3>1 DEF CallOK
    <3>6. held[m][member[m].role] \in Nat
      BY <1>0, <3>3
    <3>7. Has(m, member[m].role) \/ Lost(m, member[m].role, issuing[m].since - CallTime)
      BY <1>1, <3>2, <3>5, <3>6, LostSinceBefore
    <3>8. tokens' = tokens \cup {[sub |-> m, role |-> ClaimRole(member[m].role),
                                  exp |-> issuing[m].since + AccessTTL,
                                  kid |-> signer.kid, key |-> signer.key]}
      BY <3>1 DEF Issue, Mint
    <3> QED BY <3>2, <3>3, <3>4, <3>7, <3>8
  <2> QED BY <2>1, <2>2
<1> DEFINE new == [sub |-> m, role |-> ClaimRole(role), exp |-> from + AccessTTL,
                   kid |-> signer.kid, key |-> signer.key]
<1>3. /\ tokens' = tokens \cup {new} /\ UNCHANGED <<now, member, held>>
      /\ issuing' = [issuing EXCEPT ![m] = Nothing]
  BY <1>2 DEF IssueAtSignIn, IssueAtRefresh, Issue
<1>4. TokenOK(new)
  <2>1. new.sub = m /\ new.role = ClaimRole(role) /\ new.exp = from + AccessTTL
    OBVIOUS
  <2> HIDE DEF new
  <2>2. new.exp <= now + AccessTTL /\ new.exp - (AccessTTL + CallTime) = from - CallTime
    BY <1>1, <1>2, <2>1
  <2> QED BY <1>2, <2>1, <2>2 DEF TokenOK
<1> HIDE DEF new
<1>5. \A n \in MemberIds : issuing'[n] = issuing[n] \/ issuing'[n] = Nothing
  BY <1>1, <1>3 DEF TypeOK
<1> QED BY <1>3, <1>4, <1>5, CallsKeepStale

LEMMA RotateKeepsStale ==
  ASSUME StaleInv, TypeOK', NEW m \in MemberIds, Rotate(m)
  PROVE  StaleInv'
<1>1. TypeOK /\ CallOK(m)
  BY DEF StaleInv
<1>2. /\ issuing[m] \in Refreshes /\ UNCHANGED <<now, member, held, tokens>>
      /\ issuing' = [issuing EXCEPT ![m] = IF member[m].removed THEN Nothing
                                           ELSE [@ EXCEPT !.rotated = TRUE]]
  BY <1>1, RefreshTyped DEF Rotate
<1>3. CASE member[m].removed
  <2>1. \A n \in MemberIds : issuing'[n] = issuing[n] \/ issuing'[n] = Nothing
    BY <1>1, <1>2, <1>3 DEF TypeOK
  <2> QED BY <1>2, <2>1, CallsKeepStale
<1>4. CASE ~member[m].removed
  <2>1. issuing'[m] = [issuing[m] EXCEPT !.rotated = TRUE]
    BY <1>1, <1>2, <1>4 DEF TypeOK
  <2>2. /\ issuing'[m].op = "refresh" /\ issuing'[m].since = issuing[m].since
        /\ issuing[m].since \in Nat /\ issuing[m] # Nothing
    BY <1>2, <2>1 DEF Refreshes, Nothing
  <2>3. Has(m, member[m].role)'
    BY <1>2, <1>4 DEF Has
  <2>4. CallOK(m)'
    BY <1>1, <1>2, <2>2, <2>3 DEF CallOK
  <2>5. \A n \in MemberIds : n # m => issuing'[n] = issuing[n]
    BY <1>1, <1>2, <1>4 DEF TypeOK
  <2> QED BY <1>2, <2>4, <2>5, CallsKeepStale
<1> QED BY <1>3, <1>4

LEMMA TickKeepsStale ==
  ASSUME StaleInv, TypeOK', Tick
  PROVE  StaleInv'
<1>1. /\ now' = now + 1 /\ UNCHANGED <<member, held, issuing, tokens>>
      /\ \A m \in Minting : now < issuing[m].since + CallTime
      /\ now \in Nat /\ AccessTTL \in Nat /\ CallTime \in Nat
      /\ held \in [MemberIds -> [StoredRoles -> Nat]]
  BY GatewayAssumption DEF Tick, identityVars, StaleInv, TypeOK
<1>2. ClockOK'
  <2>1. now' >= 1
    BY <1>1
  <2>2. ASSUME NEW m \in MemberIds, NEW role \in StoredRoles
        PROVE  held'[m][role] <= now'
    <3>1. held[m][role] <= now /\ held[m][role] \in Nat
      BY <1>1 DEF StaleInv, ClockOK
    <3> QED BY <1>1, <3>1
  <2> QED BY <2>1, <2>2 DEF ClockOK
<1>3. ASSUME NEW n \in MemberIds
      PROVE  CallOK(n)'
  <2>1. CallOK(n)
    BY DEF StaleInv
  <2>2. ASSUME issuing[n] # Nothing
        PROVE  /\ issuing[n].since \in Nat /\ issuing[n].since <= now'
               /\ now' <= issuing[n].since + CallTime
    <3>1. issuing[n].since \in Nat /\ issuing[n].since <= now
      BY <2>1, <2>2 DEF CallOK
    <3>2. now < issuing[n].since + CallTime
      BY <1>1, <2>2 DEF Minting
    <3> QED BY <1>1, <3>1, <3>2
  <2> QED BY <1>1, <2>1, <2>2 DEF CallOK, Has, Lost
<1>4. ASSUME NEW t \in tokens
      PROVE  TokenOK(t)'
  <2>1. TokenOK(t) /\ t.exp \in Nat
    BY DEF StaleInv, TypeOK, AccessTokens
  <2>2. t.exp <= now' + AccessTTL
    BY <1>1, <2>1 DEF TokenOK
  <2> QED BY <1>1, <2>1, <2>2 DEF TokenOK, Has, Lost, ClaimRole
<1> QED BY <1>1, <1>2, <1>3, <1>4 DEF StaleInv

(* A call begins with the role the member has, and with the time it is.     *)
LEMMA AnswerKeepsStale ==
  ASSUME StaleInv, TypeOK', UNCHANGED <<now, member, held, tokens>>,
         NEW path \in Paths, NEW m \in MemberIds, Answer(path, m)
  PROVE  StaleInv'
<1>1. /\ now \in Nat /\ CallTime \in Nat
      /\ issuing \in [MemberIds -> {Nothing} \cup SignIns \cup Refreshes]
  BY GatewayAssumption DEF StaleInv, TypeOK
<1>2. \/ issuing' = issuing
      \/ /\ ~member[m].removed
         /\ issuing' = [issuing EXCEPT ![m] = [op |-> "sign-in", role |-> member[m].role,
                                               since |-> now]]
      \/ issuing' = [issuing EXCEPT ![m] = [op |-> "refresh", rotated |-> FALSE, since |-> now]]
  BY DEF Answer
<1>3. issuing' = issuing \/ CallOK(m)'
  <2>1. ASSUME ~member[m].removed,
               issuing' = [issuing EXCEPT ![m] = [op |-> "sign-in", role |-> member[m].role,
                                                  since |-> now]]
        PROVE  CallOK(m)'
    <3>1. /\ issuing'[m].op = "sign-in" /\ issuing'[m].role = member[m].role
          /\ issuing'[m].since = now
      BY <1>1, <2>1
    <3>2. Has(m, issuing'[m].role)
      BY <2>1, <3>1 DEF Has
    <3> QED BY <1>1, <3>1, <3>2 DEF CallOK, Has
  <2>2. ASSUME issuing' = [issuing EXCEPT ![m] = [op |-> "refresh", rotated |-> FALSE,
                                                  since |-> now]]
        PROVE  CallOK(m)'
    <3>1. /\ issuing'[m].op = "refresh" /\ issuing'[m].rotated = FALSE
          /\ issuing'[m].since = now
      BY <1>1, <2>2
    <3> QED BY <1>1, <3>1 DEF CallOK
  <2> QED BY <1>2, <2>1, <2>2
<1>4. \A n \in MemberIds : n # m => issuing'[n] = issuing[n]
  BY <1>1, <1>2
<1> QED BY <1>3, <1>4, CallsKeepStale

LEMMA InitStale == Init => StaleInv
<1> SUFFICES ASSUME Init PROVE StaleInv
  OBVIOUS
<1>1. TypeOK
  BY InitLimiter DEF LimiterInv
<1>2. ClockOK
  <2>1. \A m \in MemberIds, role \in StoredRoles : held[m][role] = 0
    BY DEF Init, Never
  <2>2. now = 1
    BY DEF Init
  <2> QED BY <2>1, <2>2 DEF ClockOK
<1>3. \A m \in MemberIds : CallOK(m)
  BY DEF Init, CallOK, Nothing
<1>4. tokens = {}
  BY DEF Init
<1> QED BY <1>1, <1>2, <1>3, <1>4 DEF StaleInv

LEMMA NextStale == StaleInv /\ TypeOK' /\ [Next]_vars => StaleInv'
<1> SUFFICES ASSUME StaleInv, TypeOK', [Next]_vars PROVE StaleInv'
  OBVIOUS
<1>1. ASSUME UNCHANGED <<now, member, held, issuing, tokens>>
      PROVE  StaleInv'
  BY <1>1, CallsKeepStale
<1>2. CASE TurnedAway \/ UNCHANGED vars \/ AddKey \/ RemoveOldKey
  <2>1. UNCHANGED <<now, member, held, issuing, tokens>>
    BY <1>2, TurnedAwaySteps DEF vars, identityVars, AddKey, RemoveOldKey, StartGateway
  <2> QED BY <1>1, <2>1
<1>3. CASE SignWithNewKey
  <2>1. UNCHANGED <<now, member, held, tokens>> /\ \A n \in MemberIds : issuing'[n] = Nothing
    BY <1>3 DEF SignWithNewKey
  <2> QED BY <2>1, CallsKeepStale
<1>4. ASSUME NEW m \in MemberIds, Unanswered(m)
      PROVE  StaleInv'
  <2>1. issuing \in [MemberIds -> {Nothing} \cup SignIns \cup Refreshes]
    BY DEF StaleInv, TypeOK
  <2>2. UNCHANGED <<now, member, held, tokens>>
        /\ \A n \in MemberIds : issuing'[n] = issuing[n] \/ issuing'[n] = Nothing
    BY <1>4, <2>1 DEF Unanswered
  <2> QED BY <2>2, CallsKeepStale
<1>5. ASSUME NEW path \in Paths, NEW t \in tokens \cup {NoToken}, NEW address \in Addresses,
             TooMany(path, t, address)
      PROVE  StaleInv'
  <2>1. UNCHANGED <<now, member, held, issuing, tokens>>
    BY <1>5 DEF TooMany, identityVars
  <2> QED BY <1>1, <2>1
<1>6. ASSUME NEW path \in Paths, NEW t \in tokens \cup {NoToken}, NEW address \in Addresses,
             NEW m \in MemberIds, Forward(path, t, address, m)
      PROVE  StaleInv'
  <2>1. UNCHANGED <<now, member, held, tokens>> /\ Answer(path, m)
    BY <1>6 DEF Forward
  <2> QED BY <2>1, AnswerKeepsStale
<1>7. ASSUME NEW m \in MemberIds, IssueAtSignIn(m) \/ IssueAtRefresh(m)
      PROVE  StaleInv'
  BY <1>7, IssueKeepsStale
<1>8. ASSUME NEW m \in MemberIds, Rotate(m)
      PROVE  StaleInv'
  BY <1>8, RotateKeepsStale
<1>9. ASSUME NEW m \in MemberIds,
             RemoveMember(m) \/ \E role \in StoredRoles : ChangeRole(m, role)
      PROVE  StaleInv'
  BY <1>9, RolesKeepStale
<1> QED BY <1>2, <1>3, <1>4, <1>5, <1>6, <1>7, <1>8, <1>9, TickKeepsStale DEF Next, TurnedAway

(* Only a request that passes the checks is forwarded.                      *)
LEMMA ForwardedWasAdmitted ==
  ASSUME [Next]_vars, vars' # vars, reply'.status = "forwarded"
  PROVE  \E path \in Paths, t \in tokens \cup {NoToken} :
           /\ Admitted(Match(path), t)
           /\ reply'.token = t /\ reply'.needs = Match(path).needs
<1>1. NoReply.status # "forwarded"
  BY DEF NoReply
<1>2. ~TurnedAway
  BY TurnedAwaySteps
<1>3. ~Tick /\ ~AddKey /\ ~SignWithNewKey /\ ~RemoveOldKey
  BY <1>1 DEF Tick, AddKey, SignWithNewKey, RemoveOldKey, StartGateway
<1>4. \A m \in MemberIds :
        /\ ~IssueAtSignIn(m) /\ ~IssueAtRefresh(m) /\ ~Rotate(m) /\ ~Unanswered(m)
        /\ ~RemoveMember(m) /\ \A role \in StoredRoles : ~ChangeRole(m, role)
  BY <1>1 DEF IssueAtSignIn, IssueAtRefresh, Issue, Rotate, Unanswered, RemoveMember, ChangeRole
<1>5. PICK path \in Paths, t \in tokens \cup {NoToken}, address \in Addresses :
        TooMany(path, t, address) \/ \E m \in MemberIds : Forward(path, t, address, m)
  BY <1>2, <1>3, <1>4 DEF Next, TurnedAway
<1>6. PICK allowed \in BOOLEAN : Limited(path, t, address, allowed)
  BY <1>5, RequestsAreLimited
<1> QED BY <1>6 DEF Limited, Says

(* Tokens are not revoked, so they go stale, but not for longer than they   *)
(* live (token.go mint, auth.go signIn and refresh): what a forwarded       *)
(* request is authorised by was true of its member less than a token's      *)
(* lifetime and an answer's time ago.                                       *)
THEOREM ForwardedWasTrue == Spec => StaleForATokenAtMost
<1>1. ASSUME StaleInv, [Next]_vars, vars' # vars,
             reply'.status = "forwarded", reply'.needs # "public"
      PROVE  \E role \in StoredRoles :
               /\ ClaimRole(role) = reply'.token.role
               /\ HeldWithin(reply'.token.sub, role, AccessTTL + CallTime)
  <2>1. PICK path \in Paths, t \in tokens \cup {NoToken} :
          /\ Admitted(Match(path), t)
          /\ reply'.token = t /\ reply'.needs = Match(path).needs
    BY <1>1, ForwardedWasAdmitted
  <2>2. Verify(t)
    BY <1>1, <2>1 DEF Admitted
  <2>3. t \in tokens /\ now < t.exp
    BY <2>2 DEF Verify
  <2>4. TokenOK(t) /\ t \in AccessTokens /\ now \in Nat
    BY <1>1, <2>3 DEF StaleInv, TypeOK
  <2>5. PICK role \in StoredRoles :
          /\ ClaimRole(role) = t.role
          /\ Has(t.sub, role) \/ Lost(t.sub, role, t.exp - (AccessTTL + CallTime))
    BY <2>4 DEF TokenOK
  <2>6. HeldWithin(t.sub, role, AccessTTL + CallTime)
    <3>1. held[t.sub][role] \in Nat /\ t.exp \in Nat
      <4>1. held \in [MemberIds -> [StoredRoles -> Nat]]
        BY <1>1 DEF StaleInv, TypeOK
      <4> QED BY <2>4, <4>1 DEF AccessTokens
    <3>2. AccessTTL + CallTime \in Nat
      BY GatewayAssumption
    <3> DEFINE while == AccessTTL + CallTime
    <3> HIDE DEF while
    <3>3. CASE Has(t.sub, role)
      BY <3>3 DEF Has, HeldWithin
    <3>4. CASE Lost(t.sub, role, t.exp - while)
      BY <2>3, <2>4, <3>1, <3>2, <3>4 DEF Lost, HeldWithin, while
    <3> QED BY <2>5, <3>3, <3>4 DEF while
  <2> QED BY <2>1, <2>5, <2>6
<1>2. StaleInv /\ [Next]_vars =>
        [reply'.status = "forwarded" /\ reply'.needs # "public" =>
           \E role \in StoredRoles :
             /\ ClaimRole(role) = reply'.token.role
             /\ HeldWithin(reply'.token.sub, role, AccessTTL + CallTime)]_vars
  BY <1>1
<1>3. LimiterInv => TypeOK
  BY DEF LimiterInv
<1> QED BY <1>2, <1>3, InitLimiter, NextLimiter, InitStale, NextStale, PTL
        DEF Spec, StaleForATokenAtMost

-----------------------------------------------------------------------------
(* Replacing the key.  Until the Identity Service signs with the new key,   *)
(* every token names the old one and the gateway has it; from then on those *)
(* of the old key expire within a token's lifetime, and the gateway has it  *)
(* for as long.                                                             *)
SignedNew(t) == t.kid = "second" /\ t.key = 2

OldKeySigns ==
  /\ signer.kid \in {"", "first"} /\ signer.key = 1
  /\ \A t \in tokens : t.kid = signer.kid /\ t.key = 1

NewKeySigns ==
  /\ signer.kid = "second" /\ signer.key = 2
  /\ keys["second"] = 2

KeysInv ==
  /\ rotation.phase = "one key" => OldKeySigns /\ KeyFor(signer.kid) = 1
  /\ rotation.phase = "two keys" =>
       OldKeySigns /\ keys[signer.kid] = 1 /\ keys["second"] = 2
  /\ rotation.phase = "signing" =>
       /\ NewKeySigns
       /\ \A t \in tokens :
            \/ SignedNew(t)
            \/ keys[t.kid] = t.key /\ t.exp <= rotation.since + AccessTTL
  /\ rotation.phase = "done" =>
       /\ NewKeySigns
       /\ \A t \in tokens : SignedNew(t) \/ t.exp <= now

LEMMA InitKeys == Init => KeysInv
<1> SUFFICES ASSUME Init PROVE KeysInv
  OBVIOUS
<1>1. /\ signer.kid \in {"", "first"} /\ signer.key = 1 /\ tokens = {}
      /\ rotation.phase = "one key"
  BY DEF Init
<1>2. CASE keys = KeySet([kid \in {""} |-> 1])
  <2> DEFINE bare == [kid \in {""} |-> 1]
  <2>3. DOMAIN bare = {""} /\ bare[""] = 1
    OBVIOUS
  <2>4. keys = [kid \in KeyIds |-> IF kid \in DOMAIN bare THEN bare[kid] ELSE NoKey]
    BY <1>2 DEF KeySet
  <2> HIDE DEF bare
  <2>5. "" \in KeyIds
    BY DEF KeyIds
  <2>6. keys[""] = 1
    BY <2>3, <2>4, <2>5
  <2>7. \A kid \in KeyIds : kid # "" => keys[kid] = NoKey
    BY <2>3, <2>4
  <2>1. keys[""] = 1 /\ \A kid \in KeyIds : kid # "" => keys[kid] = NoKey
    BY <2>6, <2>7
  <2>2. Configured = {""}
    <3>1. keys[""] # NoKey
      <4>1. NoKey # 1
        BY DEF NoKey
      <4> QED BY <2>6, <4>1, Zenon
    <3>2. \A kid \in KeyIds : keys[kid] # NoKey => kid = ""
      BY <2>7
    <3> QED BY <2>5, <3>1, <3>2 DEF Configured
  <2> QED BY <1>1, <2>1, <2>2 DEF KeysInv, OldKeySigns, KeyFor
<1>3. CASE keys = KeySet([kid \in {signer.kid} |-> 1])
  <2>1. keys[signer.kid] = 1 /\ signer.kid \in KeyIds
    BY <1>1, <1>3 DEF KeySet, KeyIds
  <2>2. signer.kid \in Configured
    BY <2>1 DEF Configured, NoKey
  <2> QED BY <1>1, <2>1, <2>2 DEF KeysInv, OldKeySigns, KeyFor
<1> QED BY <1>2, <1>3 DEF Init

(* Whatever the operator does not do leaves the keys and adds only tokens   *)
(* of the key in use.                                                       *)
LEMMA KeysUntouched ==
  ASSUME TypeOK, TypeOK', KeysInv, UNCHANGED <<signer, keys, rotation>>,
         now' = now \/ now' = now + 1,
         \A t \in tokens' : t \in tokens \/ (t.kid = signer.kid /\ t.key = signer.key)
  PROVE  KeysInv'
<1>1. OldKeySigns => OldKeySigns'
  BY DEF OldKeySigns
<1>2. NewKeySigns => NewKeySigns'
  BY DEF NewKeySigns
<1>3. KeyFor(signer.kid)' = KeyFor(signer.kid)
  BY DEF KeyFor, Configured
<1>4. ASSUME NewKeySigns, NEW t \in tokens', t \notin tokens
      PROVE  SignedNew(t)
  BY <1>4 DEF NewKeySigns, SignedNew
<1>5. \A t \in tokens' : t.exp \in Nat
  BY DEF TypeOK, AccessTokens
<1>6. now \in Nat
  BY DEF TypeOK
<1>7. ASSUME NEW t \in tokens', t \in tokens, t.exp <= now
      PROVE  t.exp <= now'
  BY <1>5, <1>6, <1>7
<1>8. CASE rotation.phase = "one key"
  BY <1>1, <1>3, <1>8 DEF KeysInv
<1>9. CASE rotation.phase = "two keys"
  BY <1>1, <1>9 DEF KeysInv
<1>10. CASE rotation.phase = "signing"
  BY <1>2, <1>4, <1>10 DEF KeysInv, SignedNew
<1>11. CASE rotation.phase = "done"
  BY <1>2, <1>4, <1>7, <1>11 DEF KeysInv, SignedNew
<1>12. rotation.phase \in {"one key", "two keys", "signing", "done"}
  BY DEF TypeOK
<1> QED BY <1>8, <1>9, <1>10, <1>11, <1>12

LEMMA AddKeyKeepsKeys ==
  ASSUME TypeOK, KeysInv, AddKey
  PROVE  KeysInv'
<1> DEFINE config == [kid \in {signer.kid, "second"} |-> IF kid = "second" THEN 2 ELSE 1]
<1>1. /\ rotation.phase = "one key" /\ rotation' = [rotation EXCEPT !.phase = "two keys"]
      /\ keys' = KeySet(config) /\ UNCHANGED <<tokens, signer>>
  BY DEF AddKey, StartGateway, identityVars
<1>2. OldKeySigns
  BY <1>1 DEF KeysInv
<1>3. signer.kid \in {"", "first"}
  BY <1>2 DEF OldKeySigns
<1>4. DOMAIN config = {signer.kid, "second"} /\ config[signer.kid] = 1 /\ config["second"] = 2
  BY <1>3
<1> HIDE DEF config
<1>5. keys'[signer.kid] = 1 /\ keys'["second"] = 2
  BY <1>1, <1>3, <1>4 DEF KeySet, KeyIds
<1>6. rotation'.phase = "two keys"
  BY <1>1 DEF TypeOK
<1>7. OldKeySigns'
  BY <1>1, <1>2 DEF OldKeySigns
<1> QED BY <1>1, <1>5, <1>6, <1>7 DEF KeysInv

(* No token lives longer than AccessTTL from now on.                        *)
LEMMA SigningKeepsKeys ==
  ASSUME TypeOK, KeysInv, StaleInv, SignWithNewKey
  PROVE  KeysInv'
<1>1. /\ rotation.phase = "two keys" /\ rotation' = [phase |-> "signing", since |-> now]
      /\ signer' = [kid |-> "second", key |-> 2] /\ UNCHANGED <<tokens, keys>>
  BY DEF SignWithNewKey
<1>2. OldKeySigns /\ keys[signer.kid] = 1 /\ keys["second"] = 2
  BY <1>1 DEF KeysInv
<1>3. NewKeySigns'
  BY <1>1, <1>2 DEF NewKeySigns
<1>4. ASSUME NEW t \in tokens
      PROVE  keys'[t.kid] = t.key /\ t.exp <= rotation'.since + AccessTTL
  <2>1. t.kid = signer.kid /\ t.key = 1
    BY <1>2 DEF OldKeySigns
  <2>2. t.exp <= now + AccessTTL
    BY DEF StaleInv, TokenOK
  <2> QED BY <1>1, <1>2, <2>1, <2>2
<1>5. rotation'.phase = "signing"
  BY <1>1
<1> QED BY <1>1, <1>3, <1>4, <1>5 DEF KeysInv

(* By then every token of the old key has expired.                          *)
LEMMA RemovingKeepsKeys ==
  ASSUME TypeOK, KeysInv, RemoveOldKey
  PROVE  KeysInv'
<1> DEFINE config == [kid \in {"second"} |-> 2]
<1>1. /\ rotation.phase = "signing" /\ now >= rotation.since + AccessTTL
      /\ rotation' = [rotation EXCEPT !.phase = "done"]
      /\ keys' = KeySet(config) /\ UNCHANGED <<now, tokens, signer>>
  BY DEF RemoveOldKey, StartGateway, identityVars
<1>2. DOMAIN config = {"second"} /\ config["second"] = 2
  OBVIOUS
<1> HIDE DEF config
<1>3. keys'["second"] = 2
  BY <1>1, <1>2 DEF KeySet, KeyIds
<1>4. NewKeySigns'
  BY <1>1, <1>3 DEF KeysInv, NewKeySigns
<1>5. now \in Nat /\ rotation.since \in Nat /\ AccessTTL \in Nat
  BY GatewayAssumption DEF TypeOK
<1>6. ASSUME NEW t \in tokens
      PROVE  SignedNew(t) \/ t.exp <= now
  <2>1. t.exp \in Nat
    BY DEF TypeOK, AccessTokens
  <2>2. SignedNew(t) \/ t.exp <= rotation.since + AccessTTL
    BY <1>1 DEF KeysInv
  <2> QED BY <1>1, <1>5, <2>1, <2>2
<1>7. rotation'.phase = "done"
  BY <1>1 DEF TypeOK
<1> QED BY <1>1, <1>4, <1>6, <1>7 DEF KeysInv, SignedNew

LEMMA NextKeys == TypeOK' /\ StaleInv /\ KeysInv /\ [Next]_vars => KeysInv'
<1> SUFFICES ASSUME TypeOK', StaleInv, KeysInv, [Next]_vars PROVE KeysInv'
  OBVIOUS
<1>0. TypeOK /\ now \in Nat
  BY DEF StaleInv, TypeOK
<1>1. ASSUME UNCHANGED <<now, tokens, signer, keys, rotation>>
      PROVE  KeysInv'
  <2>1. \A t \in tokens' : t \in tokens
    BY <1>1
  <2> QED BY <1>0, <1>1, <2>1, KeysUntouched
<1>2. CASE TurnedAway \/ UNCHANGED vars
  <2>1. UNCHANGED <<now, tokens, signer, keys, rotation>>
    BY <1>2, TurnedAwaySteps DEF vars, identityVars, keyVars
  <2> QED BY <1>1, <2>1
<1>3. CASE Tick
  <2>1. now' = now + 1 /\ UNCHANGED <<tokens, signer, keys, rotation>>
    BY <1>3 DEF Tick, identityVars, keyVars
  <2>2. \A t \in tokens' : t \in tokens
    BY <2>1
  <2> QED BY <1>0, <2>1, <2>2, KeysUntouched
<1>4. ASSUME NEW m \in MemberIds, IssueAtSignIn(m) \/ IssueAtRefresh(m)
      PROVE  KeysInv'
  <2>1. PICK role, from : Issue(m, role, from)
    BY <1>4 DEF IssueAtSignIn, IssueAtRefresh
  <2>2. /\ UNCHANGED <<now, signer, keys, rotation>>
        /\ \A t \in tokens' : t \in tokens \/ (t.kid = signer.kid /\ t.key = signer.key)
    BY <2>1 DEF Issue, Mint, keyVars
  <2> QED BY <1>0, <2>2, KeysUntouched
<1>5. ASSUME NEW m \in MemberIds,
             \/ Rotate(m) \/ Unanswered(m) \/ RemoveMember(m)
             \/ \E role \in StoredRoles : ChangeRole(m, role)
      PROVE  KeysInv'
  <2>1. UNCHANGED <<now, tokens, signer, keys, rotation>>
    BY <1>5 DEF Rotate, Unanswered, RemoveMember, ChangeRole, keyVars
  <2> QED BY <1>1, <2>1
<1>6. ASSUME NEW path \in Paths, NEW t \in tokens \cup {NoToken}, NEW address \in Addresses,
             TooMany(path, t, address) \/ \E m \in MemberIds : Forward(path, t, address, m)
      PROVE  KeysInv'
  <2>1. UNCHANGED <<now, tokens, signer, keys, rotation>>
    BY <1>6 DEF TooMany, Forward, identityVars, keyVars
  <2> QED BY <1>1, <2>1
<1> QED BY <1>0, <1>2, <1>3, <1>4, <1>5, <1>6, AddKeyKeepsKeys, SigningKeepsKeys, RemovingKeepsKeys
        DEF Next, TurnedAway

(* The gateway has the key of every token that has not expired.             *)
LEMMA LiveTokenVerifies ==
  ASSUME TypeOK, KeysInv, NEW t \in tokens, now < t.exp
  PROVE  Verify(t)
<1>1. t \in AccessTokens /\ t.role \in ClaimRoles /\ t.exp \in Nat /\ t.key \in PublicKeys
      /\ t.kid \in KeyIds /\ now \in Nat
  BY DEF TypeOK, AccessTokens
<1>2. t # NoToken
  <2>1. NoToken.key = 0 /\ 0 \notin PublicKeys
    BY DEF NoToken, NoKey, PublicKeys
  <2> QED BY <1>1, <2>1
<1>3. ASSUME NEW kid \in KeyIds, keys[kid] \in PublicKeys
      PROVE  KeyFor(kid) = keys[kid]
  <2>1. keys[kid] # NoKey
    BY <1>3 DEF PublicKeys, NoKey
  <2>2. kid \in Configured
    BY <2>1 DEF Configured
  <2> QED BY <2>2 DEF KeyFor
<1>4. KeyFor(t.kid) = t.key
  <2>1. CASE rotation.phase = "one key"
    BY <2>1 DEF KeysInv, OldKeySigns
  <2>2. CASE rotation.phase = "two keys"
    BY <1>1, <1>3, <2>2 DEF KeysInv, OldKeySigns, PublicKeys
  <2>3. ASSUME keys["second"] = 2, SignedNew(t)
        PROVE  KeyFor(t.kid) = t.key
    BY <1>1, <1>3, <2>3 DEF SignedNew, PublicKeys
  <2>4. CASE rotation.phase = "signing"
    BY <1>1, <1>3, <2>3, <2>4 DEF KeysInv, NewKeySigns
  <2>5. CASE rotation.phase = "done"
    <3>1. ~(t.exp <= now)
      BY <1>1
    <3> QED BY <2>3, <2>5, <3>1 DEF KeysInv, NewKeySigns
  <2>6. rotation.phase \in {"one key", "two keys", "signing", "done"}
    BY DEF TypeOK
  <2> QED BY <2>1, <2>2, <2>4, <2>5, <2>6
<1> QED BY <1>1, <1>2, <1>4 DEF Verify

(* Replacing the key ends nobody's access (type verifier, key, NewVerifier):*)
(* a token that has not expired is never refused as unauthenticated,        *)
(* whichever key signed it and however far the operator has come.           *)
THEOREM NoTokenCutShort == Spec => ValidTokenAccepted
<1>1. ASSUME TypeOK, KeysInv, [Next]_vars, vars' # vars, reply'.status = "unauthenticated"
      PROVE  reply'.token = NoToken \/ now >= reply'.token.exp
  <2>1. NoReply.status # "unauthenticated"
    BY DEF NoReply
  <2>2. ~Tick /\ ~AddKey /\ ~SignWithNewKey /\ ~RemoveOldKey
    BY <1>1, <2>1 DEF Tick, AddKey, SignWithNewKey, RemoveOldKey, StartGateway
  <2>3. \A m \in MemberIds :
          /\ ~IssueAtSignIn(m) /\ ~IssueAtRefresh(m) /\ ~Rotate(m) /\ ~Unanswered(m)
          /\ ~RemoveMember(m) /\ \A role \in StoredRoles : ~ChangeRole(m, role)
    BY <1>1, <2>1 DEF IssueAtSignIn, IssueAtRefresh, Issue, Rotate, Unanswered, RemoveMember,
                      ChangeRole
  <2>4. ASSUME NEW path \in Paths, NEW t \in tokens \cup {NoToken}, NEW address \in Addresses,
               TooMany(path, t, address) \/ \E m \in MemberIds : Forward(path, t, address, m)
        PROVE  FALSE
    <3>1. PICK allowed \in BOOLEAN : Limited(path, t, address, allowed)
      BY <2>4, RequestsAreLimited
    <3>2. reply'.status = IF allowed THEN "forwarded" ELSE "too many"
      BY <3>1 DEF Limited, Says
    <3> QED BY <1>1, <3>2
  <2>5. PICK path \in Paths, t \in tokens \cup {NoToken} :
          NotFound(path, t) \/ Unauthenticated(path, t) \/ WrongRole(path, t)
    BY <1>1, <2>2, <2>3, <2>4 DEF Next
  <2>6. reply'.token = t /\ ~Verify(t)
    <3>1. ASSUME NotFound(path, t) \/ WrongRole(path, t)
          PROVE  FALSE
      <4>1. PICK status \in {"no route", "role"} : Says(status, Match(path), t, NoReply.caller)
        BY <3>1 DEF NotFound, WrongRole, Turned
      <4>2. reply'.status = status
        BY <4>1 DEF Says
      <4> QED BY <1>1, <4>1, <4>2
    <3>3. Unauthenticated(path, t)
      BY <2>5, <3>1
    <3>4. ~Verify(t) /\ Says("unauthenticated", Match(path), t, NoReply.caller)
      BY <3>3 DEF Unauthenticated, Turned
    <3> QED BY <3>4 DEF Says
  <2>7. CASE t \in tokens
    <3>1. t.exp \in Nat /\ now \in Nat
      BY <1>1, <2>7 DEF TypeOK, AccessTokens
    <3>2. ~(now < t.exp)
      BY <1>1, <2>6, <2>7, LiveTokenVerifies
    <3> QED BY <2>6, <3>1, <3>2
  <2> QED BY <2>5, <2>6, <2>7
<1>2. TypeOK /\ KeysInv /\ [Next]_vars =>
        [reply'.status = "unauthenticated" =>
           reply'.token = NoToken \/ now >= reply'.token.exp]_vars
  BY <1>1
<1>3. LimiterInv => TypeOK
  BY DEF LimiterInv
<1> QED BY <1>2, <1>3, InitLimiter, NextLimiter, InitStale, NextStale, InitKeys, NextKeys, PTL
        DEF Spec, ValidTokenAccepted
=============================================================================
