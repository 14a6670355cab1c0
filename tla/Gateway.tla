------------------------------ MODULE Gateway ------------------------------
(***************************************************************************)
(* The request path of the API Gateway (gateway.go, route.go, auth.go),    *)
(* with the access tokens it checks: the Identity Service mints them from  *)
(* the members table at sign-in and at every refresh (token.go, auth.go),  *)
(* and an operator replaces the key they are signed with.  The gateway     *)
(* asks nobody: what a token says was true when it was minted.             *)
(*                                                                         *)
(* One clock serves both services.  The session behind a refresh is the    *)
(* subject of Sessions; here a member who has had a token has one.         *)
(***************************************************************************)
EXTENDS RateLimiter, FiniteSets, SequencesExt

CONSTANTS
  AccessTTL,   \* ACCESS_TOKEN_TTL, in units of time
  CallTime,    \* how long the Identity Service may take to answer
  MaxTokens    \* bound: access tokens minted

ASSUME GatewayAssumption == AccessTTL \in Nat \ {0} /\ CallTime \in Nat

VARIABLES
  member,     \* table members of the Identity Service
  held,       \* for each member and role, when the member last lost it
  issuing,    \* the call of each member that will end in a token
  tokens,     \* the access tokens minted so far
  signer,     \* the key the Identity Service signs with, and its id
  keys,       \* the verification keys of the gateway, by key id
  rotation,   \* how far the operator has come with replacing the key
  reply       \* what the gateway did with the last request

identityVars == <<member, held, issuing, tokens>>
keyVars == <<signer, keys, rotation>>
vars == <<now, buckets, identityVars, keyVars, reply>>

StoredRoles == {"admin", "recruiter"}
ClaimRoles == {"Admin", "Recruiter"}

(* Key 1 is replaced by key 2.  Key id "" is that of a bare PEM block.      *)
PublicKeys == {1, 2}
NoKey == 0
KeyIds == {"", "first", "second"}
Signers == [kid : KeyIds, key : PublicKeys]
KeySet(config) == [kid \in KeyIds |-> IF kid \in DOMAIN config THEN config[kid] ELSE NoKey]
Configured == {kid \in KeyIds : keys[kid] # NoKey}

Never == 0
Nothing == [op |-> "nothing"]
SignIns == [op : {"sign-in"}, role : StoredRoles, since : Nat]
Refreshes == [op : {"refresh"}, rotated : BOOLEAN, since : Nat]
AccessTokens == [sub : MemberIds, role : ClaimRoles, exp : Nat, kid : KeyIds, key : PublicKeys]
NoToken == [sub |-> NoMember, role |-> "none", exp |-> Never, kid |-> "", key |-> NoKey]

-----------------------------------------------------------------------------
(* Routes.  A path is the sequence of its segments, so that a prefix of it  *)
(* ends at a path boundary.                                                 *)

RouteTable ==
  { [prefix |-> <<"auth", "sign-in">>, upstream |-> "identity", needs |-> "public"],
    [prefix |-> <<"auth", "refresh">>, upstream |-> "identity", needs |-> "public"],
    [prefix |-> <<"auth", "change-password">>, upstream |-> "identity", needs |-> "public"],
    [prefix |-> <<"members">>, upstream |-> "identity", needs |-> "admin"],
    [prefix |-> <<"job-openings">>, upstream |-> "hiring", needs |-> "member"] }

NoRoute == [prefix |-> <<>>, upstream |-> "nobody", needs |-> "nothing"]

Matching(path) == {r \in RouteTable : IsPrefix(r.prefix, path)}
Match(path) ==
  IF Matching(path) = {} THEN NoRoute
  ELSE CHOOSE r \in Matching(path) :
         \A q \in Matching(path) : Len(q.prefix) <= Len(r.prefix)

Paths ==
  { <<"auth", "sign-in">>, <<"auth", "refresh">>, <<"members">>,
    <<"job-openings", "42", "screenings">>, <<"job-openings-archive">> }

Allows(needs, role) ==
  \/ needs = "public"
  \/ needs = "member" /\ role \in ClaimRoles
  \/ needs = "admin" /\ role = "Admin"

NoReply == [status |-> "none", needs |-> "nothing", token |-> NoToken,
            caller |-> <<"nobody", "nobody">>]

-----------------------------------------------------------------------------
(* Verifying a token.                                                       *)

(* Mutant: a token must always name its key.                                *)
KeyNamed(kid) == IF kid \in Configured THEN keys[kid] ELSE NoKey

(* The key a token names; a single unnamed key serves every token.          *)
KeyFor(kid) ==
  IF kid \in Configured THEN keys[kid]
  ELSE IF Configured = {""} THEN keys[""]
  ELSE NoKey

(* ParseWithClaims: the signature holds under that key only if the token    *)
(* was signed with it, and the token has not expired.                       *)
Verify(t) ==
  /\ t # NoToken
  /\ KeyFor(t.kid) = t.key
  /\ now < t.exp
  /\ t.role \in ClaimRoles

-----------------------------------------------------------------------------
(* The Identity Service mints tokens.                                       *)

ClaimRole(role) == IF role = "admin" THEN "Admin" ELSE "Recruiter"

Mint(m, role, from) ==
  tokens' = tokens \cup {[sub |-> m, role |-> ClaimRole(role), exp |-> from + AccessTTL,
                          kid |-> signer.kid, key |-> signer.key]}

(* writeTokens: the call ends with a token.                                 *)
Issue(m, role, from) ==
  /\ Mint(m, role, from)
  /\ issuing' = [issuing EXCEPT ![m] = Nothing]
  /\ reply' = NoReply
  /\ UNCHANGED <<now, buckets, member, held, keyVars>>

HasSession(m) == \E t \in tokens : t.sub = m

Minting == {m \in MemberIds : issuing[m] # Nothing}

(* Bound: a call under way has a token left.                                *)
TokenLeft == Cardinality(tokens) + Cardinality(Minting) < MaxTokens

(* Sign-in reads an active member, refresh the time; a request refused for  *)
(* its password or its refresh token, or given up by either side, begins    *)
(* nothing.                                                                 *)
Answer(path, m) ==
  \/ /\ path = <<"auth", "sign-in">>
     /\ issuing[m] = Nothing /\ TokenLeft
     /\ ~member[m].removed
     /\ issuing' = [issuing EXCEPT ![m] = [op |-> "sign-in", role |-> member[m].role,
                                           since |-> now]]
  \/ /\ path = <<"auth", "refresh">>
     /\ issuing[m] = Nothing /\ TokenLeft
     /\ HasSession(m)
     /\ issuing' = [issuing EXCEPT ![m] = [op |-> "refresh", rotated |-> FALSE, since |-> now]]
  \/ UNCHANGED issuing

(* signIn, after the password: the member it read is the one in the token.  *)
IssueAtSignIn(m) ==
  /\ issuing[m].op = "sign-in"
  /\ Issue(m, issuing[m].role, now)

(* RotateRefreshToken refuses a member removed by then.                     *)
Rotate(m) ==
  /\ issuing[m].op = "refresh" /\ ~issuing[m].rotated
  /\ issuing' = [issuing EXCEPT ![m] = IF member[m].removed THEN Nothing
                                       ELSE [@ EXCEPT !.rotated = TRUE]]
  /\ reply' = NoReply
  /\ UNCHANGED <<now, buckets, member, held, tokens, keyVars>>

(* Mutant: the role is taken from a token the member has.                   *)
IssueWithoutReading(m) ==
  /\ issuing[m].op = "refresh" /\ issuing[m].rotated
  /\ \E t \in tokens :
       /\ t.sub = m
       /\ Issue(m, IF t.role = "Admin" THEN "admin" ELSE "recruiter", issuing[m].since)

(* The role is read again, and the token counts from when refresh began.    *)
IssueAtRefresh(m) ==
  /\ issuing[m].op = "refresh" /\ issuing[m].rotated
  /\ Issue(m, member[m].role, issuing[m].since)

(* The call fails, or its answer comes after the server's WriteTimeout.     *)
Unanswered(m) ==
  /\ issuing[m] # Nothing
  /\ issuing' = [issuing EXCEPT ![m] = Nothing]
  /\ reply' = NoReply
  /\ UNCHANGED <<now, buckets, member, held, tokens, keyVars>>

ChangeRole(m, role) ==
  /\ ~member[m].removed /\ member[m].role # role
  /\ member' = [member EXCEPT ![m].role = role]
  /\ held' = [held EXCEPT ![m][member[m].role] = now]
  /\ reply' = NoReply
  /\ UNCHANGED <<now, buckets, issuing, tokens, keyVars>>

RemoveMember(m) ==
  /\ ~member[m].removed
  /\ member' = [member EXCEPT ![m].removed = TRUE]
  /\ held' = [held EXCEPT ![m][member[m].role] = now]
  /\ reply' = NoReply
  /\ UNCHANGED <<now, buckets, issuing, tokens, keyVars>>

-----------------------------------------------------------------------------
(* The operator replaces the signing key (type verifier): the new key is    *)
(* added beside the old one, which now needs the id that tokens name; the   *)
(* Identity Service is started with the new one; and the old one is removed *)
(* once no token signed with it is left.  Each service reads its keys when  *)
(* it starts: a gateway starts with no buckets.                             *)

StartGateway(config) ==
  /\ keys' = KeySet(config)
  /\ buckets' = NewRateLimiter
  /\ reply' = NoReply
  /\ UNCHANGED <<now, identityVars>>

AddKey ==
  /\ rotation.phase = "one key"
  /\ StartGateway([kid \in {signer.kid, "second"} |-> IF kid = "second" THEN 2 ELSE 1])
  /\ rotation' = [rotation EXCEPT !.phase = "two keys"]
  /\ UNCHANGED signer

SignWithNewKey ==
  /\ rotation.phase = "two keys"
  /\ signer' = [kid |-> "second", key |-> 2]
  /\ issuing' = [m \in MemberIds |-> Nothing]
  /\ rotation' = [phase |-> "signing", since |-> now]
  /\ reply' = NoReply
  /\ UNCHANGED <<now, buckets, member, held, tokens, keys>>

RemoveOldKey ==
  /\ rotation.phase = "signing"
  /\ now >= rotation.since + AccessTTL
  /\ StartGateway([kid \in {"second"} |-> 2])
  /\ rotation' = [rotation EXCEPT !.phase = "done"]
  /\ UNCHANGED signer

-----------------------------------------------------------------------------
(* forward: one request, from the route to the answer.  path is what it     *)
(* asks for, t the token it carries, m whose credentials or session it      *)
(* presents at a public route.                                              *)

Who(route, t) == IF route.needs = "public" THEN NoMember ELSE t.sub

Says(status, route, t, caller) ==
  reply' = [status |-> status, needs |-> route.needs, token |-> t, caller |-> caller]

Turned(status, route, t) ==
  /\ Says(status, route, t, NoReply.caller)
  /\ UNCHANGED <<now, buckets, identityVars, keyVars>>

NotFound(path, t) ==
  /\ Match(path) = NoRoute
  /\ Turned("no route", Match(path), t)

Unauthenticated(path, t) ==
  /\ Match(path).needs \in {"member", "admin"}
  /\ ~Verify(t)
  /\ Turned("unauthenticated", Match(path), t)

WrongRole(path, t) ==
  /\ Match(path).needs \in {"member", "admin"}
  /\ Verify(t) /\ ~Allows(Match(path).needs, t.role)
  /\ Turned("role", Match(path), t)

Admitted(route, t) ==
  \/ route.needs = "public"
  \/ route.needs \in {"member", "admin"} /\ Verify(t) /\ Allows(route.needs, t.role)

TooMany(path, t, address) ==
  LET route == Match(path)
      caller == LimitKey(Who(route, t), address) IN
  /\ Admitted(route, t)
  /\ LimiterAllows(caller, FALSE)
  /\ Says("too many", route, t, caller)
  /\ UNCHANGED <<now, identityVars, keyVars>>

(* A refresh that carries no token anywhere is not forwarded (presentCookie)*)
(* and an upstream that is down is answered for; both have spent a request. *)
Forward(path, t, address, m) ==
  LET route == Match(path)
      caller == LimitKey(Who(route, t), address) IN
  /\ Admitted(route, t)
  /\ LimiterAllows(caller, TRUE)
  /\ Answer(path, m)
  /\ Says("forwarded", route, t, caller)
  /\ UNCHANGED <<now, member, held, tokens, keyVars>>

(* Bound: a call of the Identity Service is answered within CallTime.       *)
Tick ==
  /\ \A m \in Minting : now < issuing[m].since + CallTime
  /\ now' = now + 1
  /\ reply' = NoReply
  /\ UNCHANGED <<buckets, identityVars, keyVars>>

-----------------------------------------------------------------------------
(* One deployment signs with a named or an unnamed key, and the gateway is  *)
(* given that key alone, with its id or as a bare PEM block.                *)
Init ==
  /\ now = 1
  /\ buckets = NewRateLimiter
  /\ member \in [MemberIds -> [role : StoredRoles, removed : {FALSE}]]
  /\ held = [m \in MemberIds |-> [r \in StoredRoles |-> Never]]
  /\ issuing = [m \in MemberIds |-> Nothing]
  /\ tokens = {}
  /\ signer \in [kid : {"", "first"}, key : {1}]
  /\ keys \in {KeySet([kid \in {""} |-> 1]), KeySet([kid \in {signer.kid} |-> 1])}
  /\ rotation = [phase |-> "one key", since |-> Never]
  /\ reply = NoReply

Next ==
  \/ Tick \/ AddKey \/ SignWithNewKey \/ RemoveOldKey
  \/ \E m \in MemberIds :
       \/ IssueAtSignIn(m) \/ Rotate(m) \/ IssueAtRefresh(m) \/ Unanswered(m) \/ RemoveMember(m)
       \/ \E role \in StoredRoles : ChangeRole(m, role)
  \/ \E path \in Paths, t \in tokens \cup {NoToken} :
       \/ NotFound(path, t) \/ Unauthenticated(path, t) \/ WrongRole(path, t)
       \/ \E address \in Addresses :
            \/ TooMany(path, t, address)
            \/ \E m \in MemberIds : Forward(path, t, address, m)

Spec == Init /\ [][Next]_vars

-----------------------------------------------------------------------------
(* Properties.                                                              *)

(* Every variable has its type (ratelimit.go, auth.go, token.go).           *)
TypeOK ==
  /\ now \in Nat
  /\ buckets \in [Callers -> Buckets]
  /\ member \in [MemberIds -> [role : StoredRoles, removed : BOOLEAN]]
  /\ held \in [MemberIds -> [StoredRoles -> Nat]]
  /\ issuing \in [MemberIds -> {Nothing} \cup SignIns \cup Refreshes]
  /\ tokens \subseteq AccessTokens
  /\ signer \in Signers
  /\ keys \in [KeyIds -> PublicKeys \cup {NoKey}]
  /\ rotation \in [phase : {"one key", "two keys", "signing", "done"}, since : Nat]

(* Whether the member has the role, or has lost it less than a while ago.   *)
HeldWithin(m, role, while) ==
  \/ member[m].role = role /\ ~member[m].removed
  \/ held[m][role] # Never /\ now < held[m][role] + while

(* Tokens are not revoked, so they go stale, but not for longer than they   *)
(* live (token.go mint, auth.go refresh): a request the gateway forwards is *)
(* that of a member who has had the role in the token until less than a     *)
(* token's lifetime and an answer's time ago, demoted and removed members   *)
(* included.                                                                *)
StaleForATokenAtMost ==
  [][reply'.status = "forwarded" /\ reply'.needs # "public" =>
       \E role \in StoredRoles :
         /\ ClaimRole(role) = reply'.token.role
         /\ HeldWithin(reply'.token.sub, role, AccessTTL + CallTime)]_vars

(* Replacing the key ends nobody's access (type verifier, key): a token     *)
(* that has not expired is never refused as unauthenticated, whichever key  *)
(* it was signed with and however far the operator has come.                *)
ValidTokenAccepted ==
  [][reply'.status = "unauthenticated" =>
       reply'.token = NoToken \/ now >= reply'.token.exp]_vars

(* What evictIdle drops and what a request finds are the limit all the same *)
(* (ratelimit.go allow): each caller, a member or an address, has the       *)
(* budget of a limiter that never forgets, and is refused only when its own *)
(* requests have spent it.                                                  *)
Budget(c) == IF buckets[c].known THEN Tokens(buckets[c]) ELSE Burst

Asked ==
  IF reply.status \in {"forwarded", "too many"}
  THEN [caller |-> reply.caller, allowed |-> reply.status = "forwarded"]
  ELSE [caller |-> NoReply.caller, allowed |-> TRUE]

Promise == INSTANCE RateBudget WITH
  Callers <- Callers,
  budget <- [c \in Callers |-> Budget(c)],
  asked <- Asked

KeepsBudget == Promise!Spec

=============================================================================
