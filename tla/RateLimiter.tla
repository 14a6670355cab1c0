---------------------------- MODULE RateLimiter ----------------------------
(***************************************************************************)
(* The gateway's rate limiter (ratelimit.go): a token bucket per caller,   *)
(* created by the caller's first request and dropped when it has been idle *)
(* for long and another bucket is created.  The mutex makes every use of   *)
(* it one step.                                                            *)
(***************************************************************************)
EXTENDS Naturals

CONSTANTS
  MemberIds,      \* members
  Addresses,      \* addresses of clients
  Rate,           \* RATE_LIMIT_PER_SECOND, in requests per unit of time
  Burst,          \* RATE_LIMIT_BURST
  IdleBucketTTL   \* idleBucketTTL, in units of time

(* A bucket that has been idle for the TTL is full again: 20 a second for   *)
(* ten minutes is far more than the burst of 40.                            *)
ASSUME RateLimiterAssumption ==
  /\ Rate \in Nat
  /\ Burst \in Nat \ {0}
  /\ IdleBucketTTL \in Nat
  /\ Rate * IdleBucketTTL >= Burst

VARIABLES
  now,      \* the time
  buckets   \* the limiter's bucket of each caller, or NoBucket

(* The keys of the limiter; nobody is a member "" as nobody is a caller.    *)
Callers == ({"member"} \X MemberIds) \cup ({"addr"} \X Addresses)

NoMember == "no member"

LimitKey(who, address) == IF who # NoMember THEN <<"member", who>> ELSE <<"addr", address>>

(* tokens is what rate.Limiter held at the time last of the last request it *)
(* allowed; it works out lazily what has been added since.                  *)
NoBucket == [known |-> FALSE, tokens |-> 0, last |-> 0, lastUse |-> 0]
NewBucket == [known |-> TRUE, tokens |-> Burst, last |-> now, lastUse |-> now]
Buckets == [known : BOOLEAN, tokens : Nat, last : Nat, lastUse : Nat]

NoMoreThanBurst(n) == IF n < Burst THEN n ELSE Burst

Tokens(b) == NoMoreThanBurst(b.tokens + Rate * (now - b.last))

Idle(b) == now - b.lastUse > IdleBucketTTL

(* Mutant: every bucket is dropped, idle or not.                            *)
EvictAll == [c \in Callers |-> NoBucket]

EvictIdle == [c \in Callers |-> IF buckets[c].known /\ Idle(buckets[c]) THEN NoBucket
                                ELSE buckets[c]]

WithBucket(c) == IF buckets[c].known THEN buckets ELSE [EvictIdle EXCEPT ![c] = NewBucket]

(* allow: the request of caller c is allowed, or it is not.                 *)
LimiterAllows(c, allowed) ==
  LET b == WithBucket(c)[c] IN
  /\ allowed = (Tokens(b) >= 1)
  /\ buckets' = [WithBucket(c) EXCEPT ![c] =
       IF allowed THEN [known |-> TRUE, tokens |-> Tokens(b) - 1, last |-> now, lastUse |-> now]
       ELSE [b EXCEPT !.lastUse = now]]

NewRateLimiter == [c \in Callers |-> NoBucket]
=============================================================================
