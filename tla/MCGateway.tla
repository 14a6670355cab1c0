----------------------------- MODULE MCGateway -----------------------------
EXTENDS Gateway

(* Only differences of times matter, and only up to the longest of them     *)
(* that is ever compared; a full bucket is as good as one filled just now.  *)
(* The reply is not part of the view: nothing the system does depends on    *)
(* it, and the properties are about steps.                                  *)
Ago(time, longest) == IF now - time < longest THEN now - time ELSE longest
Left(time) == IF time > now THEN time - now ELSE 0

RelativeBucket(b) ==
  IF ~b.known THEN <<>> ELSE <<Tokens(b), Ago(b.lastUse, IdleBucketTTL + 1)>>

RelativeCall(i) == IF i = Nothing THEN i ELSE [i EXCEPT !.since = now - @]

(* True; comparing them makes TLC work out the functions it stores.         *)
Evaluated == <<buckets, held, issuing, keys>> = <<buckets, held, issuing, keys>>

View ==
  << Evaluated,
     [c \in Callers |-> RelativeBucket(buckets[c])],
     member,
     [m \in MemberIds |->
        [r \in StoredRoles |-> IF held[m][r] = Never THEN AccessTTL + CallTime
                               ELSE Ago(held[m][r], AccessTTL + CallTime)]],
     [m \in MemberIds |-> RelativeCall(issuing[m])],
     {[t EXCEPT !.exp = Left(@)] : t \in tokens},
     signer, keys, rotation.phase, Ago(rotation.since, AccessTTL) >>

(* Once the operator has begun, one caller at a time has a bucket.          *)
OneBucketWhileReplacing ==
  rotation.phase = "one key" \/ Cardinality({c \in Callers : buckets[c].known}) <= 1
=============================================================================
