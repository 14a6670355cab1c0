------------------------------ MODULE Verdicts ------------------------------
(***************************************************************************)
(* A verdict's way from the model to the Recruiter.  The AI Service checks *)
(* the model's assessments and works out the total (service.py,            *)
(* answers.py), Resume Processing keeps both in a document (pipeline.js),  *)
(* Hiring takes the message in (messages.go, screening.go) and ranks the   *)
(* resumes of a job opening across its batches (screening.go,              *)
(* screening_service.go, httpapi/screening.go).                            *)
(*                                                                         *)
(* Each of the three is written on its own, in its own language, and       *)
(* refuses what it does not expect.  The handover between them, with its   *)
(* retries and faults, is the subject of ScreeningHandover; here a resume  *)
(* is scored once and has its candidate.                                   *)
(***************************************************************************)
EXTENDS Integers, FiniteSets, SequencesExt

CONSTANTS
  Batches,       \* the opening's batches in submission order, each the
                 \* sequence of its resumes
  Snapshots,     \* for each batch, the criteria it may be submitted with
  Scores,        \* the scores the model may give
  Overrides,     \* the scores a Recruiter may give
  MaxOverrides   \* bound: resumes whose score is overridden

ASSUME VerdictsAssumption ==
  /\ Scores \subseteq 0..100 /\ Overrides \subseteq 0..100
  /\ DOMAIN Snapshots = DOMAIN Batches
  /\ \A b \in DOMAIN Batches : \A s \in Snapshots[b] : \A c \in DOMAIN s :
       s[c].weight \in Nat \ {0}

VARIABLES
  criteria,   \* the criteria snapshot of each batch
  document,   \* what Resume Processing holds about each resume
  entry,      \* what Hiring holds about each resume
  refused,    \* the resumes whose answer Hiring would not take
  clock       \* Hiring's clock, as far as answers tell its times apart

vars == <<criteria, document, entry, refused, clock>>

Resumes == UNION {{Batches[b][i] : i \in DOMAIN Batches[b]} : b \in DOMAIN Batches}
BatchOf(r) == CHOOSE b \in DOMAIN Batches : \E i \in DOMAIN Batches[b] : Batches[b][i] = r
CriteriaOf(r) == criteria[BatchOf(r)]

(* The place of a resume among those of the opening: ListBatches gives the  *)
(* batches in order of submission, each with its entries by position.       *)
Place(r) ==
  LET b == BatchOf(r) IN
  FoldSeq(LAMBDA s, n : n + Len(s), 0, SubSeq(Batches, 1, b - 1))
    + (CHOOSE i \in DOMAIN Batches[b] : Batches[b][i] = r)

(* The positions of a list of criteria count from 0, as the code's do.      *)
Positions(s) == 0 .. Len(s) - 1
Criterion(s, position) == s[position + 1]

MaxScore == 100
Waiting == [status |-> "pending"]
NoDocument == [status |-> "none"]

-----------------------------------------------------------------------------
(* The request: ids by position, weights of nice-to-haves.                  *)

(* c1, c2, ... by position.                                                 *)
CriterionID(position) == <<"c", position + 1>>

(* The position an id stands for, if it is one CriterionID makes.           *)
ParseCriterionID(id) == IF id[1] = "c" /\ id[2] >= 1 THEN {id[2] - 1} ELSE {}

(* NewRequested: the criteria as they are sent, and passed on to the AI.    *)
Requested(s) ==
  [i \in DOMAIN s |-> [id |-> CriterionID(i - 1), must |-> s[i].must, weight |-> s[i].weight]]

-----------------------------------------------------------------------------
(* The AI Service.                                                          *)

SumOver(S, F(_)) == FoldSet(LAMBDA x, sum : sum + F(x), 0, S)

(* Mutant: a total is rounded to the nearest ten.                           *)
RoundToTen(num, den) == 10 * ((num + 5 * den) \div (10 * den))

RoundHalfUp(num, den) == (2 * num + den) \div (2 * den)

InRange(n) == IF n < 0 THEN 0 ELSE IF n > MaxScore THEN MaxScore ELSE n

(* weighted_total: must-haves have no weight; without any weight, the mean. *)
WeightedTotal(assessments, request) ==
  LET Weight(a) == (CHOOSE q \in Range(request) : q.id = a.id).weight
      nice == {q.id : q \in {q \in Range(request) : ~q.must}}
      weighted == {a \in assessments : a.id \in nice}
  IN InRange(IF weighted # {}
             THEN RoundHalfUp(SumOver(weighted, LAMBDA a : a.score * Weight(a)),
                              SumOver(weighted, Weight))
             ELSE RoundHalfUp(SumOver(assessments, LAMBDA a : a.score),
                              Cardinality(assessments)))

(* The model's answer lists assessments in some order; it may leave one     *)
(* out, make one up or judge a criterion twice.                             *)
Assessments(s) ==
  {J \in [DOMAIN s -> [met : BOOLEAN, score : Scores]] : \A c \in DOMAIN s : s[c].must \/ J[c].met}

Listed(J) == [c \in DOMAIN J |-> [id |-> CriterionID(c - 1), met |-> J[c].met, score |-> J[c].score]]

Answers(J) ==
  LET all == Listed(J) IN
  {all, Tail(all), Append(all, [all[1] EXCEPT !.id = CriterionID(Len(all))]),
   Append(all, [all[1] EXCEPT !.met = ~@])}

(* Strict both ways, and one assessment for each criterion.                 *)
MatchesRequest(answer, request) ==
  /\ {answer[i].id : i \in DOMAIN answer} = {q.id : q \in Range(request)}
  /\ Len(answer) = Cardinality({answer[i].id : i \in DOMAIN answer})

(* ScoreAgainstCriteria, for an answer it accepts.                          *)
ScoreResponse(answer, request) ==
  LET Missed(q) == q.must /\ \E a \in Range(answer) : a.id = q.id /\ ~a.met
      missed == SelectSeq(request, Missed)
  IN [score |-> WeightedTotal(Range(answer), request),
      meets |-> missed = <<>>,
      unmet |-> [i \in DOMAIN missed |-> missed[i].id],
      assessments |-> Range(answer)]

-----------------------------------------------------------------------------
(* Resume Processing.                                                       *)

(* processScreeningRequest with the AI Service's response, or what is left  *)
(* when the AI Service refuses every answer of the model and the retries    *)
(* run out (markFailed).                                                    *)
Screen(r) ==
  /\ document[r] = NoDocument
  /\ \E J \in Assessments(CriteriaOf(r)) : \E answer \in Answers(J) :
       document' = [document EXCEPT ![r] =
         IF MatchesRequest(answer, Requested(CriteriaOf(r)))
         THEN [status |-> "scored", response |-> ScoreResponse(answer, Requested(CriteriaOf(r)))]
         ELSE [status |-> "failed"]]
  /\ UNCHANGED <<criteria, entry, refused, clock>>

Unreadable(r) ==
  /\ document[r] = NoDocument
  /\ document' = [document EXCEPT ![r] = [status |-> "unparsable"]]
  /\ UNCHANGED <<criteria, entry, refused, clock>>

(* toCompleted: the score and the must-haves of a scored resume only.       *)
Completed(d) ==
  IF d.status = "scored"
  THEN [status |-> "scored", score |-> d.response.score, meets |-> d.response.meets,
        unmet |-> d.response.unmet]
  ELSE [status |-> d.status]

-----------------------------------------------------------------------------
(* Hiring takes the answer in.                                              *)

(* ToDomain.                                                                *)
EntryStatus(m) ==
  CASE m.status = "scored" -> "screened"
    [] m.status = "unparsable" -> "needs_review"
    [] m.status = "failed" -> "failed"

(* ... and the criteria it names, each by an id this service sent.          *)
Readable(m) == \A i \in DOMAIN m.unmet : ParseCriterionID(m.unmet[i]) # {}

(* Mutant: the ids are taken for positions.                                 *)
UnmetByNumber(m) == [i \in DOMAIN m.unmet |-> m.unmet[i][2]]

Unmet(m) == [i \in DOMAIN m.unmet |-> CHOOSE c \in ParseCriterionID(m.unmet[i]) : TRUE]

(* checkScreened: a score on the scale, and must-haves of the batch, each   *)
(* listed once, exactly when the candidate is not qualified.                *)
Acceptable(m, s) ==
  /\ 0 <= m.score /\ m.score <= MaxScore
  /\ \A c \in Range(Unmet(m)) : c \in Positions(s) /\ Criterion(s, c).must
  /\ IsInjective(Unmet(m))
  /\ m.meets = (Unmet(m) = <<>>)

NewResult(m, at) ==
  IF m.status = "scored"
  THEN [status |-> "screened", score |-> m.score, meets |-> m.meets, unmet |-> Unmet(m),
        completedAt |-> at, override |-> {}]
  ELSE [status |-> EntryStatus(m), completedAt |-> at]

(* RecordScreeningResult: the time is Hiring's own, and two answers may     *)
(* arrive at the same one.  A message that is refused is dead-lettered.     *)
RecordResult(r) ==
  LET m == Completed(document[r]) IN
  /\ document[r] # NoDocument
  /\ entry[r] = Waiting /\ r \notin refused
  /\ \E at \in {clock, clock + 1} :
       IF m.status = "scored" => Readable(m) /\ Acceptable(m, CriteriaOf(r))
       THEN /\ entry' = [entry EXCEPT ![r] = NewResult(m, at)]
            /\ clock' = at
            /\ UNCHANGED refused
       ELSE /\ refused' = refused \cup {r}
            /\ UNCHANGED <<entry, clock>>
  /\ UNCHANGED <<criteria, document>>

Screened(r) == entry[r].status = "screened"
Overridden == {r \in Resumes : Screened(r) /\ entry[r].override # {}}

(* OverrideScore.  A set with at most one score stands for one that may be  *)
(* missing.                                                                 *)
OverrideScore(r) ==
  /\ Screened(r)
  /\ Cardinality(Overridden \cup {r}) <= MaxOverrides
  /\ \E s \in Overrides : entry' = [entry EXCEPT ![r].override = {s}]
  /\ UNCHANGED <<criteria, document, refused, clock>>

-----------------------------------------------------------------------------
(* Ranking.                                                                 *)

(* Score: the override stands in for the original.                          *)
Score(e) == IF e.override # {} THEN CHOOSE s \in e.override : TRUE ELSE e.score

(* Mutant: the must-haves weigh less than the score.                        *)
ScoreBeforeGate(r, q) ==
  LET e == entry[r] f == entry[q] IN
  \/ Score(e) > Score(f)
  \/ Score(e) = Score(f) /\ e.completedAt < f.completedAt
  \/ Score(e) = Score(f) /\ e.completedAt = f.completedAt /\ Place(r) < Place(q)

(* The order of Rank: the gate, the score, the earlier answer; the sort is  *)
(* stable, so that what is left is the order the resumes were listed in.    *)
Above(r, q) ==
  LET e == entry[r] f == entry[q] IN
  IF e.meets # f.meets THEN e.meets
  ELSE IF Score(e) # Score(f) THEN Score(e) > Score(f)
  ELSE IF e.completedAt # f.completedAt THEN e.completedAt < f.completedAt
  ELSE Place(r) < Place(q)

(* CriterionPosition: the first criterion of that name, in any case; names  *)
(* are compared in lower case.                                              *)
Named(s, name) == {c \in Positions(s) : Criterion(s, c).name = name}
CriterionPosition(s, name) ==
  CHOOSE c \in Named(s, name) : \A d \in Named(s, name) : c <= d

(* Mutant: a nice-to-have no must-have was missed for is taken for met.     *)
NotUnmet(r, name) ==
  /\ Named(CriteriaOf(r), name) # {}
  /\ CriterionPosition(CriteriaOf(r), name) \notin Range(entry[r].unmet)

Meets(r, name) ==
  LET s == CriteriaOf(r) c == CriterionPosition(s, name) IN
  /\ Named(s, name) # {}
  /\ Criterion(s, c).must
  /\ c \notin Range(entry[r].unmet)

(* A filter: a least score, and at most one name.                           *)
Kept(r, f) == Screened(r) /\ Score(entry[r]) >= f.minScore /\ \A name \in f.criterion : Meets(r, name)

Rank(f) == SetToSortSeq({r \in Resumes : Kept(r, f)}, Above)

NoFilter == [minScore |-> 0, criterion |-> {}]

(* GetRankedResults beside the ranking.                                     *)
Pending == {r \in Resumes : entry[r].status = "pending"}
NeedsReview == {r \in Resumes : entry[r].status \in {"needs_review", "failed"}}

(* GetBatchStatus.                                                          *)
Complete(b) == \A i \in DOMAIN Batches[b] : entry[Batches[b][i]].status # "pending"

(* What a row of the list shows (toResult).                                 *)
Shown(r) ==
  [score |-> Score(entry[r]), qualified |-> entry[r].meets,
   unmet |-> {Criterion(CriteriaOf(r), c).name : c \in Range(entry[r].unmet)}]

(* GetScreeningResult: the verdicts Resume Processing holds, each beside    *)
(* the criterion it is about, if it is about one of the batch               *)
(* (GetJustification, toJustification).                                     *)
EvidenceOf(a, s) ==
  {[criterion |-> Criterion(s, c).name, must |-> Criterion(s, c).must, met |-> a.met,
    score |-> a.score] : c \in ParseCriterionID(a.id) \cap Positions(s)}

Evidence(r) ==
  UNION {EvidenceOf(a, CriteriaOf(r)) : a \in document[r].response.assessments}

-----------------------------------------------------------------------------
Init ==
  /\ criteria \in {s \in [DOMAIN Batches -> UNION Range(Snapshots)] :
                     \A b \in DOMAIN Batches : s[b] \in Snapshots[b]}
  /\ document = [r \in Resumes |-> NoDocument]
  /\ entry = [r \in Resumes |-> Waiting]
  /\ refused = {}
  /\ clock = 0

Next ==
  \E r \in Resumes : Screen(r) \/ Unreadable(r) \/ RecordResult(r) \/ OverrideScore(r)

Spec == Init /\ [][Next]_vars

-----------------------------------------------------------------------------
(* Properties.                                                              *)

(* The three services agree on what a verdict is (service.py, pipeline.js   *)
(* toCompleted, messages.go ToDomain, screening.go checkScreened): whatever *)
(* the AI Service lets through, Hiring takes, so that no resume stays       *)
(* pending because its verdict was refused for its content.                 *)
VerdictsAccepted == refused = {}

(* The total is defensible (answers.py weighted_total): it lies between the *)
(* scores it was made from, and a better score for any one criterion never  *)
(* lowers it, rounding included.                                            *)
TotalIsFair ==
  \A r \in Resumes : document[r].status = "scored" =>
    LET request == Requested(CriteriaOf(r))
        given == document[r].response.assessments
        total == document[r].response.score IN
    /\ \E a \in given : a.score <= total
    /\ \E a \in given : total <= a.score
    /\ \A a \in given : \A s \in Scores :
         s >= a.score =>
           WeightedTotal((given \ {a}) \cup {[a EXCEPT !.score = s]}, request) >= total

(* A candidate who is judged at least as well in every criterion of the     *)
(* same batch, and whose score no Recruiter has changed, is never listed    *)
(* below the other, unless the two have the same total and pass the same    *)
(* gate and the other was answered first (Rank).                            *)
AtLeastAsGood(r, q) ==
  LET given == document[r].response.assessments
      others == document[q].response.assessments IN
  \A a \in given : \A o \in others :
    a.id = o.id => a.score >= o.score /\ (o.met => a.met)

BetterRanksHigher ==
  LET all == Rank(NoFilter) IN
  \A i, j \in DOMAIN all :
    LET r == all[i] q == all[j] IN
    /\ i < j /\ BatchOf(r) = BatchOf(q)
    /\ r \notin Overridden /\ q \notin Overridden
    /\ AtLeastAsGood(q, r)
    => /\ entry[r].score = entry[q].score /\ entry[r].meets = entry[q].meets
       /\ entry[r].completedAt <= entry[q].completedAt

(* What the Recruiter is shown agrees (GetRankedResults, toResult,          *)
(* GetScreeningResult): every resume is in exactly one of the lists, a      *)
(* filter leaves the order alone, a resume kept for a must-have does not    *)
(* show that must-have as unmet and one left out does, and the list shows as*)
(* unmet just the must-haves whose evidence says so.  The filter looks only *)
(* at the first criterion of a name (CriterionPosition), and a list of      *)
(* criteria may have a name twice (validateCriteria): what it keeps is      *)
(* stated for names a batch has once.                                       *)
MustHaves(r) ==
  {Criterion(CriteriaOf(r), c).name :
     c \in {c \in Positions(CriteriaOf(r)) : Criterion(CriteriaOf(r), c).must}}
OnlyOneNamed(r, name) == Cardinality(Named(CriteriaOf(r), name)) <= 1
Names == UNION {{s[c].name : c \in DOMAIN s} : s \in Range(criteria)}
Filters == {[minScore |-> n, criterion |-> {}] : n \in Overrides \cup Scores} \cup
           {[minScore |-> 0, criterion |-> {name}] : name \in Names}

ListsAgree ==
  LET all == Rank(NoFilter) listed == {all[i] : i \in DOMAIN all} IN
  /\ listed \cup Pending \cup NeedsReview = Resumes
  /\ \A b \in DOMAIN Batches :
       Complete(b) <=> \A i \in DOMAIN Batches[b] : Batches[b][i] \notin Pending
  /\ \A f \in Filters :
       /\ Rank(f) = SelectSeq(all, LAMBDA r : Kept(r, f))
       /\ \A r \in listed : (\A name \in f.criterion : OnlyOneNamed(r, name)) =>
            (Kept(r, f) <=> /\ Shown(r).score >= f.minScore
                            /\ f.criterion \subseteq MustHaves(r) \ Shown(r).unmet)
  /\ \A r \in listed :
       Shown(r).unmet = {e.criterion : e \in {e \in Evidence(r) : e.must /\ ~e.met}}

(* Meets: a resume meets the must-have of a name, "it does unless screening *)
(* named it unmet" (screening.go).  With two must-haves of one name it may  *)
(* although screening named one of them unmet: see v_same_name.cfg.         *)
MeetsUnlessUnmet ==
  \A r \in Resumes : Screened(r) =>
    \A name \in Names : Meets(r, name) => name \notin Shown(r).unmet
=============================================================================
