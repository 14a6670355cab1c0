----------------------- MODULE InterviewGuidesProofs -----------------------
(***************************************************************************)
(* What holds of interview guides for every number of guides, calls,       *)
(* questions and revisions.                                                *)
(*                                                                         *)
(* A call writes its copy back, so an invariant of the stored guides is    *)
(* inductive only with the same invariant of the copies, and the two       *)
(* invariants about notes only with how far a copy may be from the guide:  *)
(* on a private guide a call that has not changed its copy yet still holds *)
(* the guide as it is, and one that has follows from it.                   *)
(***************************************************************************)
EXTENDS InterviewGuides, WellFoundedInduction, TLAPS

Busy(c) == call[c] # Idle

(* RegenerateInterviewGuide: what is asked about is not at the bound yet.   *)
RoomForAnother ==
  \A c \in Calls : call[c].op = "ask" /\ call[c].copy # Missing =>
    call[c].copy.revision < MaxRevision

(* A page shows a guide there is: none ever goes missing.                   *)
PageOfAGuide == \A c \in Calls : call[c].op = "view" => guide[call[c].guide] # Missing

CopiesAttributed ==
  \A c \in Calls : Busy(c) /\ call[c].copy # Missing => Attributed(call[c].copy)

(* Starts: on a private guide, one call at a time.                          *)
OneAtATime ==
  \A c, d \in Calls :
    Busy(c) /\ Busy(d) /\ call[c].guide = call[d].guide /\ call[c].guide \in Private => c = d

(* Until it changes its copy, a call holds the guide as it is.              *)
CopyIsCurrent ==
  \A c \in Calls : call[c].op \in {"ask", "view"} /\ call[c].guide \in Private =>
    call[c].copy = guide[call[c].guide]

(* What a call is about to save is a next version of the guide.             *)
CopyFollows ==
  \A c \in Calls : call[c].op = "save" /\ call[c].guide \in Private =>
    /\ Belongs(call[c].copy)
    /\ guide[call[c].guide] # Missing => Follows(guide[call[c].guide], call[c].copy)

AuthorInv ==
  TypeOK /\ RoomForAnother /\ PageOfAGuide /\ AttributedToItsAuthor /\ CopiesAttributed

NotesInv == OneAtATime /\ CopyIsCurrent /\ CopyFollows /\ NotesBelong

IInv == AuthorInv /\ NotesInv

-----------------------------------------------------------------------------
(* The domain rules.                                                        *)

(* A last element exists: the note carryNotes keeps is one of those it saw. *)
LEMMA LastOf ==
  ASSUME NEW n \in Nat, NEW S \in SUBSET (1..n), S # {}
  PROVE  Max(S) \in S
<1> DEFINE Less == OpToRel(<, Nat)
           From == {n - i : i \in S}
<1>1. IsWellFoundedOn(Less, Nat)
  BY NatLessThanWellFounded, Zenon
<1>2. \A x, y \in Nat : x < y => <<x, y>> \in Less
  BY DEF OpToRel
<1>3. From \subseteq Nat /\ From # {}
  <2>1. \A i \in S : n - i \in Nat
    OBVIOUS
  <2> QED BY <2>1, Zenon
<1>4. PICK x \in From : \A y \in From : ~ (<<y, x>> \in Less)
  <2> HIDE DEF From, Less
  <2> QED BY <1>1, <1>3, WFMin, Zenon
<1>5. PICK i \in S : x = n - i
  BY Zenon
<1>6. \A j \in S : ~(n - j < x)
  <2> HIDE DEF Less
  <2> QED BY <1>2, <1>3, <1>4
<1>7. \A j \in S : i >= j
  BY <1>5, <1>6
<1> QED BY <1>7 DEF Max

(* A guide is not missing, and its parts have their types.                  *)
LEMMA Parts ==
  ASSUME NEW d \in InterviewGuide
  PROVE  /\ d # Missing
         /\ d.id \in GuideIds
         /\ d.questions \in Questions
         /\ d.source \in {"generated", "edited"}
         /\ d.attribution \in {NoAttribution} \cup QuestionLists
         /\ d.revision \in 1..MaxRevision
<1>1. d.revision # 0
  BY GuidesAssumption DEF InterviewGuide
<1> QED BY <1>1 DEF InterviewGuide, Missing

LEMMA UnnotedIs ==
  ASSUME NEW texts \in QuestionLists
  PROVE  /\ Unnoted(texts) \in Questions
         /\ [i \in DOMAIN Unnoted(texts) |-> Unnoted(texts)[i].text] = texts
         /\ \A i \in DOMAIN Unnoted(texts) : Unnoted(texts)[i].note = NoNote
<1>1. PICK n \in 1..MaxQuestions : texts \in [1..n -> Texts]
  BY DEF QuestionLists
<1>2. Unnoted(texts) \in [1..n -> [text : Texts, note : {NoNote} \cup Texts]]
  BY <1>1 DEF Unnoted
<1>3. DOMAIN Unnoted(texts) = 1..n /\ \A i \in 1..n : Unnoted(texts)[i] = [text |-> texts[i], note |-> NoNote]
  BY <1>1 DEF Unnoted
<1> QED BY <1>1, <1>2, <1>3 DEF Questions

(* carryNotes: the new list, and a note that was kept is a note of the old. *)
LEMMA CarryIs ==
  ASSUME NEW before \in Questions, NEW texts \in QuestionLists
  PROVE  /\ CarryNotes(before, texts) \in Questions
         /\ DOMAIN CarryNotes(before, texts) = DOMAIN texts
         /\ \A i \in DOMAIN texts :
              LET q == CarryNotes(before, texts)[i]
                  same == {j \in Noted(before) : before[j].text = texts[i]} IN
              /\ q.text = texts[i]
              /\ same = {} => q.note = NoNote
              /\ same # {} => \E j \in same : q.note = before[j].note
<1>1. PICK n \in 1..MaxQuestions : texts \in [1..n -> Texts]
  BY DEF QuestionLists
<1>2. PICK k \in 1..MaxQuestions : before \in [1..k -> [text : Texts, note : {NoNote} \cup Texts]]
  BY DEF Questions
<1> DEFINE same(i) == {j \in Noted(before) : before[j].text = texts[i]}
<1>3. CarryNotes(before, texts) = [i \in 1..n |->
        [text |-> texts[i], note |-> IF same(i) = {} THEN NoNote ELSE before[Max(same(i))].note]]
  BY <1>1 DEF CarryNotes
<1>4. \A i \in 1..n : same(i) \in SUBSET (1..k)
  BY <1>2 DEF Noted
<1>5. \A i \in 1..n : same(i) # {} => Max(same(i)) \in same(i)
  <2>1. k \in Nat
    BY GuidesAssumption
  <2> HIDE DEF same
  <2>2. ASSUME NEW S \in SUBSET (1..k), S # {}
        PROVE  Max(S) \in S
    BY <2>1, <2>2, LastOf
  <2> QED BY <1>4, <2>2
<1>6. \A i \in 1..n : same(i) # {} => before[Max(same(i))].note \in {NoNote} \cup Texts
  BY <1>2, <1>4, <1>5
<1>7. CarryNotes(before, texts) \in [1..n -> [text : Texts, note : {NoNote} \cup Texts]]
  <2> HIDE DEF same
  <2> QED BY <1>1, <1>3, <1>6
<1>8. CarryNotes(before, texts) \in Questions
  BY <1>7 DEF Questions
<1>9. ASSUME NEW i \in 1..n
      PROVE  /\ CarryNotes(before, texts)[i].text = texts[i]
             /\ same(i) = {} => CarryNotes(before, texts)[i].note = NoNote
             /\ same(i) # {} => \E j \in same(i) : CarryNotes(before, texts)[i].note = before[j].note
  <2> HIDE DEF same
  <2> QED BY <1>3, <1>5
<1>10. DOMAIN texts = 1..n /\ DOMAIN CarryNotes(before, texts) = 1..n
  BY <1>1, <1>7
<1> QED BY <1>8, <1>9, <1>10, Zenon

(* NewInterviewGuide, Regenerate, ReplaceQuestions and RecordNote each make *)
(* a guide, and one that names its author.                                  *)
LEMMA NewGuide ==
  ASSUME NEW id \in GuideIds, NEW texts \in QuestionLists
  PROVE  /\ NewInterviewGuide(id, texts) \in InterviewGuide
         /\ Attributed(NewInterviewGuide(id, texts))
<1>1. 1 \in 1..MaxRevision
  BY GuidesAssumption
<1>2. NewInterviewGuide(id, texts) \in InterviewGuide
  BY <1>1, UnnotedIs DEF NewInterviewGuide, InterviewGuide
<1>3. Attributed(NewInterviewGuide(id, texts))
  BY UnnotedIs DEF NewInterviewGuide, Attributed, Asked
<1> QED BY <1>2, <1>3

LEMMA Regenerated ==
  ASSUME NEW d \in InterviewGuide, d.revision < MaxRevision, NEW texts \in QuestionLists
  PROVE  /\ Regenerate(d, texts) \in InterviewGuide
         /\ Attributed(Regenerate(d, texts))
         /\ Belongs(Regenerate(d, texts))
         /\ Follows(d, Regenerate(d, texts))
<1> DEFINE e == Regenerate(d, texts)
<1>1. d.revision + 1 \in 1..MaxRevision /\ d.revision \in Nat
  BY Parts, GuidesAssumption
<1>2. /\ e.questions = Unnoted(texts) /\ e.source = "generated"
      /\ e.attribution = texts /\ e.revision = d.revision + 1
  BY DEF Regenerate, InterviewGuide
<1>3. e \in InterviewGuide
  BY <1>1, UnnotedIs DEF Regenerate, InterviewGuide
<1>4. Attributed(e)
  BY <1>2, UnnotedIs DEF Attributed, Asked
<1>5. Belongs(e)
  BY <1>2, UnnotedIs DEF Belongs, Range
<1>6. Follows(d, e)
  BY <1>1, <1>2 DEF Follows
<1> QED BY <1>3, <1>4, <1>5, <1>6

LEMMA Replaced ==
  ASSUME NEW d \in InterviewGuide, d.revision < MaxRevision, NEW texts \in QuestionLists
  PROVE  /\ ReplaceQuestions(d, texts) \in InterviewGuide
         /\ Attributed(ReplaceQuestions(d, texts))
         /\ Belongs(d) => Belongs(ReplaceQuestions(d, texts))
         /\ Follows(d, ReplaceQuestions(d, texts))
<1> DEFINE before == d.questions
           after == CarryNotes(before, texts)
           e == ReplaceQuestions(d, texts)
           same(i) == {j \in Noted(before) : before[j].text = texts[i]}
<1>1. d.revision + 1 \in 1..MaxRevision /\ before \in Questions
  BY Parts, GuidesAssumption
<1>2. e.questions = after /\ e.source = "edited" /\ e.attribution = NoAttribution
  BY DEF ReplaceQuestions, InterviewGuide
<1>3. after \in Questions /\ DOMAIN after = DOMAIN texts
  BY <1>1, CarryIs
<1>4. \A i \in DOMAIN texts :
        /\ after[i].text = texts[i]
        /\ same(i) = {} => after[i].note = NoNote
        /\ same(i) # {} => \E j \in same(i) : after[i].note = before[j].note
  BY <1>1, CarryIs, Zenon
<1>5. e \in InterviewGuide
  BY <1>1, <1>3 DEF ReplaceQuestions, InterviewGuide
<1>6. Attributed(e)
  BY <1>2 DEF Attributed
<1>7. ASSUME Belongs(d)
      PROVE  Belongs(e)
  <2>1. ASSUME NEW i \in DOMAIN after, after[i].note # NoNote
        PROVE  after[i].note = after[i].text
    <3>1. i \in DOMAIN texts
      BY <2>1, <1>3
    <3>2. PICK j \in same(i) : after[i].note = before[j].note
      BY <2>1, <3>1, <1>4
    <3>3. j \in DOMAIN before /\ before[j].note # NoNote /\ before[j].text = texts[i]
      BY DEF Noted
    <3>4. before[j].note = before[j].text
      BY <1>7, <3>3 DEF Belongs, Range
    <3> QED BY <3>1, <3>2, <3>3, <3>4, <1>4
  <2> HIDE DEF after
  <2> QED BY <2>1, <1>2 DEF Belongs, Range
<1>8. NotedTexts(d) \cap Range(Asked(e)) \subseteq NotedTexts(e)
  <2> SUFFICES ASSUME NEW x \in NotedTexts(d), x \in Range(Asked(e))
               PROVE  x \in NotedTexts(e)
    OBVIOUS
  <2>1. PICK k \in Noted(before) : x = before[k].text
    BY DEF NotedTexts
  <2>2. PICK i \in DOMAIN after : x = after[i].text
    <3> HIDE DEF after
    <3> QED BY <1>2 DEF Range, Asked
  <2>3. i \in DOMAIN texts /\ texts[i] = x
    BY <2>2, <1>3, <1>4
  <2>4. k \in same(i)
    BY <2>1, <2>3
  <2>5. PICK j \in same(i) : after[i].note = before[j].note
    BY <2>3, <2>4, <1>4
  <2>6. after[i].note # NoNote
    BY <2>5 DEF Noted
  <2>7. i \in Noted(e.questions)
    <3> HIDE DEF after
    <3> QED BY <1>2, <2>2, <2>6 DEF Noted
  <2> HIDE DEF after
  <2> QED BY <1>2, <2>2, <2>7 DEF NotedTexts
<1> QED BY <1>5, <1>6, <1>7, <1>8 DEF Follows

LEMMA NoteRecorded ==
  ASSUME NEW d \in InterviewGuide, NEW i \in DOMAIN d.questions,
         NEW note \in {NoNote} \cup Texts
  PROVE  /\ RecordNote(d, i, note) \in InterviewGuide
         /\ Attributed(d) => Attributed(RecordNote(d, i, note))
         /\ Belongs(d) /\ note \in {NoNote, d.questions[i].text} =>
              Belongs(RecordNote(d, i, note))
         /\ Follows(d, RecordNote(d, i, note))
<1> DEFINE e == RecordNote(d, i, note)
           before == d.questions
           after == [before EXCEPT ![i].note = note]
<1>1. before \in Questions
  BY Parts
<1>2. PICK n \in 1..MaxQuestions : before \in [1..n -> [text : Texts, note : {NoNote} \cup Texts]]
  BY <1>1 DEF Questions
<1>3. after \in [1..n -> [text : Texts, note : {NoNote} \cup Texts]]
  <2>1. [before[i] EXCEPT !.note = note] \in [text : Texts, note : {NoNote} \cup Texts]
    BY <1>2
  <2> QED BY <2>1, <1>2
<1>4. /\ DOMAIN after = 1..n
      /\ \A j \in 1..n : after[j].text = before[j].text
      /\ after[i].note = note
      /\ \A j \in (1..n) \ {i} : after[j] = before[j]
  BY <1>2
<1>5. /\ e.questions = after /\ e.source = d.source
      /\ e.attribution = d.attribution /\ e.revision = d.revision
  BY DEF RecordNote, InterviewGuide
<1>6. e \in InterviewGuide
  <2>1. after \in Questions
    BY <1>3 DEF Questions
  <2> HIDE DEF after
  <2>2. e = [d EXCEPT !.questions = after]
    BY DEF RecordNote, after
  <2> QED BY <2>1, <2>2 DEF InterviewGuide
<1>7. Asked(e) = Asked(d)
  <2> HIDE DEF after
  <2> QED BY <1>2, <1>4, <1>5 DEF Asked
<1>8. Attributed(d) => Attributed(e)
  BY <1>5, <1>7 DEF Attributed
<1>9. ASSUME Belongs(d), note \in {NoNote, before[i].text}
      PROVE  Belongs(e)
  <2>1. \A j \in 1..n : before[j].note # NoNote => before[j].note = before[j].text
    BY <1>2, <1>9 DEF Belongs, Range
  <2>2. \A j \in 1..n : after[j].note # NoNote => after[j].note = after[j].text
    <3> HIDE DEF after
    <3> QED BY <2>1, <1>2, <1>4, <1>9
  <2> HIDE DEF after
  <2> QED BY <2>2, <1>4, <1>5 DEF Belongs, Range
<1>10. OtherNotesStay(d, e)
  <2> HIDE DEF after
  <2> QED BY <1>2, <1>4, <1>5 DEF OtherNotesStay
<1> QED BY <1>6, <1>8, <1>9, <1>10 DEF Follows

-----------------------------------------------------------------------------
(* Types and authors.                                                       *)

(* What AuthorInv asks of one call.                                         *)
CallInv(k) ==
  /\ k \in {Idle} \cup Asking \cup Holding
  /\ k.op = "ask" /\ k.copy # Missing => k.copy.revision < MaxRevision
  /\ k # Idle /\ k.copy # Missing => Attributed(k.copy)

LEMMA AuthorInvParts ==
  AuthorInv <=> /\ guide \in [Guides -> {Missing} \cup InterviewGuide]
                /\ call \in [Calls -> {Idle} \cup Asking \cup Holding]
                /\ \A g \in Guides : guide[g] # Missing => Attributed(guide[g])
                /\ \A c \in Calls : CallInv(call[c])
                /\ \A c \in Calls : call[c].op = "view" => guide[call[c].guide] # Missing
BY DEF AuthorInv, TypeOK, RoomForAnother, PageOfAGuide, AttributedToItsAuthor, CopiesAttributed,
       CallInv, Busy

(* A stored guide or a copy that is not missing is a guide.                 *)
LEMMA GuideThere ==
  ASSUME AuthorInv, NEW g \in Guides, guide[g] # Missing
  PROVE  guide[g] \in InterviewGuide /\ Attributed(guide[g])
BY DEF AuthorInv, TypeOK, AttributedToItsAuthor

LEMMA AskingCall ==
  ASSUME AuthorInv, NEW c \in Calls, call[c].op = "ask"
  PROVE  call[c] \in Asking
BY DEF AuthorInv, TypeOK, Idle, Asking, Holding

LEMMA HoldingCall ==
  ASSUME AuthorInv, NEW c \in Calls, call[c].op \in {"view", "save"}
  PROVE  call[c] \in Holding /\ Attributed(call[c].copy) /\ call[c].copy # Missing
<1>1. call[c] \in Holding
  BY DEF AuthorInv, TypeOK, Idle, Asking, Holding
<1>2. call[c].copy # Missing /\ call[c] # Idle
  BY <1>1, Parts DEF Holding, Idle
<1> QED BY <1>1, <1>2, AuthorInvParts DEF CallInv

(* A step that writes one call keeps what AuthorInv says, if it does for it.*)
LEMMA CallWritten ==
  ASSUME AuthorInv, NEW c \in Calls, NEW k, CallInv(k),
         k.op = "view" => guide[k.guide] # Missing,
         call' = [call EXCEPT ![c] = k], UNCHANGED guide
  PROVE  AuthorInv'
<1>1. /\ guide' \in [Guides -> {Missing} \cup InterviewGuide]
      /\ \A g \in Guides : guide'[g] # Missing => Attributed(guide'[g])
  BY AuthorInvParts
<1>2. call' \in [Calls -> {Idle} \cup Asking \cup Holding]
  BY AuthorInvParts DEF CallInv
<1>3. \A d \in Calls : /\ CallInv(call'[d])
                        /\ call'[d].op = "view" => guide'[call'[d].guide] # Missing
  <2>1. /\ call \in [Calls -> {Idle} \cup Asking \cup Holding]
        /\ \A d \in Calls : /\ CallInv(call[d])
                            /\ call[d].op = "view" => guide[call[d].guide] # Missing
    BY AuthorInvParts
  <2>2. \A d \in Calls : call'[d] = k \/ call'[d] = call[d]
    BY <2>1
  <2> QED BY <2>1, <2>2
<1> QED BY <1>1, <1>2, <1>3
     DEF AuthorInv, TypeOK, RoomForAnother, PageOfAGuide, AttributedToItsAuthor, CopiesAttributed,
         CallInv, Busy

LEMMA IdleInv == CallInv(Idle) /\ Idle.op = "idle"
BY DEF CallInv, Idle

LEMMA HoldingInv ==
  ASSUME NEW op \in {"view", "save"}, NEW g \in Guides, NEW d \in InterviewGuide, Attributed(d)
  PROVE  CallInv([op |-> op, guide |-> g, copy |-> d])
BY DEF CallInv, Holding

LEMMA AuthorKept ==
  ASSUME AuthorInv, Next
  PROVE  AuthorInv'
<1>1. PICK c \in Calls :
        \/ \E g \in Guides : \/ GenerateInterviewGuide(c, g)
                             \/ RegenerateInterviewGuide(c, g)
                             \/ ReviseGuideQuestions(c, g)
                             \/ GetInterviewGuide(c, g)
        \/ Ask(c)
        \/ \E i \in 1..MaxQuestions : RecordInterviewNote(c, i)
        \/ Save(c)
        \/ CallEnds(c)
  BY DEF Next
<1>2. ASSUME NEW g \in Guides, GenerateInterviewGuide(c, g)
      PROVE  AuthorInv'
  <2>1. CallInv([op |-> "ask", guide |-> g, copy |-> Missing])
    BY DEF CallInv, Asking
  <2> QED BY <1>2, <2>1, CallWritten DEF GenerateInterviewGuide, Starts
<1>3. ASSUME NEW g \in Guides, RegenerateInterviewGuide(c, g)
      PROVE  AuthorInv'
  <2>1. guide[g] \in InterviewGuide /\ Attributed(guide[g]) /\ guide[g].revision < MaxRevision
    BY <1>3, GuideThere DEF RegenerateInterviewGuide
  <2>2. CallInv([op |-> "ask", guide |-> g, copy |-> guide[g]])
    BY <2>1 DEF CallInv, Asking
  <2> QED BY <1>3, <2>2, CallWritten DEF RegenerateInterviewGuide, Starts
<1>4. ASSUME NEW g \in Guides, ReviseGuideQuestions(c, g)
      PROVE  AuthorInv'
  <2>1. guide[g] \in InterviewGuide /\ guide[g].revision < MaxRevision
    BY <1>4, GuideThere DEF ReviseGuideQuestions
  <2>2. PICK texts \in QuestionLists : Starts(c, g, "save", ReplaceQuestions(guide[g], texts))
    BY <1>4 DEF ReviseGuideQuestions
  <2>3. CallInv([op |-> "save", guide |-> g, copy |-> ReplaceQuestions(guide[g], texts)])
    BY <2>1, Replaced, HoldingInv
  <2> QED BY <2>2, <2>3, CallWritten DEF Starts
<1>5. ASSUME NEW g \in Guides, GetInterviewGuide(c, g)
      PROVE  AuthorInv'
  <2>1. CallInv([op |-> "view", guide |-> g, copy |-> guide[g]])
    BY <1>5, GuideThere, HoldingInv DEF GetInterviewGuide
  <2> QED BY <1>5, <2>1, CallWritten DEF GetInterviewGuide, Starts
<1>6. ASSUME Ask(c)
      PROVE  AuthorInv'
  <2>1. call[c] \in Asking
    BY <1>6, AskingCall DEF Ask
  <2>2. PICK texts \in QuestionLists :
          \/ /\ call[c].copy = Missing
             /\ \E id \in GuideIds :
                  FreshId(id) /\ Continues(c, "save", NewInterviewGuide(id, texts))
          \/ /\ call[c].copy # Missing
             /\ Continues(c, "save", Regenerate(call[c].copy, texts))
    BY <1>6 DEF Ask
  <2>3. ASSUME NEW d \in InterviewGuide, Attributed(d), Continues(c, "save", d)
        PROVE  AuthorInv'
    <3>1. CallInv([op |-> "save", guide |-> call[c].guide, copy |-> d])
      BY <2>1, <2>3, HoldingInv DEF Asking
    <3> QED BY <2>3, <3>1, CallWritten DEF Continues
  <2>4. ASSUME call[c].copy = Missing
        PROVE  AuthorInv'
    BY <2>2, <2>3, <2>4, NewGuide
  <2>5. ASSUME call[c].copy # Missing
        PROVE  AuthorInv'
    <3>1. call[c].copy \in InterviewGuide /\ call[c].copy.revision < MaxRevision
      BY <1>6, <2>1, <2>5, AuthorInvParts DEF Asking, CallInv, Ask
    <3> QED BY <2>2, <2>3, <2>5, <3>1, Regenerated
  <2> QED BY <2>4, <2>5
<1>7. ASSUME NEW i \in 1..MaxQuestions, RecordInterviewNote(c, i)
      PROVE  AuthorInv'
  <2> DEFINE g == call[c].guide
  <2>1. call[c] \in Holding
    BY <1>7, HoldingCall DEF RecordInterviewNote
  <2>2. g \in Guides /\ call[c].copy \in InterviewGuide
    BY <2>1 DEF Holding
  <2>3. PICK note \in {NoNote, call[c].copy.questions[i].text} :
          Continues(c, "save", RecordNote(guide[g], i, note))
    BY <1>7 DEF RecordInterviewNote
  <2>4. note \in {NoNote} \cup Texts
    <3>1. call[c].copy.questions \in Questions /\ i \in DOMAIN call[c].copy.questions
      BY <1>7, <2>2, Parts DEF RecordInterviewNote
    <3> QED BY <2>3, <3>1 DEF Questions
  <2>5. guide[g] \in InterviewGuide /\ i \in DOMAIN guide[g].questions
    <3>1. i \in DOMAIN guide[g].questions
      BY <1>7 DEF RecordInterviewNote
    <3>2. guide[g] \in {Missing} \cup InterviewGuide
      BY <2>2, AuthorInvParts
    <3>3. guide[g] # Missing
      BY <1>7, AuthorInvParts DEF RecordInterviewNote
    <3> QED BY <3>1, <3>2, <3>3
  <2> DEFINE d == RecordNote(guide[g], i, note)
  <2>6. d \in InterviewGuide /\ Attributed(d)
    BY <2>2, <2>4, <2>5, GuideThere, NoteRecorded, Parts
  <2>7. CallInv([op |-> "save", guide |-> g, copy |-> d])
    <3> HIDE DEF d
    <3> QED BY <2>2, <2>6, HoldingInv
  <2>8. call' = [call EXCEPT ![c] = [op |-> "save", guide |-> g, copy |-> d]]
    BY <2>3 DEF Continues
  <2> QED BY <2>3, <2>7, <2>8, CallWritten DEF Continues
<1>8. ASSUME Save(c)
      PROVE  AuthorInv'
  <2>1. call[c] \in Holding /\ Attributed(call[c].copy)
    BY <1>8, HoldingCall DEF Save
  <2>2. /\ guide' \in [Guides -> {Missing} \cup InterviewGuide]
        /\ \A g \in Guides : guide'[g] # Missing => Attributed(guide'[g])
        /\ \A g \in Guides : guide[g] # Missing => guide'[g] # Missing
    BY <1>8, <2>1, HoldingCall, AuthorInvParts DEF Save, Holding
  <2>3. /\ call' \in [Calls -> {Idle} \cup Asking \cup Holding]
        /\ \A d \in Calls : CallInv(call'[d])
        /\ \A d \in Calls : call'[d].op = "view" => guide'[call'[d].guide] # Missing
    <3>1. \A d \in Calls : call'[d] = Idle \/ call'[d] = call[d]
      BY <1>8, AuthorInvParts DEF Save, Ends
    <3>2. \A d \in Calls : call[d].op = "view" => call[d].guide \in Guides
      BY HoldingCall DEF Holding
    <3> QED BY <1>8, <2>2, <3>1, <3>2, IdleInv, AuthorInvParts DEF Save, Ends
  <2> QED BY <2>2, <2>3
       DEF AuthorInv, TypeOK, RoomForAnother, PageOfAGuide, AttributedToItsAuthor, CopiesAttributed,
         CallInv, Busy
<1>9. ASSUME CallEnds(c)
      PROVE  AuthorInv'
  BY <1>9, IdleInv, CallWritten DEF CallEnds, Ends
<1> QED BY <1>1, <1>2, <1>3, <1>4, <1>5, <1>6, <1>7, <1>8, <1>9

-----------------------------------------------------------------------------
(* Notes, on the guides where calls do not overlap.                         *)

(* What NotesInv asks of one call.                                          *)
CurrentOrNext(k) ==
  /\ k.op \in {"ask", "view"} /\ k.guide \in Private => k.copy = guide[k.guide]
  /\ k.op = "save" /\ k.guide \in Private =>
       /\ Belongs(k.copy)
       /\ guide[k.guide] # Missing => Follows(guide[k.guide], k.copy)

Alone(c, g) == \A d \in Calls \ {c} : Busy(d) => call[d].guide # g

(* A step that writes one call keeps what NotesInv says, if it does for it. *)
LEMMA NotesCallWritten ==
  ASSUME IInv, NEW c \in Calls, NEW k, CurrentOrNext(k),
         k = Idle \/ (k.guide \in Private => Alone(c, k.guide)),
         call' = [call EXCEPT ![c] = k], UNCHANGED guide
  PROVE  NotesInv'
<1>1. /\ call'[c] = k
      /\ \A d \in Calls \ {c} : call'[d] = call[d]
  BY DEF IInv, AuthorInv, TypeOK
<1>2. OneAtATime'
  BY <1>1 DEF IInv, NotesInv, OneAtATime, Busy, Alone
<1>3. CopyIsCurrent'
  BY <1>1 DEF IInv, NotesInv, CopyIsCurrent, CurrentOrNext
<1>4. CopyFollows'
  BY <1>1 DEF IInv, NotesInv, CopyFollows, CurrentOrNext
<1>5. NotesBelong'
  BY DEF IInv, NotesInv, NotesBelong
<1> QED BY <1>2, <1>3, <1>4, <1>5 DEF NotesInv

(* Starts finds a private guide not in use; a call under way has it alone.  *)
LEMMA StartsAlone ==
  ASSUME NEW c \in Calls, NEW g \in Guides, g \in Shared \/ ~InUse(g)
  PROVE  g \in Private => Alone(c, g)
BY DEF Private, InUse, Alone, Busy

LEMMA UnderWayAlone ==
  ASSUME IInv, NEW c \in Calls, Busy(c), call[c].guide \in Private
  PROVE  Alone(c, call[c].guide)
BY DEF IInv, NotesInv, OneAtATime, Alone

LEMMA NewBelongs ==
  ASSUME NEW id \in GuideIds, NEW texts \in QuestionLists
  PROVE  Belongs(NewInterviewGuide(id, texts))
BY UnnotedIs DEF NewInterviewGuide, Belongs, Range

LEMMA StartsKeepNotes ==
  ASSUME IInv, NEW c \in Calls, NEW g \in Guides, NEW op \in {"ask", "view", "save"}, NEW d,
         Starts(c, g, op, d),
         CurrentOrNext([op |-> op, guide |-> g, copy |-> d])
  PROVE  NotesInv'
<1>1. g \in Private => Alone(c, g)
  BY StartsAlone DEF Starts
<1> QED BY <1>1, NotesCallWritten DEF Starts

LEMMA ContinuesKeepsNotes ==
  ASSUME IInv, NEW c \in Calls, Busy(c), NEW d,
         Continues(c, "save", d),
         CurrentOrNext([op |-> "save", guide |-> call[c].guide, copy |-> d])
  PROVE  NotesInv'
<1>1. call[c].guide \in Private => Alone(c, call[c].guide)
  BY UnderWayAlone
<1> QED BY <1>1, NotesCallWritten DEF Continues

(* A save reaches no other call's guide, if it is private.                  *)
LEMMA SaveKeepsNotes ==
  ASSUME IInv, NEW c \in Calls, Save(c)
  PROVE  NotesInv'
<1> DEFINE g == call[c].guide
<1>1. call[c] \in Holding /\ Busy(c) /\ g \in Guides
  BY HoldingCall DEF Save, IInv, Holding, Busy, Idle
<1>2. /\ call'[c] = Idle
      /\ \A d \in Calls \ {c} : call'[d] = call[d]
  BY DEF IInv, AuthorInv, TypeOK, Save, Ends
<1>3. /\ guide'[g] = call[c].copy
      /\ \A h \in Guides \ {g} : guide'[h] = guide[h]
  BY <1>1 DEF IInv, AuthorInv, TypeOK, Save
<1>4. OneAtATime'
  BY <1>2 DEF IInv, NotesInv, OneAtATime, Busy
<1>5. \A d \in Calls : Busy(d) => call[d].guide \in Guides
  BY DEF IInv, AuthorInv, TypeOK, Busy, Asking, Holding
<1>6. \A d \in Calls \ {c} : Busy(d) /\ call[d].guide \in Private =>
        guide'[call[d].guide] = guide[call[d].guide]
  BY <1>1, <1>3, <1>5 DEF IInv, NotesInv, OneAtATime
<1>7. Idle.op = "idle"
  BY DEF Idle
<1>8. CopyIsCurrent'
  BY <1>2, <1>6, <1>7 DEF IInv, NotesInv, CopyIsCurrent, Busy
<1>9. CopyFollows'
  BY <1>2, <1>6, <1>7 DEF IInv, NotesInv, CopyFollows, Busy
<1>10. NotesBelong'
  <2>1. g \in Private => Belongs(call[c].copy)
    BY DEF Save, IInv, NotesInv, CopyFollows
  <2>2. \A h \in Private : h \in Guides
    BY DEF Private
  <2> QED BY <1>3, <2>1, <2>2 DEF IInv, NotesInv, NotesBelong
<1> QED BY <1>4, <1>8, <1>9, <1>10 DEF NotesInv

LEMMA NotesInvKept ==
  ASSUME IInv, Next
  PROVE  NotesInv'
<1>1. PICK c \in Calls :
        \/ \E g \in Guides : \/ GenerateInterviewGuide(c, g)
                             \/ RegenerateInterviewGuide(c, g)
                             \/ ReviseGuideQuestions(c, g)
                             \/ GetInterviewGuide(c, g)
        \/ Ask(c)
        \/ \E i \in 1..MaxQuestions : RecordInterviewNote(c, i)
        \/ Save(c)
        \/ CallEnds(c)
  BY DEF Next
<1>2. ASSUME NEW g \in Guides, GenerateInterviewGuide(c, g)
      PROVE  NotesInv'
  <2>1. CurrentOrNext([op |-> "ask", guide |-> g, copy |-> Missing])
    BY <1>2 DEF GenerateInterviewGuide, CurrentOrNext
  <2> QED BY <1>2, <2>1, StartsKeepNotes DEF GenerateInterviewGuide
<1>3. ASSUME NEW g \in Guides, RegenerateInterviewGuide(c, g)
      PROVE  NotesInv'
  <2>1. CurrentOrNext([op |-> "ask", guide |-> g, copy |-> guide[g]])
    BY DEF CurrentOrNext
  <2> QED BY <1>3, <2>1, StartsKeepNotes DEF RegenerateInterviewGuide
<1>4. ASSUME NEW g \in Guides, ReviseGuideQuestions(c, g)
      PROVE  NotesInv'
  <2>1. guide[g] \in InterviewGuide /\ guide[g].revision < MaxRevision
    BY <1>4, GuideThere DEF ReviseGuideQuestions, IInv
  <2>2. PICK texts \in QuestionLists : Starts(c, g, "save", ReplaceQuestions(guide[g], texts))
    BY <1>4 DEF ReviseGuideQuestions
  <2> DEFINE d == ReplaceQuestions(guide[g], texts)
  <2>3. g \in Private => Belongs(guide[g])
    BY <1>4 DEF ReviseGuideQuestions, IInv, NotesInv, NotesBelong
  <2>4. (g \in Private => Belongs(d)) /\ Follows(guide[g], d)
    BY <2>1, <2>3, Replaced
  <2>5. CurrentOrNext([op |-> "save", guide |-> g, copy |-> d])
    <3> HIDE DEF d
    <3> QED BY <2>4 DEF CurrentOrNext
  <2> QED BY <2>2, <2>5, StartsKeepNotes
<1>5. ASSUME NEW g \in Guides, GetInterviewGuide(c, g)
      PROVE  NotesInv'
  <2>1. CurrentOrNext([op |-> "view", guide |-> g, copy |-> guide[g]])
    BY DEF CurrentOrNext
  <2> QED BY <1>5, <2>1, StartsKeepNotes DEF GetInterviewGuide
<1>6. ASSUME Ask(c)
      PROVE  NotesInv'
  <2> DEFINE g == call[c].guide
  <2>1. call[c] \in Asking /\ Busy(c) /\ call[c].op = "ask"
    BY <1>6, AskingCall DEF Ask, IInv, Asking, Busy, Idle
  <2>2. PICK texts \in QuestionLists :
          \/ /\ call[c].copy = Missing
             /\ \E id \in GuideIds :
                  FreshId(id) /\ Continues(c, "save", NewInterviewGuide(id, texts))
          \/ /\ call[c].copy # Missing
             /\ Continues(c, "save", Regenerate(call[c].copy, texts))
    BY <1>6 DEF Ask
  <2>3. g \in Private => guide[g] = call[c].copy
    BY <2>1 DEF IInv, NotesInv, CopyIsCurrent
  <2>4. CASE call[c].copy = Missing
    <3>1. PICK id \in GuideIds : Continues(c, "save", NewInterviewGuide(id, texts))
      BY <2>2, <2>4
    <3> DEFINE d == NewInterviewGuide(id, texts)
    <3>2. Belongs(d)
      BY NewBelongs
    <3>3. CurrentOrNext([op |-> "save", guide |-> g, copy |-> d])
      <4> HIDE DEF d
      <4> QED BY <2>3, <2>4, <3>2 DEF CurrentOrNext
    <3> QED BY <2>1, <3>1, <3>3, ContinuesKeepsNotes
  <2>5. CASE call[c].copy # Missing
    <3>1. call[c].copy \in InterviewGuide /\ call[c].copy.revision < MaxRevision
      BY <2>1, <2>5, AuthorInvParts DEF IInv, Asking, CallInv
    <3> DEFINE d == Regenerate(call[c].copy, texts)
    <3>2. Belongs(d) /\ Follows(call[c].copy, d)
      BY <3>1, Regenerated
    <3>3. CurrentOrNext([op |-> "save", guide |-> g, copy |-> d])
      <4> HIDE DEF d
      <4> QED BY <2>3, <3>2 DEF CurrentOrNext
    <3> QED BY <2>1, <2>2, <2>5, <3>3, ContinuesKeepsNotes
  <2> QED BY <2>4, <2>5
<1>7. ASSUME NEW i \in 1..MaxQuestions, RecordInterviewNote(c, i)
      PROVE  NotesInv'
  <2> DEFINE g == call[c].guide
  <2>1. /\ call[c] \in Holding /\ Busy(c) /\ call[c].op = "view"
        /\ g \in Guides /\ call[c].copy \in InterviewGuide
    BY <1>7, HoldingCall DEF RecordInterviewNote, IInv, Holding, Busy, Idle
  <2>2. PICK note \in {NoNote, call[c].copy.questions[i].text} :
          Continues(c, "save", RecordNote(guide[g], i, note))
    BY <1>7 DEF RecordInterviewNote
  <2> DEFINE d == RecordNote(guide[g], i, note)
  <2>3. ASSUME g \in Private
        PROVE  Belongs(d) /\ Follows(guide[g], d)
    <3>1. guide[g] = call[c].copy
      BY <2>1, <2>3 DEF IInv, NotesInv, CopyIsCurrent
    <3>2. guide[g] \in InterviewGuide /\ i \in DOMAIN guide[g].questions
      BY <1>7, <2>1, <3>1 DEF RecordInterviewNote
    <3>3. note \in {NoNote, guide[g].questions[i].text}
      BY <2>2, <3>1
    <3>4. note \in {NoNote} \cup Texts
      <4>1. guide[g].questions \in Questions
        BY <3>2, Parts
      <4> QED BY <3>2, <3>3, <4>1 DEF Questions
    <3>5. Belongs(guide[g])
      BY <2>3, <3>2, Parts DEF IInv, NotesInv, NotesBelong
    <3> QED BY <3>2, <3>3, <3>4, <3>5, NoteRecorded
  <2>4. CurrentOrNext([op |-> "save", guide |-> g, copy |-> d])
    <3> HIDE DEF d
    <3> QED BY <2>3 DEF CurrentOrNext
  <2> QED BY <2>1, <2>2, <2>4, ContinuesKeepsNotes
<1>8. ASSUME Save(c)
      PROVE  NotesInv'
  BY <1>8, SaveKeepsNotes
<1>9. ASSUME CallEnds(c)
      PROVE  NotesInv'
  <2>1. CurrentOrNext(Idle)
    BY DEF CurrentOrNext, Idle
  <2> QED BY <1>9, <2>1, NotesCallWritten DEF CallEnds, Ends
<1> QED BY <1>1, <1>2, <1>3, <1>4, <1>5, <1>6, <1>7, <1>8, <1>9

-----------------------------------------------------------------------------
LEMMA InitIInv == Init => IInv
<1> SUFFICES ASSUME Init PROVE IInv
  OBVIOUS
<1>1. TypeOK
  BY DEF Init, TypeOK
<1>2. /\ \A c \in Calls : call[c] = Idle /\ call[c].op = "idle"
      /\ \A g \in Guides : guide[g] = Missing
  BY DEF Init, Idle
<1>3. RoomForAnother /\ PageOfAGuide /\ CopiesAttributed /\ OneAtATime /\ CopyIsCurrent /\ CopyFollows
  BY <1>2 DEF RoomForAnother, PageOfAGuide, CopiesAttributed, OneAtATime, CopyIsCurrent, CopyFollows, Busy
<1>4. AttributedToItsAuthor /\ NotesBelong
  BY <1>2 DEF AttributedToItsAuthor, NotesBelong, Private
<1> QED BY <1>1, <1>3, <1>4 DEF IInv, AuthorInv, NotesInv

LEMMA StutterIInv ==
  ASSUME IInv, UNCHANGED vars
  PROVE  IInv'
BY DEF vars, IInv, AuthorInv, NotesInv, TypeOK, RoomForAnother, PageOfAGuide, AttributedToItsAuthor,
       CopiesAttributed, OneAtATime, CopyIsCurrent, CopyFollows, NotesBelong, Busy

(* Every reachable state satisfies the inductive invariant.                 *)
THEOREM Inductive == Spec => []IInv
<1>1. IInv /\ [Next]_vars => IInv'
  <2>1. ASSUME IInv, Next
        PROVE  IInv'
    BY <2>1, AuthorKept, NotesInvKept DEF IInv
  <2> QED BY <2>1, StutterIInv
<1> QED BY <1>1, InitIInv, PTL DEF Spec

(* Every variable has its type, whatever calls are under way.               *)
THEOREM TypeCorrect == Spec => []TypeOK
<1>1. IInv => TypeOK
  BY DEF IInv, AuthorInv
<1> QED BY <1>1, Inductive, PTL

(* ReplaceQuestions: a guide names a model exactly if it asks what that     *)
(* model answered, however generations and revisions overlap.               *)
THEOREM NamesItsAuthor == Spec => []AttributedToItsAuthor
<1>1. IInv => AttributedToItsAuthor
  BY DEF IInv, AuthorInv
<1> QED BY <1>1, Inductive, PTL

(* RecordInterviewNote: where calls do not overlap, a note stands at the    *)
(* question it was written about.                                           *)
THEOREM NotesStand == Spec => []NotesBelong
<1>1. IInv => NotesBelong
  BY DEF IInv, NotesInv
<1> QED BY <1>1, Inductive, PTL

(* What a step does to the guides: nothing, or a save of its own.           *)
LEMMA GuideSteps ==
  ASSUME IInv, [Next]_vars, NEW g \in Guides, guide'[g] # guide[g]
  PROVE  \E c \in Calls : Save(c) /\ call[c].guide = g /\ guide'[g] = call[c].copy
<1>1. \A c \in Calls, h \in Guides : \A op, d : Starts(c, h, op, d) => guide' = guide
  BY DEF Starts
<1>2. \A c \in Calls : \A op, d : Continues(c, op, d) => guide' = guide
  BY DEF Continues
<1>3. PICK c \in Calls : Save(c)
  BY <1>1, <1>2 DEF Next, vars, GenerateInterviewGuide, RegenerateInterviewGuide,
       ReviseGuideQuestions, GetInterviewGuide, Ask, RecordInterviewNote, CallEnds
<1>4. guide \in [Guides -> {Missing} \cup InterviewGuide]
  BY DEF IInv, AuthorInv, TypeOK
<1> QED BY <1>3, <1>4 DEF Save

(* Connect, Regenerate: once a candidate has a guide, that guide is not     *)
(* replaced by another, also when first generations overlap.                *)
THEOREM OneGuideEach == Spec => OneGuide
<1>1. ASSUME IInv, [Next]_vars, NEW g \in Guides, guide[g] # Missing
      PROVE  guide'[g] # Missing /\ guide'[g].id = guide[g].id
  <2>1. CASE guide'[g] = guide[g]
    BY <1>1, <2>1
  <2>2. CASE guide'[g] # guide[g]
    <3>1. PICK c \in Calls : Save(c) /\ call[c].guide = g /\ guide'[g] = call[c].copy
      BY <1>1, <2>2, GuideSteps
    <3>2. call[c].copy # Missing
      BY <1>1, <3>1, HoldingCall DEF IInv, Save
    <3> QED BY <1>1, <3>1, <3>2 DEF Save
  <2> QED BY <2>1, <2>2
<1>2. IInv /\ [Next]_vars => \A g \in Guides : guide[g] # Missing =>
                               guide'[g] # Missing /\ guide'[g].id = guide[g].id
  BY <1>1
<1> QED BY <1>2, Inductive, PTL DEF Spec, OneGuide

(* carryNotes: where calls do not overlap, a note goes only with its        *)
(* question, with a regeneration, or when it is rewritten itself.           *)
THEOREM NotesAreKept == Spec => NotesKept
<1>1. ASSUME IInv, [Next]_vars, NEW g \in Private, guide[g] # Missing, guide'[g] # guide[g]
      PROVE  Follows(guide[g], guide'[g])
  <2>1. g \in Guides
    BY DEF Private
  <2>2. PICK c \in Calls : Save(c) /\ call[c].guide = g /\ guide'[g] = call[c].copy
    BY <1>1, <2>1, GuideSteps
  <2> QED BY <1>1, <2>2 DEF IInv, NotesInv, CopyFollows, Save
<1>2. IInv /\ [Next]_vars => \A g \in Private : guide[g] # Missing /\ guide'[g] # guide[g] =>
                               Follows(guide[g], guide'[g])
  BY <1>1
<1> QED BY <1>2, Inductive, PTL DEF Spec, NotesKept
=============================================================================
