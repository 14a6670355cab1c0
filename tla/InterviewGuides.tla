--------------------------- MODULE InterviewGuides ---------------------------
(***************************************************************************)
(* Interview guides of the Hiring Service: one document for each candidate *)
(* of a job opening.  Every operation reads the document, changes its own  *)
(* copy and writes the whole document back over what is there by then; a   *)
(* generation asks the AI Service in between, for up to a minute.  A       *)
(* question is identified by its position alone, and an interviewer writes *)
(* a note against a question of the page opened earlier.                   *)
(***************************************************************************)
EXTENDS Naturals, Functions, FiniteSetsExt

CONSTANTS
  Guides,         \* a candidate of a job opening, each
  GuideIds,       \* ids a new guide may be given
  Texts,          \* what a question may ask
  MaxQuestions,   \* bound: questions in a guide
  MaxRevision,    \* bound: revision of a guide
  Calls,          \* API calls and open pages at the same time
  Shared          \* the guides two of them may be at work on at the same time

ASSUME GuidesAssumption == MaxQuestions \in Nat \ {0} /\ MaxRevision \in Nat \ {0}

VARIABLES
  guide,   \* collection interview_guides
  call     \* what each call holds

vars == <<guide, call>>

NoNote == "none"
Missing == [revision |-> 0]
Idle == [op |-> "idle"]

(* Questions as the AI Service answers them or a Recruiter sends them:      *)
(* valid, at least one, and without notes.                                  *)
QuestionLists == UNION {[1..n -> Texts] : n \in 1..MaxQuestions}

(* A note is represented by the text of the question it was written about.  *)
Questions == UNION {[1..n -> [text : Texts, note : {NoNote} \cup Texts]] : n \in 1..MaxQuestions}

(* An attribution is represented by the answer of the model it names.       *)
NoAttribution == <<>>

InterviewGuide ==
  [id : GuideIds, questions : Questions, source : {"generated", "edited"},
   attribution : {NoAttribution} \cup QuestionLists, revision : 1..MaxRevision]

Asking == [op : {"ask"}, guide : Guides, copy : {Missing} \cup InterviewGuide]
Holding == [op : {"view", "save"}, guide : Guides, copy : InterviewGuide]

(* Every variable has its type (interview_guide.go).                        *)
TypeOK ==
  /\ guide \in [Guides -> {Missing} \cup InterviewGuide]
  /\ call \in [Calls -> {Idle} \cup Asking \cup Holding]

Init ==
  /\ guide = [g \in Guides |-> Missing]
  /\ call = [c \in Calls |-> Idle]

-----------------------------------------------------------------------------
(* The domain rules.                                                        *)

Asked(d) == [i \in DOMAIN d.questions |-> d.questions[i].text]
Unnoted(texts) == [i \in DOMAIN texts |-> [text |-> texts[i], note |-> NoNote]]
Noted(questions) == {i \in DOMAIN questions : questions[i].note # NoNote}

NewInterviewGuide(id, texts) ==
  [id |-> id, questions |-> Unnoted(texts), source |-> "generated",
   attribution |-> texts, revision |-> 1]

Regenerate(d, texts) ==
  [d EXCEPT !.questions = Unnoted(texts), !.source = "generated",
            !.attribution = texts, !.revision = @ + 1]

(* Mutant: notes stay at their position, whatever is asked there now.       *)
CarryByPosition(before, texts) ==
  [i \in DOMAIN texts |->
     [text |-> texts[i], note |-> IF i \in DOMAIN before THEN before[i].note ELSE NoNote]]

(* Mutant: the notes go with the old list.                                  *)
CarryNothing(before, texts) == Unnoted(texts)

(* carryNotes: a question asked again keeps the last note against its text. *)
CarryNotes(before, texts) ==
  [i \in DOMAIN texts |->
     LET same == {j \in Noted(before) : before[j].text = texts[i]}
     IN  [text |-> texts[i],
          note |-> IF same = {} THEN NoNote ELSE before[Max(same)].note]]

(* Mutant: an edited guide is still attributed to the model.                *)
ReplaceKeepingAttribution(d, texts) ==
  [d EXCEPT !.questions = CarryNotes(d.questions, texts), !.source = "edited",
            !.revision = @ + 1]

ReplaceQuestions(d, texts) ==
  [d EXCEPT !.questions = CarryNotes(d.questions, texts), !.source = "edited",
            !.attribution = NoAttribution, !.revision = @ + 1]

RecordNote(d, i, note) == [d EXCEPT !.questions[i].note = note]

-----------------------------------------------------------------------------
(* The operations, each until its save.                                     *)

InUse(g) == \E d \in Calls : call[d] # Idle /\ call[d].guide = g

Starts(c, g, op, copy) ==
  /\ call[c] = Idle
  /\ g \in Shared \/ ~InUse(g)
  /\ call' = [call EXCEPT ![c] = [op |-> op, guide |-> g, copy |-> copy]]
  /\ UNCHANGED guide

Continues(c, op, copy) ==
  /\ call' = [call EXCEPT ![c] = [op |-> op, guide |-> @.guide, copy |-> copy]]
  /\ UNCHANGED guide

Ends(c) == call' = [call EXCEPT ![c] = Idle]

(* A guide that exists already ends the call with ErrGuideExists.           *)
GenerateInterviewGuide(c, g) ==
  /\ guide[g] = Missing
  /\ Starts(c, g, "ask", Missing)

RegenerateInterviewGuide(c, g) ==
  /\ guide[g] # Missing
  /\ guide[g].revision < MaxRevision
  /\ Starts(c, g, "ask", guide[g])

FreshId(id) ==
  /\ \A g \in Guides : guide[g] # Missing => guide[g].id # id
  /\ \A c \in Calls : call[c] # Idle /\ call[c].copy # Missing => call[c].copy.id # id

(* The candidate's profile is read and the AI Service answers.              *)
Ask(c) ==
  /\ call[c].op = "ask"
  /\ \E texts \in QuestionLists :
       \/ /\ call[c].copy = Missing
          /\ \E id \in GuideIds :
               FreshId(id) /\ Continues(c, "save", NewInterviewGuide(id, texts))
       \/ /\ call[c].copy # Missing
          /\ Continues(c, "save", Regenerate(call[c].copy, texts))

ReviseGuideQuestions(c, g) ==
  /\ guide[g] # Missing
  /\ guide[g].revision < MaxRevision
  /\ \E texts \in QuestionLists : Starts(c, g, "save", ReplaceQuestions(guide[g], texts))

(* GetInterviewGuide, for the page an interviewer takes notes on.           *)
GetInterviewGuide(c, g) ==
  /\ guide[g] # Missing
  /\ Starts(c, g, "view", guide[g])

(* The interviewer writes against question i of the page, or empties what   *)
(* was written there, and the service looks for the id of that question in  *)
(* the guide as it is by now.                                               *)
RecordInterviewNote(c, i) ==
  /\ call[c].op = "view"
  /\ i \in DOMAIN call[c].copy.questions
  /\ i \in DOMAIN guide[call[c].guide].questions
  /\ \E note \in {NoNote, call[c].copy.questions[i].text} :
       Continues(c, "save", RecordNote(guide[call[c].guide], i, note))

(* Mutant: the id of the guide is not the _id of its document.              *)
SaveOverAnother(c) ==
  /\ call[c].op = "save"
  /\ guide' = [guide EXCEPT ![call[c].guide] = call[c].copy]
  /\ Ends(c)

(* Save replaces the document.  MongoDB lets no document take the place of  *)
(* one with another _id: such a save fails.                                 *)
Save(c) ==
  /\ call[c].op = "save"
  /\ guide[call[c].guide] # Missing => guide[call[c].guide].id = call[c].copy.id
  /\ guide' = [guide EXCEPT ![call[c].guide] = call[c].copy]
  /\ Ends(c)

(* A service called fails, its answer is refused, a question is not found,  *)
(* the save fails, or the page is closed.                                   *)
CallEnds(c) ==
  /\ call[c] # Idle
  /\ Ends(c)
  /\ UNCHANGED guide

Next == \E c \in Calls :
  \/ \E g \in Guides :
       \/ GenerateInterviewGuide(c, g)
       \/ RegenerateInterviewGuide(c, g)
       \/ ReviseGuideQuestions(c, g)
       \/ GetInterviewGuide(c, g)
  \/ Ask(c)
  \/ \E i \in 1..MaxQuestions : RecordInterviewNote(c, i)
  \/ Save(c)
  \/ CallEnds(c)

Spec == Init /\ [][Next]_vars

-----------------------------------------------------------------------------
(* Properties.                                                              *)

Private == Guides \ Shared

(* "claiming a model wrote it would be false" (ReplaceQuestions): a guide   *)
(* names a model exactly if it asks what that model answered, unchanged.    *)
Attributed(d) ==
  IF d.source = "generated" THEN d.attribution = Asked(d) ELSE d.attribution = NoAttribution

AttributedToItsAuthor == \A g \in Guides : guide[g] # Missing => Attributed(guide[g])

(* "A candidate has one guide per opening" (Connect), also when first       *)
(* generations overlap, and "the guide keeps its id, so what was retained   *)
(* for this candidate stays one thing" (Regenerate): once there is a guide, *)
(* it is not replaced by another, whatever a generation read before.        *)
OneGuide ==
  [][\A g \in Guides : guide[g] # Missing =>
       guide'[g] # Missing /\ guide'[g].id = guide[g].id]_vars

(* FR-3.5, "kept with the question so the evidence stays attached to the    *)
(* criterion it was meant to test" (RecordInterviewNote): where calls do    *)
(* not overlap, a note stands at the question it was written about, however *)
(* the questions are reordered.                                             *)
Belongs(d) == \A q \in Range(d.questions) : q.note # NoNote => q.note = q.text

NotesBelong == \A g \in Private : guide[g] # Missing => Belongs(guide[g])

NotedTexts(d) == {d.questions[i].text : i \in Noted(d.questions)}

OtherNotesStay(d, e) ==
  /\ e.revision = d.revision
  /\ \E i \in DOMAIN d.questions :
       \A j \in DOMAIN d.questions \ {i} : e.questions[j] = d.questions[j]

(* "adding one question should not silently discard what was written        *)
(* against the others" (carryNotes): where calls do not overlap, a note     *)
(* goes only with its question, with a regeneration of all of them, or when *)
(* it is rewritten itself.                                                  *)
Follows(d, e) ==
  \/ e.source = "generated" /\ e.revision > d.revision
  \/ OtherNotesStay(d, e)
  \/ NotedTexts(d) \cap Range(Asked(e)) \subseteq NotedTexts(e)

NotesKept ==
  [][\A g \in Private : guide[g] # Missing /\ guide'[g] # guide[g] =>
       Follows(guide[g], guide'[g])]_vars
=============================================================================
