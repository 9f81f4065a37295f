-------------------------- MODULE KnowledgeLearning --------------------------
(***************************************************************************)
(* How the assistant learns: customers ask; a question for which search    *)
(* finds nothing, or the model says nothing, is put on the owner's list;   *)
(* the owner teaches an answer, which becomes a FAQ entry; entries are     *)
(* added, reworded and switched off.  An ask and an edit are several       *)
(* awaited statements, teaching is one transaction.                        *)
(***************************************************************************)
EXTENDS KnowledgeSearch, Sequences

CONSTANTS Questions,  \* what customers and owners may write as a question
          Answers,    \* what owners may write as an answer
          Catalog,    \* active services, staff, branches: sources with an id
          Asks,       \* bound: asks in flight
          EditCalls,  \* bound: edits of FAQ entries in flight
          Given,      \* bound: sets of fields a request may give; a page gives all
          MaxFaqs,    \* bound: entries there will be
          Limit       \* sources given to the model (8)

ASSUME LearningAssumption ==
  /\ Questions \subseteq Texts \ {{}} /\ Answers \subseteq Texts \ {{}}
  /\ \A q \in Questions : IsFiniteSet(q)
  /\ MaxFaqs \in Nat /\ Limit \in Nat \ {0}
  /\ \A s \in Catalog : /\ s.type \in DOMAIN Broad \ {"FAQ"}
                        /\ s.id \in Nat /\ s.id > MaxFaqs

EntryFields == {"question", "answer", "active"}

ASSUME GivenAssumption == Given \subseteq SUBSET EntryFields

VARIABLES faqs,       \* rows of ai_faq_entries, oldest first
          list,       \* ai_unanswered_questions, by normalized question
          ask,        \* the asks in flight
          edit        \* the edits in flight

learningVars == <<faqs, list, ask, edit>>

Keys == {Normal(q) : q \in Questions}
Entries == [question : Questions, answer : Answers, active : BOOLEAN]

NoAsk == [at |-> "idle", question |-> {}]
NoEdit == [at |-> "idle", faq |-> 0]
NotAsked == [status |-> "NONE", example |-> {}, faq |-> 0]

LearningInit ==
  /\ faqs = << >>
  /\ list = [k \in Keys |-> NotAsked]
  /\ ask = [a \in Asks |-> NoAsk]
  /\ edit = [e \in EditCalls |-> NoEdit]
-----------------------------------------------------------------------------
Entry(i) ==
  [id |-> i, type |-> "FAQ", title |-> faqs[i].question, content |-> faqs[i].answer,
   searched |-> faqs[i].question \cup faqs[i].answer]

Sources == Catalog \cup {Entry(i) : i \in {j \in DOMAIN faqs : faqs[j].active}}

\* GroundedFaqService.answer, first half.
Ask(a, q) ==
  /\ ask[a].at = "idle"
  /\ ask' = [ask EXCEPT ![a] =
               [at |-> IF Search(Sources, q, Limit) = {} THEN "record" ELSE "generate",
                question |-> q]]
  /\ UNCHANGED <<faqs, list, edit>>

\* Second half: the model answers, says nothing, or fails.
Generate(a) ==
  /\ ask[a].at = "generate"
  /\ \/ ask' = [ask EXCEPT ![a] = NoAsk]
     \/ ask' = [ask EXCEPT ![a].at = "record"]
  /\ UNCHANGED <<faqs, list, edit>>

\* recordUnanswered: an upsert that opens the question again.
Record(a) ==
  /\ ask[a].at = "record"
  /\ list' = [list EXCEPT ![Normal(ask[a].question)] =
                [status |-> "OPEN", example |-> ask[a].question, faq |-> 0]]
  /\ ask' = [ask EXCEPT ![a] = NoAsk]
  /\ UNCHANGED <<faqs, edit>>

\* The ask disappears: a query throws, or the process ends.
DropAsk(a) ==
  /\ ask[a].at # "idle"
  /\ ask' = [ask EXCEPT ![a] = NoAsk]
  /\ UNCHANGED <<faqs, list, edit>>
-----------------------------------------------------------------------------
\* createFaq
CreateFaq(q, answer, active) ==
  /\ Len(faqs) < MaxFaqs
  /\ faqs' = Append(faqs, [question |-> q, answer |-> answer, active |-> active])
  /\ UNCHANGED <<list, ask, edit>>

\* teachUnanswered: one transaction, whatever the status of the question; the
\* wording is the owner's or that of the customer who asked last.
Teach(k, q, answer) ==
  /\ list[k].status # "NONE"
  /\ Len(faqs) < MaxFaqs
  /\ faqs' = Append(faqs, [question |-> q, answer |-> answer, active |-> TRUE])
  /\ list' = [list EXCEPT ![k].status = "RESOLVED", ![k].faq = Len(faqs')]
  /\ UNCHANGED <<ask, edit>>

\* updateFaq reads the entry ...
BeginEdit(e, i, fields) ==
  /\ edit[e].at = "idle"
  /\ edit' = [edit EXCEPT ![e] = [at |-> "write", faq |-> i, read |-> faqs[i], asked |-> fields]]
  /\ UNCHANGED <<faqs, list, ask>>

\* Mutated form: a field left out gets its default, as in createFaq.
FinishEditDefaults(e) ==
  /\ edit[e].at = "write"
  /\ \E entry \in Entries :
       /\ \A f \in {"question", "answer"} \ edit[e].asked : entry[f] = edit[e].read[f]
       /\ "active" \notin edit[e].asked => entry.active
       /\ faqs' = [faqs EXCEPT ![edit[e].faq] = entry]
  /\ edit' = [edit EXCEPT ![e] = NoEdit]
  /\ UNCHANGED <<list, ask>>

\* ... and writes all of it: the fields it was asked to change and, for the
\* others, what it read.
FinishEdit(e) ==
  /\ edit[e].at = "write"
  /\ \E entry \in Entries :
       /\ \A f \in DOMAIN entry \ edit[e].asked : entry[f] = edit[e].read[f]
       /\ faqs' = [faqs EXCEPT ![edit[e].faq] = entry]
  /\ edit' = [edit EXCEPT ![e] = NoEdit]
  /\ UNCHANGED <<list, ask>>

\* The edit disappears between its two statements.
DropEdit(e) ==
  /\ edit[e].at # "idle"
  /\ edit' = [edit EXCEPT ![e] = NoEdit]
  /\ UNCHANGED <<faqs, list, ask>>

LearningNext ==
  \/ \E a \in Asks : (\E q \in Questions : Ask(a, q)) \/ Generate(a) \/ Record(a) \/ DropAsk(a)
  \/ \E q \in Questions, answer \in Answers, active \in BOOLEAN : CreateFaq(q, answer, active)
  \/ \E k \in Keys, q \in Questions, answer \in Answers : Teach(k, q, answer)
  \/ \E e \in EditCalls : FinishEdit(e) \/ DropEdit(e)
       \/ \E i \in DOMAIN faqs, fields \in Given : BeginEdit(e, i, fields)

LearningSpec == LearningInit /\ [][LearningNext]_learningVars
-----------------------------------------------------------------------------
\* The question k was taught, and its entry is switched on and says k.
Taught(k) ==
  /\ list[k].status = "RESOLVED"
  /\ faqs[list[k].faq].active
  /\ Normal(faqs[list[k].faq].question) = k

\* Once its answer was taught, a question is not turned away again, however it
\* is accented, provided the owner's wording of it has no accents: search and
\* the list of unanswered questions agree on what the same question is.
TaughtIsAnswered ==
  \A q \in Questions :
    /\ Taught(Normal(q))
    /\ LET wording == faqs[list[Normal(q)].faq].question IN Normal(wording) = wording
    => Search(Sources, q, Limit) # {}

\* An entry that was switched off comes back only by an edit that says so, or
\* that read it while it was on; it is the same with its wording.
EditsKeepTheRest ==
  [][\A i \in DOMAIN faqs, f \in EntryFields :
       faqs'[i][f] # faqs[i][f] =>
         \E e \in EditCalls :
           /\ edit[e].at = "write" /\ edit[e].faq = i
           /\ f \in edit[e].asked \/ edit[e].read[f] = faqs'[i][f]]_learningVars

\* The database and the ranking agree on what is relevant, for the questions and
\* for any one word: a row selected by words that its source shows, or by
\* topic, is never dropped as worthless.
SelectedIsRanked ==
  \A q \in Questions \cup {{w} : w \in Words}, s \in Sources :
    Selected(s, q) /\ s.searched \subseteq s.title \cup s.content => Score(s, q) > 0

=============================================================================
