---------------------------- MODULE MCKnowledge ----------------------------
(* KnowledgeLearning on a handful of words.                                *)
EXTENDS KnowledgeLearning

CONSTANTS ada, cafe, accented, jam, siti, code, level  \* words
CONSTANTS a1, e1, e2                                    \* asks, edits

MCWords == {ada, cafe, accented, jam, siti, code, level}
MCPlain == [w \in MCWords |-> IF w = accented THEN cafe ELSE w]
MCTopicWords == [HOURS |-> {jam}, POLICY |-> {}]

\* The same question with and without its accent, one made of a common word
\* only.
MCQuestions == {{accented}, {cafe}, {ada}}
MCAnswers == {{accented, level}}

\* The page gives every field, another client may give the wording only.
MCGiven == {EntryFields, {"question", "answer"}}

\* A staff member and a branch; the code of a branch is searched, not shown.
MCCatalog ==
  {[id |-> 11, type |-> "STAFF", title |-> {siti}, content |-> {siti}, searched |-> {siti}],
   [id |-> 12, type |-> "LOCATION", title |-> {level}, content |-> {level},
    searched |-> {level, code}]}
=============================================================================
