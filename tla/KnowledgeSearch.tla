--------------------------- MODULE KnowledgeSearch ---------------------------
(***************************************************************************)
(* How a customer's question finds the sources it is answered from: the    *)
(* query built from it, the rows the database selects, and their ranking.  *)
(* A text is its set of words, in lower case; a term is found in a text    *)
(* when it is one of its words.  Questions are shorter than the numbers of *)
(* terms at which the code cuts a query off.                               *)
(***************************************************************************)
EXTENDS Integers, FiniteSets

CONSTANTS Words,       \* words as customers and owners write them
          Plain,       \* Plain[w]: w without its accents
          Ignored,     \* plain words too common or too short for a query
          TopicWords   \* TopicWords[t]: the plain words that suggest topic t

ASSUME PlainAssumption ==
  /\ Plain \in [Words -> Words]
  /\ \A w \in Words : Plain[Plain[w]] = Plain[w]

ASSUME TopicsAssumption ==
  /\ Ignored \subseteq Words
  /\ \A t \in DOMAIN TopicWords : TopicWords[t] \subseteq Words

Texts == SUBSET Words

\* normalizeKnowledgeQuestion
Normal(text) == {Plain[w] : w \in text}

\* Mutated form: a question of common words only gives an empty query.
TermsNoFallback(question) == Normal(question) \ Ignored

\* buildKnowledgeQuery
Terms(question) ==
  LET kept == Normal(question) \ Ignored
  IN IF kept = {} THEN Normal(question) ELSE kept

TopicsOf(question) ==
  {t \in DOMAIN TopicWords : Normal(question) \cap TopicWords[t] # {}}

\* The topics for which the database selects every active row of a table ...
Broad ==
  [FAQ |-> {}, SERVICE |-> {"PRICE", "SERVICE"}, STAFF |-> {"STAFF", "HOURS"},
   RESOURCE |-> {"RESOURCE"}, LOCATION |-> {"LOCATION"}, BOOKING_POLICY |-> {"POLICY"}]

\* Mutated form: the ranking does not know that staff have hours.
SourceTopicsNoHours == [Broad EXCEPT !.STAFF = {"STAFF"}]

\* ... and those for which the ranking takes a source to be relevant.
SourceTopics ==
  [FAQ |-> {}, SERVICE |-> {"PRICE", "SERVICE"}, STAFF |-> {"STAFF", "HOURS"},
   RESOURCE |-> {"RESOURCE"}, LOCATION |-> {"LOCATION"}, BOOKING_POLICY |-> {"POLICY"}]

(* A source has a type, a title and a content, and the text `searched' that *)
(* the WHERE clause of its table looks at: question and answer of a FAQ,   *)
(* the name and code of a branch, nothing for the policy.                   *)
Selected(source, question) ==
  \/ TopicsOf(question) \cap Broad[source.type] # {}
  \/ Terms(question) \cap source.searched # {}

Score(source, question) ==
  (IF SourceTopics[source.type] \cap TopicsOf(question) # {} THEN 3 ELSE 0)
  + 8 * Cardinality(Terms(question) \cap Normal(source.title))
  + 2 * Cardinality(Terms(question) \cap Normal(source.content))

\* rankKnowledgeSources: the `limit' best of the sources with a score; equal
\* scores go by title, here by id.
Ranked(sources, question, limit) ==
  LET scored == {s \in sources : Score(s, question) > 0}
      Before(s, t) == \/ Score(s, question) > Score(t, question)
                      \/ Score(s, question) = Score(t, question) /\ s.id < t.id
  IN {t \in scored : Cardinality({s \in scored : Before(s, t)}) < limit}

\* search: what the database selects, ranked.
Search(sources, question, limit) ==
  Ranked({s \in sources : Selected(s, question)}, question, limit)
=============================================================================
