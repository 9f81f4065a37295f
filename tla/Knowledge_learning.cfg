\* Three questions, one answer, two entries; one ask and two edits in flight.
SPECIFICATION LearningSpec
CONSTANTS
  ada = ada  cafe = cafe  accented = accented  jam = jam
  siti = siti  code = code  level = level
  a1 = a1  e1 = e1  e2 = e2
  Words <- MCWords
  Plain <- MCPlain
  Ignored = {ada}
  TopicWords <- MCTopicWords
  Questions <- MCQuestions
  Answers <- MCAnswers
  Catalog <- MCCatalog
  Asks = {a1}
  EditCalls = {e1, e2}
  Given <- MCGiven
  MaxFaqs = 2
  Limit = 1
INVARIANTS TaughtIsAnswered SelectedIsRanked
 
CHECK_DEADLOCK FALSE
