\* A templated reminder and a campaign message, a reply, two dispatcher ticks.
SPECIFICATION FairSpec
CONSTANTS
  j1 = j1  j2 = j2  x1 = x1  d1 = d1  a1 = a1  a2 = a2
  NoMessage = NoMessage
  NoJob = NoJob
  Messages = {j1, j2}
  Ticks = {d1}
  MaxAttempts = 1
  Jobs = {j1, j2}
  Marketing = {j2}
  Templated = {j1}
  Blank = {}
  JobTicks = {a1, a2}
  Switches = {"whatsapp"}
  Replies = {x1}
  MaxPerMinute = 1
INVARIANTS JobAgreesWithQueue OptOutHolds
PROPERTIES EventuallyAnswered
