\* One visit, one request with candidates, two requests in the server.
CONSTANTS
  Day = 6
  Zone = 5
  Limit = 3
  Anyone = Anyone
  NoResource = 0
  Never = Never
  v1 = v1
  r1 = r1
  c1 = c1
  c2 = c2
  Visits = {v1}
  Tentatives = {r1}
  Calls = {c1, c2}
  Bookings = {1, 2}
  Dates = {1}
  Choices = {Anyone, 2}
  CandidateLists <- SomeLists
  Edits <- SomeEdits
  First_rows <- Plain
  MaxNow = 1
  MaxEdits = 1
  None = None
SPECIFICATION Spec
INVARIANTS ClearUnlessRaced SecondOnlyAfterLoss OrphanNeedsOverlap
 
CHECK_DEADLOCK FALSE
SYMMETRY Symmetry
