\* Two messages, two handlers, every session an earlier exchange may have left.
CONSTANTS
  h1 = h1
  h2 = h2
  Handlers = {h1, h2}
  MaxMessages = 2
  Says = {"stop", "leave", "booking", "urus", "drop", "number", "yes", "date"}
  Sets = {"OPEN", "BOT_PAUSED", "CLOSED"}
  MaxChanges = 1
  Services = {1}
  Starts = {1, 2}
  Existing = {1}
  MaxBookings = 2
  Earlier <- Left
SPECIFICATION Spec
INVARIANTS OnceEach DoneAsAsked 
CHECK_DEADLOCK FALSE
SYMMETRY Symmetry
