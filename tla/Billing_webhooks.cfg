\* Two checkouts, two requests, two handlers, two reports.
CONSTANTS
  r1 = r1
  r2 = r2
  h1 = h1
  h2 = h2
  p1 = p1
  p2 = p2
  Requests = {r1, r2}
  Hooks = {h1, h2}
  Plans = {p1}
  NoPlan = NoPlan
  Overrides = {"CANCELLED"}
  MaxCheckouts = 2
  MaxEvents = 2
SPECIFICATION Spec
INVARIANTS
  ActivationBacked
  OutcomeTrue
  HandledOnce
  LockedOutOnlyByCrash
SYMMETRY Symmetry
CHECK_DEADLOCK FALSE
