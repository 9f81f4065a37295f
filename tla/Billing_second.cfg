\* One request after another, and HitPay's answer may be lost.
CONSTANTS
  r1 = r1
  r2 = r2
  h1 = h1
  h2 = h2
  p1 = p1
  p2 = p2
  Requests = {r1}
  Hooks = {}
  Plans = {p1}
  NoPlan = NoPlan
  Overrides = {}
  MaxCheckouts = 2
  MaxEvents = 0
SPECIFICATION Spec
INVARIANT NoSecondBilling
CHECK_DEADLOCK FALSE
