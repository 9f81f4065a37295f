\* Two calls while staff, service and customer are switched off and unlinked and
\* capacities are raised and lowered below what is booked.
SPECIFICATION Spec
CONSTANTS
  b0 = b0  b1 = b1  b2 = b2  b3 = b3
  p1 = p1  p2 = p2  p3 = p3
  s1 = s1  s2 = s2  r1 = r1
  NoResource = NoResource
  NoPlace = NoPlace
  NoCustomer = NoCustomer
  Service = service
  Bookings = {b0, b1, b2}
  Staff = {s1}
  Resources = {}
  Windows <- TwoWindows
  Requests = {p1, p2}
  Fresh <- TwoCalls
  Existing <- Moving
  Customers = {c1}
  MaxCapacity = 2
  AdminOps = {"usable", "links", "capacity"}
INVARIANTS ChecksStillHold
PROPERTIES ImplementsLedger
