\* A batch of two dates, a single create, and a third call that moves or
\* changes the status of a booking; two staff, one resource they all want.
SPECIFICATION FairSpec
CONSTANTS
  b0 = b0  b1 = b1  b2 = b2  b3 = b3
  p1 = p1  p2 = p2  p3 = p3
  s1 = s1  s2 = s2  r1 = r1
  Bookings = {b0, b1, b2, b3}
  Staff = {s1, s2}
  Resources = {r1}
  NoResource = NoResource
  NoPlace = NoPlace
  Windows <- OneWindow
  Requests = {p1, p2, p3}
  Fresh <- BatchSingleMove
  Existing <- MovingInRoom
  Customers = {}
  NoCustomer = NoCustomer
  Service = service
  MaxCapacity = 1
  AdminOps = {}
INVARIANTS TypeOK BatchAllOrNothing  DeadlockNeedsBatch
PROPERTIES NeverOverbooks LifecycleFollowed EveryCallAnswered
