\* One payment of three units, four requests to the server, one tab.
CONSTANTS
  f = f
  c1 = c1
  c2 = c2
  c3 = c3
  c4 = c4
  t1 = t1
  Payments = {f}
  Amount <- Prices
  Calls = {c1, c2, c3, c4}
  Tabs = {t1}
  None = None
  NotRead = NotRead
SPECIFICATION Spec
INVARIANTS
  LedgerAdds
  OverRefundNeedsOverlap
  SameAmountIsSafe
  PaidIsBacked
SYMMETRY Symmetry
CHECK_DEADLOCK FALSE
