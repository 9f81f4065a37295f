\* Three sign-ins, two tabs, one plan.
CONSTANTS
  f1 = f1
  f2 = f2
  f3 = f3
  t1 = t1
  t2 = t2
  s1 = s1
  s2 = s2
  e1 = e1
  e2 = e2
  former = former
  small = small
  Flows = {f1, f2, f3}
  Tabs = {t1, t2}
  None = None
  Identities <- People
  Legacy <- Before
  Plans = {small}
  PlanLimit <- Limits
  MaxChanges = 1
SPECIFICATION Spec
INVARIANTS
  OneTenantPerPerson
  SignedInAsSelf
  ChargedToOwnTenant
  
SYMMETRY Symmetry
CHECK_DEADLOCK FALSE
