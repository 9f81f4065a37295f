\* Two tabs, two requests in flight, every page, some of their rows.
CONSTANTS
  t1 = t1
  t2 = t2
  q1 = q1
  q2 = q2
  quietStartMinute = quietStartMinute
  marketingEnabled = marketingEnabled
  Tabs = {t1, t2}
  Reqs = {q1, q2}
  Pages = {"Settings", "Onboarding", "Automation", "Marketing", "Knowledge"}
  Tracked = {"messaging", "integrations", "onboarding", "campaigns"}
  Fields = {quietStartMinute, marketingEnabled}
  Steps = {"WHATSAPP"}
  None = None
  NotRead = NotRead
  MaxWrites = 2
SPECIFICATION Spec
 
PROPERTY OverwritesOnlyUnseen
SYMMETRY Symmetry
CHECK_DEADLOCK FALSE
