\* Two messages, two overlapping ticks, three attempts each.
SPECIFICATION FairQueueSpec
CONSTANTS
  m1 = m1  m2 = m2  d1 = d1  d2 = d2
  NoMessage = NoMessage
  Messages = {m1, m2}
  Ticks = {d1, d2}
  MaxAttempts = 3
INVARIANTS OneTickPerRow BoundedSends OutcomeTrue
PROPERTIES EventuallySettled
