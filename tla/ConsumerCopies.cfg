CONSTANTS
  m1 = m1
  m2 = m2
  c1 = c1
  c2 = c2
  NoMessage = NoMessage
  Messages = {m1, m2}
  Unreadable = {m2}
  Consumers = {c1, c2}
  Attempts = 2
  Copies <- TwoOfOne
  MaxFaults = 2
  MaxStops = 1
  MaxPurges = 1
SPECIFICATION FairSpec
INVARIANT EffectAtMostOncePerRecord
PROPERTY DeliverySpec
PROPERTY ArrivedIsEventuallyApplied
CHECK_DEADLOCK FALSE
