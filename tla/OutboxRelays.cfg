CONSTANTS
  r1 = r1
  r2 = r2
  Rows <- ThreeRows
  Relays = {r1, r2}
  BatchSize = 2
  StalledAfter = 2
  MaxRelayFaults = 2
SPECIFICATION OutboxFairSpec
INVARIANT PublishedWasAccepted
INVARIANT CopiesArePaidFor
PROPERTY PendingIsEventuallyPublished
CHECK_DEADLOCK FALSE
