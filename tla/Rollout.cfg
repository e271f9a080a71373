SPECIFICATION KeySetSpec
CONSTANTS
  r1 = r1
  r2 = r2
  c1 = c1
  c2 = c2
  Replicas = {r1, r2}
  Versions <- OneAndTwo
  Configured = FALSE
  MaxStarts = 2
  Callers = {c1, c2}
  Cooldown = 2
  FetchTimeout = 1
INVARIANT ServesOnlyMigrated
PROPERTY RefusedOnlyWhenStale
PROPERTY RotationIsHonoured
CHECK_DEADLOCK FALSE
