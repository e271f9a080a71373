CONSTANTS
  q1 = q1
  q2 = q2
  q3 = q3
  note = note
  other = other
  Requests = {q1, q2}
  Payload <- Payloads2
  Expired = {q1}
  Faults = {}
  MaxFaults = 0
SPECIFICATION IdempotencySpec
INVARIANT ValidTokenIsServed
CHECK_DEADLOCK FALSE
