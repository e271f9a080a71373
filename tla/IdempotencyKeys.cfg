CONSTANTS
  q1 = q1
  q2 = q2
  q3 = q3
  note = note
  other = other
  Requests = {q1, q2, q3}
  Payload <- Payloads3
  Expired = {q3}
  Faults <- AllFaults
  MaxFaults = 2
SPECIFICATION IdempotencyFairSpec
INVARIANT OneOwner
INVARIANT RepeatsArePaidFor
INVARIANT OkMeansDone
PROPERTY EveryClientIsAnswered
CHECK_DEADLOCK FALSE
