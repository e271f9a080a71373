CONSTANTS
  w1 = w1
  w2 = w2
  w3 = w3
  w4 = w4
  ok = ok
  office = office
  ada = ada
  Attempts = {w1, w2, w3, ok}
  Address <- FromTheOffice
  Email <- ForAda
  RightPassword = {ok}
  Policies <- PublicThenAuth
  TicksPerSecond = 1
  Delay = 1
  MaxFailures = 2
  FailureWindow = 2
  Lockout = 1
  MaxTime = 6
SPECIFICATION Spec
SYMMETRY Symmetry
INVARIANT AllowanceIsBounded
INVARIANT LockoutIsEarned
PROPERTY WaitingIsEnough
PROPERTY OnlyThoseInFlightTouchALockout
CHECK_DEADLOCK FALSE
