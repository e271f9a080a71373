CONSTANTS
  t1 = t1
  t2 = t2
  Tabs = {t1, t2}
  NoTab = NoTab
  MaxCalls = 4
  MaxFaults = 1
  Mortal = {1}
SPECIFICATION Spec
SYMMETRY Alike
INVARIANT OneUsableToken
INVARIANT RevocationEndsWhatItSaw
INVARIANT DeletedTakesEverySession
INVARIANT NeverStuck
PROPERTY EndedStaysEnded
CHECK_DEADLOCK FALSE
