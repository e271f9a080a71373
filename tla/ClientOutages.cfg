CONSTANTS
  c1 = c1
  c2 = c2
  c3 = c3
  Clients = {c1, c2, c3}
  Rejected = {}
  Threshold = 2
  Attempts = 2
  MaxOutages = 2
  MaxCancels = 1
SPECIFICATION ClientFairSpec
PROPERTY OpensAfterConsecutiveFailures
 
