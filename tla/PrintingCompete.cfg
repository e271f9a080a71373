CONSTANTS
  i1 = i1
  i2 = i2
  p1 = p1
  p2 = p2
  Invoices = {i1, i2}
  Products = {p1, p2}
  Quantity <- TwoQuantities
  OpeningBalance <- TwoBalances
  QueuesDeclared <- AllQueues
  EchoesAttempt = FALSE
  MaxBalance = 1
  MaxAttempts = 2
  MaxFaults = 1
  MaxRetentions = 0
SPECIFICATION Spec
INVARIANT ClosedOnlyIfDebited
INVARIANT DebitIsAnnounced
INVARIANT PrintingIsBackedByAMessage
INVARIANT StockConserved
PROPERTY LifecycleSpec
