CONSTANTS
  i1 = i1
  i2 = i2
  p1 = p1
  p2 = p2
  Invoices = {i1}
  Products = {p1}
  Quantity <- OneQuantity
  OpeningBalance <- NoBalance
  QueuesDeclared <- BillingQueue
  EchoesAttempt = TRUE
  MaxBalance = 1
  MaxAttempts = 2
  MaxFaults = 2
  MaxRetentions = 1
SPECIFICATION ReconcilerSpec
PROPERTY RejectionIsOfThisAttempt
PROPERTY EveryPrintIsResolved
PROPERTY DebitedIsEventuallyClosed
