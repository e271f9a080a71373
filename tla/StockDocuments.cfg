CONSTANTS
  print = print
  again = again
  note = note
  count = count
  edit = edit
  i1 = i1
  none = none
  Products <- TwoProducts
  CodeRank <- Crossed
  Documents = {print, again, note, count, edit}
  Doc <- Mixed
  OpeningBalance <- OneAndTwo
  IntegerMax = 2
  MaxAborts = 1
SPECIFICATION FairSpec
INVARIANT HistoryExplainsBalance
INVARIANT OnlyCodesDeadlock
PROPERTY BookSpec
PROPERTY EveryDocumentIsSettled
CHECK_DEADLOCK FALSE
