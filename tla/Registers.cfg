SPECIFICATION Spec
CONSTANTS
  p1 = p1
  p2 = p2
  p3 = p3
  p4 = p4
  p5 = p5
  p6 = p6
  r1 = r1
  r2 = r2
  d1 = d1
  d2 = d2
  q1 = q1
  q2 = q2
  Products = {p1, p2, p3, p4, p5, p6}
  InitProducts <- AtFirst
  Imports = {r1, r2}
  ImportItems <- TwoImports
  Documents = {d1, d2}
  Adjustments <- TwoDocuments
  MovementId <- Numbered
  MaxEdits = 1
  Requests = {q1, q2}
  Orders <- SomeOrders
  ModelAnswers <- SomeAnswers
  MaxItemQuantity = 3
  MaxItems = 2
  MaxCatalogue = 3
  DefaultLimit = 1
  MaxLimit = 2
  Queries <- SomeQueries
  MaxWriters = 4
CONSTRAINT FewWriters
SYMMETRY Symmetry
INVARIANT CatalogueIsTruthful
INVARIANT NumbersFollowTheClock
 
INVARIANT PagesAreExact
CHECK_DEADLOCK FALSE
