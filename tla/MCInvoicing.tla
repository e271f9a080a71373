----------------------------- MODULE MCInvoicing -----------------------------
(* Instances of Invoicing for TLC. *)
EXTENDS Invoicing, TLC

CONSTANTS p1, p2, p3, p4, p5, p6, r1, r2, d1, d2, q1, q2

AtFirst == [p \in Products |-> IF p = p1 THEN [code |-> 1, description |-> 0, balance |-> 1]
                               ELSE IF p = p2 THEN [code |-> 2, description |-> 0, balance |-> 2]
                               ELSE NoProduct]

(* Two imports register the code 3, and one of them a second time. *)
Item3(p) == [id |-> p, code |-> 3, balance |-> 0, valid |-> TRUE]
TwoImports == [r \in Imports |-> IF r = r1 THEN << [Item3(p5) EXCEPT !.valid = FALSE, !.code = 4], Item3(p3) >>
                                 ELSE << Item3(p4), Item3(p6) >>]

(* A delivery that names a product twice, and one that takes too much      *)
(* unless the delivery came first.                                         *)
Line(p, byCode, delta) == [product |-> p, byCode |-> byCode, delta |-> delta]
TwoDocuments == [d \in Documents |-> IF d = d1 THEN << Line(p1, FALSE, 1), Line(p1, TRUE, 1) >>
                                     ELSE << Line(p1, FALSE, -2) >>]
Numbered == [d \in Documents |-> IF d = d1 THEN <<1, 2>> ELSE <<3>>]

Wanted(p, quantity) == [product |-> p, quantity |-> quantity]
SomeOrders == { << Wanted(p1, 1), Wanted(p2, 1), Wanted(p1, 1) >>, << Wanted(p3, 1) >> }
SomeAnswers == { << [code |-> 2, quantity |-> 2], [code |-> 9, quantity |-> 1], [code |-> 2, quantity |-> 2] >> }

Query(listing, order, limit, most) ==
  [listing |-> listing, order |-> order, limit |-> limit, most |-> most,
   product |-> IF listing = "history" THEN p1 ELSE "none"]
SomeQueries == { CataloguePage, Query("balance", "desc", 0, 2),
                 Query("history", "desc", 1, -1), [Query("invoices", "desc", 1, -1) EXCEPT !.product = p1] }

(* Bound: the imports, documents, edits and requests that take part.       *)
CONSTANT MaxWriters
Writers ==
  Cardinality({r \in Imports : results[r] # << >> \/ inserted[r] # -1}) +
  Cardinality({d \in Documents : begun[d] # -1}) +
  Cardinality({q \in Requests : stage[q] # "new"}) + edits
FewWriters == Writers <= MaxWriters

Symmetry == Permutations(Requests)
=============================================================================
