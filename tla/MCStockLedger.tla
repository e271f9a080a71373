--------------------------- MODULE MCStockLedger ---------------------------
(* Instances of StockLedger for TLC. *)
EXTENDS StockLedger, TLC

CONSTANTS print, again, note, count, edit, i1, none

TwoProducts == 1 .. 2

(* Codes that sort the other way round than the ids do. *)
Crossed == 1 :> 2 @@ 2 :> 1

Line(p, d, by, sent) ==
  [product |-> p, delta |-> d, by |-> by, sent |-> sent,
   text |-> IF by = "code" THEN Crossed[p] ELSE 0]
Debit(i, lines) == [kind |-> "debit", invoice |-> i, lines |-> lines, target |-> 0]
Adjust(lines) == [kind |-> "adjust", invoice |-> none, lines |-> lines, target |-> 0]
Edit(p, b) == [kind |-> "edit", invoice |-> none, lines |-> {Line(p, 0, "id", 1)}, target |-> b]

(* Two copies of one invoice's request; a delivery note that lists both    *)
(* products in the other order, one of them twice, and another that gives  *)
(* their codes; and an edit of one of them.                                *)
Mixed ==
  print :> Debit(i1, {Line(2, -1, "id", 1), Line(1, -1, "id", 2)}) @@
  again :> Debit(i1, {Line(2, -1, "id", 1), Line(1, -1, "id", 2)}) @@
  note :> Adjust({Line(1, -1, "id", 1), Line(2, 1, "id", 2),
                  [Line(2, -1, "id", 3) EXCEPT !.text = 2]}) @@
  count :> Adjust({Line(1, 1, "code", 1), Line(2, -1, "code", 2)}) @@
  edit :> Edit(1, 2)

OneAndTwo == 1 :> 1 @@ 2 :> 2
=============================================================================
