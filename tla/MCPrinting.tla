----------------------------- MODULE MCPrinting -----------------------------
(* Instances of Printing for TLC. *)
EXTENDS Printing, TLC

CONSTANTS i1, i2, p1, p2

(* Two invoices that compete for the last unit of a product; the second    *)
(* one needs another product too, so its debit can fail half way.          *)
TwoQuantities == (i1 :> (p1 :> 1 @@ p2 :> 0)) @@ (i2 :> (p1 :> 1 @@ p2 :> 1))
TwoBalances == p1 :> 1 @@ p2 :> 1

(* One invoice for one unit of a product that starts out of stock. *)
OneQuantity == i1 :> (p1 :> 1)
NoBalance == p1 :> 0

AllQueues == Queues
BillingQueue == {"billing.stock_results"}
=============================================================================
