--------------------------- MODULE MCStockClient ---------------------------
(* Instances of StockClient for TLC. *)
EXTENDS StockClient, TLC

CONSTANTS c1, c2, c3
=============================================================================
