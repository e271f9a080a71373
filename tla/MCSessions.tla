----------------------------- MODULE MCSessions -----------------------------
(* Two tabs that nothing tells apart. *)
EXTENDS Sessions, TLC

CONSTANTS t1, t2

Alike == Permutations(Tabs)
=============================================================================
