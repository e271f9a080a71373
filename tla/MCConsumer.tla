----------------------------- MODULE MCConsumer -----------------------------
(* Instances of Consumer for TLC. *)
EXTENDS Consumer, TLC

CONSTANTS m1, m2, c1, c2

(* A message that is published twice, and one that nobody can read. *)
TwoOfOne == m1 :> 2 @@ m2 :> 1
=============================================================================
