------------------------------ MODULE MCKeySet ------------------------------
(* Instances of KeySet for TLC. *)
EXTENDS KeySet

CONSTANTS r1, r2, c1, c2

(* A deploy of a version with one more migration. *)
OneAndTwo == [r \in Replicas |-> IF r = r1 THEN 1 ELSE 2]
=============================================================================
