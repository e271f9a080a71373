------------------------------ MODULE MCOutbox ------------------------------
(* Instances of Outbox for TLC. *)
EXTENDS Outbox, TLC

CONSTANTS r1, r2

ThreeRows == 1 .. 3
=============================================================================
