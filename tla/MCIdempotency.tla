--------------------------- MODULE MCIdempotency ---------------------------
(* Instances of Idempotency for TLC. *)
EXTENDS Idempotency, TLC

CONSTANTS q1, q2, q3, note, other

(* Two copies of a delivery note and one different note under its key. *)
Payloads3 == q1 :> note @@ q2 :> note @@ q3 :> other

(* Two copies of a delivery note. *)
Payloads2 == q1 :> note @@ q2 :> note

AllFaults == FaultKinds
=============================================================================
