---------------------------- MODULE MCAdmission ----------------------------
(* Instances of Admission for TLC. *)
EXTENDS Admission, TLC

CONSTANTS w1, w2, w3, w4, ok, office, ada

FromTheOffice == [a \in Attempts |-> office]
ForAda == [a \in Attempts |-> ada]

(* What every request has to pass, and what a sign in has to. *)
Public == [requests |-> 3, window |-> 2, burst |-> 3]
Auth == [requests |-> 2, window |-> 3, burst |-> 1]
PublicThenAuth == <<Public, Auth>>

(* Attempts with a wrong password differ in nothing. *)
Symmetry == Permutations(Attempts \ RightPassword)
=============================================================================
