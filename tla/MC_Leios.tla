------------------------------ MODULE MC_Leios ------------------------------
(* A small instance of LeiosWitness for TLC. *)
EXTENDS LeiosWitness

CONSTANT p1

OnePayment == {p1}
=============================================================================
