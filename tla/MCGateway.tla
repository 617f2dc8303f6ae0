------------------------------ MODULE MCGateway ------------------------------
(* Model-checking instance of Gateway: requests are interchangeable. *)
EXTENDS Gateway, TLC

Symmetry == Permutations(Requests)
=============================================================================
