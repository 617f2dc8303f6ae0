--------------------------- MODULE MCOutboxRelay ---------------------------
(* Model-checking instance of OutboxRelay: the relays are interchangeable. *)
EXTENDS OutboxRelay, TLC

Symmetry == Permutations(Relays)
=============================================================================
