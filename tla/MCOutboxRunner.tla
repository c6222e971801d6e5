--------------------------- MODULE MCOutboxRunner ---------------------------
(* Instances of OutboxRunner for TLC. *)
EXTENDS OutboxRunner, TLC

Symmetry == Permutations(Events)

=============================================================================
