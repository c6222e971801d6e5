--------------------------- MODULE MCOutboxStore ---------------------------
(* Instance of OutboxStore for TLC. *)
EXTENDS OutboxStore, TLC

Symmetry == Permutations(Events) \union Permutations(Workers)

=============================================================================
