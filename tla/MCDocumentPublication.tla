----------------------- MODULE MCDocumentPublication -----------------------
(* Instances of DocumentPublication for TLC. *)
EXTENDS DocumentPublication, TLC

Symmetry == Permutations(Executors) \union Permutations(Contents)

=============================================================================
