---------------------------- MODULE MCAdminUsers ----------------------------
(* Small instances of AdminUsers for TLC. *)
EXTENDS AdminUsers, TLC

Symmetry == Permutations(Rows) \cup Permutations(Boots) \cup Permutations(Requests)

=============================================================================
