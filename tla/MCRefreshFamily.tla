-------------------------- MODULE MCRefreshFamily --------------------------
(* RefreshFamily on a small instance: one login, and three presentations of *)
(* its tokens within two lifetimes of the key. No symmetry: a liveness      *)
(* property is checked.                                                     *)
EXTENDS RefreshFamily

=============================================================================
