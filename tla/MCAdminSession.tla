--------------------------- MODULE MCAdminSession ---------------------------
(* AdminSession on a small instance: two logins, a refresh of each, and the  *)
(* clock past the life of an access token.                                  *)
EXTENDS AdminSession, TLC

Symmetry == Permutations(Requests) \cup Permutations(Families) \cup Permutations(Tokens)

=============================================================================
