-------------------------- MODULE MCSearchIndexes --------------------------
(* Two questions, two answers and requests that overlap in pairs; bundles of  *)
(* a trace that overlap in pairs, with two texts; five entries of a stream    *)
(* that keeps two.                                                          *)
EXTENDS SearchIndexes, TLC

CONSTANTS q1, q2, a1, a2

OneQuestion == {q1 :> a1, q1 :> a2, q2 :> a1}
AllBatches == OneQuestion \cup {q1 :> a2 @@ q2 :> a1}

Symmetry == Permutations(Requests) \cup Permutations(Ids)

=============================================================================
