-------------------------- MODULE MCKnowledgeBase --------------------------
(* KnowledgeBase on a small instance: two questions, two answers, requests   *)
(* that overlap in pairs.                                                   *)
EXTENDS KnowledgeBase, TLC

CONSTANTS q1, q2, a1, a2

OneQuestion == {q1 :> a1, q1 :> a2, q2 :> a1}
AllBatches == OneQuestion \cup {q1 :> a2 @@ q2 :> a1}

Symmetry == Permutations(Requests) \cup Permutations(Ids)

=============================================================================
