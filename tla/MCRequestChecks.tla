--------------------------- MODULE MCRequestChecks ---------------------------
(* Three prompts, two that are close to each other, one of them risky, and    *)
(* one that is like neither; two keys;                                      *)
(* two addresses, and lists that are fetched in two attempts; three visits of *)
(* a session, two at once, from two places and an unknown one, of two devices; *)
(* the turns of a session that is signed out once. No check tells requests,   *)
(* places or devices from one another.                                      *)
EXTENDS RequestChecks, TLC

CONSTANTS p1, p2, p3

MCNear == [p \in {p1, p2, p3} |-> IF p = p3 THEN {p3} ELSE {p1, p2}]
MCUnlike == [p \in {p1, p2, p3} |-> IF p = p3 THEN {p1, p2} ELSE {p3}]
Symmetry == Permutations(Requests) \cup Permutations(Located) \cup Permutations(Devices)

=============================================================================
