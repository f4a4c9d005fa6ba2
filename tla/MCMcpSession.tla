---------------------------- MODULE MCMcpSession ----------------------------
(* One session, two customers who use it in turn: one has one loan, the other *)
(* two; two calls at a time.                                                 *)
EXTENDS McpSession, TLC

CONSTANTS c1, c2, asha, ravi, l1, l2, l3, t1

MCLoansOf == (asha :> {l1}) @@ (ravi :> {l2, l3})
Symmetry == Permutations({c1, c2}) \cup Permutations({l2, l3})
=============================================================================
