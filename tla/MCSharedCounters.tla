-------------------------- MODULE MCSharedCounters --------------------------
(* SharedCounters on small instances: a burst of two requests and one token  *)
(* every two ticks; windows of two seconds; two strikes that lock, with a   *)
(* lock that outlives the counter by a tick; three turns and a history of 2. *)
EXTENDS SharedCounters, TLC

(* The parts share these model values, so they share the symmetry.          *)
CONSTANTS r1, r2
Symmetry == Permutations({r1, r2})

=============================================================================
