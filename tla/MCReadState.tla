----------------------------- MODULE MCReadState -----------------------------
(* The read state cache with one or two keys and a few messages. *)
EXTENDS ReadState, TLC

CONSTANTS k1, k2, a1, a2

\* The keys, and the ackers, are interchangeable.
Symmetry == Permutations({k1, k2}) \cup Permutations({a1, a2})
=============================================================================
