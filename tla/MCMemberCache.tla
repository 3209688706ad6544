---------------------------- MODULE MCMemberCache ----------------------------
(* Two calls at a time, a few changes of the membership. *)
EXTENDS MemberCache, TLC

CONSTANTS c1, c2

Symmetry == Permutations({c1, c2})
=============================================================================
