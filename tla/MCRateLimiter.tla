---------------------------- MODULE MCRateLimiter ----------------------------
(* Two tasks ask for one user. Buckets of different users never meet: each  *)
(* is under the lock of its own entry, and retain visits them one by one.   *)
EXTENDS RateLimiter, TLC

CONSTANTS u1, c1, c2

CallUserValue == [c \in {c1, c2} |-> u1]

Symmetry == Permutations({c1, c2})
=============================================================================
