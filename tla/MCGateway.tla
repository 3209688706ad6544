------------------------------ MODULE MCGateway ------------------------------
(* The gateway node with one or two sessions of one user. Users share no state
   but the registry's counter, whose balance GatewayProofs shows for any users. *)
EXTENDS Gateway, TLC

CONSTANTS u1, s1, s2

Owner1 == s1 :> u1
Owner2 == Owner1 @@ (s2 :> u1)

\* The sessions of one user are interchangeable.
Symmetry == Permutations({s1, s2})
=============================================================================
