---------------------------- MODULE MCBroadcaster ----------------------------
(* User u1 is on node n1; u2 is on n1 and on n2, or moves between them. *)
EXTENDS Broadcaster, TLC

CONSTANTS n1, n2, u1, u2

MCMaxUpdates == (n1 :> (u1 :> 1 @@ u2 :> 3)) @@ (n2 :> (u1 :> 0 @@ u2 :> 1))
=============================================================================
