------------------------------ MODULE MCRouter ------------------------------
(* User b is connected to n1, user c to both nodes. The connection of b sends a
   heartbeat, a typing indicator and two messages, and b also sends a message
   through REST on n2. A configuration takes the messages it needs. *)
EXTENDS Router, TLC

CONSTANTS n1, n2, b, c, b1, c1, c2, h1, t1, m1, m2, r1

MCNodeOf == (b1 :> n1) @@ (c1 :> n1) @@ (c2 :> n2)
MCUserOf == (b1 :> b) @@ (c1 :> c) @@ (c2 :> c)

Frames == <<h1, t1, m1, m2>>

MCKind == [m \in Messages |-> CASE m = h1 -> "heartbeat" [] m = t1 -> "typing" [] m = r1 -> "rest" [] OTHER -> "send"]
MCAuthor == [m \in Messages |-> b]
MCOrigin == [m \in Messages |-> IF m = r1 THEN n2 ELSE n1]
MCBefore == [m \in Messages |-> {Frames[i] : i \in {i \in 1 .. 4 :
                 \E j \in i + 1 .. 4 : Frames[j] = m}} \cap Messages]
=============================================================================
