------------------------------ MODULE Delivery ------------------------------
(***************************************************************************)
(* What message routing promises the clients: an event is put at most once *)
(* in the channel of a session, only of one it is meant for and that is    *)
(* connected, and never after a later event of the connection it came by.  *)
(***************************************************************************)
EXTENDS Sequences, Functions

CONSTANTS Sessions, Messages,
          Reach,   \* the sessions an event is meant for
          Before   \* the events that came before it by the same connection

VARIABLES conn,    \* "new", "open" or "closed"
          got      \* what was put in a session's channel, in order

mailVars == <<conn, got>>

MailInit ==
    /\ conn = [s \in Sessions |-> "new"]
    /\ got = [s \in Sessions |-> <<>>]

Pass(s, from, to) ==
    /\ conn[s] = from
    /\ conn' = [conn EXCEPT ![s] = to]
    /\ UNCHANGED got

\* The sessions in whose channel m may be put.
MayGet(m) ==
    {s \in Reach[m] : conn[s] = "open" /\ \A k \in Range(got[s]) : k # m /\ m \notin Before[k]}

Deliver(m, S) ==
    /\ got' = [s \in Sessions |-> IF s \in S THEN Append(got[s], m) ELSE got[s]]
    /\ UNCHANGED conn

MailNext ==
    \/ \E m \in Messages : \E S \in SUBSET MayGet(m) : Deliver(m, S)
    \/ \E s \in Sessions : Pass(s, "new", "open") \/ Pass(s, "open", "closed")

MailSpec == MailInit /\ [][MailNext]_mailVars
=============================================================================
