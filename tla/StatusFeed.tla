----------------------------- MODULE StatusFeed -----------------------------
(***************************************************************************)
(* What the presence broadcasters promise the clients: of the changes that *)
(* one node, the source, makes to a user's status, each client is shown    *)
(* ever later ones. Changes may be left out (those of one batch are        *)
(* coalesced), and the clients of the other nodes learn only what those of *)
(* the source have seen. Nothing is promised about the order in which the  *)
(* changes of two sources are shown.                                       *)
(***************************************************************************)
EXTENDS Naturals

CONSTANTS Nodes, Users

VARIABLES sent,        \* the number of the last change of a user on a node
          view         \* the last change of each source shown to a node's clients

feedVars == <<sent, view>>

FeedInit ==
    /\ sent = [s \in Nodes |-> [u \in Users |-> 0]]
    /\ view = [n \in Nodes |-> [s \in Nodes |-> [u \in Users |-> 0]]]

Change(s, u) ==
    /\ sent' = [sent EXCEPT ![s][u] = @ + 1]
    /\ UNCHANGED view

\* The last change of u on s that the clients of n may be shown.
Newest(n, s, u) == IF n = s THEN sent[s][u] ELSE view[s][s][u]

Show(n, s, u) ==
    /\ \E v \in view[n][s][u] + 1 .. Newest(n, s, u) :
          view' = [view EXCEPT ![n][s][u] = v]
    /\ UNCHANGED sent

FeedNext ==
    \E s \in Nodes, u \in Users : Change(s, u) \/ \E n \in Nodes : Show(n, s, u)

FeedSpec == FeedInit /\ [][FeedNext]_feedVars
=============================================================================
