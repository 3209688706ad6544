------------------------------- MODULE Router -------------------------------
(***************************************************************************)
(* router/fanout.rs and the event half of router/redis_bridge.rs: the way  *)
(* of a message of one channel to the sessions of its members, on the      *)
(* sender's node and, through Redis, on the others; routes.rs, which sends *)
(* through the same pipeline; typing indicators, which go to the members   *)
(* on the node only; and heartbeats, which are answered to the user's      *)
(* sessions on the node (handle_client_message).                           *)
(*                                                                         *)
(* task[m] is where the handling of m stands:                              *)
(*   unsent    not received yet                                            *)
(*   route     REST only: send_message has stored m, handle_send follows   *)
(*   lookup    the member lookup is next; handle_send has stored m         *)
(*   fanout    working through the members                                 *)
(*   done, failed   the handler is through, without or with an error       *)
(* A connection task handles its client's frames one after the other; each *)
(* REST request is handled by a task of its own.                           *)
(*                                                                         *)
(* A node's subscriber reads from a ring of RxCapacity messages that the   *)
(* Redis client fills. If it falls behind the ring by one message, recv    *)
(* returns an error, and the loop "while let Ok" of spawn_subscriber ends. *)
(*                                                                         *)
(* Members is the list get_channel_members returns; MemberCache says how   *)
(* old it can be. The loops of handle_cross_node_event and StartTyping     *)
(* over their targets are one step: they put the event in the channels of  *)
(* different users, and no task reads two of them.                         *)
(***************************************************************************)
EXTENDS Naturals, Sequences, Functions

CONSTANTS Nodes, Users, Sessions,
          NodeOf,     \* the node a session is connected to
          UserOf,     \* the user it belongs to
          Members,    \* the members of the channel
          Messages,   \* the frames and requests, each sent once
          Kind,       \* SendMessage, REST's send_message, StartTyping, Heartbeat
          Author,     \* the user who sends it
          Origin,     \* the node whose task handles it
          Before,     \* frames of the same connection that come before it
          RxCapacity, \* messages the Redis client buffers for the subscriber
          Fails,      \* bound: the messages for which calls may fail
          Leavers,    \* bound: the sessions that may disconnect
          Lossy,      \* bound: nodes whose subscriber may lose its connection
          Nobody      \* no member is between is_connected and send_to_user

ASSUME SessionsAssumption ==
    NodeOf \in [Sessions -> Nodes] /\ UserOf \in [Sessions -> Users]
ASSUME MessagesAssumption ==
    /\ Kind \in [Messages -> {"send", "rest", "typing", "heartbeat"}]
    /\ Author \in [Messages -> Users]
    /\ Origin \in [Messages -> Nodes]
    /\ Before \in [Messages -> SUBSET Messages]
    /\ \A m \in Messages : m \notin Before[m] /\ (Kind[m] = "rest" => Before[m] = {})
    /\ \A m \in Messages : \A b \in Before[m] : Origin[b] = Origin[m]
ASSUME MembersAssumption == Members \subseteq Users
ASSUME RxCapacityAssumption == RxCapacity \in Nat \ {0}
ASSUME NobodyAssumption == Nobody \notin Users

VARIABLES conn,     \* "new", "open" (in its node's registry) or "closed"
          rows,     \* how often a message is in the messages table
          task,     \* see above
          todo,     \* the members handle_send has still to look at
          sending,  \* the member found connected, about to be sent to
          remote,   \* remote_targets
          inbox,    \* what is buffered for the subscriber of a node
          listening, \* the nodes whose subscriber loop is running
          got,      \* what was put in a session's channel, in order
          present   \* sessions that were open when the handling of m began

vars == <<conn, rows, task, todo, sending, remote, inbox, listening, got, present>>

Init ==
    /\ conn = [s \in Sessions |-> "new"]
    /\ rows = [m \in Messages |-> 0]
    /\ task = [m \in Messages |-> "unsent"]
    /\ todo = [m \in Messages |-> {}]
    /\ sending = [m \in Messages |-> Nobody]
    /\ remote = [m \in Messages |-> {}]
    /\ inbox = [n \in Nodes |-> <<>>]
    /\ got = [s \in Sessions |-> <<>>]
    /\ listening = Nodes
    /\ present = [m \in Messages |-> {}]

Goto(m, step) == task' = [task EXCEPT ![m] = step]
Over(m) == task[m] \in {"done", "failed"}

\* A frame comes over a connection of its author, whose session is in the
\* registry or was, for the task of a reaped session goes on reading.
Connected(m) == \E s \in Sessions : /\ UserOf[s] = Author[m] /\ NodeOf[s] = Origin[m]
                                     /\ conn[s] # "new"

\* The connection task of m's sender is through with the frames before m.
Turn(m) ==
    /\ task[m] = "unsent"
    /\ Kind[m] = "rest" \/ Connected(m)
    /\ \A b \in Before[m] : Over(b)

\* The sessions that are there when m comes in.
Arrive(m) == present' = [present EXCEPT ![m] = {s \in Sessions : conn[s] = "open"}]

OpenAt(n, u) == {s \in Sessions : NodeOf[s] = n /\ UserOf[s] = u /\ conn[s] = "open"}

\* SessionStore::send_to_user, for every user of a set.
send_to_users(n, us, m) ==
    got' = [s \in Sessions |-> IF \E u \in us : s \in OpenAt(n, u)
                               THEN Append(got[s], m) ELSE got[s]]

-----------------------------------------------------------------------------
Connect(s) ==
    /\ conn[s] = "new"
    /\ conn' = [conn EXCEPT ![s] = "open"]
    /\ UNCHANGED <<rows, task, todo, sending, remote, inbox, listening, got, present>>

Disconnect(s) ==
    /\ s \in Leavers
    /\ conn[s] = "open"
    /\ conn' = [conn EXCEPT ![s] = "closed"]
    /\ UNCHANGED <<rows, task, todo, sending, remote, inbox, listening, got, present>>

\* Mutant: the frames of a connection are handled by tasks of their own.
Submit_spawned(m) ==
    /\ Kind[m] \in {"send", "rest"}
    /\ task[m] = "unsent"
    /\ Kind[m] = "rest" \/ Connected(m)
    /\ Arrive(m)
    /\ rows' = [rows EXCEPT ![m] = @ + 1]
    /\ Goto(m, IF Kind[m] = "rest" THEN "route" ELSE "lookup")
    /\ UNCHANGED <<conn, todo, sending, remote, inbox, listening, got>>

\* A message comes in and is stored, by handle_send or by REST's send_message,
\* which then calls handle_send.
Submit(m) ==
    /\ Kind[m] \in {"send", "rest"}
    /\ Turn(m)
    /\ Arrive(m)
    /\ rows' = [rows EXCEPT ![m] = @ + 1]
    /\ Goto(m, IF Kind[m] = "rest" THEN "route" ELSE "lookup")
    /\ UNCHANGED <<conn, todo, sending, remote, inbox, listening, got>>

\* Mutant: the message is routed again and again.
RouteRest_again(m) ==
    /\ task[m] = "route"
    /\ rows' = [rows EXCEPT ![m] = @ + 1]
    /\ UNCHANGED <<conn, task, todo, sending, remote, inbox, listening, got, present>>

\* handle_send, called by send_message: the message is stored.
RouteRest(m) ==
    /\ task[m] = "route"
    /\ rows' = [rows EXCEPT ![m] = @ + 1]
    /\ Goto(m, "lookup")
    /\ UNCHANGED <<conn, todo, sending, remote, inbox, listening, got, present>>

\* insert_message returns an error, in send_message or in handle_send; the row
\* is there if the connection was lost after the commit.
StoreErr(m) ==
    /\ m \in Fails
    /\ Kind[m] \in {"send", "rest"}
    /\ Turn(m) \/ task[m] = "route"
    /\ rows' \in {rows, [rows EXCEPT ![m] = @ + 1]}
    /\ Goto(m, "failed")
    /\ UNCHANGED <<conn, todo, sending, remote, inbox, listening, got, present>>

\* handle_send and StartTyping ask for the members.
Lookup(m) ==
    /\ task[m] = "lookup"
    /\ todo' = [todo EXCEPT ![m] = Members]
    /\ Goto(m, "fanout")
    /\ UNCHANGED <<conn, rows, sending, remote, inbox, listening, got, present>>

LookupErr(m) ==
    /\ m \in Fails
    /\ task[m] = "lookup"
    /\ Goto(m, "failed")
    /\ UNCHANGED <<conn, rows, todo, sending, remote, inbox, listening, got, present>>

\* is_connected decides between this node and the others.
CheckMember(m, u) ==
    LET here == OpenAt(Origin[m], u) # {}
    IN  /\ task[m] = "fanout"
        /\ Kind[m] # "typing"
        /\ sending[m] = Nobody
        /\ u \in todo[m]
        /\ todo' = [todo EXCEPT ![m] = @ \ {u}]
        /\ sending' = [sending EXCEPT ![m] = IF here THEN u ELSE Nobody]
        /\ remote' = [remote EXCEPT ![m] = IF here THEN @ ELSE @ \cup {u}]
        /\ UNCHANGED <<conn, rows, task, inbox, listening, got, present>>

SendLocal(m) ==
    /\ sending[m] # Nobody
    /\ send_to_users(Origin[m], {sending[m]}, m)
    /\ sending' = [sending EXCEPT ![m] = Nobody]
    /\ UNCHANGED <<conn, rows, task, todo, remote, inbox, listening, present>>

FannedOut(m) ==
    task[m] = "fanout" /\ Kind[m] # "typing" /\ todo[m] = {} /\ sending[m] = Nobody

\* The ring of a node that is full has no place for one more message.
Overrun == {n \in Nodes : Len(inbox[n]) = RxCapacity}

\* Redis has m for every subscriber, the sender's own included. Where m
\* overruns the ring, the next recv is an error and the subscriber ends.
published(m) ==
    LET payload == [source |-> Origin[m], targets |-> remote[m], event |-> m]
    IN  /\ inbox' = [n \in Nodes |-> IF n \in listening \ Overrun
                                     THEN Append(inbox[n], payload) ELSE <<>>]
        /\ listening' = listening \ Overrun

\* Mutant: nothing is published if some member was found on this node.
Publish_all_remote(m) ==
    /\ FannedOut(m)
    /\ IF remote[m] # Members THEN UNCHANGED <<inbox, listening>> ELSE published(m)
    /\ Goto(m, "done")
    /\ UNCHANGED <<conn, rows, todo, sending, remote, got, present>>

\* publish_event, unless there is nobody to publish for.
Publish(m) ==
    /\ FannedOut(m)
    /\ IF remote[m] = {} THEN UNCHANGED <<inbox, listening>> ELSE published(m)
    /\ Goto(m, "done")
    /\ UNCHANGED <<conn, rows, todo, sending, remote, got, present>>

\* Mutant: a publish that failed is tried again.
PublishErr_retries(m) ==
    /\ m \in Fails
    /\ FannedOut(m)
    /\ remote[m] # {}
    /\ published(m) \/ UNCHANGED <<inbox, listening>>
    /\ UNCHANGED <<conn, rows, task, todo, sending, remote, got, present>>

\* publish_event returns an error; Redis may have the event all the same.
PublishErr(m) ==
    /\ m \in Fails
    /\ FannedOut(m)
    /\ remote[m] # {}
    /\ published(m) \/ UNCHANGED <<inbox, listening>>
    /\ Goto(m, "failed")
    /\ UNCHANGED <<conn, rows, todo, sending, remote, got, present>>

-----------------------------------------------------------------------------
(* A heartbeat and a typing indicator. *)

\* HeartbeatAck goes to every session of the user on this node.
Heartbeat(m) ==
    /\ Kind[m] = "heartbeat"
    /\ Turn(m)
    /\ Arrive(m)
    /\ send_to_users(Origin[m], {Author[m]}, m)
    /\ Goto(m, "done")
    /\ UNCHANGED <<conn, rows, todo, sending, remote, inbox, listening>>

StartTyping(m) ==
    /\ Kind[m] = "typing"
    /\ Turn(m)
    /\ Arrive(m)
    /\ Goto(m, "lookup")
    /\ UNCHANGED <<conn, rows, todo, sending, remote, inbox, listening, got>>

\* Mutant: the author is told, too.
SendTyping_author(m) ==
    /\ Kind[m] = "typing"
    /\ task[m] = "fanout"
    /\ send_to_users(Origin[m], todo[m], m)
    /\ Goto(m, "done")
    /\ UNCHANGED <<conn, rows, todo, sending, remote, inbox, listening, present>>

\* The indicator goes to the members on this node, except its author.
SendTyping(m) ==
    /\ Kind[m] = "typing"
    /\ task[m] = "fanout"
    /\ send_to_users(Origin[m], todo[m] \ {Author[m]}, m)
    /\ Goto(m, "done")
    /\ UNCHANGED <<conn, rows, todo, sending, remote, inbox, listening, present>>

-----------------------------------------------------------------------------
(* The subscriber of a node. *)

\* It skips what its own node has published.
handle_cross_node_event(n) ==
    LET p == Head(inbox[n])
    IN  /\ inbox[n] # <<>>
        /\ inbox' = [inbox EXCEPT ![n] = Tail(@)]
        /\ IF p.source = n THEN UNCHANGED got ELSE send_to_users(n, p.targets, p.event)
        /\ UNCHANGED <<conn, rows, task, todo, sending, remote, listening, present>>

\* The connection to Redis is lost; the client has no reconnect policy.
SubscriberEnds(n) ==
    /\ n \in listening \cap Lossy
    /\ listening' = listening \ {n}
    /\ inbox' = [inbox EXCEPT ![n] = <<>>]
    /\ UNCHANGED <<conn, rows, task, todo, sending, remote, got, present>>

-----------------------------------------------------------------------------
Handle(m) ==
    \/ Submit(m)
    \/ RouteRest(m)
    \/ StoreErr(m)
    \/ Lookup(m)
    \/ LookupErr(m)
    \/ \E u \in Members : CheckMember(m, u)
    \/ SendLocal(m)
    \/ Publish(m)
    \/ PublishErr(m)
    \/ Heartbeat(m)
    \/ StartTyping(m)
    \/ SendTyping(m)

Next ==
    \/ \E s \in Sessions : Connect(s) \/ Disconnect(s)
    \/ \E m \in Messages : Handle(m)
    \/ \E n \in Nodes : handle_cross_node_event(n) \/ SubscriberEnds(n)

Spec == Init /\ [][Next]_vars

-----------------------------------------------------------------------------
Payload == [source : Nodes, targets : SUBSET Members, event : Messages]

TypeOK ==
    /\ conn \in [Sessions -> {"new", "open", "closed"}]
    /\ rows \in [Messages -> 0 .. 2]
    /\ task \in [Messages -> {"unsent", "route", "lookup", "fanout", "done", "failed"}]
    /\ todo \in [Messages -> SUBSET Members]
    /\ sending \in [Messages -> Members \cup {Nobody}]
    /\ remote \in [Messages -> SUBSET Members]
    /\ got \in [Sessions -> Seq(Messages)]
    /\ present \in [Messages -> SUBSET Sessions]
    /\ listening \in SUBSET Nodes
    /\ inbox \in [Nodes -> Seq(Payload)]
    /\ \A n \in Nodes : Len(inbox[n]) <= RxCapacity

\* No session is sent an event twice, although a member may connect or
\* disconnect between is_connected and send_to_user, the sender's own node is a
\* subscriber of what it publishes, and a call that returned an error may have
\* had its effect.
NoDuplicate == \A s \in Sessions : IsInjective(got[s])

\* A session gets what comes from one sender connection in the order in which
\* it was sent: messages, typing indicators and answers to heartbeats, whether
\* from its own node or through Redis.
SenderOrder ==
    \A s \in Sessions : \A i, j \in DOMAIN got[s] :
        got[s][i] \in Before[got[s][j]] => i < j

\* Handling of m is over without an error and no subscriber has it to come.
Settled(m) ==
    /\ task[m] = "done"
    /\ \A n \in Nodes : \A i \in DOMAIN inbox[n] : inbox[n][i].event # m

\* The sessions m is for. Typing indicators and the answers to heartbeats do not
\* leave the node.
Reach ==
    [m \in Messages |->
        LET Here == {s \in Sessions : NodeOf[s] = Origin[m]}
        IN  CASE Kind[m] = "heartbeat" -> {s \in Here : UserOf[s] = Author[m]}
              [] Kind[m] = "typing" -> {s \in Here : UserOf[s] \in Members \ {Author[m]}}
              [] OTHER -> {s \in Sessions : UserOf[s] \in Members}]

\* Those of them that were there all the time.
Audience(m) == {s \in Reach[m] \cap present[m] : conn[s] = "open"}

\* The user of s has had a session on the node of m's sender, and s is on
\* another.
Split(s, m) == \E t \in Sessions : /\ UserOf[t] = UserOf[s] /\ conn[t] # "new"
                                   /\ NodeOf[t] = Origin[m] /\ NodeOf[s] # Origin[m]

\* A message whose handling went well reaches every session that stayed open
\* during its handling, if the session is on the sender's node, or is on a node
\* whose subscriber is still there and its user has never had one on the
\* sender's node.
ReachesAudience ==
    \A m \in Messages : Settled(m) =>
        \A s \in Audience(m) :
            ~Split(s, m) /\ NodeOf[s] \in listening \cup {Origin[m]} => m \in Range(got[s])

\* Routing implements Delivery: whatever nodes, subscribers and requests do at
\* once, a channel gets an event of a handler or a subscriber at most once, only
\* if it is meant for its session, and in the order of the sender's connection.
Mail == INSTANCE Delivery
ImplementsDelivery == Mail!MailSpec

-----------------------------------------------------------------------------
(* What a comment of the code says that does not hold. *)

\* main.rs of the subscriber: "This listens for events published by other
\* server nodes and delivers them to users connected to THIS node."
SubscriberDelivers ==
    \A m \in Messages : Settled(m) =>
        \A s \in Audience(m) : ~Split(s, m) => m \in Range(got[s])
=============================================================================
