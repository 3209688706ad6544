----------------------------- MODULE Broadcaster -----------------------------
(***************************************************************************)
(* presence/broadcast.rs and the presence half of router/redis_bridge.rs:  *)
(* the way of a presence change from PresenceTracker, which calls          *)
(* broadcast, to the clients of every node.                                *)
(*                                                                         *)
(* Every node has a tracker and a worker of its own, and each node a user  *)
(* has a session on follows the user: a user on two nodes, or one who      *)
(* moves from one to the other, has two trackers, whose changes meet only  *)
(* at the clients and in the Redis key. The changes of a user on one node, *)
(* the source, are numbered in the order of the broadcast calls there; the *)
(* number stands for the status, and Shown says which are not "offline".   *)
(* Changes of two sources are in no order.                                 *)
(*                                                                         *)
(* worker[n] is where broadcast_worker stands:                             *)
(*   select    waiting for an update or for the interval's tick            *)
(*   flush     in flush_batch, between two updates                         *)
(*   store     the current update was sent to local sessions; its Redis    *)
(*             key is set or removed next                                  *)
(*   publish   ... and then it is published to the other nodes             *)
(* Redis delivers what is published to every subscriber, the publisher's   *)
(* own node included, in one order. A subscriber that falls behind the     *)
(* RxCapacity messages its Redis client buffers ends, as in Router, with   *)
(* which it shares the task; other events may overrun the buffer, too.     *)
(***************************************************************************)
EXTENDS Naturals, FiniteSets, Sequences

CONSTANTS Nodes, Users,
          Shown,       \* the numbers of the changes that are not to "offline"
          MaxUpdates,  \* bound: changes of a user on a node, 0 if never there
          BatchLimit,  \* a batch of this size is flushed early (50)
          RxCapacity,  \* messages the Redis client buffers for the subscriber
          Fails,       \* bound: users for whom lookups and Redis commands may fail
          Lossy,       \* bound: nodes whose subscriber may end for another reason
          NoUser       \* a worker that is processing no update

ASSUME UsersAssumption == IsFiniteSet(Users) /\ NoUser \notin Users
ASSUME BoundsAssumption == MaxUpdates \in [Nodes -> [Users -> Nat]]
ASSUME LimitsAssumption == BatchLimit \in Nat \ {0} /\ RxCapacity \in Nat \ {0}

VARIABLES sent,         \* the last change a node has broadcast for a user
          rx,           \* the worker's channel: pairs <<user, number>>
          batch,        \* the batch: the number of a user's entry, 0 for none
          updates,      \* flush_batch: the entries still to process
          worker,       \* see above
          current,      \* flush_batch: the user being processed
          redis_key,    \* the presence:{user} key: the change it holds, under
                        \* its source; 0 for the others, and for all when absent
          inbox,        \* what is buffered for the subscriber of a node
          listening,    \* the nodes whose subscriber loop is running
          view          \* the last change of each source sent to the clients
                        \* of a node

vars == <<sent, rx, batch, updates, worker, current, redis_key, inbox,
          listening, view>>

NoEntries == [u \in Users |-> 0]
NoKey == [s \in Nodes |-> 0]

Init ==
    /\ sent = [n \in Nodes |-> NoEntries]
    /\ rx = [n \in Nodes |-> <<>>]
    /\ batch = [n \in Nodes |-> NoEntries]
    /\ updates = [n \in Nodes |-> NoEntries]
    /\ worker = [n \in Nodes |-> "select"]
    /\ current = [n \in Nodes |-> NoUser]
    /\ redis_key = [u \in Users |-> NoKey]
    /\ inbox = [n \in Nodes |-> <<>>]
    /\ listening = Nodes
    /\ view = [n \in Nodes |-> [s \in Nodes |-> NoEntries]]

Goto(n, step) == worker' = [worker EXCEPT ![n] = step]

Entries(b) == {u \in Users : b[u] # 0}

-----------------------------------------------------------------------------
\* PresenceBroadcaster::broadcast, called by the tracker of the node.
broadcast(n, u) ==
    /\ sent[n][u] < MaxUpdates[n][u]
    /\ sent' = [sent EXCEPT ![n][u] = @ + 1]
    /\ rx' = [rx EXCEPT ![n] = Append(@, <<u, sent[n][u] + 1>>)]
    /\ UNCHANGED <<batch, updates, worker, current, redis_key, inbox, listening, view>>

\* Mutant: the batch is copied, not drained.
start_flush_copies(n, b) ==
    /\ updates' = [updates EXCEPT ![n] = b]
    /\ batch' = [batch EXCEPT ![n] = b]
    /\ Goto(n, "flush")

\* flush_batch drains the batch into its own list.
start_flush(n, b) ==
    /\ updates' = [updates EXCEPT ![n] = b]
    /\ batch' = [batch EXCEPT ![n] = NoEntries]
    /\ Goto(n, "flush")

\* Mutant: the entry that is there stays.
with_update_first(b, item) == [b EXCEPT ![item[1]] = IF @ = 0 THEN item[2] ELSE @]

\* The batch with one more change: the user's older entry goes.
with_update(b, item) == [b EXCEPT ![item[1]] = item[2]]

\* Mutant: the batch is flushed one change too late.
full_late(b) == Cardinality(Entries(b)) > BatchLimit

full(b) == Cardinality(Entries(b)) >= BatchLimit

\* The recv branch; a full batch is flushed at once.
Receive(n) ==
    LET b == with_update(batch[n], Head(rx[n]))
    IN  /\ worker[n] = "select"
        /\ rx[n] # <<>>
        /\ rx' = [rx EXCEPT ![n] = Tail(@)]
        /\ IF full(b)
           THEN start_flush(n, b)
           ELSE batch' = [batch EXCEPT ![n] = b] /\ UNCHANGED <<updates, worker>>
        /\ UNCHANGED <<sent, current, redis_key, inbox, listening, view>>

\* The tick branch.
Tick(n) ==
    /\ worker[n] = "select"
    /\ Entries(batch[n]) # {}
    /\ start_flush(n, batch[n])
    /\ UNCHANGED <<sent, rx, current, redis_key, inbox, listening, view>>

\* The lookup of the users to tell succeeds, and those on this node are told.
DeliverLocal(n, u) ==
    /\ worker[n] = "flush"
    /\ u \in Entries(updates[n])
    /\ view' = [view EXCEPT ![n][n][u] = updates[n][u]]
    /\ current' = [current EXCEPT ![n] = u]
    /\ Goto(n, "store")
    /\ UNCHANGED <<sent, rx, batch, updates, redis_key, inbox, listening>>

\* The lookup fails: the update is dropped.
LookupErr(n, u) ==
    /\ u \in Fails
    /\ worker[n] = "flush"
    /\ u \in Entries(updates[n])
    /\ updates' = [updates EXCEPT ![n][u] = 0]
    /\ UNCHANGED <<sent, rx, batch, worker, current, redis_key, inbox, listening, view>>

\* set_presence or remove_presence; an error is ignored.
StoreKey(n) ==
    LET u == current[n]
        new == IF updates[n][u] \in Shown THEN [NoKey EXCEPT ![n] = updates[n][u]] ELSE NoKey
    IN  /\ worker[n] = "store"
        /\ \/ redis_key' = [redis_key EXCEPT ![u] = new]
           \/ u \in Fails /\ UNCHANGED redis_key
        /\ Goto(n, "publish")
        /\ UNCHANGED <<sent, rx, batch, updates, current, inbox, listening, view>>

\* The buffer of a node that is full has no place for one more message.
Overrun == {n \in Nodes : Len(inbox[n]) = RxCapacity}

\* Redis has the payload for every subscriber; those it overruns end.
published(payload) ==
    /\ inbox' = [n \in Nodes |-> IF n \in listening \ Overrun
                                 THEN Append(inbox[n], payload) ELSE <<>>]
    /\ listening' = listening \ Overrun

\* Mutant: the newest change is published, not the one of the batch.
publish_presence_newest(n) ==
    LET u == current[n]
        payload == [source |-> n, user |-> u, status |-> sent[n][u]]
    IN  /\ worker[n] = "publish"
        /\ published(payload) \/ (u \in Fails /\ UNCHANGED <<inbox, listening>>)
        /\ updates' = [updates EXCEPT ![n][u] = 0]
        /\ current' = [current EXCEPT ![n] = NoUser]
        /\ Goto(n, "flush")
        /\ UNCHANGED <<sent, rx, batch, redis_key, view>>

\* publish_presence; an error is ignored.
publish_presence(n) ==
    LET u == current[n]
        payload == [source |-> n, user |-> u, status |-> updates[n][u]]
    IN  /\ worker[n] = "publish"
        /\ \/ published(payload)
           \/ u \in Fails /\ UNCHANGED <<inbox, listening>>
        /\ updates' = [updates EXCEPT ![n][u] = 0]
        /\ current' = [current EXCEPT ![n] = NoUser]
        /\ Goto(n, "flush")
        /\ UNCHANGED <<sent, rx, batch, redis_key, view>>

FlushDone(n) ==
    /\ worker[n] = "flush"
    /\ Entries(updates[n]) = {}
    /\ Goto(n, "select")
    /\ UNCHANGED <<sent, rx, batch, updates, current, redis_key, inbox, listening, view>>

\* Mutant: a node does not skip what it has published itself.
handle_cross_node_presence_own(n) ==
    LET p == Head(inbox[n])
    IN  /\ inbox[n] # <<>>
        /\ inbox' = [inbox EXCEPT ![n] = Tail(@)]
        /\ view' = [view EXCEPT ![n][p.source][p.user] = p.status]
        /\ UNCHANGED <<sent, rx, batch, updates, worker, current, redis_key, listening>>

\* The subscriber of a node skips what its own node has published.
handle_cross_node_presence(n) ==
    LET p == Head(inbox[n])
    IN  /\ inbox[n] # <<>>
        /\ inbox' = [inbox EXCEPT ![n] = Tail(@)]
        /\ view' = IF p.source = n THEN view
                   ELSE [view EXCEPT ![n][p.source][p.user] = p.status]
        /\ UNCHANGED <<sent, rx, batch, updates, worker, current, redis_key, listening>>

\* The subscriber's connection is lost for good, or other events overrun it.
SubscriberEnds(n) ==
    /\ n \in listening \cap Lossy
    /\ listening' = listening \ {n}
    /\ inbox' = [inbox EXCEPT ![n] = <<>>]
    /\ UNCHANGED <<sent, rx, batch, updates, worker, current, redis_key, view>>

\* The key's time to live runs out; nothing refreshes it.
ExpireKey(u) ==
    /\ redis_key[u] # NoKey
    /\ redis_key' = [redis_key EXCEPT ![u] = NoKey]
    /\ UNCHANGED <<sent, rx, batch, updates, worker, current, inbox, listening, view>>

-----------------------------------------------------------------------------
Worker(n) ==
    \/ Receive(n)
    \/ Tick(n)
    \/ \E u \in Users : DeliverLocal(n, u) \/ LookupErr(n, u)
    \/ StoreKey(n)
    \/ publish_presence(n)
    \/ FlushDone(n)

Next ==
    \/ \E n \in Nodes : \/ \E u \in Users : broadcast(n, u)
                       \/ Worker(n)
                       \/ handle_cross_node_presence(n)
                       \/ SubscriberEnds(n)
    \/ \E u \in Users : ExpireKey(u)

Spec == Init /\ [][Next]_vars

\* The worker and the subscriber tasks keep running; the interval keeps ticking.
FairSpec ==
    /\ Spec
    /\ \A n \in Nodes : WF_vars(Worker(n)) /\ WF_vars(handle_cross_node_presence(n))

-----------------------------------------------------------------------------
Payload == [source : Nodes, user : Users, status : Nat]

TypeOK ==
    /\ sent \in [Nodes -> [Users -> Nat]]
    /\ rx \in [Nodes -> Seq(Users \X Nat)]
    /\ batch \in [Nodes -> [Users -> Nat]]
    /\ \A n \in Nodes : Cardinality(Entries(batch[n])) < BatchLimit
    /\ updates \in [Nodes -> [Users -> Nat]]
    /\ worker \in [Nodes -> {"select", "flush", "store", "publish"}]
    /\ current \in [Nodes -> Users \cup {NoUser}]
    /\ redis_key \in [Users -> [Nodes -> Nat]]
    /\ listening \in SUBSET Nodes
    /\ inbox \in [Nodes -> Seq(Payload)]
    /\ \A n \in Nodes : Len(inbox[n]) <= RxCapacity
    /\ view \in [Nodes -> [Nodes -> [Users -> Nat]]]

\* Clients never see what one node says of a user go back: no older change of a
\* source is sent to a node's clients after a newer one of that source, although
\* changes are de-duplicated in one batch while the previous one is being flushed,
\* the other nodes get them over Redis, and lookups and Redis commands may fail in
\* between. Of a user who is on two nodes, or moves between them, it says no more
\* than that: the two workers run on their own, and the older "offline" of the
\* node that was left may come after the newer "online" of the other.
ViewNeverGoesBack ==
    [][\A n \in Nodes, s \in Nodes, u \in Users : view'[n][s][u] >= view[n][s][u]]_vars

\* A change is never overtaken inside the pipeline of its node: for each user, what
\* the node's clients have seen of it, what is being flushed, what is in the batch
\* and what is in the channel are ever later changes, and a key that the node has
\* set is no later than what it is flushing.
PipelineInOrder ==
    \A n \in Nodes, u \in Users :
        /\ updates[n][u] # 0 =>
              view[n][n][u] <= updates[n][u] /\ redis_key[u][n] <= updates[n][u]
        /\ batch[n][u] # 0 => view[n][n][u] < batch[n][u] /\ updates[n][u] < batch[n][u]
        /\ \A i \in DOMAIN rx[n] : rx[n][i][1] = u =>
              /\ rx[n][i][2] > batch[n][u]
              /\ rx[n][i][2] > updates[n][u]
              /\ rx[n][i][2] > view[n][n][u]

\* The broadcaster implements StatusFeed: batching, de-duplication, the flush and
\* Redis only leave changes out, no source's changes are reordered, and no node's
\* clients are ahead of those of the source itself.
Feed == INSTANCE StatusFeed
ImplementsFeed == Feed!FeedSpec

\* The last change of a user on a node reaches the clients of that node and of every
\* node whose subscriber is still there, whatever fails for other users in the same
\* batch: coalescing drops only changes that a later one of the source replaces.
LastStatusSeen ==
    \A s \in Nodes, u \in Users \ Fails, n \in Nodes :
        \A v \in 1 .. MaxUpdates[s][u] :
            sent[s][u] = v ~> view[n][s][u] >= v \/ n \notin listening \cup {s}
=============================================================================
