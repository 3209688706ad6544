------------------------- MODULE BroadcasterProofs -------------------------
(***************************************************************************)
(* The presence broadcaster, for any nodes, users, batch limit and number  *)
(* of changes: a change is overtaken nowhere on its way to the clients.    *)
(***************************************************************************)
EXTENDS Broadcaster, FiniteSetTheorems, TLAPS

\* What is in a batch or being flushed came from a call on that node.
ChangesAreSent ==
    \A n \in Nodes, u \in Users : batch[n][u] <= sent[n][u] /\ updates[n][u] <= sent[n][u]

\* The worker's channel has the changes of a user in the order of the calls.
RxInOrder ==
    \A n \in Nodes : \A i \in DOMAIN rx[n] :
        /\ rx[n][i][2] <= sent[n][rx[n][i][1]]
        /\ \A j \in DOMAIN rx[n] :
              i < j /\ rx[n][i][1] = rx[n][j][1] => rx[n][i][2] < rx[n][j][2]

\* What is stored and published is what the local clients have just been sent.
WorkerAgrees ==
    \A n \in Nodes : worker[n] \in {"store", "publish"} =>
        /\ current[n] \in Users
        /\ updates[n][current[n]] # 0
        /\ updates[n][current[n]] = view[n][n][current[n]]

\* Nobody is ahead of the clients of the source.
SourceIsAhead ==
    \A s \in Nodes, u \in Users :
        /\ redis_key[u][s] <= view[s][s][u]
        /\ view[s][s][u] <= sent[s][u]
        /\ \A n \in Nodes : view[n][s][u] <= view[s][s][u]

\* What is on its way to another node lies between what its clients have seen
\* and what those of the source have seen, in order.
InboxInOrder ==
    \A n \in Nodes : \A i \in DOMAIN inbox[n] :
        LET p == inbox[n][i]
        IN  /\ p.status <= view[p.source][p.source][p.user]
            /\ n # p.source => view[n][p.source][p.user] <= p.status
            /\ \A j \in DOMAIN inbox[n] :
                  i < j /\ p.user = inbox[n][j].user /\ p.source = inbox[n][j].source =>
                      p.status <= inbox[n][j].status

-----------------------------------------------------------------------------
\* Appending to a sequence adds one element at its end.
LEMMA AppendFacts ==
    ASSUME NEW S, NEW q \in Seq(S), NEW e \in S
    PROVE  /\ Append(q, e) \in Seq(S) /\ Len(q) \in Nat /\ Len(Append(q, e)) = Len(q) + 1
           /\ \A i \in DOMAIN q : i < Len(q) + 1 /\ Append(q, e)[i] = q[i]
           /\ Append(q, e)[Len(q) + 1] = e
           /\ \A i \in DOMAIN Append(q, e) : i \in DOMAIN q \/ i = Len(q) + 1
OBVIOUS

\* The tail of a sequence has its other elements, one place nearer.
LEMMA TailFacts ==
    ASSUME NEW S, NEW q \in Seq(S), q # <<>>
    PROVE  /\ Head(q) = q[1] /\ 1 \in DOMAIN q /\ q[1] \in S
           /\ Tail(q) \in Seq(S) /\ Len(Tail(q)) <= Len(q)
           /\ \A i \in DOMAIN Tail(q) :
                  i \in Nat /\ 1 < i + 1 /\ i + 1 \in DOMAIN q /\ Tail(q)[i] = q[i + 1]
OBVIOUS

\* One user's number is changed in the table of one node.
LEMMA EntryFacts ==
    ASSUME NEW S, NEW f \in [Nodes -> [Users -> S]], NEW n \in Nodes, NEW u \in Users, NEW x \in S
    PROVE  /\ [f EXCEPT ![n][u] = x] \in [Nodes -> [Users -> S]]
           /\ \A k \in Nodes, w \in Users :
                  [f EXCEPT ![n][u] = x][k][w] = IF k = n /\ w = u THEN x ELSE f[k][w]
OBVIOUS

\* One user's number from one source is changed in what one node has shown.
LEMMA ViewFacts ==
    ASSUME NEW f \in [Nodes -> [Nodes -> [Users -> Nat]]],
           NEW n \in Nodes, NEW s \in Nodes, NEW u \in Users, NEW x \in Nat
    PROVE  /\ [f EXCEPT ![n][s][u] = x] \in [Nodes -> [Nodes -> [Users -> Nat]]]
           /\ \A k \in Nodes, t \in Nodes, w \in Users :
                  [f EXCEPT ![n][s][u] = x][k][t][w] =
                      IF k = n /\ t = s /\ w = u THEN x ELSE f[k][t][w]
OBVIOUS

\* What the type invariant says of the numbers of one user, and of one element
\* of a channel or a buffer.
LEMMA BroadcasterTypes ==
    ASSUME TypeOK
    PROVE  /\ \A n \in Nodes, u \in Users :
                  /\ sent[n][u] \in Nat /\ redis_key[u][n] \in Nat
                  /\ batch[n][u] \in Nat /\ updates[n][u] \in Nat
           /\ \A n \in Nodes, s \in Nodes, u \in Users : view[n][s][u] \in Nat
           /\ \A n \in Nodes : \A i \in DOMAIN rx[n] :
                  i \in Nat /\ rx[n][i][1] \in Users /\ rx[n][i][2] \in Nat
           /\ \A n \in Nodes : \A i \in DOMAIN inbox[n] :
                  /\ i \in Nat /\ inbox[n][i].source \in Nodes
                  /\ inbox[n][i].user \in Users /\ inbox[n][i].status \in Nat
<1>1. ASSUME NEW n \in Nodes, NEW i \in DOMAIN rx[n]
      PROVE  i \in Nat /\ rx[n][i] \in Users \X Nat
    <2>1. rx[n] \in Seq(Users \X Nat)
        BY DEF TypeOK
    <2>. DEFINE Item == Users \X Nat
    <2>2. rx[n] \in Seq(Item)
        BY <2>1
    <2>. HIDE DEF Item
    <2>3. i \in Nat /\ rx[n][i] \in Item
        BY <1>1, <2>2
    <2> QED BY <2>3 DEF Item
<1>2. ASSUME NEW n \in Nodes, NEW i \in DOMAIN inbox[n]
      PROVE  i \in Nat /\ inbox[n][i] \in Payload
    <2>1. inbox[n] \in Seq(Payload)
        BY DEF TypeOK
    <2> QED BY <1>2, <2>1
<1>3. ASSUME NEW n \in Nodes, NEW i \in DOMAIN inbox[n]
      PROVE  /\ inbox[n][i].source \in Nodes /\ inbox[n][i].user \in Users
             /\ inbox[n][i].status \in Nat
    BY <1>2 DEF Payload
<1>4. ASSUME NEW n \in Nodes, NEW u \in Users
      PROVE  /\ sent[n][u] \in Nat /\ redis_key[u][n] \in Nat
             /\ batch[n][u] \in Nat /\ updates[n][u] \in Nat
    BY DEF TypeOK
<1>5. ASSUME NEW n \in Nodes, NEW s \in Nodes, NEW u \in Users PROVE view[n][s][u] \in Nat
    BY DEF TypeOK
<1> QED BY <1>1, <1>2, <1>3, <1>4, <1>5

\* A batch is finite.
LEMMA EntriesFinite == ASSUME NEW b PROVE Cardinality(Entries(b)) \in Nat
<1>1. Entries(b) \subseteq Users
    BY DEF Entries
<1> QED BY <1>1, UsersAssumption, FS_Subset, FS_CardinalityType

\* The change goes to the batch, and is flushed with it if the batch is full.
Takes(n, item) ==
    LET b == [batch[n] EXCEPT ![item[1]] = item[2]]
    IN  \/ start_flush(n, b)
        \/ ~full(b) /\ batch' = [batch EXCEPT ![n] = b] /\ UNCHANGED <<updates, worker>>

\* What the recv branch takes from the channel, and what it leaves.
LEMMA ReceiveFacts ==
    ASSUME TypeOK, NEW n \in Nodes, Receive(n)
    PROVE  /\ 1 \in DOMAIN rx[n] /\ rx[n][1] \in Users \X Nat
           /\ rx' = [rx EXCEPT ![n] = Tail(rx[n])] /\ Tail(rx[n]) \in Seq(Users \X Nat)
           /\ \A i \in DOMAIN rx'[n] :
                  i \in Nat /\ 1 < i + 1 /\ i + 1 \in DOMAIN rx[n] /\ rx'[n][i] = rx[n][i + 1]
           /\ Takes(n, rx[n][1])
           /\ UNCHANGED <<sent, current, redis_key, inbox, listening, view>>
<1>. DEFINE Item == Users \X Nat
<1>1. rx[n] \in Seq(Item) /\ rx[n] # <<>> /\ rx' = [rx EXCEPT ![n] = Tail(rx[n])]
    BY DEF TypeOK, Receive
<1>. HIDE DEF Item
<1>2. /\ 1 \in DOMAIN rx[n] /\ rx[n][1] \in Item /\ Head(rx[n]) = rx[n][1]
      /\ Tail(rx[n]) \in Seq(Item)
    BY <1>1, TailFacts
<1>3. rx'[n] = Tail(rx[n])
    BY <1>1 DEF TypeOK
<1>4. \A i \in DOMAIN rx'[n] :
          i \in Nat /\ 1 < i + 1 /\ i + 1 \in DOMAIN rx[n] /\ rx'[n][i] = rx[n][i + 1]
    <2>1. \A i \in DOMAIN Tail(rx[n]) :
              i \in Nat /\ 1 < i + 1 /\ i + 1 \in DOMAIN rx[n] /\ Tail(rx[n])[i] = rx[n][i + 1]
        BY <1>1, TailFacts
    <2> QED BY <1>3, <2>1
<1>5. Takes(n, rx[n][1])
    BY <1>2 DEF Receive, with_update, Takes
<1>6. UNCHANGED <<sent, current, redis_key, inbox, listening, view>>
    BY DEF Receive
<1> QED BY <1>1, <1>2, <1>4, <1>5, <1>6 DEF Item

\* What a subscriber takes from its buffer, and what it leaves.
LEMMA CrossFacts ==
    ASSUME TypeOK, NEW n \in Nodes, handle_cross_node_presence(n)
    PROVE  /\ 1 \in DOMAIN inbox[n] /\ inbox[n][1] \in Payload
           /\ inbox' = [inbox EXCEPT ![n] = Tail(inbox[n])]
           /\ Tail(inbox[n]) \in Seq(Payload) /\ Len(Tail(inbox[n])) <= Len(inbox[n])
           /\ \A i \in DOMAIN inbox'[n] :
                  /\ i \in Nat /\ 1 < i + 1 /\ i + 1 \in DOMAIN inbox[n]
                  /\ inbox'[n][i] = inbox[n][i + 1]
           /\ view' \in [Nodes -> [Nodes -> [Users -> Nat]]]
           /\ \A k \in Nodes, s \in Nodes, u \in Users : view'[k][s][u] =
                 IF /\ k = n /\ s = inbox[n][1].source /\ s # n /\ u = inbox[n][1].user
                 THEN inbox[n][1].status ELSE view[k][s][u]
           /\ UNCHANGED <<sent, rx, batch, updates, worker, current, redis_key, listening>>
<1>1. /\ inbox[n] \in Seq(Payload) /\ inbox[n] # <<>>
      /\ inbox' = [inbox EXCEPT ![n] = Tail(inbox[n])]
    BY DEF TypeOK, handle_cross_node_presence
<1>2. /\ 1 \in DOMAIN inbox[n] /\ inbox[n][1] \in Payload /\ Head(inbox[n]) = inbox[n][1]
      /\ Tail(inbox[n]) \in Seq(Payload) /\ Len(Tail(inbox[n])) <= Len(inbox[n])
    BY <1>1, TailFacts
<1>3. inbox'[n] = Tail(inbox[n])
    BY <1>1 DEF TypeOK
<1>4. \A i \in DOMAIN inbox'[n] :
          i \in Nat /\ 1 < i + 1 /\ i + 1 \in DOMAIN inbox[n] /\ inbox'[n][i] = inbox[n][i + 1]
    <2>1. \A i \in DOMAIN Tail(inbox[n]) :
              i \in Nat /\ 1 < i + 1 /\ i + 1 \in DOMAIN inbox[n] /\ Tail(inbox[n])[i] = inbox[n][i + 1]
        BY <1>1, TailFacts
    <2> QED BY <1>3, <2>1
<1>5. /\ inbox[n][1].source = n => view' = view
      /\ inbox[n][1].source # n =>
            view' = [view EXCEPT ![n][inbox[n][1].source][inbox[n][1].user] = inbox[n][1].status]
      /\ UNCHANGED <<sent, rx, batch, updates, worker, current, redis_key, listening>>
    BY <1>2 DEF handle_cross_node_presence
<1>6. inbox[n][1].source \in Nodes /\ inbox[n][1].user \in Users /\ inbox[n][1].status \in Nat
    BY <1>2 DEF Payload
<1>7. ASSUME NEW k \in Nodes, NEW s \in Nodes, NEW u \in Users
      PROVE  view'[k][s][u] =
                 IF /\ k = n /\ s = inbox[n][1].source /\ s # n /\ u = inbox[n][1].user
                 THEN inbox[n][1].status ELSE view[k][s][u]
    <2>1. view \in [Nodes -> [Nodes -> [Users -> Nat]]]
        BY DEF TypeOK
    <2>2. CASE inbox[n][1].source = n
        BY <1>5, <2>2
    <2>3. CASE inbox[n][1].source # n
        BY <1>5, <1>6, <2>1, <2>3, ViewFacts
    <2> QED BY <2>2, <2>3
<1>8. view' \in [Nodes -> [Nodes -> [Users -> Nat]]]
    <2>1. view \in [Nodes -> [Nodes -> [Users -> Nat]]]
        BY DEF TypeOK
    <2>2. [view EXCEPT ![n][inbox[n][1].source][inbox[n][1].user] = inbox[n][1].status]
              \in [Nodes -> [Nodes -> [Users -> Nat]]]
        BY <1>6, <2>1, ViewFacts
    <2> QED BY <1>5, <2>1, <2>2
<1> QED BY <1>1, <1>2, <1>4, <1>5, <1>7, <1>8

\* What publish_presence publishes, and where it gets to.
LEMMA PublishFacts ==
    ASSUME TypeOK, WorkerAgrees, NEW n \in Nodes, publish_presence(n)
    PROVE  LET u == current[n]
               p == [source |-> n, user |-> u, status |-> updates[n][u]]
           IN  /\ u \in Users /\ p \in Payload
               /\ updates[n][u] # 0 /\ updates[n][u] = view[n][n][u]
               /\ updates' = [updates EXCEPT ![n][u] = 0]
               /\ inbox' \in [Nodes -> Seq(Payload)] /\ listening' \in SUBSET Nodes
               /\ \A k \in Nodes :
                      /\ Len(inbox'[k]) <= RxCapacity
                      /\ inbox'[k] \in {inbox[k], <<>>, Append(inbox[k], p)}
               /\ UNCHANGED <<sent, rx, batch, redis_key, view>>
<1>. DEFINE u == current[n]
            p == [source |-> n, user |-> u, status |-> updates[n][u]]
<1>1. /\ u \in Users /\ updates[n][u] # 0 /\ updates[n][u] = view[n][n][u]
      /\ updates' = [updates EXCEPT ![n][u] = 0]
      /\ UNCHANGED <<sent, rx, batch, redis_key, view>>
      /\ published(p) \/ UNCHANGED <<inbox, listening>>
    BY DEF publish_presence, WorkerAgrees
<1>2. p \in Payload
    BY <1>1 DEF Payload, TypeOK
<1>. HIDE DEF p
<1>3. ASSUME NEW k \in Nodes
      PROVE  /\ inbox[k] \in Seq(Payload) /\ Append(inbox[k], p) \in Seq(Payload)
             /\ Len(inbox[k]) \in Nat /\ Len(inbox[k]) <= RxCapacity
             /\ Len(Append(inbox[k], p)) = Len(inbox[k]) + 1
    BY <1>2, AppendFacts DEF TypeOK
<1>4. <<>> \in Seq(Payload) /\ Len(<<>>) <= RxCapacity
    BY LimitsAssumption
<1>5. CASE UNCHANGED <<inbox, listening>>
    BY <1>1, <1>2, <1>3, <1>5 DEF TypeOK, p
<1>6. CASE published(p)
    <2>1. /\ inbox' = [k \in Nodes |-> IF k \in listening \ Overrun
                                       THEN Append(inbox[k], p) ELSE <<>>]
          /\ listening' = listening \ Overrun
        BY <1>6 DEF published
    <2>2. inbox' \in [Nodes -> Seq(Payload)] /\ listening' \in SUBSET Nodes
        BY <2>1, <1>3, <1>4 DEF TypeOK
    <2>3. ASSUME NEW k \in Nodes
          PROVE  Len(inbox'[k]) <= RxCapacity /\ inbox'[k] \in {<<>>, Append(inbox[k], p)}
        <3>1. CASE k \in listening \ Overrun
            <4>1. Len(inbox[k]) # RxCapacity
                BY <3>1 DEF Overrun
            <4> QED BY <2>1, <3>1, <4>1, <1>3, LimitsAssumption
        <3>2. CASE k \notin listening \ Overrun
            BY <2>1, <3>2, <1>4
        <3> QED BY <3>1, <3>2
    <2> QED BY <1>1, <1>2, <2>2, <2>3 DEF p
<1> QED BY <1>1, <1>5, <1>6

-----------------------------------------------------------------------------
\* Every step keeps the types.
LEMMA BroadcasterTypeStep == ASSUME TypeOK, WorkerAgrees, [Next]_vars PROVE TypeOK'
<1>. USE DEF Goto, start_flush
<1>t. /\ TypeOK /\ NoEntries \in [Users -> Nat] /\ NoKey \in [Nodes -> Nat]
      /\ batch \in [Nodes -> [Users -> Nat]] /\ updates \in [Nodes -> [Users -> Nat]]
      /\ view \in [Nodes -> [Nodes -> [Users -> Nat]]]
      /\ redis_key \in [Users -> [Nodes -> Nat]]
    BY DEF NoEntries, NoKey, TypeOK
<1>1. ASSUME NEW n \in Nodes, NEW u \in Users, broadcast(n, u) PROVE TypeOK'
    <2>. DEFINE Item == Users \X Nat
                e == <<u, sent[n][u] + 1>>
    <2>1. sent \in [Nodes -> [Users -> Nat]] /\ sent[n][u] + 1 \in Nat
        BY DEF TypeOK
    <2>2. rx \in [Nodes -> Seq(Item)] /\ e \in Item
        BY <2>1 DEF TypeOK
    <2>3. rx' = [rx EXCEPT ![n] = Append(rx[n], e)] /\ sent' = [sent EXCEPT ![n][u] = sent[n][u] + 1]
        BY <1>1 DEF broadcast
    <2>. HIDE DEF Item, e
    <2>4. Append(rx[n], e) \in Seq(Item)
        BY <2>2, AppendFacts
    <2>5. rx' \in [Nodes -> Seq(Item)]
        BY <2>2, <2>3, <2>4
    <2>6. sent' \in [Nodes -> [Users -> Nat]]
        BY <2>1, <2>3, EntryFacts
    <2> QED BY <1>1, <2>5, <2>6 DEF broadcast, TypeOK, Item
<1>2. ASSUME NEW u \in Users, ExpireKey(u) PROVE TypeOK'
    BY <1>t, <1>2 DEF ExpireKey, TypeOK
<1>e. Cardinality(Entries(NoEntries)) < BatchLimit
    <2>1. Entries(NoEntries) = {}
        BY DEF Entries, NoEntries
    <2> QED BY <2>1, FS_EmptySet, LimitsAssumption
<1>f. ASSUME NEW n \in Nodes, NEW b \in [Users -> Nat], start_flush(n, b)
      PROVE  /\ batch' \in [Nodes -> [Users -> Nat]]
             /\ updates' \in [Nodes -> [Users -> Nat]]
             /\ worker' \in [Nodes -> {"select", "flush", "store", "publish"}]
             /\ \A k \in Nodes : Cardinality(Entries(batch'[k])) < BatchLimit
    <2>1. /\ batch' = [batch EXCEPT ![n] = NoEntries]
          /\ \A k \in Nodes : Cardinality(Entries(batch[k])) < BatchLimit
        BY <1>f DEF TypeOK
    <2>2. \A k \in Nodes : batch'[k] = NoEntries \/ batch'[k] = batch[k]
        BY <1>t, <2>1
    <2>3. \A k \in Nodes : Cardinality(Entries(batch'[k])) < BatchLimit
        BY <1>e, <2>1, <2>2
    <2> QED BY <1>f, <1>t, <2>3 DEF TypeOK
<1>3. ASSUME NEW n \in Nodes, Receive(n) PROVE TypeOK'
    <2>1. rx' \in [Nodes -> Seq(Users \X Nat)]
        BY <1>3, ReceiveFacts DEF TypeOK
    <2>2. /\ Takes(n, rx[n][1]) /\ rx[n][1] \in Users \X Nat
          /\ UNCHANGED <<sent, current, redis_key, inbox, listening, view>>
        BY <1>3, ReceiveFacts
    <2>. DEFINE b == [batch[n] EXCEPT ![rx[n][1][1]] = rx[n][1][2]]
    <2>3. b \in [Users -> Nat]
        BY <1>t, <2>2
    <2>4. \/ start_flush(n, b)
          \/ ~full(b) /\ batch' = [batch EXCEPT ![n] = b] /\ UNCHANGED <<updates, worker>>
        BY <2>2 DEF Takes
    <2>. HIDE DEF b
    <2>5. /\ batch' \in [Nodes -> [Users -> Nat]]
          /\ updates' \in [Nodes -> [Users -> Nat]]
          /\ worker' \in [Nodes -> {"select", "flush", "store", "publish"}]
          /\ \A k \in Nodes : Cardinality(Entries(batch'[k])) < BatchLimit
        <3>1. CASE start_flush(n, b)
            BY <1>f, <2>3, <3>1
        <3>2. CASE ~full(b) /\ batch' = [batch EXCEPT ![n] = b] /\ UNCHANGED <<updates, worker>>
            <4>1. Cardinality(Entries(b)) < BatchLimit
                BY <3>2, EntriesFinite, LimitsAssumption DEF full
            <4>2. \A k \in Nodes : batch'[k] = b \/ batch'[k] = batch[k]
                BY <1>t, <3>2
            <4>3. \A k \in Nodes : Cardinality(Entries(batch'[k])) < BatchLimit
                <5>1. \A k \in Nodes : Cardinality(Entries(batch[k])) < BatchLimit
                    BY DEF TypeOK
                <5> QED BY <4>1, <4>2, <5>1
            <4> QED BY <1>t, <2>3, <3>2, <4>3 DEF TypeOK
        <3> QED BY <2>4, <3>1, <3>2
    <2> QED BY <2>1, <2>2, <2>5 DEF TypeOK
<1>4. ASSUME NEW n \in Nodes, Tick(n) PROVE TypeOK'
    <2>1. start_flush(n, batch[n]) /\ batch[n] \in [Users -> Nat]
        BY <1>t, <1>4 DEF Tick
    <2>2. /\ batch' \in [Nodes -> [Users -> Nat]]
          /\ updates' \in [Nodes -> [Users -> Nat]]
          /\ worker' \in [Nodes -> {"select", "flush", "store", "publish"}]
          /\ \A k \in Nodes : Cardinality(Entries(batch'[k])) < BatchLimit
        BY <1>f, <2>1
    <2> QED BY <1>4, <2>2 DEF Tick, TypeOK
<1>5. ASSUME NEW n \in Nodes, NEW u \in Users, DeliverLocal(n, u) \/ LookupErr(n, u)
      PROVE  TypeOK'
    <2>1. CASE DeliverLocal(n, u)
        <3>1. view' \in [Nodes -> [Nodes -> [Users -> Nat]]]
            <4>1. view' = [view EXCEPT ![n][n][u] = updates[n][u]] /\ updates[n][u] \in Nat
                BY <1>t, <2>1 DEF DeliverLocal
            <4> QED BY <1>t, <4>1, ViewFacts
        <3>2. /\ current' \in [Nodes -> Users \cup {NoUser}]
              /\ worker' \in [Nodes -> {"select", "flush", "store", "publish"}]
            BY <2>1 DEF DeliverLocal, TypeOK
        <3> QED BY <2>1, <3>1, <3>2 DEF DeliverLocal, TypeOK
    <2>2. CASE LookupErr(n, u)
        <3>1. updates' \in [Nodes -> [Users -> Nat]]
            BY <1>t, <2>2, EntryFacts DEF LookupErr
        <3> QED BY <2>2, <3>1 DEF LookupErr, TypeOK
    <2> QED BY <1>5, <2>1, <2>2
<1>6. ASSUME NEW n \in Nodes, StoreKey(n) PROVE TypeOK'
    <2>1. current[n] \in Users /\ updates[n][current[n]] \in Nat
        BY <1>t, <1>6 DEF StoreKey, WorkerAgrees
    <2>2. redis_key' \in [Users -> [Nodes -> Nat]]
        <3>1. [NoKey EXCEPT ![n] = updates[n][current[n]]] \in [Nodes -> Nat]
            BY <1>t, <2>1
        <3>2. \/ redis_key' = redis_key
              \/ redis_key' = [redis_key EXCEPT ![current[n]] = NoKey]
              \/ redis_key' = [redis_key EXCEPT ![current[n]] =
                                  [NoKey EXCEPT ![n] = updates[n][current[n]]]]
            BY <1>6 DEF StoreKey
        <3> QED BY <1>t, <2>1, <3>1, <3>2
    <2>3. worker' \in [Nodes -> {"select", "flush", "store", "publish"}]
        BY <1>6 DEF StoreKey, TypeOK
    <2> QED BY <1>6, <2>2, <2>3 DEF StoreKey, TypeOK
<1>7. ASSUME NEW n \in Nodes, publish_presence(n) PROVE TypeOK'
    <2>1. /\ inbox' \in [Nodes -> Seq(Payload)] /\ listening' \in SUBSET Nodes
          /\ \A k \in Nodes : Len(inbox'[k]) <= RxCapacity
          /\ updates' = [updates EXCEPT ![n][current[n]] = 0] /\ current[n] \in Users
          /\ UNCHANGED <<sent, rx, batch, redis_key, view>>
        BY <1>7, PublishFacts
    <2>2. updates' \in [Nodes -> [Users -> Nat]]
        BY <1>t, <2>1, EntryFacts
    <2>3. /\ current' \in [Nodes -> Users \cup {NoUser}]
          /\ worker' \in [Nodes -> {"select", "flush", "store", "publish"}]
        BY <1>7 DEF publish_presence, TypeOK
    <2> QED BY <2>1, <2>2, <2>3 DEF TypeOK
<1>8. ASSUME NEW n \in Nodes, handle_cross_node_presence(n) PROVE TypeOK'
    <2>1. inbox' \in [Nodes -> Seq(Payload)] /\ \A k \in Nodes : Len(inbox'[k]) <= RxCapacity
        <3>1. /\ inbox' = [inbox EXCEPT ![n] = Tail(inbox[n])] /\ Tail(inbox[n]) \in Seq(Payload)
              /\ Len(Tail(inbox[n])) <= Len(inbox[n])
            BY <1>8, CrossFacts
        <3>2. /\ Len(inbox[n]) \in Nat /\ Len(Tail(inbox[n])) \in Nat
              /\ Len(inbox[n]) <= RxCapacity
            <4>1. inbox[n] \in Seq(Payload) /\ Len(inbox[n]) <= RxCapacity
                BY DEF TypeOK
            <4> QED BY <3>1, <4>1
        <3>3. Len(Tail(inbox[n])) <= RxCapacity
            BY <3>1, <3>2, LimitsAssumption
        <3> QED BY <3>1, <3>3 DEF TypeOK
    <2>2. view' \in [Nodes -> [Nodes -> [Users -> Nat]]]
        BY <1>8, CrossFacts
    <2> QED BY <1>8, <2>1, <2>2 DEF handle_cross_node_presence, TypeOK
<1>9. ASSUME NEW n \in Nodes, SubscriberEnds(n) PROVE TypeOK'
    <2>1. <<>> \in Seq(Payload) /\ Len(<<>>) <= RxCapacity
        BY LimitsAssumption
    <2> QED BY <1>9, <2>1 DEF SubscriberEnds, TypeOK
<1>10. ASSUME NEW n \in Nodes, FlushDone(n) PROVE TypeOK'
    BY <1>10 DEF FlushDone, TypeOK
<1>11. ASSUME UNCHANGED vars PROVE TypeOK'
    BY <1>11 DEF vars, TypeOK
<1> QED BY <1>1, <1>2, <1>3, <1>4, <1>5, <1>6, <1>7, <1>8, <1>9, <1>10, <1>11
        DEF Next, Worker

-----------------------------------------------------------------------------
(* What the steps do to the number of one user on one node. *)

\* A change taken from the channel, or the tick, moves numbers from the channel
\* to the batch and from the batch to the flush, on the worker's node only.
Coalesced(n, u) == IF u = rx[n][1][1] THEN rx[n][1][2] ELSE batch[n][u]

LEMMA FlushFacts ==
    ASSUME TypeOK, NEW n \in Nodes, NEW b \in [Users -> Nat], start_flush(n, b),
           NEW k \in Nodes, NEW u \in Users
    PROVE  /\ batch'[k][u] = IF k = n THEN 0 ELSE batch[k][u]
           /\ updates'[k][u] = IF k = n THEN b[u] ELSE updates[k][u]
BY DEF TypeOK, start_flush, NoEntries

\* The numbers after the recv branch.
LEMMA TakesFacts ==
    ASSUME TypeOK, NEW n \in Nodes, Receive(n), NEW k \in Nodes, NEW u \in Users
    PROVE  /\ k # n => batch'[k][u] = batch[k][u] /\ updates'[k][u] = updates[k][u]
           /\ \/ updates'[n][u] = Coalesced(n, u) /\ batch'[n][u] = 0
              \/ updates'[n][u] = updates[n][u] /\ batch'[n][u] = Coalesced(n, u)
<1>. DEFINE b == [batch[n] EXCEPT ![rx[n][1][1]] = rx[n][1][2]]
<1>1. rx[n][1] \in Users \X Nat /\ batch \in [Nodes -> [Users -> Nat]]
    BY ReceiveFacts DEF TypeOK
<1>2. b \in [Users -> Nat] /\ \A w \in Users : b[w] = Coalesced(n, w)
    BY <1>1 DEF Coalesced
<1>3. \/ start_flush(n, b)
      \/ batch' = [batch EXCEPT ![n] = b] /\ UNCHANGED <<updates, worker>>
    BY ReceiveFacts DEF Takes
<1>. HIDE DEF b
<1>4. CASE start_flush(n, b)
    BY <1>2, <1>4, FlushFacts
<1>5. CASE batch' = [batch EXCEPT ![n] = b] /\ UNCHANGED <<updates, worker>>
    BY <1>1, <1>2, <1>5
<1> QED BY <1>3, <1>4, <1>5

\* The numbers after the tick branch.
LEMMA TickFacts ==
    ASSUME TypeOK, NEW n \in Nodes, Tick(n), NEW k \in Nodes, NEW u \in Users
    PROVE  /\ batch'[k][u] = IF k = n THEN 0 ELSE batch[k][u]
           /\ updates'[k][u] = IF k = n THEN batch[k][u] ELSE updates[k][u]
<1>1. start_flush(n, batch[n]) /\ batch[n] \in [Users -> Nat]
    BY DEF Tick, TypeOK
<1> QED BY <1>1, FlushFacts

\* The numbers after the local delivery of an update.
LEMMA DeliverFacts ==
    ASSUME TypeOK, NEW n \in Nodes, NEW u \in Users, DeliverLocal(n, u)
    PROVE  /\ updates[n][u] # 0
           /\ \A k \in Nodes, s \in Nodes, w \in Users : view'[k][s][w] =
                  IF k = n /\ s = n /\ w = u THEN updates[n][u] ELSE view[k][s][w]
           /\ UNCHANGED <<sent, rx, batch, updates, redis_key, inbox>>
<1>1. view \in [Nodes -> [Nodes -> [Users -> Nat]]] /\ updates[n][u] \in Nat
    BY DEF TypeOK
<1>2. view' = [view EXCEPT ![n][n][u] = updates[n][u]]
    BY DEF DeliverLocal
<1>3. \A k \in Nodes, s \in Nodes, w \in Users : view'[k][s][w] =
          IF k = n /\ s = n /\ w = u THEN updates[n][u] ELSE view[k][s][w]
    BY <1>1, <1>2, ViewFacts
<1> QED BY <1>3 DEF DeliverLocal, Entries

\* The numbers after an update is lost.
LEMMA LostFacts ==
    ASSUME TypeOK, NEW n \in Nodes, NEW u \in Users, LookupErr(n, u)
    PROVE  /\ \A k \in Nodes, w \in Users :
                  updates'[k][w] = IF k = n /\ w = u THEN 0 ELSE updates[k][w]
           /\ UNCHANGED <<sent, rx, batch, view, redis_key, inbox>>
<1>1. updates \in [Nodes -> [Users -> Nat]]
    BY DEF TypeOK
<1>2. \A k \in Nodes, w \in Users :
          updates'[k][w] = IF k = n /\ w = u THEN 0 ELSE updates[k][w]
    BY <1>1, EntryFacts DEF LookupErr
<1> QED BY <1>2 DEF LookupErr

\* The numbers after an update is published.
LEMMA PublishedFacts ==
    ASSUME TypeOK, WorkerAgrees, NEW n \in Nodes, publish_presence(n)
    PROVE  \A k \in Nodes, w \in Users :
               updates'[k][w] = IF k = n /\ w = current[n] THEN 0 ELSE updates[k][w]
<1>1. updates \in [Nodes -> [Users -> Nat]]
    BY DEF TypeOK
<1>2. current[n] \in Users /\ updates' = [updates EXCEPT ![n][current[n]] = 0]
    BY PublishFacts
<1> QED BY <1>1, <1>2, EntryFacts

\* The steps that move no change towards the clients of its source.
Quiet(n) ==
    StoreKey(n) \/ FlushDone(n) \/ handle_cross_node_presence(n) \/ SubscriberEnds(n)

-----------------------------------------------------------------------------
\* A call of broadcast makes a new number, and puts it at the end of the channel.
LEMMA BroadcastFacts ==
    ASSUME TypeOK, NEW n \in Nodes, NEW u \in Users, broadcast(n, u)
    PROVE  /\ \A k \in Nodes, w \in Users :
                  sent'[k][w] = IF k = n /\ w = u THEN sent[n][u] + 1 ELSE sent[k][w]
           /\ \A k \in Nodes : k # n => rx'[k] = rx[k]
           /\ LET last == Len(rx[n]) + 1
              IN  /\ last \in Nat /\ rx'[n][last][1] = u /\ rx'[n][last][2] = sent[n][u] + 1
                  /\ \A i \in DOMAIN rx[n] : i < last /\ rx'[n][i] = rx[n][i]
                  /\ \A i \in DOMAIN rx'[n] : i \in DOMAIN rx[n] \/ i = last
           /\ UNCHANGED <<batch, updates, worker, current, redis_key, inbox, listening, view>>
<1>. DEFINE Item == Users \X Nat
            e == <<u, sent[n][u] + 1>>
<1>1. /\ sent \in [Nodes -> [Users -> Nat]] /\ rx \in [Nodes -> Seq(Item)]
      /\ sent' = [sent EXCEPT ![n][u] = sent[n][u] + 1]
      /\ rx' = [rx EXCEPT ![n] = Append(rx[n], e)]
      /\ UNCHANGED <<batch, updates, worker, current, redis_key, inbox, listening, view>>
    BY DEF TypeOK, broadcast
<1>2. sent[n][u] + 1 \in Nat
    BY <1>1
<1>3. e \in Item /\ e[1] = u /\ e[2] = sent[n][u] + 1
    BY <1>2
<1>4. \A k \in Nodes, w \in Users :
          sent'[k][w] = IF k = n /\ w = u THEN sent[n][u] + 1 ELSE sent[k][w]
    BY <1>1, <1>2, EntryFacts
<1>. HIDE DEF Item, e
<1>5. rx'[n] = Append(rx[n], e) /\ \A k \in Nodes : k # n => rx'[k] = rx[k]
    BY <1>1
<1>6. rx[n] \in Seq(Item)
    BY <1>1
<1>7. /\ Len(rx[n]) + 1 \in Nat /\ rx'[n][Len(rx[n]) + 1] = e
      /\ \A i \in DOMAIN rx[n] : i < Len(rx[n]) + 1 /\ rx'[n][i] = rx[n][i]
      /\ \A i \in DOMAIN rx'[n] : i \in DOMAIN rx[n] \/ i = Len(rx[n]) + 1
    BY <1>3, <1>5, <1>6, AppendFacts
<1> QED BY <1>1, <1>3, <1>4, <1>5, <1>7

\* What is batched and flushed was sent, after every step.
LEMMA ChangesAreSentStep ==
    ASSUME TypeOK, WorkerAgrees, ChangesAreSent, RxInOrder, [Next]_vars
    PROVE  ChangesAreSent'
<1>. SUFFICES ASSUME NEW k \in Nodes, NEW w \in Users
              PROVE  batch'[k][w] <= sent'[k][w] /\ updates'[k][w] <= sent'[k][w]
    BY DEF ChangesAreSent
<1>. DEFINE Goal == batch'[k][w] <= sent'[k][w] /\ updates'[k][w] <= sent'[k][w]
<1>t. /\ sent[k][w] \in Nat /\ batch[k][w] \in Nat /\ updates[k][w] \in Nat
      /\ batch[k][w] <= sent[k][w] /\ updates[k][w] <= sent[k][w]
    BY BroadcasterTypes DEF ChangesAreSent
<1>1. ASSUME NEW n \in Nodes, NEW u \in Users, broadcast(n, u)
      PROVE  Goal
    <2>1. sent'[k][w] = sent[k][w] \/ sent'[k][w] = sent[k][w] + 1
        BY <1>1, BroadcastFacts
    <2>2. UNCHANGED <<batch, updates>>
        BY <1>1 DEF broadcast
    <2> QED BY <1>t, <2>1, <2>2
<1>2. ASSUME NEW n \in Nodes, Receive(n)
      PROVE  Goal
    <2>1. rx[n][1][2] <= sent[n][rx[n][1][1]] /\ sent' = sent
        BY <1>2, ReceiveFacts DEF RxInOrder
    <2>2. k = n => Coalesced(k, w) <= sent[k][w]
        BY <1>t, <2>1 DEF Coalesced
    <2> QED BY <1>t, <1>2, <2>1, <2>2, TakesFacts
<1>3. ASSUME NEW n \in Nodes, Tick(n)
      PROVE  Goal
    <2>1. sent' = sent
        BY <1>3 DEF Tick
    <2>2. /\ batch'[k][w] = IF k = n THEN 0 ELSE batch[k][w]
          /\ updates'[k][w] = IF k = n THEN batch[k][w] ELSE updates[k][w]
        BY <1>3, TickFacts
    <2> QED BY <1>t, <2>1, <2>2
<1>q. ASSUME batch' = batch, sent' = sent, updates'[k][w] = 0 \/ updates'[k][w] = updates[k][w]
      PROVE  Goal
    BY <1>q, <1>t
<1>4. ASSUME NEW n \in Nodes, NEW u \in Users, DeliverLocal(n, u) PROVE Goal
    BY <1>q, <1>4, DeliverFacts
<1>5. ASSUME NEW n \in Nodes, NEW u \in Users, LookupErr(n, u) PROVE Goal
    BY <1>q, <1>5, LostFacts
<1>6. ASSUME NEW n \in Nodes, publish_presence(n) PROVE Goal
    <2>1. batch' = batch /\ sent' = sent
        BY <1>6 DEF publish_presence
    <2> QED BY <1>q, <1>6, <2>1, PublishedFacts
<1>7. ASSUME (\E n \in Nodes : Quiet(n)) \/ (\E u \in Users : ExpireKey(u)) \/ UNCHANGED vars
      PROVE  Goal
    <2>1. UNCHANGED <<sent, batch, updates>>
        BY <1>7 DEF Quiet, StoreKey, FlushDone, handle_cross_node_presence, SubscriberEnds,
                    ExpireKey, vars
    <2> QED BY <1>q, <2>1
<1>. HIDE DEF Goal
<1>8. Goal
    BY <1>1, <1>2, <1>3, <1>4, <1>5, <1>6, <1>7 DEF Next, Worker, Quiet
<1> QED BY <1>8 DEF Goal

\* A new change goes to the end of the channel, and is greater than the others.
LEMMA RxInOrderStep ==
    ASSUME TypeOK, RxInOrder, [Next]_vars
    PROVE  RxInOrder'
<1>1. ASSUME UNCHANGED <<sent, rx>> PROVE RxInOrder'
    BY <1>1 DEF RxInOrder
<1>2. ASSUME NEW h \in Nodes, NEW u \in Users, broadcast(h, u) PROVE RxInOrder'
    <2>. DEFINE last == Len(rx[h]) + 1
    <2>1. /\ \A k \in Nodes, w \in Users :
                sent'[k][w] = IF k = h /\ w = u THEN sent[h][u] + 1 ELSE sent[k][w]
          /\ \A k \in Nodes : k # h => rx'[k] = rx[k]
          /\ last \in Nat /\ rx'[h][last][1] = u /\ rx'[h][last][2] = sent[h][u] + 1
          /\ \A i \in DOMAIN rx[h] : i < last /\ rx'[h][i] = rx[h][i]
          /\ \A i \in DOMAIN rx'[h] : i \in DOMAIN rx[h] \/ i = last
        BY <1>2, BroadcastFacts
    <2>. HIDE DEF last
    <2>2. ASSUME NEW n \in Nodes, NEW i \in DOMAIN rx'[n]
          PROVE  /\ rx'[n][i][2] <= sent'[n][rx'[n][i][1]]
                 /\ \A j \in DOMAIN rx'[n] :
                       i < j /\ rx'[n][i][1] = rx'[n][j][1] => rx'[n][i][2] < rx'[n][j][2]
        <3>1. ASSUME NEW j \in DOMAIN rx[n]
              PROVE  /\ j \in Nat /\ rx[n][j][1] \in Users /\ rx[n][j][2] \in Nat
                     /\ sent[n][rx[n][j][1]] \in Nat
                     /\ rx[n][j][2] <= sent[n][rx[n][j][1]]
                     /\ rx[n][j][2] <= sent'[n][rx[n][j][1]]
            <4>1. /\ j \in Nat /\ rx[n][j][1] \in Users /\ rx[n][j][2] \in Nat
                  /\ rx[n][j][2] <= sent[n][rx[n][j][1]]
                BY BroadcasterTypes DEF RxInOrder
            <4>2. sent[n][rx[n][j][1]] \in Nat
                BY <4>1, BroadcasterTypes
            <4>3. sent'[n][rx[n][j][1]] \in {sent[n][rx[n][j][1]], sent[n][rx[n][j][1]] + 1}
                BY <2>1, <4>1
            <4> QED BY <4>1, <4>2, <4>3
        <3>2. CASE n # h
            BY <2>1, <3>1, <3>2 DEF RxInOrder
        <3>3. CASE n = h /\ i \in DOMAIN rx[h]
            <4>1. rx'[n][i] = rx[n][i]
                BY <2>1, <3>3
            <4>2. ASSUME NEW j \in DOMAIN rx'[n], i < j, rx[n][i][1] = rx'[n][j][1]
                  PROVE  rx[n][i][2] < rx'[n][j][2]
                <5>1. CASE j \in DOMAIN rx[h]
                    BY <2>1, <3>3, <4>2, <5>1 DEF RxInOrder
                <5>2. CASE j = last
                    <6>1. rx'[n][j][1] = u /\ rx'[n][j][2] = sent[n][u] + 1
                        BY <2>1, <3>3, <5>2
                    <6> QED BY <3>1, <3>3, <4>2, <6>1
                <5> QED BY <2>1, <3>3, <5>1, <5>2
            <4> QED BY <3>1, <3>3, <4>1, <4>2
        <3>4. CASE n = h /\ i = last
            <4>1. rx'[n][i][1] = u /\ rx'[n][i][2] = sent[n][u] + 1
                BY <2>1, <3>4
            <4>2. ASSUME NEW j \in DOMAIN rx'[n], i < j PROVE FALSE
                <5>1. j = last \/ j < last
                    BY <2>1, <3>4
                <5>2. j \in Nat
                    BY <2>1, <3>1, <3>4
                <5> QED BY <2>1, <3>4, <4>2, <5>1, <5>2
            <4>3. sent[n][u] \in Nat /\ sent'[n][u] = sent[n][u] + 1
                BY <2>1, <3>4, BroadcasterTypes
            <4> QED BY <3>4, <4>1, <4>2, <4>3
        <3> QED BY <2>1, <3>2, <3>3, <3>4
    <2> QED BY <2>2 DEF RxInOrder
<1>3. ASSUME NEW n \in Nodes, Receive(n) PROVE RxInOrder'
    <2>1. /\ \A i \in DOMAIN rx'[n] :
                i \in Nat /\ i + 1 \in DOMAIN rx[n] /\ rx'[n][i] = rx[n][i + 1]
          /\ sent' = sent
        BY <1>3, ReceiveFacts
    <2>2. \A k \in Nodes : k # n => rx'[k] = rx[k]
        BY <1>3, ReceiveFacts DEF TypeOK
    <2>3. ASSUME NEW k \in Nodes, NEW i \in DOMAIN rx'[k]
          PROVE  /\ rx'[k][i][2] <= sent'[k][rx'[k][i][1]]
                 /\ \A j \in DOMAIN rx'[k] :
                       i < j /\ rx'[k][i][1] = rx'[k][j][1] => rx'[k][i][2] < rx'[k][j][2]
        <3>1. CASE k # n
            BY <2>1, <2>2, <3>1 DEF RxInOrder
        <3>2. CASE k = n
            <4>1. ASSUME NEW j \in DOMAIN rx'[k], i < j PROVE i + 1 < j + 1
                BY <2>1, <3>2, <4>1
            <4> QED BY <2>1, <3>2, <4>1 DEF RxInOrder
        <3> QED BY <3>1, <3>2
    <2> QED BY <2>3 DEF RxInOrder
<1>4. ASSUME NEW n \in Nodes,
             \/ Tick(n) \/ publish_presence(n) \/ Quiet(n)
             \/ \E u \in Users : DeliverLocal(n, u) \/ LookupErr(n, u)
      PROVE  UNCHANGED <<sent, rx>>
    BY <1>4 DEF Tick, publish_presence, Quiet, StoreKey, FlushDone, DeliverLocal, LookupErr,
                handle_cross_node_presence, SubscriberEnds
<1>5. ASSUME (\E u \in Users : ExpireKey(u)) \/ UNCHANGED vars PROVE UNCHANGED <<sent, rx>>
    BY <1>5 DEF ExpireKey, vars
<1> QED BY <1>1, <1>2, <1>3, <1>4, <1>5 DEF Next, Worker, Quiet

-----------------------------------------------------------------------------
\* The inductive invariant. PipelineInOrder alone says nothing of the other
\* nodes and of changes that are still to be told apart in the channel.
BroadcasterInv ==
    /\ TypeOK
    /\ ChangesAreSent
    /\ RxInOrder
    /\ WorkerAgrees
    /\ SourceIsAhead
    /\ InboxInOrder
    /\ PipelineInOrder

\* What a step shows to the clients: those of the source the update that is being
\* flushed, others what their subscriber takes from the buffer.
LEMMA ViewStep ==
    ASSUME BroadcasterInv, [Next]_vars, NEW k \in Nodes, NEW s \in Nodes, NEW w \in Users
    PROVE  /\ view[k][s][w] <= view'[k][s][w]
           /\ k = s => \/ view'[k][s][w] = view[k][s][w]
                       \/ updates[s][w] # 0 /\ view'[k][s][w] = updates[s][w]
           /\ k # s => \/ view'[k][s][w] = view[k][s][w]
                       \/ /\ handle_cross_node_presence(k)
                          /\ view'[k][s][w] <= view[s][s][w]
<1>. DEFINE Goal ==
        /\ view[k][s][w] <= view'[k][s][w]
        /\ k = s => \/ view'[k][s][w] = view[k][s][w]
                    \/ updates[s][w] # 0 /\ view'[k][s][w] = updates[s][w]
        /\ k # s => \/ view'[k][s][w] = view[k][s][w]
                    \/ /\ handle_cross_node_presence(k)
                       /\ view'[k][s][w] <= view[s][s][w]
<1>i. TypeOK /\ WorkerAgrees /\ SourceIsAhead /\ InboxInOrder /\ PipelineInOrder
    BY DEF BroadcasterInv
<1>t. view[k][s][w] \in Nat /\ updates[s][w] \in Nat
    BY <1>i, BroadcasterTypes
<1>1. ASSUME view'[k][s][w] = view[k][s][w] PROVE Goal
    BY <1>1, <1>t
<1>2. ASSUME NEW n \in Nodes, NEW u \in Users, DeliverLocal(n, u) PROVE Goal
    <2>1. /\ updates[n][u] # 0
          /\ view'[k][s][w] = IF k = n /\ s = n /\ w = u THEN updates[n][u] ELSE view[k][s][w]
        BY <1>i, <1>2, DeliverFacts
    <2>2. CASE k = n /\ s = n /\ w = u
        <3>1. view[k][s][w] <= updates[s][w]
            BY <1>i, <2>1, <2>2 DEF PipelineInOrder
        <3> QED BY <2>1, <2>2, <3>1
    <2> QED BY <1>1, <2>1, <2>2
<1>3. ASSUME NEW n \in Nodes, handle_cross_node_presence(n) PROVE Goal
    <2>. DEFINE p == inbox[n][1]
    <2>1. /\ 1 \in DOMAIN inbox[n]
          /\ view'[k][s][w] = IF k = n /\ s = p.source /\ s # n /\ w = p.user THEN p.status
                              ELSE view[k][s][w]
        BY <1>i, <1>3, CrossFacts
    <2>2. /\ p.status <= view[p.source][p.source][p.user]
          /\ n # p.source => view[n][p.source][p.user] <= p.status
        BY <1>i, <2>1 DEF InboxInOrder
    <2>. HIDE DEF p
    <2>3. CASE k = n /\ s = p.source /\ s # n /\ w = p.user
        BY <1>3, <2>1, <2>2, <2>3
    <2> QED BY <1>1, <2>1, <2>3
<1>4. ASSUME \/ \E u \in Users : ExpireKey(u)
             \/ \E n \in Nodes : \/ Receive(n) \/ Tick(n) \/ StoreKey(n) \/ FlushDone(n)
                                \/ publish_presence(n) \/ SubscriberEnds(n)
                                \/ \E u \in Users : LookupErr(n, u) \/ broadcast(n, u)
             \/ UNCHANGED vars
      PROVE  Goal
    <2>1. view' = view
        BY <1>4 DEF broadcast, ExpireKey, Receive, Tick, StoreKey, FlushDone,
                    publish_presence, SubscriberEnds, LookupErr, vars
    <2> QED BY <1>1, <2>1
<1>. HIDE DEF Goal
<1>5. Goal
    BY <1>2, <1>3, <1>4 DEF Next, Worker
<1> QED BY <1>5 DEF Goal

\* Nobody gets ahead of the clients of the source.
LEMMA SourceIsAheadStep ==
    ASSUME BroadcasterInv, TypeOK', [Next]_vars
    PROVE  SourceIsAhead'
<1>. SUFFICES ASSUME NEW s \in Nodes, NEW w \in Users
              PROVE  /\ redis_key'[w][s] <= view'[s][s][w]
                     /\ view'[s][s][w] <= sent'[s][w]
                     /\ \A k \in Nodes : view'[k][s][w] <= view'[s][s][w]
    BY DEF SourceIsAhead
<1>i. /\ TypeOK /\ ChangesAreSent /\ WorkerAgrees /\ SourceIsAhead /\ [Next]_vars
    BY DEF BroadcasterInv
<1>t. /\ sent[s][w] \in Nat /\ redis_key[w][s] \in Nat /\ sent'[s][w] \in Nat
      /\ \A k \in Nodes : view[k][s][w] \in Nat /\ view'[k][s][w] \in Nat
      /\ redis_key[w][s] <= view[s][s][w] /\ view[s][s][w] <= sent[s][w]
      /\ \A k \in Nodes : view[k][s][w] <= view[s][s][w]
      /\ updates[s][w] \in Nat /\ updates[s][w] <= sent[s][w]
    <2>1. sent'[s][w] \in Nat /\ \A k \in Nodes : view'[k][s][w] \in Nat
        BY DEF TypeOK
    <2> QED BY <1>i, <2>1, BroadcasterTypes DEF SourceIsAhead, ChangesAreSent
<1>1. sent[s][w] <= sent'[s][w]
    <2>1. ASSUME NEW n \in Nodes, NEW u \in Users, broadcast(n, u)
          PROVE  sent'[s][w] = sent[s][w] \/ sent'[s][w] = sent[s][w] + 1
        BY <1>i, <2>1, BroadcastFacts
    <2>2. ASSUME NEW u \in Users, ExpireKey(u) PROVE sent' = sent
        BY <2>2 DEF ExpireKey
    <2>3. ASSUME (\E n \in Nodes : Worker(n) \/ handle_cross_node_presence(n) \/ SubscriberEnds(n))
                 \/ UNCHANGED vars
          PROVE  sent' = sent
        BY <2>3 DEF Worker, Receive, Tick, DeliverLocal, LookupErr, StoreKey, FlushDone,
                    publish_presence, handle_cross_node_presence, SubscriberEnds, vars
    <2>4. sent'[s][w] = sent[s][w] \/ sent'[s][w] = sent[s][w] + 1
        BY <1>i, <2>1, <2>2, <2>3 DEF Next
    <2> QED BY <1>t, <2>4
<1>2. /\ view[s][s][w] <= view'[s][s][w]
      /\ view'[s][s][w] = view[s][s][w] \/ view'[s][s][w] = updates[s][w]
    BY ViewStep
<1>3. view'[s][s][w] <= sent'[s][w]
    BY <1>t, <1>1, <1>2
<1>4. ASSUME NEW k \in Nodes PROVE view'[k][s][w] <= view'[s][s][w]
    <2>1. CASE k = s
        BY <1>t, <2>1
    <2>2. CASE k # s
        <3>1. view'[k][s][w] = view[k][s][w] \/ view'[k][s][w] <= view[s][s][w]
            BY <2>2, ViewStep
        <3> QED BY <1>t, <1>2, <3>1
    <2> QED BY <2>1, <2>2
<1>5. redis_key'[w][s] <= view'[s][s][w]
    <2>1. ASSUME redis_key'[w][s] = redis_key[w][s] \/ redis_key'[w][s] = 0
          PROVE  redis_key'[w][s] <= view'[s][s][w]
        BY <1>t, <1>2, <2>1
    <2>2. ASSUME NEW n \in Nodes, StoreKey(n) PROVE redis_key'[w][s] <= view'[s][s][w]
        <3>. DEFINE u == current[n]
        <3>1. /\ u \in Users /\ updates[n][u] = view[n][n][u]
              /\ view' = view /\ redis_key \in [Users -> [Nodes -> Nat]]
            BY <1>i, <2>2 DEF StoreKey, WorkerAgrees, TypeOK
        <3>2. \/ redis_key' = redis_key
              \/ redis_key' = [redis_key EXCEPT ![u] = [NoKey EXCEPT ![n] = updates[n][u]]]
              \/ redis_key' = [redis_key EXCEPT ![u] = NoKey]
            BY <2>2 DEF StoreKey
        <3>. HIDE DEF u
        <3>3. CASE w = u /\ s = n
            <4>1. redis_key'[w][s] \in {redis_key[w][s], view[s][s][w], 0}
                BY <3>1, <3>2, <3>3 DEF NoKey
            <4> QED BY <1>t, <3>1, <4>1
        <3>4. CASE ~(w = u /\ s = n)
            <4>1. redis_key'[w][s] \in {redis_key[w][s], 0}
                BY <3>1, <3>2, <3>4 DEF NoKey
            <4> QED BY <2>1, <4>1
        <3> QED BY <3>3, <3>4
    <2>3. ASSUME NEW u \in Users, ExpireKey(u)
          PROVE  redis_key'[w][s] = redis_key[w][s] \/ redis_key'[w][s] = 0
        BY <1>i, <2>3 DEF ExpireKey, TypeOK, NoKey
    <2>4. ASSUME \/ \E n \in Nodes : \/ Receive(n) \/ Tick(n) \/ FlushDone(n) \/ SubscriberEnds(n)
                                    \/ publish_presence(n) \/ handle_cross_node_presence(n)
                                    \/ \E u \in Users : \/ DeliverLocal(n, u) \/ LookupErr(n, u)
                                                        \/ broadcast(n, u)
                 \/ UNCHANGED vars
          PROVE  redis_key' = redis_key
        BY <2>4 DEF broadcast, Receive, Tick, FlushDone, SubscriberEnds, publish_presence,
                    handle_cross_node_presence, DeliverLocal, LookupErr, vars
    <2> QED BY <1>i, <2>1, <2>2, <2>3, <2>4 DEF Next, Worker
<1> QED BY <1>3, <1>4, <1>5

\* What InboxInOrder says of one payload of a buffer.
Between(n, i) ==
    LET p == inbox[n][i]
    IN  /\ p.status <= view[p.source][p.source][p.user]
        /\ n # p.source => view[n][p.source][p.user] <= p.status
        /\ \A j \in DOMAIN inbox[n] :
              i < j /\ p.user = inbox[n][j].user /\ p.source = inbox[n][j].source =>
                  p.status <= inbox[n][j].status

\* What is on its way to another node stays in order, and after what its clients
\* have seen.
LEMMA InboxInOrderStep ==
    ASSUME BroadcasterInv, TypeOK', [Next]_vars
    PROVE  InboxInOrder'
<1>. SUFFICES ASSUME NEW k \in Nodes, NEW i \in DOMAIN inbox'[k] PROVE Between(k, i)'
    BY DEF InboxInOrder, Between
<1>i. TypeOK /\ WorkerAgrees /\ SourceIsAhead /\ [Next]_vars
    BY DEF BroadcasterInv
<1>b. \A j \in DOMAIN inbox[k] : Between(k, j)
    BY DEF BroadcasterInv, InboxInOrder, Between
<1>t. /\ \A j \in DOMAIN inbox[k] :
            /\ j \in Nat /\ inbox[k][j].source \in Nodes
            /\ inbox[k][j].user \in Users /\ inbox[k][j].status \in Nat
      /\ \A n \in Nodes, s \in Nodes, w \in Users : view[n][s][w] \in Nat /\ view'[n][s][w] \in Nat
    <2>1. \A n \in Nodes, s \in Nodes, w \in Users : view'[n][s][w] \in Nat
        BY DEF TypeOK
    <2> QED BY <1>i, <2>1, BroadcasterTypes
<1>1. ASSUME inbox'[k] = inbox[k] \/ inbox'[k] = <<>>, ~handle_cross_node_presence(k)
      PROVE  Between(k, i)'
    <2>1. inbox'[k] = inbox[k] /\ i \in DOMAIN inbox[k]
        BY <1>1
    <2>. DEFINE p == inbox[k][i]
                h == p.source
    <2>2. p.user \in Users /\ h \in Nodes
        BY <1>t, <2>1
    <2>3. view[h][h][p.user] <= view'[h][h][p.user] /\ (k # h => view'[k][h][p.user] = view[k][h][p.user])
        BY <1>1, <2>2, ViewStep
    <2>4. /\ p.status <= view[h][h][p.user] /\ (k # h => view[k][h][p.user] <= p.status)
          /\ \A j \in DOMAIN inbox[k] :
                i < j /\ p.user = inbox[k][j].user /\ h = inbox[k][j].source =>
                    p.status <= inbox[k][j].status
        BY <1>b, <2>1 DEF Between
    <2>5. p.status <= view'[h][h][p.user]
        <3>1. p.status \in Nat /\ view[h][h][p.user] \in Nat /\ view'[h][h][p.user] \in Nat
            BY <1>t, <2>1, <2>2
        <3>2. p.status <= view[h][h][p.user] /\ view[h][h][p.user] <= view'[h][h][p.user]
            BY <2>3, <2>4
        <3>. HIDE DEF p, h
        <3> QED BY <3>1, <3>2
    <2> QED BY <2>1, <2>3, <2>4, <2>5 DEF Between
<1>2. ASSUME NEW n \in Nodes, publish_presence(n), ~handle_cross_node_presence(k)
      PROVE  Between(k, i)'
    <2>. DEFINE u == current[n]
                e == [source |-> n, user |-> u, status |-> updates[n][u]]
                last == Len(inbox[k]) + 1
    <2>1. /\ u \in Users /\ e \in Payload /\ updates[n][u] # 0 /\ updates[n][u] = view[n][n][u]
          /\ inbox'[k] \in {inbox[k], <<>>, Append(inbox[k], e)} /\ view' = view
        BY <1>i, <1>2, PublishFacts
    <2>2. view[k][n][u] <= view[n][n][u]
        BY <1>i, <2>1 DEF SourceIsAhead
    <2>3. e.source = n /\ e.user = u /\ e.status = view[n][n][u]
        BY <2>1
    <2>. HIDE DEF u, e
    <2>4. CASE inbox'[k] = Append(inbox[k], e)
        <3>1. inbox[k] \in Seq(Payload)
            BY <1>i DEF TypeOK
        <3>2. /\ last \in Nat /\ inbox'[k][last] = e
              /\ \A j \in DOMAIN inbox[k] : j < last /\ inbox'[k][j] = inbox[k][j]
              /\ \A j \in DOMAIN inbox'[k] : j \in DOMAIN inbox[k] \/ j = last
            BY <2>1, <2>4, <3>1, AppendFacts
        <3>. HIDE DEF last
        <3>3. CASE i = last
            <4>1. ASSUME NEW j \in DOMAIN inbox'[k], i < j PROVE FALSE
                BY <1>t, <3>2, <3>3, <4>1
            <4>2. /\ e.status <= view[e.source][e.source][e.user]
                  /\ view[k][e.source][e.user] <= e.status
                BY <1>t, <2>1, <2>2, <2>3
            <4> QED BY <2>1, <3>2, <3>3, <4>1, <4>2 DEF Between
        <3>4. CASE i \in DOMAIN inbox[k]
            <4>. DEFINE p == inbox[k][i]
            <4>1. /\ inbox'[k][i] = p /\ p.user \in Users /\ p.status \in Nat
                  /\ p.status <= view[p.source][p.source][p.user]
                  /\ k # p.source => view[k][p.source][p.user] <= p.status
                  /\ \A j \in DOMAIN inbox[k] :
                        i < j /\ p.user = inbox[k][j].user /\ p.source = inbox[k][j].source =>
                            p.status <= inbox[k][j].status
                BY <1>b, <1>t, <3>2, <3>4 DEF Between
            <4>. HIDE DEF p
            <4>2. ASSUME NEW j \in DOMAIN inbox'[k], i < j, p.user = inbox'[k][j].user,
                         p.source = inbox'[k][j].source
                  PROVE  p.status <= inbox'[k][j].status
                <5>1. CASE j = last
                    BY <2>3, <3>2, <4>1, <4>2, <5>1
                <5>2. CASE j \in DOMAIN inbox[k]
                    BY <3>2, <4>1, <4>2, <5>2
                <5> QED BY <3>2, <5>1, <5>2
            <4> QED BY <2>1, <4>1, <4>2 DEF Between
        <3> QED BY <3>2, <3>3, <3>4
    <2> QED BY <1>1, <1>2, <2>1, <2>4
<1>3. ASSUME handle_cross_node_presence(k) PROVE Between(k, i)'
    <2>. DEFINE p == inbox[k][1]
                q == inbox[k][i + 1]
                h == q.source
    <2>1. /\ 1 \in DOMAIN inbox[k]
          /\ \A j \in DOMAIN inbox'[k] :
                /\ j \in Nat /\ 1 < j + 1 /\ j + 1 \in DOMAIN inbox[k]
                /\ inbox'[k][j] = inbox[k][j + 1]
          /\ \A n \in Nodes, s \in Nodes, w \in Users :
                view'[n][s][w] = IF n = k /\ s = p.source /\ s # k /\ w = p.user THEN p.status
                                 ELSE view[n][s][w]
        BY <1>i, <1>3, CrossFacts
    <2>2. /\ q.user \in Users /\ q.status \in Nat /\ h \in Nodes
          /\ q.status <= view[h][h][q.user] /\ (k # h => view[k][h][q.user] <= q.status)
          /\ q.user = p.user /\ h = p.source => p.status <= q.status
        BY <1>b, <1>t, <2>1 DEF Between
    <2>3. \A j \in DOMAIN inbox'[k] :
             i < j /\ q.user = inbox'[k][j].user /\ h = inbox'[k][j].source =>
                 q.status <= inbox'[k][j].status
        <3>1. ASSUME NEW j \in DOMAIN inbox'[k], i < j PROVE i + 1 < j + 1
            BY <2>1, <3>1
        <3> QED BY <1>b, <2>1, <3>1 DEF Between
    <2>4. inbox'[k][i] = q
        BY <2>1
    <2>5. view'[h][h][q.user] = view[h][h][q.user]
        <3>. HIDE DEF q, p, h
        <3> QED BY <2>1, <2>2
    <2>6. k # h => view'[k][h][q.user] <= q.status
        <3>. HIDE DEF q, p, h
        <3> QED BY <2>1, <2>2
    <2>. HIDE DEF q, p
    <2> QED BY <2>2, <2>3, <2>4, <2>5, <2>6 DEF Between
<1>4. ASSUME NEW n \in Nodes, n # k, handle_cross_node_presence(n) PROVE inbox'[k] = inbox[k]
    <2>1. inbox' = [inbox EXCEPT ![n] = Tail(inbox[n])]
        BY <1>i, <1>4, CrossFacts
    <2>2. inbox \in [Nodes -> Seq(Payload)]
        BY <1>i DEF TypeOK
    <2> QED BY <1>4, <2>1, <2>2
<1>5. ASSUME NEW n \in Nodes, SubscriberEnds(n) PROVE inbox'[k] = inbox[k] \/ inbox'[k] = <<>>
    BY <1>i, <1>5 DEF SubscriberEnds, TypeOK
<1>6. ASSUME \/ \E u \in Users : ExpireKey(u)
             \/ \E n \in Nodes : \/ Receive(n) \/ Tick(n) \/ StoreKey(n) \/ FlushDone(n)
                                \/ \E u \in Users : \/ DeliverLocal(n, u) \/ LookupErr(n, u)
                                                    \/ broadcast(n, u)
             \/ UNCHANGED vars
      PROVE  inbox' = inbox
    BY <1>6 DEF broadcast, ExpireKey, Receive, Tick, StoreKey, FlushDone, DeliverLocal,
                LookupErr, vars
<1> QED BY <1>i, <1>1, <1>2, <1>3, <1>4, <1>5, <1>6 DEF Next, Worker

\* What PipelineInOrder says of one user, but for the key: SourceIsAhead has that.
Ordered(n, u) ==
    /\ updates[n][u] # 0 => view[n][n][u] <= updates[n][u]
    /\ batch[n][u] # 0 => view[n][n][u] < batch[n][u] /\ updates[n][u] < batch[n][u]
    /\ \A i \in DOMAIN rx[n] : rx[n][i][1] = u =>
          /\ rx[n][i][2] > batch[n][u]
          /\ rx[n][i][2] > updates[n][u]
          /\ rx[n][i][2] > view[n][n][u]

\* A change is overtaken in no step of the pipeline.
LEMMA PipelineInOrderStep ==
    ASSUME BroadcasterInv, TypeOK', SourceIsAhead', [Next]_vars
    PROVE  PipelineInOrder'
<1>. SUFFICES ASSUME NEW n \in Nodes, NEW u \in Users
              PROVE  /\ Ordered(n, u)'
                     /\ updates'[n][u] # 0 => redis_key'[u][n] <= updates'[n][u]
    BY DEF PipelineInOrder, Ordered
<1>i. TypeOK /\ ChangesAreSent /\ RxInOrder /\ WorkerAgrees /\ SourceIsAhead /\ [Next]_vars
    BY DEF BroadcasterInv
<1>t. /\ view[n][n][u] \in Nat /\ updates[n][u] \in Nat /\ batch[n][u] \in Nat
      /\ \A i \in DOMAIN rx[n] : i \in Nat /\ rx[n][i][1] \in Users /\ rx[n][i][2] \in Nat
      /\ sent[n][u] \in Nat /\ view[n][n][u] <= sent[n][u]
      /\ updates[n][u] <= sent[n][u] /\ batch[n][u] <= sent[n][u]
    BY <1>i, BroadcasterTypes DEF ChangesAreSent, SourceIsAhead
<1>o. Ordered(n, u)
    BY DEF BroadcasterInv, PipelineInOrder, Ordered
<1>v. view'[n][n][u] = view[n][n][u] \/ (updates[n][u] # 0 /\ view'[n][n][u] = updates[n][u])
    BY ViewStep
<1>1. ASSUME rx'[n] = rx[n], batch'[n][u] = batch[n][u],
             updates'[n][u] = 0 \/ updates'[n][u] = updates[n][u]
      PROVE  Ordered(n, u)'
    <2>1. view'[n][n][u] = view[n][n][u] => Ordered(n, u)'
        BY <1>1, <1>o, <1>t DEF Ordered
    <2>2. updates[n][u] # 0 /\ view'[n][n][u] = updates[n][u] => Ordered(n, u)'
        BY <1>1, <1>o, <1>t DEF Ordered
    <2> QED BY <1>v, <2>1, <2>2
<1>2. ASSUME NEW k \in Nodes, NEW w \in Users, broadcast(k, w) PROVE Ordered(n, u)'
    <2>. DEFINE last == Len(rx[n]) + 1
    <2>1. UNCHANGED <<batch, updates, view>>
        BY <1>2 DEF broadcast
    <2>2. CASE n # k
        BY <1>1, <1>2, <1>i, <2>1, <2>2, BroadcastFacts
    <2>3. CASE n = k
        <3>1. /\ rx'[n][last][1] = w /\ rx'[n][last][2] = sent[n][w] + 1
              /\ \A i \in DOMAIN rx[n] : rx'[n][i] = rx[n][i]
              /\ \A i \in DOMAIN rx'[n] : i \in DOMAIN rx[n] \/ i = last
            BY <1>2, <1>i, <2>3, BroadcastFacts
        <3>. HIDE DEF last
        <3>2. ASSUME NEW i \in DOMAIN rx'[n], rx'[n][i][1] = u
              PROVE  /\ rx'[n][i][2] > batch[n][u]
                     /\ rx'[n][i][2] > updates[n][u]
                     /\ rx'[n][i][2] > view[n][n][u]
            <4>1. CASE i \in DOMAIN rx[n]
                BY <1>o, <3>1, <3>2, <4>1 DEF Ordered
            <4>2. CASE i = last
                <5>1. rx'[n][i][2] = sent[n][u] + 1
                    BY <3>1, <3>2, <4>2
                <5> QED BY <1>t, <5>1
            <4> QED BY <3>1, <4>1, <4>2
        <3> QED BY <1>o, <2>1, <3>2 DEF Ordered
    <2> QED BY <2>2, <2>3
<1>3. ASSUME NEW k \in Nodes, Receive(k) PROVE Ordered(n, u)'
    <2>1. CASE k # n
        <3>1. rx'[n] = rx[n]
            <4>1. rx' = [rx EXCEPT ![k] = Tail(rx[k])]
                BY <1>3, <1>i, ReceiveFacts
            <4>2. rx \in [Nodes -> Seq(Users \X Nat)]
                BY <1>i DEF TypeOK
            <4> QED BY <1>t, <2>1, <4>1, <4>2
        <3>2. batch'[n][u] = batch[n][u] /\ updates'[n][u] = updates[n][u]
            BY <1>3, <1>i, <1>t, <2>1, TakesFacts
        <3> QED BY <1>1, <3>1, <3>2
    <2>2. CASE k = n
        <3>. DEFINE c == Coalesced(n, u)
        <3>1. /\ 1 \in DOMAIN rx[n] /\ view' = view
              /\ \A i \in DOMAIN rx'[n] :
                    i \in Nat /\ 1 < i + 1 /\ i + 1 \in DOMAIN rx[n] /\ rx'[n][i] = rx[n][i + 1]
            BY <1>3, <1>i, <2>2, ReceiveFacts
        <3>2. \/ updates'[n][u] = c /\ batch'[n][u] = 0
              \/ updates'[n][u] = updates[n][u] /\ batch'[n][u] = c
            BY <1>3, <1>i, <2>2, TakesFacts
        <3>3. /\ c \in Nat /\ (c # 0 => view[n][n][u] < c /\ updates[n][u] < c)
            BY <1>o, <1>t, <3>1 DEF Ordered, Coalesced
        <3>4. ASSUME NEW i \in DOMAIN rx'[n], rx'[n][i][1] = u
              PROVE  /\ rx'[n][i][2] \in Nat /\ rx'[n][i][2] > c
                     /\ rx'[n][i][2] > updates[n][u] /\ rx'[n][i][2] > view[n][n][u]
            <4>1. /\ i + 1 \in DOMAIN rx[n] /\ rx'[n][i] = rx[n][i + 1] /\ 1 < i + 1
                BY <3>1
            <4>2. rx[n][1][1] = u => rx[n][1][2] < rx[n][i + 1][2]
                BY <1>i, <1>t, <3>1, <3>4, <4>1 DEF RxInOrder
            <4>3. /\ rx[n][i + 1][2] \in Nat /\ rx[n][i + 1][2] > batch[n][u]
                  /\ rx[n][i + 1][2] > updates[n][u] /\ rx[n][i + 1][2] > view[n][n][u]
                BY <1>o, <1>t, <3>4, <4>1 DEF Ordered
            <4>4. rx[n][i + 1][2] > c
                BY <1>t, <3>1, <4>2, <4>3 DEF Coalesced
            <4> QED BY <4>1, <4>3, <4>4
        <3>. HIDE DEF c
        <3>5. CASE updates'[n][u] = c /\ batch'[n][u] = 0
            <4>1. \A x \in Nat : x > c => x > 0
                BY <3>3
            <4> QED BY <1>t, <3>1, <3>3, <3>4, <3>5, <4>1 DEF Ordered
        <3>6. CASE updates'[n][u] = updates[n][u] /\ batch'[n][u] = c
            BY <1>o, <1>t, <3>1, <3>3, <3>4, <3>6 DEF Ordered
        <3> QED BY <3>2, <3>5, <3>6
    <2> QED BY <2>1, <2>2
<1>4. ASSUME NEW k \in Nodes, Tick(k) PROVE Ordered(n, u)'
    <2>1. /\ batch'[n][u] = IF n = k THEN 0 ELSE batch[n][u]
          /\ updates'[n][u] = IF n = k THEN batch[n][u] ELSE updates[n][u]
        BY <1>4, <1>i, <1>t, TickFacts
    <2>2. rx' = rx /\ view' = view
        BY <1>4 DEF Tick
    <2>3. CASE n = k
        <3>1. \A i \in DOMAIN rx[n] : rx[n][i][1] = u => rx[n][i][2] > 0
            BY <1>o, <1>t DEF Ordered
        <3> QED BY <1>o, <1>t, <2>1, <2>2, <2>3, <3>1 DEF Ordered
    <2>4. CASE n # k
        BY <1>1, <2>1, <2>2, <2>4
    <2> QED BY <2>3, <2>4
<1>5. ASSUME NEW k \in Nodes, NEW w \in Users, DeliverLocal(k, w) \/ LookupErr(k, w)
      PROVE  Ordered(n, u)'
    <2>1. CASE DeliverLocal(k, w)
        <3>1. UNCHANGED <<rx, batch, updates>>
            BY <2>1 DEF DeliverLocal
        <3> QED BY <1>1, <3>1
    <2>2. CASE LookupErr(k, w)
        <3>1. rx' = rx /\ batch' = batch
            BY <2>2 DEF LookupErr
        <3>2. updates'[n][u] = 0 \/ updates'[n][u] = updates[n][u]
            BY <1>i, <1>t, <2>2, LostFacts
        <3> QED BY <1>1, <3>1, <3>2
    <2> QED BY <1>5, <2>1, <2>2
<1>6. ASSUME NEW k \in Nodes, publish_presence(k) PROVE Ordered(n, u)'
    <2>1. rx' = rx /\ batch' = batch
        BY <1>6 DEF publish_presence
    <2>2. updates'[n][u] = 0 \/ updates'[n][u] = updates[n][u]
        BY <1>i, <1>t, <1>6, PublishedFacts
    <2> QED BY <1>1, <2>1, <2>2
<1>7. ASSUME (\E k \in Nodes : Quiet(k)) \/ (\E w \in Users : ExpireKey(w)) \/ UNCHANGED vars
      PROVE  Ordered(n, u)'
    <2>1. UNCHANGED <<rx, batch, updates>>
        BY <1>7 DEF Quiet, StoreKey, FlushDone, handle_cross_node_presence, SubscriberEnds,
                    ExpireKey, vars
    <2> QED BY <1>1, <2>1
<1>8. Ordered(n, u)'
    BY <1>i, <1>2, <1>3, <1>4, <1>5, <1>6, <1>7 DEF Next, Worker, Quiet
<1>9. updates'[n][u] # 0 => redis_key'[u][n] <= updates'[n][u]
    <2>1. updates'[n][u] \in Nat /\ view'[n][n][u] \in Nat /\ redis_key'[u][n] \in Nat
        BY DEF TypeOK
    <2>2. redis_key'[u][n] <= view'[n][n][u]
        BY DEF SourceIsAhead
    <2> QED BY <1>8, <2>1, <2>2 DEF Ordered
<1> QED BY <1>8, <1>9

-----------------------------------------------------------------------------
\* The inductive invariant holds in the initial states.
LEMMA BroadcasterInitInv == Init => BroadcasterInv
<1>. SUFFICES ASSUME Init PROVE BroadcasterInv
    OBVIOUS
<1>1. /\ \A n \in Nodes : rx[n] = <<>> /\ DOMAIN rx[n] = {} /\ inbox[n] = <<>> /\ DOMAIN inbox[n] = {}
      /\ \A n \in Nodes, u \in Users : /\ batch[n][u] = 0 /\ updates[n][u] = 0
                                       /\ sent[n][u] = 0 /\ redis_key[u][n] = 0
      /\ \A n \in Nodes, s \in Nodes, u \in Users : view[n][s][u] = 0
      /\ \A n \in Nodes : worker[n] = "select"
    BY DEF Init, NoEntries, NoKey
<1>2. NoEntries \in [Users -> Nat] /\ NoKey \in [Nodes -> Nat]
    BY DEF NoEntries, NoKey
<1>3. TypeOK
    <2>1. <<>> \in Seq(Payload) /\ Len(<<>>) <= RxCapacity
        BY LimitsAssumption
    <2>2. ASSUME NEW n \in Nodes PROVE Cardinality(Entries(batch[n])) < BatchLimit
        <3>1. Entries(batch[n]) = {}
            BY <1>1 DEF Entries
        <3> QED BY <3>1, FS_EmptySet, LimitsAssumption
    <2>3. \A n \in Nodes : inbox[n] = <<>>
        BY <1>1
    <2> QED BY <1>2, <2>1, <2>2, <2>3 DEF Init, TypeOK
<1>4. ChangesAreSent /\ RxInOrder /\ WorkerAgrees
    BY <1>1 DEF ChangesAreSent, RxInOrder, WorkerAgrees
<1>5. SourceIsAhead /\ InboxInOrder /\ PipelineInOrder
    BY <1>1 DEF SourceIsAhead, InboxInOrder, PipelineInOrder
<1> QED BY <1>3, <1>4, <1>5 DEF BroadcasterInv

\* What is stored and published agrees with what was sent, after every step.
LEMMA WorkerAgreesStep ==
    ASSUME BroadcasterInv, [Next]_vars
    PROVE  WorkerAgrees'
<1>. SUFFICES ASSUME NEW k \in Nodes, worker'[k] \in {"store", "publish"}
              PROVE  /\ current'[k] \in Users
                     /\ updates'[k][current'[k]] # 0
                     /\ updates'[k][current'[k]] = view'[k][k][current'[k]]
    BY DEF WorkerAgrees
<1>i. TypeOK /\ ChangesAreSent /\ [Next]_vars
    BY DEF BroadcasterInv
<1>w. worker[k] \in {"store", "publish"} =>
          /\ current[k] \in Users /\ updates[k][current[k]] # 0
          /\ updates[k][current[k]] = view[k][k][current[k]]
    BY DEF BroadcasterInv, WorkerAgrees
<1>. DEFINE Goal == /\ current'[k] \in Users
                    /\ updates'[k][current'[k]] # 0
                    /\ updates'[k][current'[k]] = view'[k][k][current'[k]]
<1>1. ASSUME worker[k] \in {"store", "publish"}, current'[k] = current[k], updates'[k] = updates[k]
      PROVE  Goal
    <2>1. view'[k][k][current[k]] = view[k][k][current[k]]
        BY <1>1, <1>w, ViewStep
    <2> QED BY <1>1, <1>w, <2>1
<1>2. ASSUME NEW n \in Nodes, NEW u \in Users, DeliverLocal(n, u) PROVE Goal
    <2>1. /\ worker' = [worker EXCEPT ![n] = "store"] /\ current' = [current EXCEPT ![n] = u]
          /\ updates' = updates /\ updates[n][u] # 0
        BY <1>2 DEF DeliverLocal, Entries, Goto
    <2>v. view'[n][n][u] = updates[n][u]
        BY <1>i, <1>2, DeliverFacts
    <2>2. CASE n = k
        BY <1>i, <2>1, <2>v, <2>2 DEF TypeOK
    <2>3. CASE n # k
        BY <1>1, <1>i, <2>1, <2>3 DEF TypeOK
    <2> QED BY <2>2, <2>3
<1>3. ASSUME NEW n \in Nodes,
             \/ Receive(n) \/ Tick(n) \/ StoreKey(n) \/ FlushDone(n) \/ publish_presence(n)
             \/ \E u \in Users : LookupErr(n, u)
      PROVE  Goal
    <2>1. CASE n = k
        <3>1. worker[k] = "store" /\ UNCHANGED <<current, updates>>
            BY <1>3, <1>i, <2>1 DEF Receive, Tick, StoreKey, FlushDone, publish_presence,
                                    LookupErr, start_flush, Goto, TypeOK
        <3> QED BY <1>1, <3>1
    <2>2. CASE n # k
        <3>1. worker = [x \in Nodes |-> worker[x]] /\ current = [x \in Nodes |-> current[x]]
            BY <1>i DEF TypeOK
        <3>2. updates = [x \in Nodes |-> updates[x]]
            BY <1>i DEF TypeOK
        <3>3. CASE Receive(n) \/ Tick(n)
            BY <1>1, <2>2, <3>1, <3>2, <3>3 DEF Receive, Tick, start_flush, Goto
        <3>4. CASE StoreKey(n) \/ FlushDone(n)
            BY <1>1, <2>2, <3>1, <3>4 DEF StoreKey, FlushDone, Goto
        <3>5. CASE publish_presence(n) \/ \E u \in Users : LookupErr(n, u)
            BY <1>1, <2>2, <3>1, <3>2, <3>5 DEF publish_presence, LookupErr, Goto
        <3> QED BY <1>3, <3>3, <3>4, <3>5
    <2> QED BY <2>1, <2>2
<1>4. ASSUME \/ \E u \in Users : ExpireKey(u)
             \/ \E n \in Nodes : \/ handle_cross_node_presence(n) \/ SubscriberEnds(n)
                                \/ \E u \in Users : broadcast(n, u)
             \/ UNCHANGED vars
      PROVE  Goal
    <2>1. UNCHANGED <<worker, current, updates>>
        BY <1>4 DEF broadcast, ExpireKey, handle_cross_node_presence, SubscriberEnds, vars
    <2> QED BY <1>1, <2>1
<1> QED BY <1>i, <1>2, <1>3, <1>4 DEF Next, Worker

\* Every step keeps the inductive invariant.
LEMMA BroadcasterStepInv == BroadcasterInv /\ [Next]_vars => BroadcasterInv'
<1>. SUFFICES ASSUME BroadcasterInv, [Next]_vars PROVE BroadcasterInv'
    OBVIOUS
<1>1. TypeOK /\ ChangesAreSent /\ RxInOrder /\ WorkerAgrees
    BY DEF BroadcasterInv
<1>2. TypeOK' /\ WorkerAgrees'
    BY <1>1, BroadcasterTypeStep, WorkerAgreesStep
<1>3. ChangesAreSent' /\ RxInOrder'
    BY <1>1, ChangesAreSentStep, RxInOrderStep
<1>4. SourceIsAhead' /\ InboxInOrder'
    BY <1>2, SourceIsAheadStep, InboxInOrderStep
<1>5. PipelineInOrder'
    BY <1>2, <1>4, PipelineInOrderStep
<1> QED BY <1>2, <1>3, <1>4, <1>5 DEF BroadcasterInv

\* The inductive invariant is an invariant.
THEOREM BroadcasterInvariant == Spec => []BroadcasterInv
BY BroadcasterInitInv, BroadcasterStepInv, PTL DEF Spec

\* Every variable stays in its type, and no buffer holds more than the Redis
\* client keeps for a subscriber.
THEOREM BroadcasterTypeCorrect == Spec => []TypeOK
<1>1. BroadcasterInv => TypeOK
    BY DEF BroadcasterInv
<1> QED BY <1>1, BroadcasterInvariant, PTL

\* On the way from broadcast to the clients of the node, over the worker's channel,
\* the batch and the flush, no change of a user overtakes an earlier one.
THEOREM BroadcasterPipelineInOrder == Spec => []PipelineInOrder
<1>1. BroadcasterInv => PipelineInOrder
    BY DEF BroadcasterInv
<1> QED BY <1>1, BroadcasterInvariant, PTL

\* The clients of no node are sent an older change of a user after a newer one of
\* the same source, by broadcast_worker or by the subscriber, however many nodes the
\* user is on.
THEOREM BroadcasterViewNeverGoesBack == Spec => ViewNeverGoesBack
<1>1. BroadcasterInv /\ [Next]_vars =>
          [\A n \in Nodes, s \in Nodes, u \in Users : view'[n][s][u] >= view[n][s][u]]_vars
    <2>. SUFFICES ASSUME BroadcasterInv, [Next]_vars,
                         NEW n \in Nodes, NEW s \in Nodes, NEW u \in Users
                  PROVE  view'[n][s][u] >= view[n][s][u]
        OBVIOUS
    <2>1. TypeOK' /\ TypeOK
        BY BroadcasterStepInv DEF BroadcasterInv
    <2>2. view'[n][s][u] \in Nat /\ view[n][s][u] \in Nat
        BY <2>1 DEF TypeOK
    <2>3. view[n][s][u] <= view'[n][s][u]
        BY ViewStep
    <2> QED BY <2>2, <2>3
<1> QED BY <1>1, BroadcasterInvariant, PTL DEF Spec, ViewNeverGoesBack

-----------------------------------------------------------------------------
\* A step of the broadcaster changes the number of at most one user on one node, by
\* one, and then shows nothing.
LEMMA SentStep ==
    ASSUME TypeOK, [Next]_vars
    PROVE  sent' = sent \/ \E s \in Nodes, u \in Users : Feed!Change(s, u)
<1>1. ASSUME NEW s \in Nodes, NEW u \in Users, broadcast(s, u) PROVE Feed!Change(s, u)
    BY <1>1 DEF broadcast, Feed!Change
<1>2. ASSUME \/ \E u \in Users : ExpireKey(u)
             \/ \E n \in Nodes : \/ Worker(n) \/ handle_cross_node_presence(n)
                                 \/ SubscriberEnds(n)
             \/ UNCHANGED vars
      PROVE  sent' = sent
    BY <1>2 DEF ExpireKey, Worker, Receive, Tick, DeliverLocal, LookupErr, StoreKey,
                publish_presence, FlushDone, handle_cross_node_presence,
                SubscriberEnds, vars
<1> QED BY <1>1, <1>2 DEF Next

\* A step of the broadcaster shows one change to the clients of one node.
LEMMA OneViewStep ==
    ASSUME TypeOK, [Next]_vars
    PROVE  \/ view' = view
           \/ \E n \in Nodes, s \in Nodes, u \in Users, x \in Nat :
                 view' = [view EXCEPT ![n][s][u] = x]
<1>1. ASSUME NEW n \in Nodes, NEW u \in Users, DeliverLocal(n, u)
      PROVE  view' = [view EXCEPT ![n][n][u] = updates[n][u]] /\ updates[n][u] \in Nat
    BY <1>1 DEF DeliverLocal, TypeOK
<1>2. ASSUME NEW n \in Nodes, handle_cross_node_presence(n)
      PROVE  \/ view' = view
             \/ \E s \in Nodes, u \in Users, x \in Nat : view' = [view EXCEPT ![n][s][u] = x]
    <2>1. inbox[n] \in Seq(Payload) /\ inbox[n] # <<>>
        BY <1>2 DEF handle_cross_node_presence, TypeOK
    <2>2. Head(inbox[n]) \in Payload
        BY <2>1, TailFacts
    <2>3. /\ Head(inbox[n]).source \in Nodes /\ Head(inbox[n]).user \in Users
          /\ Head(inbox[n]).status \in Nat
        BY <2>2 DEF Payload
    <2> QED BY <1>2, <2>3 DEF handle_cross_node_presence
<1>3. ASSUME \/ \E u \in Users : ExpireKey(u)
             \/ \E n \in Nodes : \/ Receive(n) \/ Tick(n) \/ StoreKey(n) \/ FlushDone(n)
                                \/ publish_presence(n) \/ SubscriberEnds(n)
                                \/ \E u \in Users : LookupErr(n, u) \/ broadcast(n, u)
             \/ UNCHANGED vars
      PROVE  view' = view
    BY <1>3 DEF broadcast, ExpireKey, Receive, Tick, StoreKey, FlushDone,
                publish_presence, SubscriberEnds, LookupErr, vars
<1> QED BY <1>1, <1>2, <1>3 DEF Next, Worker

\* Every step of the broadcaster is a step of StatusFeed, or none.
LEMMA FeedStep ==
    ASSUME BroadcasterInv, [Next]_vars
    PROVE  [Feed!FeedNext]_<<sent, view>>
<1>i. TypeOK /\ SourceIsAhead /\ ChangesAreSent
    BY DEF BroadcasterInv
<1>1. CASE \E s \in Nodes, u \in Users : Feed!Change(s, u)
    BY <1>1 DEF Feed!FeedNext
<1>2. CASE sent' = sent /\ view' = view
    BY <1>2
<1>3. ASSUME sent' = sent, NEW n \in Nodes, NEW s \in Nodes, NEW u \in Users, NEW x \in Nat,
             view' = [view EXCEPT ![n][s][u] = x], view' # view
      PROVE  Feed!Show(n, s, u)
    <2>1. view \in [Nodes -> [Nodes -> [Users -> Nat]]] /\ sent[s][u] \in Nat
        BY <1>i DEF TypeOK
    <2>t. view[n][s][u] \in Nat /\ view[s][s][u] \in Nat
        BY <2>1
    <2>2. view'[n][s][u] = x
        BY <1>3, <2>1, ViewFacts
    <2>3. x # view[n][s][u]
        <3>1. SUFFICES ASSUME x = view[n][s][u] PROVE view' = view
            BY <1>3
        <3> QED BY <1>3, <2>1, <3>1
    <2>4. view[n][s][u] < x
        BY <2>t, <2>2, <2>3, ViewStep
    <2>5. x <= Feed!Newest(n, s, u)
        <3>1. CASE n = s
            <4>1. updates[s][u] <= sent[s][u] /\ x = updates[s][u]
                BY <1>i, <2>2, <2>3, <3>1, ViewStep DEF ChangesAreSent
            <4> QED BY <3>1, <4>1 DEF Feed!Newest
        <3>2. CASE n # s
            BY <2>2, <2>3, <3>2, ViewStep DEF Feed!Newest
        <3> QED BY <3>1, <3>2
    <2>6. x \in view[n][s][u] + 1 .. Feed!Newest(n, s, u)
        <3>1. Feed!Newest(n, s, u) \in Nat
            BY <2>1, <2>t DEF Feed!Newest
        <3> QED BY <2>t, <2>4, <2>5, <3>1
    <2> QED BY <1>3, <2>6 DEF Feed!Show
<1>4. CASE sent' = sent /\ view' # view
    <2>1. PICK n \in Nodes, s \in Nodes, u \in Users, x \in Nat :
              view' = [view EXCEPT ![n][s][u] = x]
        BY <1>i, <1>4, OneViewStep
    <2>2. Feed!Show(n, s, u)
        BY <1>3, <1>4, <2>1
    <2> QED BY <2>2 DEF Feed!FeedNext
<1> QED BY <1>i, <1>1, <1>2, <1>4, SentStep

\* The broadcaster implements StatusFeed: whatever is batched, de-duplicated,
\* dropped or lost, and however many nodes a user is on, the clients are shown ever
\* later changes of each source, and those of another node only what the source has
\* shown its own.
THEOREM BroadcasterImplementsFeed == Spec => ImplementsFeed
<1>1. Init => Feed!FeedInit
    BY DEF Init, NoEntries, Feed!FeedInit
<1>2. BroadcasterInv /\ [Next]_vars => [Feed!FeedNext]_<<sent, view>>
    BY FeedStep
<1>3. BroadcasterInv /\ [Next]_vars => [Feed!FeedNext]_(Feed!feedVars)
    BY <1>2 DEF Feed!feedVars
<1> QED BY <1>1, <1>3, BroadcasterInvariant, PTL DEF Spec, ImplementsFeed, Feed!FeedSpec
=============================================================================
