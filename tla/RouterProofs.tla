---------------------------- MODULE RouterProofs ----------------------------
(***************************************************************************)
(* What reaches the sessions: each event once, in the order of its sender, *)
(* and to everybody it is for, for any nodes, sessions, messages and size  *)
(* of the subscribers' buffers.                                            *)
(***************************************************************************)
EXTENDS Router, TLAPS

Has(s, m) == m \in Range(got[s])
Buffered(n, m) == \E i \in DOMAIN inbox[n] : inbox[n][i].event = m

(* What a handler has behind it by where it stands.                        *)
TaskAgrees ==
    \A m \in Messages :
        /\ task[m] = "unsent" => rows[m] = 0
        /\ task[m] = "route" => rows[m] <= 1
        /\ task[m] # "unsent" => \A b \in Before[m] : Over(b)
        /\ Kind[m] = "heartbeat" => task[m] \in {"unsent", "done"}
        /\ Kind[m] = "typing" /\ task[m] = "fanout" => todo[m] = Members
        /\ Kind[m] \in {"send", "rest"} /\ task[m] = "done" => todo[m] = {}
        /\ Kind[m] \in {"typing", "heartbeat"} => remote[m] = {}
        /\ sending[m] # Nobody =>
              task[m] = "fanout" /\ Kind[m] # "typing" /\ sending[m] \notin todo[m]

Typed == TypeOK /\ TaskAgrees

(* A subscriber has what the handlers that are through have published, once *)
(* each.                                                                   *)
PayloadsAgree ==
    \A n \in Nodes : \A i \in DOMAIN inbox[n] :
        /\ inbox[n][i].source = Origin[inbox[n][i].event]
        /\ inbox[n][i].targets = remote[inbox[n][i].event]
        /\ Over(inbox[n][i].event)
        /\ \A j \in DOMAIN inbox[n] : inbox[n][i].event = inbox[n][j].event => i = j

(* No handler and no buffer has an event still to come for a session that  *)
(* has it.                                                                 *)
NothingTwice ==
    \A s \in Sessions, m \in Messages : Has(s, m) =>
        /\ NodeOf[s] = Origin[m] =>
              /\ task[m] \in {"fanout", "done", "failed"}
              /\ task[m] = "fanout" =>
                    /\ Kind[m] # "typing"
                    /\ UserOf[s] \notin todo[m]
                    /\ sending[m] # UserOf[s]
        /\ NodeOf[s] # Origin[m] => Over(m) /\ ~Buffered(NodeOf[s], m)

(* What a buffer has from one connection is in its order, and comes before *)
(* anything of that connection its sessions have not got yet.              *)
BuffersInOrder ==
    \A n \in Nodes, m \in Messages : \A i \in DOMAIN inbox[n] :
        inbox[n][i].event \in Before[m] =>
            /\ \A j \in DOMAIN inbox[n] : inbox[n][j].event = m => i < j
            /\ \A s \in Sessions : NodeOf[s] = n /\ Has(s, m) => n = Origin[m]

(* An event is on its way to a session of its audience. *)
Waits(m, s) == UserOf[s] \in todo[m] \/ UserOf[s] = sending[m]
Leaves(m, s) == UserOf[s] \in todo[m] \/ UserOf[s] \in remote[m]

Comes(m, s) ==
    /\ Kind[m] \in {"typing", "heartbeat"} /\ task[m] = "done" => Has(s, m)
    /\ Kind[m] \in {"send", "rest"} /\ NodeOf[s] = Origin[m]
         /\ task[m] \in {"fanout", "done"} => Waits(m, s) \/ Has(s, m)
    /\ Kind[m] \in {"send", "rest"} /\ NodeOf[s] # Origin[m] /\ ~Split(s, m) =>
          /\ task[m] \in {"fanout", "done"} => Leaves(m, s)
          /\ task[m] = "done" /\ NodeOf[s] \in listening =>
                Buffered(NodeOf[s], m) \/ Has(s, m)

OnItsWay == \A m \in Messages, s \in Sessions : s \in Audience(m) => Comes(m, s)

(* Sessions that were there when an event came in are not new. *)
PresentAreKnown ==
    \A m \in Messages : \A s \in present[m] : conn[s] # "new"

-----------------------------------------------------------------------------
\* Appending to a sequence adds one element at its end.
LEMMA AppendFacts ==
    ASSUME NEW S, NEW q \in Seq(S), NEW e \in S
    PROVE  /\ Append(q, e) \in Seq(S)
           /\ DOMAIN q = 1 .. Len(q) /\ Len(q) \in Nat
           /\ DOMAIN Append(q, e) = 1 .. Len(q) + 1
           /\ \A i \in DOMAIN q : Append(q, e)[i] = q[i]
           /\ Append(q, e)[Len(q) + 1] = e
           /\ Range(Append(q, e)) = Range(q) \cup {e}
<1>1. /\ Append(q, e) \in Seq(S) /\ Len(q) \in Nat
      /\ DOMAIN q = 1 .. Len(q)
      /\ DOMAIN Append(q, e) = 1 .. Len(q) + 1
      /\ \A i \in DOMAIN q : Append(q, e)[i] = q[i]
      /\ Append(q, e)[Len(q) + 1] = e
    OBVIOUS
<1>2. \A i \in DOMAIN Append(q, e) : i \in DOMAIN q \/ i = Len(q) + 1
    BY <1>1
<1>3. DOMAIN q \subseteq DOMAIN Append(q, e) /\ Len(q) + 1 \in DOMAIN Append(q, e)
    BY <1>1
<1>4. Range(Append(q, e)) = Range(q) \cup {e}
    <2>. DEFINE a == Append(q, e)
    <2>. HIDE DEF a
    <2>1. ASSUME NEW x \in Range(a) PROVE x \in Range(q) \cup {e}
        BY <1>1, <1>2 DEF Range, a
    <2>2. ASSUME NEW x \in Range(q) \cup {e} PROVE x \in Range(a)
        BY <1>1, <1>3 DEF Range, a
    <2> QED BY <2>1, <2>2 DEF a
<1> QED BY <1>1, <1>4

\* The tail of a sequence has its other elements, one place nearer.
LEMMA TailFacts ==
    ASSUME NEW S, NEW q \in Seq(S), q # <<>>
    PROVE  /\ Head(q) \in S /\ Tail(q) \in Seq(S)
           /\ 1 \in DOMAIN q /\ Head(q) = q[1]
           /\ Len(Tail(q)) = Len(q) - 1
           /\ \A i \in DOMAIN Tail(q) :
                  i \in Nat \ {0} /\ i + 1 \in DOMAIN q /\ Tail(q)[i] = q[i + 1]
           /\ \A i \in DOMAIN q : i # 1 =>
                  i - 1 \in DOMAIN Tail(q) /\ Tail(q)[i - 1] = q[i]
OBVIOUS

-----------------------------------------------------------------------------
(* Where an event is put. *)

Reached(n, us, s) == NodeOf[s] = n /\ UserOf[s] \in us /\ conn[s] = "open"

\* send_to_user puts the event at the end of the channels it reaches.
LEMMA SendFacts ==
    ASSUME got \in [Sessions -> Seq(Messages)], NEW n, NEW us, NEW m \in Messages,
           send_to_users(n, us, m)
    PROVE  /\ got' \in [Sessions -> Seq(Messages)]
           /\ \A s \in Sessions : got'[s] = IF Reached(n, us, s) THEN Append(got[s], m)
                                            ELSE got[s]
           /\ \A s \in Sessions, k \in Messages :
                  Has(s, k)' <=> Has(s, k) \/ (k = m /\ Reached(n, us, s))
<1>1. \A s \in Sessions : got'[s] = IF Reached(n, us, s) THEN Append(got[s], m) ELSE got[s]
    BY DEF send_to_users, OpenAt, Reached
<1>2. got' \in [Sessions -> Seq(Messages)]
    <2>1. \A s \in Sessions : Append(got[s], m) \in Seq(Messages)
        BY AppendFacts
    <2> QED BY <2>1 DEF send_to_users
<1>3. ASSUME NEW s \in Sessions, NEW k \in Messages
      PROVE  Has(s, k)' <=> Has(s, k) \/ (k = m /\ Reached(n, us, s))
    <2>1. Range(Append(got[s], m)) = Range(got[s]) \cup {m}
        BY AppendFacts
    <2> QED BY <1>1, <2>1 DEF Has
<1> QED BY <1>1, <1>2, <1>3

\* Publishing puts the payload at the end of the buffers that have room for it,
\* and ends the other subscribers.
LEMMA PublishFacts ==
    ASSUME Typed, NEW m \in Messages, published(m)
    PROVE  /\ inbox' \in [Nodes -> Seq(Payload)]
           /\ listening' \in SUBSET listening
           /\ \A n \in Nodes :
                  \/ /\ n \in listening' /\ Len(inbox[n]) < RxCapacity
                     /\ inbox'[n] = Append(inbox[n], [source |-> Origin[m],
                                                      targets |-> remote[m], event |-> m])
                  \/ n \notin listening' /\ inbox'[n] = <<>>
<1>. DEFINE payload == [source |-> Origin[m], targets |-> remote[m], event |-> m]
<1>1. payload \in Payload
    BY MessagesAssumption DEF Payload, Typed, TypeOK
<1>2. \A n \in Nodes : inbox[n] \in Seq(Payload) /\ Len(inbox[n]) <= RxCapacity
    BY DEF Typed, TypeOK
<1>3. /\ inbox' = [n \in Nodes |-> IF n \in listening \ Overrun
                                    THEN Append(inbox[n], payload) ELSE <<>>]
      /\ listening' = listening \ Overrun
    BY DEF published
<1>4. <<>> \in Seq(Payload)
    OBVIOUS
<1>. HIDE DEF payload
<1>5. \A n \in Nodes : Append(inbox[n], payload) \in Seq(Payload)
    BY <1>1, <1>2, AppendFacts
<1>6. inbox' \in [Nodes -> Seq(Payload)]
    BY <1>3, <1>4, <1>5
<1>7. \A n \in Nodes : n \notin Overrun => Len(inbox[n]) < RxCapacity
    BY <1>2, RxCapacityAssumption DEF Overrun
<1>8. listening' \in SUBSET listening
    BY <1>3
<1> QED BY <1>3, <1>6, <1>7, <1>8 DEF payload

-----------------------------------------------------------------------------
\* Handling does not begin again once it is over.
LEMMA OverStable ==
    ASSUME Typed, [Next]_vars, NEW m \in Messages, Over(m)
    PROVE  Over(m)' /\ task'[m] = task[m] /\ todo'[m] = todo[m] /\ remote'[m] = remote[m]
<1>. DEFINE Same == Over(m)' /\ task'[m] = task[m] /\ todo'[m] = todo[m]
                    /\ remote'[m] = remote[m]
<1>. USE DEF Over, Goto
<1>t. TypeOK /\ (sending[m] # Nobody => task[m] = "fanout")
    BY DEF Typed, TaskAgrees
<1>1. ASSUME NEW k \in Messages, Handle(k) PROVE Same
    BY <1>1, <1>t DEF Handle, Submit, RouteRest, StoreErr, Lookup, LookupErr, CheckMember,
       SendLocal, Publish, FannedOut, PublishErr, Heartbeat, StartTyping, SendTyping, Turn,
       TypeOK
<1>2. ASSUME \/ \E s \in Sessions : Connect(s) \/ Disconnect(s)
             \/ \E n \in Nodes : handle_cross_node_event(n) \/ SubscriberEnds(n)
             \/ UNCHANGED vars
      PROVE  Same
    BY <1>2 DEF Connect, Disconnect, handle_cross_node_event, SubscriberEnds, vars
<1> QED BY <1>1, <1>2 DEF Next

\* Every step keeps the types.
LEMMA RouterTypeStep == ASSUME Typed, [Next]_vars PROVE TypeOK'
<1>t. TypeOK
    BY DEF Typed
<1>. USE DEF Goto
<1>1. ASSUME NEW s \in Sessions, Connect(s) \/ Disconnect(s) PROVE TypeOK'
    BY <1>1, <1>t DEF TypeOK, Connect, Disconnect
<1>2. ASSUME NEW m \in Messages, Arrive(m) PROVE present' \in [Messages -> SUBSET Sessions]
    BY <1>2, <1>t DEF TypeOK, Arrive
<1>3. ASSUME NEW m \in Messages, task[m] \in {"unsent", "route"},
             rows' = [rows EXCEPT ![m] = @ + 1]
      PROVE  rows' \in [Messages -> 0 .. 2]
    <2>1. rows[m] \in 0 .. 1
        BY <1>3, <1>t DEF Typed, TaskAgrees, TypeOK
    <2> QED BY <1>3, <1>t, <2>1 DEF TypeOK
<1>4. ASSUME NEW m \in Messages, Submit(m) PROVE TypeOK'
    BY <1>2, <1>3, <1>4, <1>t DEF TypeOK, Submit, Turn
<1>5. ASSUME NEW m \in Messages, RouteRest(m) \/ StoreErr(m) PROVE TypeOK'
    BY <1>3, <1>5, <1>t DEF TypeOK, RouteRest, StoreErr, Turn
<1>6. ASSUME NEW m \in Messages, Lookup(m) \/ LookupErr(m) PROVE TypeOK'
    <2>1. UNCHANGED <<conn, rows, sending, remote, inbox, listening, got, present>>
        BY <1>6 DEF Lookup, LookupErr
    <2>2. todo' \in [Messages -> SUBSET Members]
        BY <1>6, <1>t DEF TypeOK, Lookup, LookupErr
    <2>3. task' \in [Messages -> {"unsent", "route", "lookup", "fanout", "done", "failed"}]
        BY <1>6, <1>t DEF TypeOK, Lookup, LookupErr
    <2> QED BY <1>t, <2>1, <2>2, <2>3 DEF TypeOK
<1>7. ASSUME NEW m \in Messages, NEW u \in Members, CheckMember(m, u) PROVE TypeOK'
    <2>1. UNCHANGED <<conn, rows, task, inbox, listening, got, present>>
        BY <1>7 DEF CheckMember
    <2>2. todo' \in [Messages -> SUBSET Members]
        BY <1>7, <1>t DEF TypeOK, CheckMember
    <2>3. sending' \in [Messages -> Members \cup {Nobody}]
        BY <1>7, <1>t DEF TypeOK, CheckMember
    <2>4. remote' \in [Messages -> SUBSET Members]
        BY <1>7, <1>t DEF TypeOK, CheckMember
    <2> QED BY <1>t, <2>1, <2>2, <2>3, <2>4 DEF TypeOK
<1>8. ASSUME NEW m \in Messages, SendLocal(m) PROVE TypeOK'
    BY <1>8, <1>t, SendFacts DEF TypeOK, SendLocal
<1>9. ASSUME NEW m \in Messages, published(m)
      PROVE  /\ inbox' \in [Nodes -> Seq(Payload)] /\ listening' \in SUBSET Nodes
             /\ \A n \in Nodes : Len(inbox'[n]) <= RxCapacity
    <2>1. ASSUME NEW n \in Nodes PROVE Len(inbox'[n]) <= RxCapacity
        <3>1. inbox[n] \in Seq(Payload)
            BY <1>t DEF TypeOK
        <3>2. CASE inbox'[n] = <<>>
            BY <3>2, RxCapacityAssumption
        <3>3. ASSUME NEW e, inbox'[n] = Append(inbox[n], e), Len(inbox[n]) < RxCapacity
              PROVE  Len(inbox'[n]) <= RxCapacity
            BY <3>1, <3>3, RxCapacityAssumption
        <3> QED BY <1>9, <3>2, <3>3, PublishFacts
    <2> QED BY <1>9, <1>t, <2>1, PublishFacts DEF TypeOK
<1>10. ASSUME NEW m \in Messages, Publish(m) \/ PublishErr(m) PROVE TypeOK'
    BY <1>9, <1>10, <1>t DEF TypeOK, Publish, PublishErr
<1>11. ASSUME NEW m \in Messages, Heartbeat(m) \/ StartTyping(m) \/ SendTyping(m)
       PROVE  TypeOK'
    <2>1. CASE Heartbeat(m)
        BY <1>2, <1>t, <2>1, SendFacts DEF TypeOK, Heartbeat
    <2>2. CASE StartTyping(m)
        BY <1>2, <1>t, <2>2 DEF TypeOK, StartTyping
    <2>3. CASE SendTyping(m)
        BY <1>t, <2>3, SendFacts DEF TypeOK, SendTyping
    <2> QED BY <1>11, <2>1, <2>2, <2>3
<1>12. ASSUME NEW n \in Nodes, handle_cross_node_event(n) PROVE TypeOK'
    <2>1. /\ inbox[n] \in Seq(Payload) /\ inbox[n] # <<>>
          /\ Len(inbox[n]) <= RxCapacity
        BY <1>12, <1>t DEF handle_cross_node_event, TypeOK
    <2>2. /\ Tail(inbox[n]) \in Seq(Payload) /\ Head(inbox[n]).event \in Messages
          /\ Len(Tail(inbox[n])) <= RxCapacity
        <3>1. /\ Head(inbox[n]) \in Payload /\ Tail(inbox[n]) \in Seq(Payload)
              /\ Len(Tail(inbox[n])) = Len(inbox[n]) - 1 /\ Len(inbox[n]) \in Nat
            BY <2>1, TailFacts
        <3>2. Head(inbox[n]).event \in Messages
            BY <3>1 DEF Payload
        <3> QED BY <2>1, <3>1, <3>2, RxCapacityAssumption
    <2>3. got' \in [Sessions -> Seq(Messages)]
        BY <1>12, <1>t, <2>2, SendFacts DEF handle_cross_node_event, TypeOK
    <2> QED BY <1>12, <1>t, <2>2, <2>3 DEF TypeOK, handle_cross_node_event
<1>13. ASSUME NEW n \in Nodes, SubscriberEnds(n) PROVE TypeOK'
    <2>1. <<>> \in Seq(Payload) /\ Len(<<>>) <= RxCapacity
        BY RxCapacityAssumption
    <2> QED BY <1>13, <1>t, <2>1 DEF TypeOK, SubscriberEnds
<1>14. ASSUME UNCHANGED vars PROVE TypeOK'
    BY <1>14, <1>t DEF TypeOK, vars
<1> QED BY <1>1, <1>4, <1>5, <1>6, <1>7, <1>8, <1>10, <1>11, <1>12, <1>13, <1>14
        DEF Next, Handle

\* What a handler has behind it agrees with where it stands after every step.
LEMMA TaskAgreesStep == ASSUME Typed, [Next]_vars PROVE TaskAgrees'
<1>. DEFINE Agrees(m) ==
        /\ task[m] = "unsent" => rows[m] = 0
        /\ task[m] = "route" => rows[m] <= 1
        /\ Kind[m] = "heartbeat" => task[m] \in {"unsent", "done"}
        /\ Kind[m] = "typing" /\ task[m] = "fanout" => todo[m] = Members
        /\ Kind[m] \in {"send", "rest"} /\ task[m] = "done" => todo[m] = {}
        /\ Kind[m] \in {"typing", "heartbeat"} => remote[m] = {}
        /\ sending[m] # Nobody =>
              task[m] = "fanout" /\ Kind[m] # "typing" /\ sending[m] \notin todo[m]
<1>t. TypeOK /\ (\A m \in Messages : Agrees(m))
    BY DEF Typed, TaskAgrees
<1>a. ASSUME NEW m \in Messages, NEW b \in Before[m], task[m] # "unsent" PROVE Over(b)
    BY <1>a DEF Typed, TaskAgrees
<1>b. \A m \in Messages : task'[m] # "unsent" => \A b \in Before[m] : Over(b)'
    <2>. SUFFICES ASSUME NEW m \in Messages, task'[m] # "unsent", NEW b \in Before[m]
                  PROVE  Over(b)'
        OBVIOUS
    <2>1. b \in Messages
        BY MessagesAssumption
    <2>2. CASE task[m] # "unsent"
        BY <1>a, <2>1, <2>2, OverStable
    <2>3. CASE task[m] = "unsent"
        <3>1. Turn(m)
            <4>. USE DEF Goto
            <4>1. ASSUME NEW k \in Messages, Handle(k) PROVE Turn(m)
                BY <2>3, <4>1, <1>t DEF Handle, Submit, RouteRest, StoreErr, Lookup,
                   LookupErr, CheckMember, SendLocal, Publish, FannedOut, PublishErr,
                   Heartbeat, StartTyping, SendTyping, TypeOK
            <4>2. ASSUME \/ \E s \in Sessions : Connect(s) \/ Disconnect(s)
                         \/ \E n \in Nodes : handle_cross_node_event(n) \/ SubscriberEnds(n)
                         \/ UNCHANGED vars
                  PROVE  Turn(m)
                BY <2>3, <4>2 DEF Connect, Disconnect, handle_cross_node_event,
                                  SubscriberEnds, vars
            <4> QED BY <4>1, <4>2 DEF Next
        <3> QED BY <2>1, <3>1, OverStable DEF Turn
    <2> QED BY <2>2, <2>3
<1>c. \A m \in Messages : Agrees(m)'
    <2>. SUFFICES ASSUME NEW m \in Messages PROVE Agrees(m)'
        OBVIOUS
    <2>. USE <1>t DEF Goto, TypeOK
    <2>1. ASSUME NEW k \in Messages, Submit(k) \/ RouteRest(k) \/ StoreErr(k)
          PROVE  Agrees(m)'
        BY <2>1, NobodyAssumption DEF Submit, RouteRest, StoreErr, Turn
    <2>2. ASSUME NEW k \in Messages, Lookup(k) \/ LookupErr(k) PROVE Agrees(m)'
        BY <2>2 DEF Lookup, LookupErr
    <2>3. ASSUME NEW k \in Messages, NEW u \in Members, CheckMember(k, u)
          PROVE  Agrees(m)'
        BY <2>3 DEF CheckMember
    <2>4. ASSUME NEW k \in Messages, SendLocal(k) \/ Publish(k) \/ PublishErr(k)
          PROVE  Agrees(m)'
        <3>1. CASE SendLocal(k)
            BY <3>1 DEF SendLocal
        <3>2. CASE Publish(k) \/ PublishErr(k)
            BY <3>2 DEF Publish, PublishErr, FannedOut
        <3> QED BY <2>4, <3>1, <3>2
    <2>5. ASSUME NEW k \in Messages, Heartbeat(k) \/ StartTyping(k) \/ SendTyping(k)
          PROVE  Agrees(m)'
        BY <2>5 DEF Heartbeat, StartTyping, SendTyping, Turn
    <2>6. ASSUME \/ \E s \in Sessions : Connect(s) \/ Disconnect(s)
                 \/ \E n \in Nodes : handle_cross_node_event(n) \/ SubscriberEnds(n)
                 \/ UNCHANGED vars
          PROVE  Agrees(m)'
        BY <2>6 DEF Connect, Disconnect, handle_cross_node_event, SubscriberEnds, vars
    <2> QED BY <2>1, <2>2, <2>3, <2>4, <2>5, <2>6 DEF Next, Handle
<1> QED BY <1>b, <1>c DEF TaskAgrees

-----------------------------------------------------------------------------
(* What a step does to a buffer. *)

payload(m) == [source |-> Origin[m], targets |-> remote[m], event |-> m]

Joins(n, m) ==
    /\ Publish(m) \/ PublishErr(m)
    /\ remote[m] # {}
    /\ inbox'[n] = Append(inbox[n], payload(m))

Shifts(n, d) ==
    \A i \in DOMAIN inbox'[n] : i + d \in DOMAIN inbox[n] /\ inbox'[n][i] = inbox[n][i + d]

\* What the type invariant says of one payload in a buffer.
LEMMA InboxTypes ==
    ASSUME Typed, NEW n \in Nodes
    PROVE  /\ DOMAIN inbox[n] \subseteq Nat
           /\ \A i \in DOMAIN inbox[n] :
                  /\ inbox[n][i].event \in Messages /\ inbox[n][i].source \in Nodes
                  /\ inbox[n][i].targets \subseteq Members
<1>1. inbox[n] \in Seq(Payload)
    BY DEF Typed, TypeOK
<1>2. DOMAIN inbox[n] \subseteq Nat /\ \A i \in DOMAIN inbox[n] : inbox[n][i] \in Payload
    BY <1>1
<1> QED BY <1>2 DEF Payload

\* A step puts one payload at the end of a node's buffer, takes its first one,
\* empties the buffer, or leaves it alone.
LEMMA InboxStep ==
    ASSUME Typed, [Next]_vars, NEW n \in Nodes
    PROVE  (\E m \in Messages : Joins(n, m)) \/ Shifts(n, 0) \/ Shifts(n, 1)
<1>t. inbox \in [Nodes -> Seq(Payload)]
    BY DEF Typed, TypeOK
<1>n. \A i \in DOMAIN inbox[n] : i \in Nat /\ i + 0 = i
    BY <1>t
<1>1. ASSUME inbox'[n] = inbox[n] PROVE Shifts(n, 0)
    BY <1>1, <1>n DEF Shifts
<1>2. ASSUME inbox'[n] = <<>> PROVE Shifts(n, 0)
    BY <1>2 DEF Shifts
<1>3. ASSUME inbox[n] # <<>>, inbox'[n] = Tail(inbox[n]) PROVE Shifts(n, 1)
    BY <1>3, <1>t, TailFacts DEF Shifts
<1>4. ASSUME NEW m \in Messages, Publish(m) \/ PublishErr(m)
      PROVE  Joins(n, m) \/ Shifts(n, 0)
    <2>1. CASE UNCHANGED <<inbox, listening>>
        BY <1>1, <2>1
    <2>2. CASE remote[m] # {} /\ published(m)
        BY <1>2, <1>4, <2>2, PublishFacts DEF Joins, payload
    <2> QED BY <1>4, <2>1, <2>2 DEF Publish, PublishErr
<1>5. ASSUME NEW k \in Nodes, handle_cross_node_event(k) \/ SubscriberEnds(k)
      PROVE  Shifts(n, 0) \/ Shifts(n, 1)
    BY <1>1, <1>2, <1>3, <1>5, <1>t DEF handle_cross_node_event, SubscriberEnds
<1>6. ASSUME inbox' = inbox PROVE Shifts(n, 0)
    BY <1>1, <1>6
<1>7. ASSUME NEW m \in Messages, Handle(m), ~(Publish(m) \/ PublishErr(m))
      PROVE  inbox' = inbox
    BY <1>7 DEF Handle, Submit, RouteRest, StoreErr, Lookup, LookupErr, CheckMember,
       SendLocal, Heartbeat, StartTyping, SendTyping
<1>8. ASSUME (\E s \in Sessions : Connect(s) \/ Disconnect(s)) \/ UNCHANGED vars
      PROVE  inbox' = inbox
    BY <1>8 DEF Connect, Disconnect, vars
<1> QED BY <1>4, <1>5, <1>6, <1>7, <1>8 DEF Next

\* What a handler's publish finds and leaves.
LEMMA JoinsFacts ==
    ASSUME Typed, NEW n \in Nodes, NEW m \in Messages, Joins(n, m)
    PROVE  /\ ~Over(m) /\ Over(m)' /\ UNCHANGED <<conn, todo, sending, remote, got>>
           /\ task[m] # "unsent" /\ Kind[m] \in {"send", "rest"}
           /\ DOMAIN inbox[n] = 1 .. Len(inbox[n]) /\ Len(inbox[n]) \in Nat
           /\ DOMAIN inbox'[n] = 1 .. Len(inbox[n]) + 1
           /\ \A i \in DOMAIN inbox[n] : inbox'[n][i] = inbox[n][i]
           /\ inbox'[n][Len(inbox[n]) + 1] = payload(m)
<1>1. payload(m) \in Payload /\ inbox[n] \in Seq(Payload)
    BY MessagesAssumption DEF Payload, Typed, TypeOK, payload
<1>2. /\ ~Over(m) /\ Over(m)' /\ UNCHANGED <<conn, todo, sending, remote, got>>
      /\ task[m] # "unsent" /\ Kind[m] # "typing" /\ task[m] = "fanout"
    BY DEF Joins, Publish, PublishErr, FannedOut, Over, Goto, Typed, TypeOK
<1>3. Kind[m] \in {"send", "rest"}
    BY <1>2, MessagesAssumption DEF Typed, TaskAgrees
<1> QED BY <1>1, <1>2, <1>3, AppendFacts DEF Joins

\* Buffers hold what finished handlers have published, once each, after every
\* step.
LEMMA PayloadsAgreeStep ==
    ASSUME Typed, PayloadsAgree, [Next]_vars
    PROVE  PayloadsAgree'
<1>. DEFINE Agrees(n, i) ==
        /\ inbox[n][i].source = Origin[inbox[n][i].event]
        /\ inbox[n][i].targets = remote[inbox[n][i].event]
        /\ Over(inbox[n][i].event)
<1>. SUFFICES ASSUME NEW n \in Nodes
              PROVE  \A i \in DOMAIN inbox'[n] :
                        /\ Agrees(n, i)'
                        /\ \A j \in DOMAIN inbox'[n] :
                              inbox'[n][i].event = inbox'[n][j].event => i = j
    BY DEF PayloadsAgree
<1>t. \A i \in DOMAIN inbox[n] : inbox[n][i].event \in Messages
    BY InboxTypes
<1>1. ASSUME NEW i \in DOMAIN inbox'[n], NEW j \in DOMAIN inbox[n], inbox'[n][i] = inbox[n][j]
      PROVE  Agrees(n, i)'
    BY <1>1, <1>t, OverStable DEF PayloadsAgree
<1>2. ASSUME NEW d \in {0, 1}, Shifts(n, d), NEW i \in DOMAIN inbox'[n]
      PROVE  /\ Agrees(n, i)'
             /\ \A j \in DOMAIN inbox'[n] : inbox'[n][i].event = inbox'[n][j].event => i = j
    <2>1. Agrees(n, i)'
        BY <1>1, <1>2 DEF Shifts
    <2>2. ASSUME NEW j \in DOMAIN inbox'[n], inbox'[n][i].event = inbox'[n][j].event
          PROVE  i = j
        <3>1. i + d = j + d
            BY <1>2, <2>2 DEF Shifts, PayloadsAgree
        <3>2. i \in Nat /\ j \in Nat
            BY RouterTypeStep DEF TypeOK
        <3> QED BY <3>1, <3>2
    <2> QED BY <2>1, <2>2
<1>3. ASSUME NEW m \in Messages, Joins(n, m), NEW i \in DOMAIN inbox'[n]
      PROVE  /\ Agrees(n, i)'
             /\ \A j \in DOMAIN inbox'[n] : inbox'[n][i].event = inbox'[n][j].event => i = j
    <2>. DEFINE k == Len(inbox[n]) + 1
    <2>1. \A j \in DOMAIN inbox'[n] : j \in DOMAIN inbox[n] \/ j = k
        BY <1>3, JoinsFacts
    <2>2. \A j \in DOMAIN inbox[n] : inbox'[n][j] = inbox[n][j] /\ inbox[n][j].event # m
        BY <1>3, JoinsFacts DEF PayloadsAgree
    <2>3. inbox'[n][k] = payload(m) /\ payload(m).event = m
        BY <1>3, JoinsFacts DEF payload
    <2>4. i = k => Agrees(n, i)'
        BY <1>3, <2>3, JoinsFacts DEF payload
    <2>5. i # k => Agrees(n, i)'
        BY <1>1, <2>1, <2>2
    <2>6. ASSUME NEW j \in DOMAIN inbox'[n], inbox'[n][i].event = inbox'[n][j].event
          PROVE  i = j
        BY <2>1, <2>2, <2>3, <2>6 DEF PayloadsAgree
    <2> QED BY <2>4, <2>5, <2>6
<1> QED BY <1>2, <1>3, InboxStep

-----------------------------------------------------------------------------
(* What a step does to the channel of a session. *)

\* The handler of m puts it in the channel of a session of its node.
PutHere(s, m) ==
    /\ NodeOf[s] = Origin[m]
    /\ \/ SendLocal(m) /\ sending[m] = UserOf[s]
       \/ Heartbeat(m) /\ UserOf[s] = Author[m]
       \/ SendTyping(m) /\ UserOf[s] \in todo[m] \ {Author[m]}

\* The subscriber of another node does.
PutThere(s, m) ==
    LET n == NodeOf[s]
    IN  /\ n # Origin[m]
        /\ handle_cross_node_event(n)
        /\ inbox[n] # <<>>
        /\ Head(inbox[n]).event = m
        /\ UserOf[s] \in Head(inbox[n]).targets

\* What a channel gets in a step: nothing, or one event from a handler of its
\* node or from its node's subscriber.
LEMMA GotStep ==
    ASSUME Typed, PayloadsAgree, [Next]_vars, NEW s \in Sessions
    PROVE  \/ got'[s] = got[s]
           \/ \E m \in Messages : /\ got'[s] = Append(got[s], m)
                                  /\ conn[s] = "open" /\ (PutHere(s, m) \/ PutThere(s, m))
<1>. DEFINE Goal == \/ got'[s] = got[s]
                    \/ \E m \in Messages :
                          /\ got'[s] = Append(got[s], m)
                          /\ conn[s] = "open" /\ (PutHere(s, m) \/ PutThere(s, m))
<1>t. got \in [Sessions -> Seq(Messages)]
    BY DEF Typed, TypeOK
<1>0. ASSUME NEW n, NEW us, NEW m \in Messages, send_to_users(n, us, m)
      PROVE  got'[s] = IF Reached(n, us, s) THEN Append(got[s], m) ELSE got[s]
    BY <1>0, <1>t, SendFacts
<1>1. ASSUME NEW m \in Messages, NEW us, send_to_users(Origin[m], us, m),
             NodeOf[s] = Origin[m] /\ UserOf[s] \in us => PutHere(s, m)
      PROVE  Goal
    <2>1. CASE ~Reached(Origin[m], us, s)
        BY <1>0, <1>1, <2>1
    <2>2. CASE Reached(Origin[m], us, s)
        <3>1. got'[s] = Append(got[s], m)
            BY <1>0, <1>1, <2>2
        <3> QED BY <1>1, <2>2, <3>1 DEF Reached
    <2> QED BY <2>1, <2>2
<1>2. ASSUME NEW m \in Messages, SendLocal(m) PROVE Goal
    BY <1>1, <1>2 DEF SendLocal, PutHere
<1>3. ASSUME NEW m \in Messages, Heartbeat(m) PROVE Goal
    BY <1>1, <1>3 DEF Heartbeat, PutHere
<1>4. ASSUME NEW m \in Messages, SendTyping(m) PROVE Goal
    BY <1>1, <1>4 DEF SendTyping, PutHere
<1>5. ASSUME NEW n \in Nodes, handle_cross_node_event(n) PROVE Goal
    <2>. DEFINE p == Head(inbox[n])
    <2>1. /\ inbox[n] # <<>> /\ p \in Payload
          /\ p.event \in Messages /\ p.source = Origin[p.event]
        <3>1. inbox[n] # <<>> /\ inbox[n] \in Seq(Payload)
            BY <1>5 DEF handle_cross_node_event, Typed, TypeOK
        <3>2. p \in Payload /\ 1 \in DOMAIN inbox[n] /\ p = inbox[n][1]
            BY <3>1, TailFacts
        <3>3. p.source = Origin[p.event]
            BY <3>2 DEF PayloadsAgree
        <3> QED BY <3>1, <3>2, <3>3 DEF Payload
    <2>2. CASE p.source = n
        BY <1>5, <2>2 DEF handle_cross_node_event
    <2>3. CASE p.source # n
        <3>1. send_to_users(n, p.targets, p.event)
            BY <1>5, <2>3 DEF handle_cross_node_event
        <3>. HIDE DEF p
        <3>2. CASE ~Reached(n, p.targets, s)
            BY <1>0, <2>1, <3>1, <3>2
        <3>3. CASE Reached(n, p.targets, s)
            <4>1. got'[s] = Append(got[s], p.event) /\ conn[s] = "open"
                BY <1>0, <2>1, <3>1, <3>3 DEF Reached
            <4>2. PutThere(s, p.event)
                BY <1>5, <2>1, <2>3, <3>3 DEF Reached, PutThere, p
            <4> QED BY <2>1, <4>1, <4>2
        <3> QED BY <3>2, <3>3
    <2> QED BY <2>2, <2>3
<1>6. ASSUME NEW m \in Messages, Handle(m), ~SendLocal(m), ~Heartbeat(m), ~SendTyping(m)
      PROVE  got' = got
    BY <1>6 DEF Handle, Submit, RouteRest, StoreErr, Lookup, LookupErr, CheckMember,
       Publish, PublishErr, StartTyping
<1>7. ASSUME \/ \E t \in Sessions : Connect(t) \/ Disconnect(t)
             \/ \E n \in Nodes : SubscriberEnds(n)
             \/ UNCHANGED vars
      PROVE  got' = got
    BY <1>7 DEF Connect, Disconnect, SubscriberEnds, vars
<1> QED BY <1>2, <1>3, <1>4, <1>5, <1>6, <1>7 DEF Next

\* A session has what it had and what the step puts there.
LEMMA HasStep ==
    ASSUME Typed, PayloadsAgree, [Next]_vars, NEW s \in Sessions, NEW m \in Messages
    PROVE  /\ Has(s, m) => Has(s, m)'
           /\ Has(s, m)' /\ ~Has(s, m) =>
                 conn[s] = "open" /\ (PutHere(s, m) \/ PutThere(s, m))
<1>1. got[s] \in Seq(Messages)
    BY DEF Typed, TypeOK
<1>2. CASE got'[s] = got[s]
    BY <1>2 DEF Has
<1>3. ASSUME NEW k \in Messages, got'[s] = Append(got[s], k),
             conn[s] = "open", PutHere(s, k) \/ PutThere(s, k)
      PROVE  /\ Has(s, m) => Has(s, m)'
             /\ Has(s, m)' /\ ~Has(s, m) =>
                   conn[s] = "open" /\ (PutHere(s, m) \/ PutThere(s, m))
    <2>1. Has(s, m)' <=> Has(s, m) \/ m = k
        BY <1>1, <1>3, AppendFacts DEF Has
    <2> QED BY <1>3, <2>1
<1> QED BY <1>2, <1>3, GotStep

\* An event a subscriber puts in a channel is the first of its buffer, its
\* handling is over, and after the step the buffer does not have it.
LEMMA PutThereFacts ==
    ASSUME Typed, PayloadsAgree, NEW s \in Sessions, NEW m \in Messages, PutThere(s, m)
    PROVE  /\ 1 \in DOMAIN inbox[NodeOf[s]] /\ inbox[NodeOf[s]][1].event = m
           /\ inbox[NodeOf[s]][1].targets = remote[m]
           /\ Over(m) /\ Shifts(NodeOf[s], 1) /\ ~Buffered(NodeOf[s], m)'
           /\ UNCHANGED <<conn, rows, task, todo, sending, remote, listening, present>>
<1>. DEFINE n == NodeOf[s]
<1>1. n \in Nodes
    BY SessionsAssumption
<1>2. /\ inbox[n] \in Seq(Payload) /\ inbox[n] # <<>> /\ Head(inbox[n]).event = m
      /\ inbox'[n] = Tail(inbox[n])
      /\ UNCHANGED <<conn, rows, task, todo, sending, remote, listening, present>>
    BY <1>1 DEF PutThere, handle_cross_node_event, Typed, TypeOK
<1>3. /\ 1 \in DOMAIN inbox[n] /\ inbox[n][1].event = m /\ Shifts(n, 1)
      /\ DOMAIN inbox'[n] \subseteq Nat \ {0}
    BY <1>2, TailFacts DEF Shifts
<1>4. Over(m) /\ inbox[n][1].targets = remote[m]
    BY <1>1, <1>3 DEF PayloadsAgree
<1>5. ASSUME NEW i \in DOMAIN inbox'[n], inbox'[n][i].event = m PROVE FALSE
    <2>1. i + 1 \in DOMAIN inbox[n] /\ inbox[n][i + 1].event = inbox[n][1].event
        BY <1>3, <1>5 DEF Shifts
    <2>2. i + 1 = 1
        BY <1>1, <1>3, <2>1 DEF PayloadsAgree
    <2> QED BY <1>3, <2>2
<1> QED BY <1>2, <1>3, <1>4, <1>5 DEF Buffered

-----------------------------------------------------------------------------
(* Each event once. *)

\* What NothingTwice says of one session and one event it has.
Finished(s, m) ==
    /\ NodeOf[s] = Origin[m] =>
          /\ task[m] \in {"fanout", "done", "failed"}
          /\ task[m] = "fanout" =>
                /\ Kind[m] # "typing"
                /\ UserOf[s] \notin todo[m]
                /\ sending[m] # UserOf[s]
    /\ NodeOf[s] # Origin[m] => Over(m) /\ ~Buffered(NodeOf[s], m)

\* What is put in a channel was not there.
LEMMA PutIsNew ==
    ASSUME Typed, PayloadsAgree, NothingTwice, NEW s \in Sessions, NEW m \in Messages,
           PutHere(s, m) \/ PutThere(s, m)
    PROVE  ~Has(s, m)
<1>1. ASSUME PutHere(s, m) PROVE ~Finished(s, m)
    <2>1. CASE SendLocal(m) /\ sending[m] = UserOf[s]
        BY <1>1, <2>1 DEF PutHere, SendLocal, Typed, TaskAgrees, Finished
    <2>2. CASE Heartbeat(m)
        BY <1>1, <2>2 DEF PutHere, Heartbeat, Turn, Finished
    <2>3. CASE SendTyping(m)
        BY <1>1, <2>3 DEF PutHere, SendTyping, Finished
    <2> QED BY <1>1, <2>1, <2>2, <2>3 DEF PutHere
<1>2. ASSUME PutThere(s, m) PROVE ~Finished(s, m)
    BY <1>2, PutThereFacts DEF PutThere, Finished, Buffered
<1> QED BY <1>1, <1>2 DEF NothingTwice, Finished

\* A session that has an event is passed over by its handler, and by its
\* subscriber, as long as the server runs.
LEMMA FinishedStable ==
    ASSUME Typed, PayloadsAgree, [Next]_vars, NEW s \in Sessions, NEW m \in Messages,
           Finished(s, m)
    PROVE  Finished(s, m)'
<1>t. TypeOK /\ NodeOf[s] \in Nodes /\ UserOf[s] \in Users /\ UserOf[s] # Nobody
    BY SessionsAssumption, NobodyAssumption DEF Typed
<1>1. CASE NodeOf[s] # Origin[m]
    <2>. DEFINE n == NodeOf[s]
    <2>1. Over(m) /\ Over(m)' /\ ~Buffered(n, m)
        BY <1>1, OverStable DEF Finished
    <2>2. ASSUME NEW d \in {0, 1}, Shifts(n, d) PROVE ~Buffered(n, m)'
        BY <2>1, <2>2 DEF Shifts, Buffered
    <2>3. ASSUME NEW k \in Messages, Joins(n, k) PROVE ~Buffered(n, m)'
        <3>1. k # m
            BY <1>t, <2>1, <2>3, JoinsFacts
        <3>2. ASSUME NEW i \in DOMAIN inbox'[n] PROVE inbox'[n][i].event # m
            <4>1. CASE i \in DOMAIN inbox[n]
                BY <1>t, <2>1, <2>3, <4>1, JoinsFacts DEF Buffered
            <4>2. CASE i \notin DOMAIN inbox[n]
                <5>1. i = Len(inbox[n]) + 1
                    BY <1>t, <2>3, <4>2, JoinsFacts
                <5>2. inbox'[n][i] = payload(k)
                    BY <1>t, <2>3, <5>1, JoinsFacts
                <5> QED BY <3>1, <5>2 DEF payload
            <4> QED BY <4>1, <4>2
        <3> QED BY <3>2 DEF Buffered
    <2> QED BY <1>1, <1>t, <2>1, <2>2, <2>3, InboxStep DEF Finished
<1>2. CASE NodeOf[s] = Origin[m]
    <2>. USE <1>2, <1>t DEF Goto
    <2>1. ASSUME NEW k \in Messages, Handle(k), ~(\E u \in Members : CheckMember(k, u))
          PROVE  Finished(s, m)'
        BY <2>1 DEF Handle, Submit, RouteRest, StoreErr, Lookup, LookupErr, SendLocal,
           Publish, PublishErr, Heartbeat, StartTyping, SendTyping, Turn, TypeOK, Finished
    <2>2. ASSUME NEW k \in Messages, NEW u \in Members, CheckMember(k, u)
          PROVE  Finished(s, m)'
        BY <2>2 DEF CheckMember, TypeOK, Finished
    <2>3. ASSUME \/ \E t \in Sessions : Connect(t) \/ Disconnect(t)
                 \/ \E n \in Nodes : handle_cross_node_event(n) \/ SubscriberEnds(n)
                 \/ UNCHANGED vars
          PROVE  Finished(s, m)'
        BY <2>3 DEF Connect, Disconnect, handle_cross_node_event, SubscriberEnds, vars,
                    Finished
    <2> QED BY <2>1, <2>2, <2>3 DEF Next
<1> QED BY <1>1, <1>2

\* A handler or a subscriber is through with an event for the session it puts
\* it in.
LEMMA PutFinishes ==
    ASSUME Typed, PayloadsAgree, [Next]_vars, NEW s \in Sessions, NEW m \in Messages,
           PutHere(s, m) \/ PutThere(s, m)
    PROVE  Finished(s, m)'
<1>1. CASE PutThere(s, m)
    BY <1>1, PutThereFacts, OverStable DEF PutThere, Finished
<1>2. CASE PutHere(s, m)
    <2>. USE NobodyAssumption, SessionsAssumption DEF Goto
    <2>1. CASE SendLocal(m) /\ sending[m] = UserOf[s]
        BY <1>2, <2>1 DEF PutHere, SendLocal, Typed, TypeOK, TaskAgrees, Finished
    <2>2. CASE Heartbeat(m) \/ SendTyping(m)
        BY <1>2, <2>2 DEF PutHere, Heartbeat, SendTyping, Typed, TypeOK, Finished
    <2> QED BY <1>2, <2>1, <2>2 DEF PutHere
<1> QED BY <1>1, <1>2

\* Nothing is still to come for a session that has it, after every step.
LEMMA NothingTwiceStep ==
    ASSUME Typed, PayloadsAgree, NothingTwice, [Next]_vars
    PROVE  NothingTwice'
<1>1. ASSUME NEW s \in Sessions, NEW m \in Messages, Has(s, m)' PROVE Finished(s, m)'
    <2>1. CASE Has(s, m)
        BY <2>1, FinishedStable DEF NothingTwice, Finished
    <2>2. CASE ~Has(s, m)
        BY <1>1, <2>2, HasStep, PutFinishes
    <2> QED BY <2>1, <2>2
<1> QED BY <1>1 DEF NothingTwice, Finished

\* A channel stays without duplicates when an event it does not have is put in.
LEMMA NoDuplicateStep ==
    ASSUME Typed, PayloadsAgree, NothingTwice, NoDuplicate, [Next]_vars
    PROVE  NoDuplicate'
<1>. SUFFICES ASSUME NEW s \in Sessions PROVE IsInjective(got'[s])
    BY DEF NoDuplicate
<1>1. got[s] \in Seq(Messages) /\ IsInjective(got[s])
    BY DEF Typed, TypeOK, NoDuplicate
<1>2. ASSUME NEW m \in Messages, got'[s] = Append(got[s], m), PutHere(s, m) \/ PutThere(s, m)
      PROVE  IsInjective(got'[s])
    <2>1. \A i \in DOMAIN got[s] : got[s][i] # m
        BY <1>2, PutIsNew DEF Has, Range
    <2>2. /\ \A i \in DOMAIN got'[s] : i \in DOMAIN got[s] \/ i = Len(got[s]) + 1
          /\ \A i \in DOMAIN got[s] : got'[s][i] = got[s][i]
          /\ got'[s][Len(got[s]) + 1] = m
        BY <1>1, <1>2, AppendFacts
    <2> QED BY <1>1, <2>1, <2>2 DEF IsInjective
<1> QED BY <1>1, <1>2, GotStep

-----------------------------------------------------------------------------
(* Each event in its order. *)

\* As long as handling of an event is not over, that of the later ones of its
\* connection has not begun, and nobody has them.
LEMMA LaterIsUnsent ==
    ASSUME Typed, NothingTwice, NEW m \in Messages, ~Over(m),
           NEW k \in Messages, m \in Before[k]
    PROVE  /\ task[k] = "unsent" /\ ~Over(k)
           /\ \A s \in Sessions : ~Has(s, k)
<1>1. task[k] = "unsent" /\ ~Over(k)
    BY DEF Typed, TaskAgrees, Over
<1>2. ASSUME NEW s \in Sessions, Has(s, k) PROVE FALSE
    BY <1>1, <1>2 DEF NothingTwice
<1> QED BY <1>1, <1>2

\* What BuffersInOrder says of one place of a buffer and one event.
Precedes(n, i, m) ==
    inbox[n][i].event \in Before[m] =>
        /\ \A j \in DOMAIN inbox[n] : inbox[n][j].event = m => i < j
        /\ \A s \in Sessions : NodeOf[s] = n /\ Has(s, m) => n = Origin[m]

\* Buffers stay in the order of each connection, and ahead of the channels.
LEMMA BuffersInOrderStep ==
    ASSUME Typed, Typed', PayloadsAgree, NothingTwice, BuffersInOrder, [Next]_vars
    PROVE  BuffersInOrder'
<1>. SUFFICES ASSUME NEW n \in Nodes, NEW m \in Messages, NEW i \in DOMAIN inbox'[n],
                     inbox'[n][i].event \in Before[m]
              PROVE  /\ \A j \in DOMAIN inbox'[n] : inbox'[n][j].event = m => i < j
                     /\ \A s \in Sessions : NodeOf[s] = n /\ Has(s, m)' => n = Origin[m]
    BY DEF BuffersInOrder
<1>o. \A j \in DOMAIN inbox[n] : Precedes(n, j, m)
    BY DEF BuffersInOrder, Precedes
<1>n. DOMAIN inbox'[n] \subseteq Nat /\ DOMAIN inbox[n] \subseteq Nat
    BY InboxTypes DEF Typed, TypeOK
<1>1. ASSUME NEW d \in {0, 1}, Shifts(n, d)
      PROVE  /\ \A j \in DOMAIN inbox'[n] : inbox'[n][j].event = m => i < j
             /\ \A s \in Sessions : NodeOf[s] = n /\ Has(s, m)' => n = Origin[m]
    <2>1. i + d \in DOMAIN inbox[n] /\ inbox[n][i + d].event \in Before[m]
        BY <1>1 DEF Shifts
    <2>2. Precedes(n, i + d, m)
        BY <2>1, <1>o
    <2>3. ASSUME NEW j \in DOMAIN inbox'[n], inbox'[n][j].event = m PROVE i < j
        <3>1. j + d \in DOMAIN inbox[n] /\ inbox[n][j + d].event = m
            BY <1>1, <2>3 DEF Shifts
        <3>2. i + d < j + d
            BY <2>1, <2>2, <3>1 DEF Precedes
        <3> QED BY <1>n, <3>2
    <2>4. ASSUME NEW s \in Sessions, NodeOf[s] = n, Has(s, m)' PROVE n = Origin[m]
        <3>1. CASE Has(s, m)
            BY <2>1, <2>2, <2>4, <3>1 DEF Precedes
        <3>2. CASE PutHere(s, m)
            BY <2>4, <3>2 DEF PutHere
        <3>3. CASE PutThere(s, m)
            <4>1. 1 \in DOMAIN inbox[n] /\ inbox[n][1].event = m /\ Shifts(n, 1)
                BY <2>4, <3>3, PutThereFacts
            <4>2. i + 1 \in DOMAIN inbox[n] /\ inbox[n][i + 1].event \in Before[m]
                BY <4>1 DEF Shifts
            <4>3. i + 1 < 1
                BY <4>1, <4>2, <1>o DEF Precedes
            <4> QED BY <4>3, <1>n
        <3> QED BY <2>4, <3>1, <3>2, <3>3, HasStep
    <2> QED BY <2>3, <2>4
<1>2. ASSUME NEW k \in Messages, Joins(n, k)
      PROVE  /\ \A j \in DOMAIN inbox'[n] : inbox'[n][j].event = m => i < j
             /\ \A s \in Sessions : NodeOf[s] = n /\ Has(s, m)' => n = Origin[m]
    <2>. DEFINE last == Len(inbox[n]) + 1
    <2>1. /\ ~Over(k) /\ last \in Nat
          /\ \A j \in DOMAIN inbox[n] : j < last
          /\ \A j \in DOMAIN inbox'[n] : j \in DOMAIN inbox[n] \/ j = last
          /\ \A j \in DOMAIN inbox[n] : inbox'[n][j] = inbox[n][j]
        BY <1>2, JoinsFacts
    <2>2. inbox'[n][last] = payload(k) /\ payload(k).event = k
        BY <1>2, JoinsFacts DEF payload
    <2>3. \A s \in Sessions : Has(s, m)' => Has(s, m)
        BY <1>2, JoinsFacts DEF Has
    <2>. HIDE DEF last
    <2>4. CASE i \in DOMAIN inbox[n]
        <3>1. Precedes(n, i, m) /\ inbox[n][i].event \in Before[m]
            BY <1>o, <2>1, <2>4
        <3>2. ASSUME NEW j \in DOMAIN inbox'[n], inbox'[n][j].event = m PROVE i < j
            BY <2>1, <2>4, <3>1, <3>2 DEF Precedes
        <3> QED BY <2>3, <3>1, <3>2 DEF Precedes
    <2>5. CASE i = last
        <3>1. k \in Before[m]
            BY <2>2, <2>5
        <3>2. ~Over(m) /\ k # m /\ \A s \in Sessions : ~Has(s, m)
            BY <2>1, <3>1, LaterIsUnsent, MessagesAssumption
        <3>3. ASSUME NEW j \in DOMAIN inbox'[n], inbox'[n][j].event = m PROVE FALSE
            <4>1. j # last
                BY <2>2, <3>2, <3>3
            <4>2. inbox[n][j].event = m /\ j \in DOMAIN inbox[n]
                BY <2>1, <3>3, <4>1
            <4> QED BY <3>2, <4>2 DEF PayloadsAgree
        <3> QED BY <2>3, <3>2, <3>3
    <2> QED BY <2>1, <2>4, <2>5
<1> QED BY <1>1, <1>2, InboxStep

\* Nothing that is put in a channel was sent before anything that is there.
LEMMA PutIsLast ==
    ASSUME Typed, PayloadsAgree, NothingTwice, BuffersInOrder,
           NEW s \in Sessions, NEW m \in Messages, NEW k \in Messages,
           PutHere(s, m) \/ PutThere(s, m), Has(s, k), m \in Before[k]
    PROVE  FALSE
<1>1. Origin[m] = Origin[k]
    BY MessagesAssumption
<1>2. CASE PutHere(s, m)
    <2>1. ~Over(m)
        BY <1>2 DEF PutHere, SendLocal, Heartbeat, Turn, SendTyping, Over, Typed, TaskAgrees
    <2> QED BY <2>1, LaterIsUnsent
<1>3. CASE PutThere(s, m)
    <2>1. /\ 1 \in DOMAIN inbox[NodeOf[s]] /\ inbox[NodeOf[s]][1].event = m
          /\ NodeOf[s] \in Nodes /\ NodeOf[s] # Origin[m]
        BY <1>3, PutThereFacts, SessionsAssumption DEF PutThere
    <2> QED BY <1>1, <2>1 DEF BuffersInOrder
<1> QED BY <1>2, <1>3

\* What is put in a channel is not from before anything that is there.
LEMMA SenderOrderStep ==
    ASSUME Typed, PayloadsAgree, NothingTwice, BuffersInOrder, SenderOrder, [Next]_vars
    PROVE  SenderOrder'
<1>. SUFFICES ASSUME NEW s \in Sessions, NEW i \in DOMAIN got'[s], NEW j \in DOMAIN got'[s],
                     got'[s][i] \in Before[got'[s][j]]
              PROVE  i < j
    BY DEF SenderOrder
<1>1. CASE got'[s] = got[s]
    BY <1>1 DEF SenderOrder
<1>2. ASSUME NEW m \in Messages, got'[s] = Append(got[s], m),
             PutHere(s, m) \/ PutThere(s, m)
      PROVE  i < j
    <2>. DEFINE last == Len(got[s]) + 1
    <2>1. got[s] \in Seq(Messages)
        BY DEF Typed, TypeOK
    <2>2. /\ last \in Nat /\ got'[s][last] = m
          /\ \A a \in DOMAIN got[s] : a < last /\ got'[s][a] = got[s][a] /\ got[s][a] \in Messages
          /\ \A a \in DOMAIN got'[s] : a \in DOMAIN got[s] \/ a = last
        BY <1>2, <2>1, AppendFacts
    <2>. HIDE DEF last
    <2>3. CASE i \in DOMAIN got[s] /\ j \in DOMAIN got[s]
        BY <2>2, <2>3 DEF SenderOrder
    <2>4. CASE i \in DOMAIN got[s] /\ j = last
        BY <2>2, <2>4
    <2>5. CASE i = last /\ j = last
        BY <2>2, <2>5, MessagesAssumption
    <2>6. CASE i = last /\ j \in DOMAIN got[s]
        <3>. DEFINE k == got[s][j]
        <3>1. k \in Messages /\ m \in Before[k] /\ Has(s, k)
            BY <2>2, <2>6 DEF Has, Range
        <3>. HIDE DEF k
        <3> QED BY <1>2, <3>1, PutIsLast
    <2> QED BY <2>2, <2>3, <2>4, <2>5, <2>6
<1> QED BY <1>1, <1>2, GotStep

-----------------------------------------------------------------------------
(* Each event to everybody it is for. *)

\* What it takes to be one of the sessions m is for.
IsFor(m, s) ==
    /\ Kind[m] = "heartbeat" => NodeOf[s] = Origin[m] /\ UserOf[s] = Author[m]
    /\ Kind[m] = "typing" => NodeOf[s] = Origin[m] /\ UserOf[s] \in Members \ {Author[m]}
    /\ Kind[m] \in {"send", "rest"} => UserOf[s] \in Members

\* Reach has the sessions an event is for.
LEMMA ReachFacts ==
    ASSUME NEW m \in Messages, NEW s \in Sessions
    PROVE  s \in Reach[m] <=> IsFor(m, s)
<1>1. Kind[m] \in {"send", "rest", "typing", "heartbeat"}
    BY MessagesAssumption
<1>2. CASE Kind[m] = "heartbeat"
    BY <1>2 DEF Reach, IsFor
<1>3. CASE Kind[m] = "typing"
    BY <1>3 DEF Reach, IsFor
<1>4. CASE Kind[m] \in {"send", "rest"}
    BY <1>4 DEF Reach, IsFor
<1> QED BY <1>1, <1>2, <1>3, <1>4

\* The audience of an event are the sessions it is for that were there all the
\* time.
LEMMA AudienceFacts ==
    ASSUME NEW m \in Messages, NEW s \in Sessions
    PROVE  /\ s \in Audience(m) <=> s \in present[m] /\ conn[s] = "open" /\ IsFor(m, s)
           /\ s \in Audience(m)' <=> s \in present'[m] /\ conn'[s] = "open" /\ IsFor(m, s)
BY ReachFacts DEF Audience

\* Sessions are opened once, and closed once.
LEMMA ConnStep ==
    ASSUME Typed, [Next]_vars, NEW s \in Sessions, conn[s] # "new"
    PROVE  conn'[s] # "new" /\ (conn'[s] = "open" => conn[s] = "open")
<1>1. CASE conn' = conn
    BY <1>1
<1>2. ASSUME NEW t \in Sessions, Connect(t) \/ Disconnect(t)
      PROVE  conn'[s] # "new" /\ (conn'[s] = "open" => conn[s] = "open")
    BY <1>2 DEF Connect, Disconnect, Typed, TypeOK
<1>3. ASSUME NEW m \in Messages, Handle(m) PROVE conn' = conn
    BY <1>3 DEF Handle, Submit, RouteRest, StoreErr, Lookup, LookupErr, CheckMember,
       SendLocal, Publish, PublishErr, Heartbeat, StartTyping, SendTyping
<1>4. ASSUME (\E n \in Nodes : handle_cross_node_event(n) \/ SubscriberEnds(n)) \/ UNCHANGED vars
      PROVE  conn' = conn
    BY <1>4 DEF handle_cross_node_event, SubscriberEnds, vars
<1> QED BY <1>1, <1>2, <1>3, <1>4 DEF Next

\* A user who has been on two nodes has been for good.
LEMMA SplitStable ==
    ASSUME Typed, [Next]_vars, NEW s \in Sessions, NEW m \in Messages, Split(s, m)
    PROVE  Split(s, m)'
BY ConnStep DEF Split

\* What is kept for m when a step is not of its handler.
Untouched(m) ==
    /\ task'[m] = task[m] /\ todo'[m] = todo[m] /\ sending'[m] = sending[m]
    /\ remote'[m] = remote[m] /\ present'[m] = present[m]

\* Handlers keep to their own event.
LEMMA OtherStep ==
    ASSUME Typed, [Next]_vars, NEW m \in Messages, ~Handle(m)
    PROVE  Untouched(m)
<1>t. TypeOK
    BY DEF Typed
<1>1. ASSUME NEW k \in Messages, k # m, Handle(k) PROVE Untouched(m)
    BY <1>1, <1>t DEF Handle, Submit, RouteRest, StoreErr, Lookup, LookupErr, CheckMember,
       SendLocal, Publish, PublishErr, Heartbeat, StartTyping, SendTyping, Goto, Arrive,
       TypeOK, Untouched
<1>2. ASSUME \/ \E s \in Sessions : Connect(s) \/ Disconnect(s)
             \/ \E n \in Nodes : handle_cross_node_event(n) \/ SubscriberEnds(n)
             \/ UNCHANGED vars
      PROVE  Untouched(m)
    BY <1>2 DEF Connect, Disconnect, handle_cross_node_event, SubscriberEnds, vars, Untouched
<1> QED BY <1>1, <1>2 DEF Next

\* Sessions that were there when an event came in are not new, after every step.
LEMMA PresentAreKnownStep ==
    ASSUME Typed, PresentAreKnown, [Next]_vars
    PROVE  PresentAreKnown'
<1>. SUFFICES ASSUME NEW m \in Messages, NEW s \in present'[m] PROVE conn'[s] # "new"
    BY DEF PresentAreKnown
<1>1. s \in Sessions
    BY RouterTypeStep DEF TypeOK
<1>2. CASE s \in present[m]
    BY <1>1, <1>2, ConnStep DEF PresentAreKnown
<1>3. CASE s \notin present[m]
    <2>1. Handle(m)
        BY <1>3, OtherStep DEF Untouched
    <2>2. conn[s] = "open"
        BY <2>1, <1>3 DEF Handle, Submit, RouteRest, StoreErr, Lookup, LookupErr,
           CheckMember, SendLocal, Publish, PublishErr, Heartbeat, StartTyping, SendTyping,
           Arrive, Typed, TypeOK
    <2> QED BY <1>1, <2>2, ConnStep
<1> QED BY <1>2, <1>3

\* A buffered event stays in the buffer, or is put in the channels it is for,
\* while the subscriber is there.
LEMMA BufferedStep ==
    ASSUME Typed, PayloadsAgree, [Next]_vars, NEW m \in Messages,
           NEW s \in Sessions, NodeOf[s] # Origin[m], conn[s] = "open",
           UserOf[s] \in remote[m], Buffered(NodeOf[s], m), NodeOf[s] \in listening'
    PROVE  Buffered(NodeOf[s], m)' \/ Has(s, m)'
<1>. DEFINE n == NodeOf[s]
<1>t. /\ n \in Nodes /\ inbox \in [Nodes -> Seq(Payload)]
      /\ got \in [Sessions -> Seq(Messages)]
    BY SessionsAssumption DEF Typed, TypeOK
<1>1. CASE inbox'[n] = inbox[n]
    BY <1>1 DEF Buffered
<1>2. ASSUME NEW k \in Messages, Joins(n, k) PROVE Buffered(n, m)'
    <2>1. PICK i \in DOMAIN inbox[n] : inbox[n][i].event = m
        BY DEF Buffered
    <2>2. /\ i \in DOMAIN inbox'[n] /\ inbox'[n][i] = inbox[n][i]
        BY <1>2, <1>t, <2>1, JoinsFacts
    <2> QED BY <2>1, <2>2 DEF Buffered
<1>3. ASSUME NEW k \in Messages, published(k), remote[k] # {}, Publish(k) \/ PublishErr(k)
      PROVE  Joins(n, k)
    BY <1>3, <1>t, PublishFacts DEF Joins, payload
<1>4. ASSUME handle_cross_node_event(n) PROVE Buffered(n, m)' \/ Has(s, m)'
    <2>1. /\ inbox[n] \in Seq(Payload) /\ inbox[n] # <<>> /\ inbox'[n] = Tail(inbox[n])
        BY <1>4, <1>t DEF handle_cross_node_event
    <2>2. PICK i \in DOMAIN inbox[n] : inbox[n][i].event = m
        BY DEF Buffered
    <2>3. CASE i # 1
        <3>1. i - 1 \in DOMAIN Tail(inbox[n]) /\ Tail(inbox[n])[i - 1] = inbox[n][i]
            BY <2>1, <2>2, <2>3, TailFacts
        <3>2. i - 1 \in DOMAIN inbox'[n] /\ inbox'[n][i - 1].event = m
            BY <2>1, <2>2, <3>1
        <3> QED BY <3>2 DEF Buffered
    <2>4. CASE i = 1
        <3>. DEFINE p == Head(inbox[n])
        <3>1. p = inbox[n][1] /\ 1 \in DOMAIN inbox[n]
            BY <2>1, TailFacts
        <3>2. p.event = m /\ p.targets = remote[m] /\ p.source # n
            BY <1>t, <2>2, <2>4, <3>1 DEF PayloadsAgree
        <3>3. send_to_users(n, remote[m], m)
            BY <1>4, <3>2 DEF handle_cross_node_event
        <3> QED BY <1>t, <3>3, SendFacts DEF Reached
    <2> QED BY <2>3, <2>4
<1>5. ASSUME NEW k \in Nodes, k # n, handle_cross_node_event(k) \/ SubscriberEnds(k)
      PROVE  inbox'[n] = inbox[n]
    BY <1>5, <1>t DEF handle_cross_node_event, SubscriberEnds
<1>6. ~SubscriberEnds(n)
    BY DEF SubscriberEnds
<1>7. ASSUME NEW k \in Messages, Publish(k) \/ PublishErr(k)
      PROVE  Buffered(n, m)' \/ Has(s, m)'
    <2>1. CASE UNCHANGED <<inbox, listening>>
        BY <1>1, <2>1
    <2>2. CASE remote[k] # {} /\ published(k)
        BY <1>2, <1>3, <1>7, <2>2
    <2> QED BY <1>7, <2>1, <2>2 DEF Publish, PublishErr
<1>8. ASSUME NEW k \in Messages, Handle(k), ~(Publish(k) \/ PublishErr(k))
      PROVE  inbox' = inbox
    BY <1>8 DEF Handle, Submit, RouteRest, StoreErr, Lookup, LookupErr, CheckMember,
       SendLocal, Heartbeat, StartTyping, SendTyping
<1>9. ASSUME (\E t \in Sessions : Connect(t) \/ Disconnect(t)) \/ UNCHANGED vars
      PROVE  inbox' = inbox
    BY <1>9 DEF Connect, Disconnect, vars
<1>10. CASE \E k \in Messages : Handle(k)
    BY <1>1, <1>7, <1>8, <1>10
<1>11. CASE \E k \in Nodes : handle_cross_node_event(k) \/ SubscriberEnds(k)
    BY <1>1, <1>4, <1>5, <1>6, <1>11
<1>12. CASE (\E t \in Sessions : Connect(t) \/ Disconnect(t)) \/ UNCHANGED vars
    BY <1>1, <1>9, <1>12
<1> QED BY <1>10, <1>11, <1>12 DEF Next

\* An event that is on its way to a session stays so when its handler rests.
LEMMA ComesWhenUntouched ==
    ASSUME Typed, PayloadsAgree, [Next]_vars, NEW m \in Messages, NEW s \in Sessions,
           conn[s] = "open", Untouched(m), Comes(m, s)
    PROVE  Comes(m, s)'
<1>1. Has(s, m) => Has(s, m)'
    BY HasStep
<1>2. Split(s, m) => Split(s, m)'
    BY SplitStable
<1>3. listening' \subseteq listening
    <2>1. ASSUME NEW k \in Messages, Handle(k) PROVE listening' \subseteq listening
        BY <2>1 DEF Handle, Submit, RouteRest, StoreErr, Lookup, LookupErr, CheckMember,
           SendLocal, Publish, PublishErr, published, Heartbeat, StartTyping, SendTyping
    <2>2. ASSUME \/ \E t \in Sessions : Connect(t) \/ Disconnect(t)
                 \/ \E n \in Nodes : handle_cross_node_event(n) \/ SubscriberEnds(n)
                 \/ UNCHANGED vars
          PROVE  listening' \subseteq listening
        BY <2>2 DEF Connect, Disconnect, handle_cross_node_event, SubscriberEnds, vars
    <2> QED BY <2>1, <2>2 DEF Next
<1>4. ASSUME Kind[m] \in {"send", "rest"}, NodeOf[s] # Origin[m], ~Split(s, m),
             task[m] = "done", NodeOf[s] \in listening'
      PROVE  Buffered(NodeOf[s], m)' \/ Has(s, m)'
    <2>1. UserOf[s] \in remote[m]
        BY <1>4 DEF Comes, Leaves, Typed, TaskAgrees
    <2>2. Buffered(NodeOf[s], m) \/ Has(s, m)
        BY <1>3, <1>4 DEF Comes
    <2> QED BY <1>1, <1>4, <2>1, <2>2, BufferedStep
<1> QED BY <1>1, <1>2, <1>4 DEF Comes, Waits, Leaves, Untouched

\* The handler of an event does not pass over a session that is there.
LEMMA ComesWhenHandled ==
    ASSUME Typed, PayloadsAgree, [Next]_vars, NEW m \in Messages, NEW s \in Sessions,
           conn[s] = "open", IsFor(m, s), Handle(m),
           present'[m] = present[m] => Comes(m, s)
    PROVE  Comes(m, s)'
<1>t. /\ TypeOK /\ UserOf[s] # Nobody /\ UserOf[s] \in Users
      /\ NodeOf[s] \in Nodes
    BY SessionsAssumption, NobodyAssumption DEF Typed
<1>h. Has(s, m) => Has(s, m)'
    BY HasStep
<1>i. Split(s, m) => Split(s, m)'
    BY SplitStable
<1>. USE DEF Goto
<1>1. ASSUME NEW step \in {"route", "lookup", "failed"}, task'[m] = step PROVE Comes(m, s)'
    BY <1>1 DEF Comes
<1>2. CASE Submit(m) \/ RouteRest(m) \/ StoreErr(m) \/ LookupErr(m) \/ StartTyping(m)
           \/ PublishErr(m)
    BY <1>1, <1>2, <1>t DEF Submit, RouteRest, StoreErr, LookupErr, StartTyping, PublishErr,
                            TypeOK
<1>3. CASE Lookup(m)
    <2>1. task'[m] = "fanout" /\ todo'[m] = Members
        BY <1>3, <1>t DEF Lookup, TypeOK
    <2> QED BY <2>1 DEF Comes, IsFor, Waits, Leaves
<1>4. ASSUME NEW u \in Members, CheckMember(m, u) PROVE Comes(m, s)'
    <2>1. /\ task[m] = "fanout" /\ task'[m] = "fanout" /\ sending[m] = Nobody
          /\ todo'[m] = todo[m] \ {u} /\ Comes(m, s)
        BY <1>4, <1>t DEF CheckMember, TypeOK
    <2>2. ASSUME OpenAt(Origin[m], u) # {}
          PROVE  sending'[m] = u /\ remote'[m] = remote[m]
        BY <1>4, <1>t, <2>2 DEF CheckMember, TypeOK
    <2>3. ASSUME OpenAt(Origin[m], u) = {}
          PROVE  remote'[m] = remote[m] \cup {u}
        BY <1>4, <1>t, <2>3 DEF CheckMember, TypeOK
    <2>4. ASSUME Kind[m] \in {"send", "rest"}, NodeOf[s] = Origin[m]
          PROVE  Waits(m, s)' \/ Has(s, m)'
        <3>1. UserOf[s] = u => OpenAt(Origin[m], u) # {}
            BY <2>4 DEF OpenAt
        <3>2. UserOf[s] \in todo[m] \/ Has(s, m)
            BY <1>t, <2>1, <2>4 DEF Comes, Waits
        <3> QED BY <1>h, <2>1, <2>2, <3>1, <3>2 DEF Waits
    <2>5. ASSUME Kind[m] \in {"send", "rest"}, NodeOf[s] # Origin[m], ~Split(s, m)
          PROVE  Leaves(m, s)'
        <3>1. UserOf[s] = u => OpenAt(Origin[m], u) = {}
            BY <2>5 DEF OpenAt, Split
        <3>2. Leaves(m, s)
            BY <2>1, <2>5 DEF Comes
        <3> QED BY <2>1, <2>2, <2>3, <3>1, <3>2 DEF Leaves
    <2> QED BY <1>i, <2>1, <2>4, <2>5 DEF Comes
<1>5. CASE SendLocal(m)
    <2>1. /\ task[m] = "fanout" /\ task'[m] = "fanout" /\ Comes(m, s)
          /\ send_to_users(Origin[m], {sending[m]}, m) /\ UNCHANGED <<todo, remote>>
        BY <1>5 DEF SendLocal, Typed, TaskAgrees
    <2>2. NodeOf[s] = Origin[m] /\ UserOf[s] = sending[m] => Has(s, m)'
        BY <1>t, <2>1, SendFacts DEF Reached, TypeOK
    <2> QED BY <1>h, <1>i, <2>1, <2>2 DEF Comes, Waits, Leaves
<1>6. CASE Publish(m)
    <2>1. /\ task[m] = "fanout" /\ todo[m] = {} /\ Comes(m, s)
          /\ UNCHANGED <<todo, sending, remote, got>>
          /\ Kind[m] # "typing" /\ Kind[m] # "heartbeat"
        BY <1>6 DEF Publish, FannedOut, Typed, TaskAgrees
    <2>2. ASSUME Kind[m] \in {"send", "rest"}, NodeOf[s] # Origin[m], ~Split(s, m),
                 NodeOf[s] \in listening'
          PROVE  Buffered(NodeOf[s], m)'
        <3>1. UserOf[s] \in remote[m]
            BY <2>1, <2>2 DEF Comes, Leaves
        <3>2. published(m) /\ remote[m] # {}
            BY <1>6, <3>1 DEF Publish
        <3>3. Joins(NodeOf[s], m)
            BY <1>6, <1>t, <2>2, <3>2, PublishFacts DEF Joins, payload
        <3>4. /\ Len(inbox[NodeOf[s]]) + 1 \in DOMAIN inbox'[NodeOf[s]]
              /\ inbox'[NodeOf[s]][Len(inbox[NodeOf[s]]) + 1] = payload(m)
            BY <1>t, <3>3, JoinsFacts
        <3> QED BY <3>4 DEF Buffered, payload
    <2> QED BY <1>i, <1>h, <2>1, <2>2 DEF Comes, Waits, Leaves
<1>7. CASE Heartbeat(m)
    <2>1. NodeOf[s] = Origin[m] /\ UserOf[s] \in {Author[m]} /\ Kind[m] = "heartbeat"
        BY <1>7 DEF Heartbeat, IsFor
    <2>2. Has(s, m)'
        BY <1>7, <1>t, <2>1, SendFacts DEF Heartbeat, Reached, TypeOK
    <2> QED BY <2>1, <2>2 DEF Comes
<1>8. CASE SendTyping(m)
    <2>1. /\ NodeOf[s] = Origin[m] /\ UserOf[s] \in todo[m] \ {Author[m]}
          /\ Kind[m] = "typing"
        BY <1>8 DEF SendTyping, IsFor, Typed, TaskAgrees
    <2>2. Has(s, m)'
        BY <1>8, <1>t, <2>1, SendFacts DEF SendTyping, Reached, TypeOK
    <2> QED BY <2>1, <2>2 DEF Comes
<1> QED BY <1>2, <1>3, <1>4, <1>5, <1>6, <1>7, <1>8 DEF Handle

\* Every event stays on its way to its audience.
LEMMA OnItsWayStep ==
    ASSUME Typed, PayloadsAgree, PresentAreKnown, OnItsWay, [Next]_vars
    PROVE  OnItsWay'
<1>. SUFFICES ASSUME NEW m \in Messages, NEW s \in Sessions, s \in Audience(m)'
              PROVE  Comes(m, s)'
    BY DEF OnItsWay
<1>1. s \in present'[m] /\ conn'[s] = "open" /\ IsFor(m, s)
    BY AudienceFacts
<1>2. conn[s] = "open"
    <2>1. CASE s \in present[m]
        BY <1>1, <2>1, ConnStep DEF PresentAreKnown
    <2>2. CASE s \notin present[m]
        <3>1. Handle(m)
            BY <1>1, <2>2, OtherStep DEF Untouched
        <3> QED BY <1>1, <2>2, <3>1 DEF Handle, Submit, RouteRest, StoreErr, Lookup,
                LookupErr, CheckMember, SendLocal, Publish, PublishErr, Heartbeat,
                StartTyping, SendTyping, Arrive, Typed, TypeOK
    <2> QED BY <2>1, <2>2
<1>3. present'[m] = present[m] => Comes(m, s)
    BY <1>1, <1>2, AudienceFacts DEF OnItsWay
<1>4. CASE Handle(m)
    BY <1>1, <1>2, <1>3, <1>4, ComesWhenHandled
<1>5. CASE ~Handle(m)
    BY <1>2, <1>3, <1>5, OtherStep, ComesWhenUntouched DEF Untouched
<1> QED BY <1>4, <1>5

-----------------------------------------------------------------------------
(* The inductive invariant, and what follows from it. *)

\* NoDuplicate and SenderOrder say what has arrived; that nothing can break them
\* in a later step needs what is known of the handlers and the buffers.
RouterInv ==
    /\ Typed
    /\ PayloadsAgree
    /\ NothingTwice
    /\ BuffersInOrder
    /\ NoDuplicate
    /\ SenderOrder
    /\ PresentAreKnown
    /\ OnItsWay

\* The inductive invariant holds in the initial states.
LEMMA RouterInitInv == Init => RouterInv
<1>. SUFFICES ASSUME Init PROVE RouterInv
    OBVIOUS
<1>1. Typed
    BY RxCapacityAssumption DEF Init, Typed, TypeOK, TaskAgrees
<1>2. \A s \in Sessions : got[s] = <<>> /\ DOMAIN got[s] = {}
    BY DEF Init
<1>3. \A n \in Nodes : inbox[n] = <<>> /\ DOMAIN inbox[n] = {}
    BY DEF Init
<1>4. PayloadsAgree /\ BuffersInOrder
    BY <1>3 DEF PayloadsAgree, BuffersInOrder
<1>5. NothingTwice /\ NoDuplicate /\ SenderOrder
    BY <1>2 DEF NothingTwice, NoDuplicate, SenderOrder, Has, Range, IsInjective
<1>6. PresentAreKnown
    BY DEF Init, PresentAreKnown
<1>7. OnItsWay
    BY AudienceFacts DEF Init, OnItsWay
<1> QED BY <1>1, <1>4, <1>5, <1>6, <1>7 DEF RouterInv

\* Every step keeps the inductive invariant.
LEMMA RouterStepInv == RouterInv /\ [Next]_vars => RouterInv'
<1>. SUFFICES ASSUME RouterInv, [Next]_vars PROVE RouterInv'
    OBVIOUS
<1>. USE DEF RouterInv
<1>1. Typed'
    BY RouterTypeStep, TaskAgreesStep DEF Typed
<1>2. PayloadsAgree' /\ NothingTwice' /\ BuffersInOrder'
    BY <1>1, PayloadsAgreeStep, NothingTwiceStep, BuffersInOrderStep
<1>3. NoDuplicate' /\ SenderOrder'
    BY NoDuplicateStep, SenderOrderStep
<1>4. PresentAreKnown' /\ OnItsWay'
    BY PresentAreKnownStep, OnItsWayStep
<1> QED BY <1>1, <1>2, <1>3, <1>4

\* The inductive invariant is an invariant.
THEOREM RouterInvariant == Spec => []RouterInv
BY RouterInitInv, RouterStepInv, PTL DEF Spec

\* Every variable stays in its type, and no buffer holds more than the Redis
\* client keeps for a subscriber.
THEOREM RouterTypeCorrect == Spec => []TypeOK
<1>1. RouterInv => TypeOK
    BY DEF RouterInv, Typed
<1> QED BY <1>1, RouterInvariant, PTL

\* No session is sent an event twice by send_to_user, whoever connects or
\* disconnects while handle_send works through the members.
THEOREM RouterNoDuplicate == Spec => []NoDuplicate
<1>1. RouterInv => NoDuplicate
    BY DEF RouterInv
<1> QED BY <1>1, RouterInvariant, PTL

\* A session gets the events of one connection in the order they were sent in,
\* from its own node and through Redis.
THEOREM RouterSenderOrder == Spec => []SenderOrder
<1>1. RouterInv => SenderOrder
    BY DEF RouterInv
<1> QED BY <1>1, RouterInvariant, PTL

\* An event that was handled without an error has reached the sessions it is
\* for, as soon as no subscriber has it to come.
THEOREM RouterReachesAudience == Spec => []ReachesAudience
<1>1. ASSUME RouterInv, NEW m \in Messages, Settled(m), NEW s \in Audience(m), ~Split(s, m),
             NodeOf[s] \in listening \cup {Origin[m]}
      PROVE  Has(s, m)
    <2>1. s \in Sessions /\ UserOf[s] # Nobody /\ NodeOf[s] \in Nodes
        <3>1. Kind[m] \in {"send", "rest", "typing", "heartbeat"} /\ present[m] \subseteq Sessions
            BY <1>1, MessagesAssumption DEF RouterInv, Typed, TypeOK
        <3>2. s \in present[m]
            BY <3>1 DEF Audience
        <3> QED BY <3>1, <3>2, SessionsAssumption, NobodyAssumption
    <2>2. Comes(m, s)
        BY <1>1, <2>1 DEF RouterInv, OnItsWay
    <2>3. task[m] = "done" /\ ~Buffered(NodeOf[s], m)
        BY <1>1, <2>1 DEF Settled, Buffered
    <2>4. CASE Kind[m] \in {"typing", "heartbeat"}
        BY <2>2, <2>3, <2>4 DEF Comes
    <2>5. CASE Kind[m] \in {"send", "rest"} /\ NodeOf[s] = Origin[m]
        <3>1. todo[m] = {} /\ sending[m] = Nobody
            BY <1>1, <2>3, <2>5 DEF RouterInv, Typed, TaskAgrees
        <3> QED BY <2>1, <2>2, <2>3, <2>5, <3>1 DEF Comes, Waits
    <2>6. CASE Kind[m] \in {"send", "rest"} /\ NodeOf[s] # Origin[m]
        BY <1>1, <2>2, <2>3, <2>6 DEF Comes
    <2> QED BY <2>4, <2>5, <2>6, MessagesAssumption
<1>2. RouterInv => ReachesAudience
    BY <1>1 DEF ReachesAudience, Has
<1> QED BY <1>2, RouterInvariant, PTL

-----------------------------------------------------------------------------
(* Routing implements Delivery. *)

\* An event is put in the channel of a session it is for.
LEMMA PutIsForIt ==
    ASSUME Typed, PayloadsAgree, NEW s \in Sessions, NEW m \in Messages,
           PutHere(s, m) \/ PutThere(s, m)
    PROVE  IsFor(m, s)
<1>t. TypeOK /\ TaskAgrees
    BY DEF Typed
<1>1. CASE SendLocal(m) /\ sending[m] = UserOf[s]
    <2>1. sending[m] \in Members /\ Kind[m] \notin {"typing", "heartbeat"}
        BY <1>t, <1>1 DEF SendLocal, TypeOK, TaskAgrees
    <2> QED BY <1>1, <2>1 DEF IsFor
<1>2. CASE PutHere(s, m) /\ ~(SendLocal(m) /\ sending[m] = UserOf[s])
    BY <1>t, <1>2 DEF PutHere, Heartbeat, SendTyping, TaskAgrees, IsFor
<1>3. CASE PutThere(s, m)
    <2>1. inbox[NodeOf[s]] \in Seq(Payload) /\ inbox[NodeOf[s]] # <<>>
        BY <1>3, <1>t, SessionsAssumption DEF PutThere, TypeOK
    <2>2. Head(inbox[NodeOf[s]]) = inbox[NodeOf[s]][1]
        BY <2>1, TailFacts
    <2>3. UserOf[s] \in remote[m]
        BY <1>3, <2>2, PutThereFacts DEF PutThere
    <2> QED BY <1>t, <2>3 DEF TypeOK, TaskAgrees, IsFor
<1> QED BY <1>1, <1>2, <1>3

\* The sessions send_to_user reaches in a step may be given the event.
LEMMA ReachedMayGet ==
    ASSUME RouterInv, NEW n, NEW us, NEW m \in Messages, NEW s \in Sessions,
           Reached(n, us, s), PutHere(s, m) \/ PutThere(s, m)
    PROVE  s \in Mail!MayGet(m)
<1>i. Typed /\ PayloadsAgree /\ NothingTwice /\ BuffersInOrder
    BY DEF RouterInv
<1>1. conn[s] = "open" /\ s \in Reach[m]
    BY <1>i, PutIsForIt, ReachFacts DEF Reached
<1>2. ASSUME NEW k \in Range(got[s]) PROVE k # m /\ m \notin Before[k]
    <2>1. k \in Messages /\ Has(s, k)
        BY <1>i, <1>2 DEF Typed, TypeOK, Has, Range
    <2> QED BY <1>i, <2>1, PutIsNew, PutIsLast
<1> QED BY <1>1, <1>2 DEF Mail!MayGet, Mail!Range, Range

\* Every call of send_to_users is a delivery.
LEMMA SendDelivers ==
    ASSUME RouterInv, NEW n, NEW us, NEW m \in Messages, send_to_users(n, us, m),
           conn' = conn,
           \A s \in Sessions : Reached(n, us, s) => PutHere(s, m) \/ PutThere(s, m)
    PROVE  Mail!MailNext
<1>. DEFINE S == {s \in Sessions : Reached(n, us, s)}
<1>1. S \in SUBSET Mail!MayGet(m)
    BY ReachedMayGet
<1>2. got' = [s \in Sessions |-> IF s \in S THEN Append(got[s], m) ELSE got[s]]
    BY DEF send_to_users, OpenAt, Reached
<1>3. Mail!Deliver(m, S)
    BY <1>2 DEF Mail!Deliver
<1>. HIDE DEF S
<1> QED BY <1>1, <1>3 DEF Mail!MailNext

\* Every step of the router is a step of Delivery, or none.
LEMMA DeliveryStep ==
    ASSUME RouterInv, [Next]_vars
    PROVE  Mail!MailNext \/ UNCHANGED <<conn, got>>
<1>i. Typed /\ PayloadsAgree
    BY DEF RouterInv
<1>1. ASSUME NEW s \in Sessions, Connect(s) \/ Disconnect(s) PROVE Mail!MailNext
    <2>1. Mail!Pass(s, "new", "open") \/ Mail!Pass(s, "open", "closed")
        BY <1>1 DEF Connect, Disconnect, Mail!Pass
    <2> QED BY <2>1 DEF Mail!MailNext
<1>2. ASSUME NEW m \in Messages, SendLocal(m) PROVE Mail!MailNext
    <2>1. send_to_users(Origin[m], {sending[m]}, m) /\ conn' = conn
        BY <1>2 DEF SendLocal
    <2>2. \A s \in Sessions : Reached(Origin[m], {sending[m]}, s) => PutHere(s, m)
        BY <1>2 DEF PutHere, Reached
    <2> QED BY <2>1, <2>2, SendDelivers
<1>3. ASSUME NEW m \in Messages, Heartbeat(m) PROVE Mail!MailNext
    <2>1. send_to_users(Origin[m], {Author[m]}, m) /\ conn' = conn
        BY <1>3 DEF Heartbeat
    <2>2. \A s \in Sessions : Reached(Origin[m], {Author[m]}, s) => PutHere(s, m)
        BY <1>3 DEF PutHere, Reached
    <2> QED BY <2>1, <2>2, SendDelivers
<1>4. ASSUME NEW m \in Messages, SendTyping(m) PROVE Mail!MailNext
    <2>. DEFINE us == todo[m] \ {Author[m]}
    <2>1. send_to_users(Origin[m], us, m) /\ conn' = conn
        BY <1>4 DEF SendTyping
    <2>2. \A s \in Sessions : Reached(Origin[m], us, s) => PutHere(s, m)
        BY <1>4 DEF PutHere, Reached
    <2>. HIDE DEF us
    <2> QED BY <2>1, <2>2, SendDelivers
<1>5. ASSUME NEW n \in Nodes, handle_cross_node_event(n)
      PROVE  Mail!MailNext \/ UNCHANGED <<conn, got>>
    <2>. DEFINE p == Head(inbox[n])
    <2>1. inbox[n] # <<>> /\ p \in Payload /\ p.source = Origin[p.event]
        <3>1. inbox[n] # <<>> /\ inbox[n] \in Seq(Payload)
            BY <1>5, <1>i DEF handle_cross_node_event, Typed, TypeOK
        <3>2. p \in Payload /\ 1 \in DOMAIN inbox[n] /\ p = inbox[n][1]
            BY <3>1, TailFacts
        <3> QED BY <1>i, <3>1, <3>2 DEF PayloadsAgree
    <2>2. p.event \in Messages
        BY <2>1 DEF Payload
    <2>3. CASE p.source = n
        BY <1>5, <2>3 DEF handle_cross_node_event
    <2>4. CASE p.source # n
        <3>1. send_to_users(n, p.targets, p.event) /\ conn' = conn
            BY <1>5, <2>4 DEF handle_cross_node_event
        <3>2. \A s \in Sessions : Reached(n, p.targets, s) => PutThere(s, p.event)
            BY <1>5, <2>1, <2>4 DEF Reached, PutThere
        <3>. HIDE DEF p
        <3> QED BY <2>2, <3>1, <3>2, SendDelivers
    <2> QED BY <2>3, <2>4
<1>6. ASSUME NEW m \in Messages, Handle(m), ~SendLocal(m), ~Heartbeat(m), ~SendTyping(m)
      PROVE  UNCHANGED <<conn, got>>
    BY <1>6 DEF Handle, Submit, RouteRest, StoreErr, Lookup, LookupErr, CheckMember,
       Publish, PublishErr, StartTyping
<1>7. ASSUME (\E n \in Nodes : SubscriberEnds(n)) \/ UNCHANGED vars
      PROVE  UNCHANGED <<conn, got>>
    BY <1>7 DEF SubscriberEnds, vars
<1> QED BY <1>1, <1>2, <1>3, <1>4, <1>5, <1>6, <1>7 DEF Next

\* Routing implements Delivery: handle_send, the typing and heartbeat handlers
\* and the subscribers together put an event in a channel at most once, only if
\* it is for its session, and in the order of the sender's connection.
THEOREM RouterImplementsDelivery == Spec => ImplementsDelivery
<1>1. Init => Mail!MailInit
    BY DEF Init, Mail!MailInit
<1>2. RouterInv /\ [Next]_vars => [Mail!MailNext]_(Mail!mailVars)
    BY DeliveryStep DEF Mail!mailVars
<1> QED BY <1>1, <1>2, RouterInvariant, PTL DEF Spec, ImplementsDelivery, Mail!MailSpec
=============================================================================
