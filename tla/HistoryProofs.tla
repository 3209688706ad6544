---------------------------- MODULE HistoryProofs ----------------------------
(***************************************************************************)
(* The walk through list_messages is in order, and with the live events it *)
(* shows every message, for any messages, limits and clock.                *)
(***************************************************************************)
EXTENDS History, FiniteSetTheorems, TLAPS

(* What is stored when.  handle_send delivers only what it has stored. *)
StoredInTime ==
    \A m \in Messages :
        /\ task[m] = "unsent" => <<m, "rest">> \notin stored
        /\ task[m] \in {"unsent", "insert_rest", "route"}
              => <<m, "routed">> \notin stored
        /\ task[m] \in {"fanout", "done"} => <<m, "routed">> \in stored

NoPagesYet == reader \in {"away", "open"} => pages = <<>>

Typed == TypeOK /\ StoredInTime /\ NoPagesYet

(* The client has seen row r, or a row it continued from hides it. *)
Shown(r) ==
    \/ r \in live
    \/ \E i \in DOMAIN pages : r \in Range(pages[i])
    \/ \E c \in Cursors : c # r /\ stamp[c] = stamp[r]

(* The walk has row r still before it. *)
Ahead(r) ==
    /\ reader # "walked"
    /\ pages = <<>> \/ stamp[r] < stamp[Cursor(Last(pages))]

(* The message is for the subscriber of the client's node, which has not   *)
(* got it yet, or never will.                                              *)
OnTheWay(m) == m \in Far /\ (<<m, "routed">> \in wire \/ subscriber = "ended")

ShownOrAhead ==
    \A m \in Messages : task[m] = "done" =>
        Shown(<<m, "routed">>) \/ Ahead(<<m, "routed">>) \/ OnTheWay(m)

-----------------------------------------------------------------------------

(* Appending a page leaves the pages before it as they are. *)
LEMMA AppendPage ==
    ASSUME NEW ps \in Seq(Seq(Rows)), NEW p \in Seq(Rows)
    PROVE  LET qs == Append(ps, p)
           IN  /\ qs \in Seq(Seq(Rows))
               /\ DOMAIN qs = 1 .. Len(ps) + 1
               /\ Len(qs) = Len(ps) + 1
               /\ \A i \in 1 .. Len(ps) : qs[i] = ps[i]
               /\ qs[Len(ps) + 1] = p
OBVIOUS

(* A page has the rows it was selected from, newest first, and nothing     *)
(* that is left out is newer than a row of it; it is empty only if there   *)
(* is nothing to select.                                                   *)
LEMMA SelectedPage ==
    ASSUME TypeOK, NEW limit \in Limits,
           NEW p \in Selected(Matching, page_limit(limit))
    PROVE  /\ p \in Seq(Rows)
           /\ Len(p) \in 0 .. MaxLimit
           /\ DOMAIN p = 1 .. Len(p)
           /\ Range(p) \subseteq Matching
           /\ Matching \subseteq stored
           /\ IsInjective(p)
           /\ \A x, y \in DOMAIN p : x < y => stamp[p[x]] >= stamp[p[y]]
           /\ \A x \in DOMAIN p, r \in Matching \ Range(p) :
                 stamp[p[x]] >= stamp[r]
           /\ p = <<>> => Matching = {}
<1> DEFINE n == page_limit(limit)
           k == AtMost(Cardinality(Matching), n)
<1>1. n \in 1 .. MaxLimit
  BY LimitsAssumption DEF page_limit, AtMost
<1>2. Matching \subseteq stored /\ Matching \subseteq Rows
  BY DEF Matching, TypeOK
<1>3. IsFiniteSet(Matching)
  <2>1. IsFiniteSet({"rest", "routed"})
    <3>1. IsFiniteSet({"rest"})  BY FS_Singleton
    <3>2. IsFiniteSet({"rest"} \cup {"routed"})  BY <3>1, FS_AddElement
    <3>3. {"rest"} \cup {"routed"} = {"rest", "routed"}  OBVIOUS
    <3> QED  BY <3>2, <3>3
  <2>2. IsFiniteSet(Rows)
    BY <2>1, FiniteAssumption, FS_Product DEF Rows
  <2> QED  BY <1>2, <2>2, FS_Subset
<1>4. Cardinality(Matching) \in Nat /\ (Cardinality(Matching) = 0 <=> Matching = {})
  BY <1>3, FS_CardinalityType, FS_EmptySet
<1>5. k \in 0 .. MaxLimit /\ (k = 0 => Cardinality(Matching) = 0)
  <2> HIDE DEF n
  <2> QED  BY <1>1, <1>4, LimitsAssumption DEF AtMost
<1>6. /\ p \in [1 .. k -> Matching]
      /\ IsInjective(p)
      /\ \A x, y \in DOMAIN p : x < y => stamp[p[x]] >= stamp[p[y]]
      /\ \A x \in DOMAIN p : \A r \in Matching \ Range(p) : stamp[p[x]] >= stamp[r]
  BY DEF Selected
<1> HIDE DEF n, k
<1>7. p \in Seq(Rows) /\ Len(p) = k /\ DOMAIN p = 1 .. k
  <2>1. p \in [1 .. k -> Rows]  BY <1>2, <1>6
  <2>2. k \in Nat  BY <1>5
  <2> QED  BY <2>1, <2>2
<1>8. Range(p) \subseteq Matching  BY <1>6, <1>7 DEF Range
<1>9. p = <<>> => Matching = {}
  <2>1. p = <<>> => Len(p) = 0  OBVIOUS
  <2> QED  BY <2>1, <1>4, <1>5, <1>7
<1> QED  BY <1>2, <1>5, <1>6, <1>7, <1>8, <1>9

(* Pages are found under their numbers, and their rows in the table. *)
LEMMA PageRows ==
    ASSUME TypeOK, NEW i \in DOMAIN pages
    PROVE  /\ DOMAIN pages = 1 .. Len(pages)
           /\ pages[i] \in Seq(Rows)
           /\ DOMAIN pages[i] = 1 .. Len(pages[i])
           /\ Len(pages[i]) \in Nat \ {0}
           /\ \A x \in DOMAIN pages[i] :
                 pages[i][x] \in stored /\ pages[i][x] \in Rows
           /\ Cursor(pages[i]) = pages[i][Len(pages[i])]
           /\ Cursor(pages[i]) \in stored
<1>1. pages \in Seq(Seq(Rows)) /\ DOMAIN pages = 1 .. Len(pages)
  BY DEF TypeOK
<1>2. pages[i] \in Seq(Rows)  BY <1>1
<1>3. DOMAIN pages[i] = 1 .. Len(pages[i]) /\ Len(pages[i]) \in Nat  BY <1>2
<1>4. Len(pages[i]) # 0  BY LimitsAssumption DEF TypeOK
<1>5. \A x \in DOMAIN pages[i] : pages[i][x] \in stored
  BY DEF TypeOK, Range
<1>6. Cursor(pages[i]) = pages[i][Len(pages[i])]  BY DEF Cursor, Last
<1>7. Len(pages[i]) \in DOMAIN pages[i]  BY <1>3, <1>4
<1> QED  BY <1>1, <1>2, <1>3, <1>4, <1>5, <1>6, <1>7 DEF TypeOK

-----------------------------------------------------------------------------
(* Types, and what is stored when. *)

(* The created_at of a row that can be read does not change. *)
LEMMA StampKept ==
    ASSUME Typed, [Next]_vars, NEW r \in stored
    PROVE  stamp'[r] = stamp[r] /\ r \in stored'
<1>1. stamp \in [Rows -> 0 .. now] /\ r \in Rows  BY DEF Typed, TypeOK
<1>2. CASE \E m \in Messages : Submit(m)
  <2> PICK m \in Messages : Submit(m)  BY <1>2
  <2>1. r # <<m, "rest">> /\ r # <<m, "routed">>
    BY DEF Submit, Typed, StoredInTime
  <2> QED  BY <1>1, <2>1 DEF Submit
<1>3. CASE \E m \in Messages : Route(m)
  <2> PICK m \in Messages : Route(m)  BY <1>3
  <2>1. r # <<m, "routed">>  BY DEF Route, Typed, StoredInTime
  <2> QED  BY <1>1, <2>1 DEF Route
<1>4. CASE \E m \in Messages : insert_message(m) \/ InsertErr(m)
  BY <1>4 DEF insert_message, InsertErr
<1>5. CASE \E m \in Messages : Deliver(m) \/ publish_event(m) \/ PassOver(m) \/ LookupErr(m)
  BY <1>5 DEF Deliver, publish_event, PassOver, LookupErr
<1>6. CASE Tick \/ Open \/ Ready \/ (\E limit \in Limits : list_messages(limit))
  BY <1>6 DEF Tick, Open, Ready, list_messages, sending
<1>7. CASE SubscriberEnds \/ \E row \in Rows : handle_cross_node_event(row)
  BY <1>7 DEF SubscriberEnds, handle_cross_node_event, sending
<1>8. CASE UNCHANGED vars  BY <1>8 DEF vars, sending
<1> QED  BY <1>2, <1>3, <1>4, <1>5, <1>6, <1>7, <1>8 DEF Next

LEMMA TypedInit == Init => Typed
BY BoundsAssumption
DEF Init, Typed, TypeOK, StoredInTime, NoPagesYet, Rows, Steps

(* The rows of a message. *)
LEMMA RowType ==
    ASSUME NEW m \in Messages
    PROVE  Row(m) \in Rows /\ <<m, "rest">> \in Rows /\ <<m, "routed">> \in Rows
BY DEF Row, Rows

(* An insert that succeeds, or fails after the commit, keeps the types. *)
LEMMA TypedInsert ==
    ASSUME Typed, NEW m \in Messages, insert_message(m) \/ InsertErr(m)
    PROVE  Typed'
<1>1. /\ task[m] \in {"insert_rest", "insert_routed"}
      /\ stored' \in {stored, stored \cup {Row(m)}}
      /\ UNCHANGED <<now, stamp, reader, pages, live, wire, subscriber>>
  BY DEF insert_message, InsertErr, walk, redis
<1>2. task' \in [Messages -> Steps]
      /\ \A n \in Messages : n # m => task'[n] = task[n]
  BY DEF insert_message, InsertErr, Goto, Typed, TypeOK, Steps
<1>3. stored \subseteq stored' /\ stored' \subseteq Rows
  BY <1>1, RowType DEF Typed, TypeOK
<1>4. TypeOK'
  <2>1. \A i \in DOMAIN pages :
           Len(pages[i]) \in 1 .. MaxLimit /\ Range(pages[i]) \subseteq stored'
    BY <1>3 DEF Typed, TypeOK
  <2>2. live \subseteq stored' /\ wire \subseteq stored'  BY <1>3 DEF Typed, TypeOK
  <2> QED  BY <1>1, <1>2, <1>3, <2>1, <2>2 DEF Typed, TypeOK
<1>5. StoredInTime'
  <2> SUFFICES ASSUME NEW n \in Messages
               PROVE  /\ task'[n] = "unsent" => <<n, "rest">> \notin stored'
                      /\ task'[n] \in {"unsent", "insert_rest", "route"}
                            => <<n, "routed">> \notin stored'
                      /\ task'[n] \in {"fanout", "done"} => <<n, "routed">> \in stored'
    BY DEF StoredInTime
  <2>1. CASE n # m
    <3>1. Row(m) # <<n, "rest">> /\ Row(m) # <<n, "routed">>  BY <2>1 DEF Row
    <3> QED  BY <1>1, <1>2, <2>1, <3>1 DEF Typed, StoredInTime
  <2>2. CASE n = m /\ insert_message(m)
    <3>1. CASE task[m] = "insert_rest"
      <4>1. task'[m] = "route" /\ stored' = stored \cup {<<m, "rest">>}
        BY <2>2, <3>1 DEF insert_message, Goto, Row, Typed, TypeOK
      <4> QED  BY <2>2, <3>1, <4>1 DEF Typed, StoredInTime
    <3>2. CASE task[m] = "insert_routed"
      <4>1. task'[m] = "fanout" /\ stored' = stored \cup {<<m, "routed">>}
        BY <2>2, <3>2 DEF insert_message, Goto, Row, Typed, TypeOK
      <4> QED  BY <2>2, <4>1
    <3> QED  BY <1>1, <3>1, <3>2
  <2>3. CASE n = m /\ InsertErr(m)
    <3>1. task'[m] = "failed"  BY <2>3 DEF InsertErr, Goto, Typed, TypeOK
    <3> QED  BY <2>3, <3>1
  <2> QED  BY <2>1, <2>2, <2>3
<1>6. NoPagesYet'  BY <1>1 DEF Typed, NoPagesYet
<1> QED  BY <1>4, <1>5, <1>6 DEF Typed

(* A page that list_messages returns is one more page of rows. *)
LEMMA TypedList ==
    ASSUME Typed, NEW limit \in Limits, list_messages(limit)
    PROVE  Typed'
<1> PICK p \in Selected(Matching, page_limit(limit)) :
        IF p = <<>> THEN reader' = "walked" /\ UNCHANGED pages
        ELSE pages' = Append(pages, p) /\ UNCHANGED reader
  BY DEF list_messages
<1>1. UNCHANGED <<now, stamp, stored, task, live, wire, subscriber>> /\ reader = "walking"
  BY DEF list_messages, sending, redis
<1>2. /\ p \in Seq(Rows)
      /\ Len(p) \in 0 .. MaxLimit
      /\ Range(p) \subseteq stored
  BY SelectedPage DEF Typed
<1>3. CASE p = <<>>
  BY <1>1, <1>3 DEF Typed, TypeOK, StoredInTime, NoPagesYet
<1>4. CASE p # <<>>
  <2>1. pages \in Seq(Seq(Rows))  BY DEF Typed, TypeOK
  <2>2. pages' = Append(pages, p) /\ reader' = reader  BY <1>4
  <2>3. Len(p) \in 1 .. MaxLimit
    <3>1. Len(p) # 0  BY <1>2, <1>4
    <3> QED  BY <1>2, <3>1
  <2>4. /\ pages' \in Seq(Seq(Rows))
        /\ DOMAIN pages' = 1 .. Len(pages) + 1
        /\ \A i \in 1 .. Len(pages) : pages'[i] = pages[i]
        /\ pages'[Len(pages) + 1] = p
    BY <1>2, <2>1, <2>2, AppendPage
  <2>5. Len(pages) \in Nat /\ DOMAIN pages = 1 .. Len(pages)  BY <2>1
  <2>6. ASSUME NEW i \in DOMAIN pages'
        PROVE  Len(pages'[i]) \in 1 .. MaxLimit /\ Range(pages'[i]) \subseteq stored
    <3>1. CASE i = Len(pages) + 1  BY <1>2, <2>3, <2>4, <3>1
    <3>2. CASE i \in 1 .. Len(pages)
      <4>1. Len(pages[i]) \in 1 .. MaxLimit /\ Range(pages[i]) \subseteq stored
        BY <2>5, <3>2 DEF Typed, TypeOK
      <4> QED  BY <2>4, <3>2, <4>1
    <3> QED  BY <2>4, <2>5, <2>6, <3>1, <3>2
  <2>7. TypeOK'
    BY <1>1, <2>2, <2>4, <2>6 DEF Typed, TypeOK
  <2> QED  BY <1>1, <2>2, <2>7 DEF Typed, StoredInTime, NoPagesYet
<1> QED  BY <1>3, <1>4

LEMMA TypedNext == Typed /\ [Next]_vars => Typed'
<1> SUFFICES ASSUME Typed, [Next]_vars PROVE Typed'  OBVIOUS
<1>1. CASE Tick
  <2>1. UNCHANGED <<stamp, stored, task, reader, pages, live, wire, subscriber>>
    BY <1>1 DEF Tick, walk, redis
  <2>2. now' \in 0 .. MaxTime /\ 0 .. now \subseteq 0 .. now'
    BY <1>1, BoundsAssumption DEF Tick, Typed, TypeOK
  <2>3. stamp' \in [Rows -> 0 .. now']  BY <2>1, <2>2 DEF Typed, TypeOK
  <2> QED  BY <2>1, <2>2, <2>3 DEF Typed, TypeOK, StoredInTime, NoPagesYet
<1>2. ASSUME NEW m \in Messages, Submit(m) PROVE Typed'
  <2>1. /\ task[m] = "unsent"
        /\ UNCHANGED <<now, stored, reader, pages, live, wire, subscriber>>
    BY <1>2 DEF Submit, walk, redis
  <2>2. stamp' \in [Rows -> 0 .. now]
    <3>1. now \in 0 .. now /\ stamp \in [Rows -> 0 .. now]
      BY DEF Typed, TypeOK
    <3>2. PICK r \in Rows : stamp' = [stamp EXCEPT ![r] = now]
      BY <1>2, RowType DEF Submit
    <3> QED  BY <3>1, <3>2
  <2>3. task' \in [Messages -> Steps]
        /\ task'[m] \in {"insert_rest", "insert_routed"}
        /\ \A n \in Messages : n # m => task'[n] = task[n]
    BY <1>2 DEF Submit, Goto, Typed, TypeOK, Steps
  <2>4. StoredInTime'  BY <2>1, <2>3 DEF Typed, StoredInTime
  <2> QED  BY <2>1, <2>2, <2>3, <2>4 DEF Typed, TypeOK, NoPagesYet
<1>3. ASSUME NEW m \in Messages, insert_message(m) \/ InsertErr(m) PROVE Typed'
  BY <1>3, TypedInsert
<1>4. ASSUME NEW m \in Messages, Route(m) PROVE Typed'
  <2>1. /\ task[m] = "route"
        /\ UNCHANGED <<now, stored, reader, pages, live, wire, subscriber>>
    BY <1>4 DEF Route, walk, redis
  <2>2. stamp' \in [Rows -> 0 .. now]
    <3>1. now \in 0 .. now /\ stamp \in [Rows -> 0 .. now]
      BY DEF Typed, TypeOK
    <3>2. stamp' = [stamp EXCEPT ![<<m, "routed">>] = now]
      BY <1>4 DEF Route
    <3> QED  BY <3>1, <3>2
  <2>3. task' = [task EXCEPT ![m] = "insert_routed"]  BY <1>4 DEF Route, Goto
  <2>4. StoredInTime'  BY <2>1, <2>3 DEF Typed, TypeOK, StoredInTime
  <2>5. task' \in [Messages -> Steps]  BY <2>3 DEF Typed, TypeOK, Steps
  <2> QED  BY <2>1, <2>2, <2>4, <2>5 DEF Typed, TypeOK, NoPagesYet
<1>5. ASSUME NEW m \in Messages,
             Deliver(m) \/ publish_event(m) \/ PassOver(m) \/ LookupErr(m)
      PROVE  Typed'
  <2>1. /\ task[m] = "fanout"
        /\ UNCHANGED <<now, stamp, stored, reader, pages, subscriber>>
        /\ live' \in {live, live \cup {Row(m)}} /\ wire' \in {wire, wire \cup {Row(m)}}
    BY <1>5 DEF Deliver, publish_event, PassOver, LookupErr, published, walk, redis
  <2>2. \E end \in {"done", "passed", "failed"} : task' = [task EXCEPT ![m] = end]
    BY <1>5 DEF Deliver, publish_event, PassOver, LookupErr, Goto
  <2>3. StoredInTime'  BY <2>1, <2>2 DEF Typed, TypeOK, StoredInTime
  <2>4. Row(m) \in stored  BY <2>1 DEF Row, Typed, StoredInTime
  <2>5. live' \subseteq stored /\ wire' \subseteq stored  BY <2>1, <2>4 DEF Typed, TypeOK
  <2>6. task' \in [Messages -> Steps]  BY <2>2 DEF Typed, TypeOK, Steps
  <2> QED  BY <2>1, <2>3, <2>5, <2>6 DEF Typed, TypeOK, NoPagesYet
<1>6. CASE SubscriberEnds \/ \E row \in Rows : handle_cross_node_event(row)
  <2>1. /\ UNCHANGED <<now, stamp, stored, task, reader, pages>>
        /\ wire' \subseteq wire /\ live' \subseteq live \cup wire
        /\ subscriber' \in {"ended", subscriber}
    BY <1>6 DEF SubscriberEnds, handle_cross_node_event, sending, walk
  <2>2. live' \subseteq stored /\ wire' \subseteq stored /\ subscriber' \in {"listening", "ended"}
    BY <2>1 DEF Typed, TypeOK
  <2> QED  BY <2>1, <2>2 DEF Typed, TypeOK, StoredInTime, NoPagesYet
<1>7. CASE Open \/ Ready
  <2>1. /\ UNCHANGED <<now, stamp, stored, task, pages, live, wire, subscriber>>
        /\ reader \in {"away", "open"} /\ reader' \in {"open", "walking", "blind"}
    BY <1>7 DEF Open, Ready, sending, redis
  <2> QED  BY <2>1 DEF Typed, TypeOK, StoredInTime, NoPagesYet
<1>8. ASSUME NEW limit \in Limits, list_messages(limit) PROVE Typed'
  BY <1>8, TypedList
<1>9. CASE UNCHANGED vars
  <2>1. UNCHANGED <<now, stamp, stored, task, reader, pages, live, wire, subscriber>>
    BY <1>9 DEF vars, sending, walk, redis
  <2> QED  BY <2>1 DEF Typed, TypeOK, StoredInTime, NoPagesYet
<1> QED
  BY <1>1, <1>2, <1>3, <1>4, <1>5, <1>6, <1>7, <1>8, <1>9 DEF Next

(* Type correctness: pages hold stored rows, never more than the server's  *)
(* limit, and a session is only sent what is stored.                       *)
THEOREM HistoryTypeCorrect == Spec => []TypeOK
<1>1. Typed => TypeOK  BY DEF Typed
<1> QED  BY <1>1, TypedInit, TypedNext, PTL DEF Spec

-----------------------------------------------------------------------------
(* The order of the walk. *)

LEMMA WalkInit == Init => WalkInOrder /\ ShownOrAhead
BY DEF Init, WalkInOrder, ShownOrAhead

(* A step that adds no page leaves the walk in order. *)
LEMMA WalkKept ==
    ASSUME Typed, [Next]_vars, WalkInOrder, UNCHANGED pages
    PROVE  WalkInOrder'
<1>1. \A i \in DOMAIN pages : \A x \in DOMAIN pages[i] :
         stamp'[pages[i][x]] = stamp[pages[i][x]]
  BY StampKept, PageRows DEF Typed
<1> QED  BY <1>1 DEF WalkInOrder

(* The rows of a further page are older than every row shown so far. *)
LEMMA MatchingIsOlder ==
    ASSUME Typed, WalkInOrder, NEW r \in Matching,
           NEW i \in DOMAIN pages, NEW x \in DOMAIN pages[i]
    PROVE  stamp[pages[i][x]] > stamp[r]
<1> DEFINE l == Len(pages)
<1>1. DOMAIN pages = 1 .. l /\ l \in Nat
  BY PageRows DEF Typed, TypeOK
<1>2. l \in DOMAIN pages /\ i <= l  BY <1>1
<1>3. pages # <<>>  BY <1>2
<1> DEFINE last == pages[l]
           n == Len(last)
<1>4. Last(pages) = last  BY DEF Last
<1>5. /\ DOMAIN last = 1 .. n
      /\ n \in Nat \ {0}
      /\ Cursor(last) = last[n]
      /\ last[n] \in Rows
  BY <1>2, PageRows DEF Typed
<1>6. n \in DOMAIN last  BY <1>5
<1>7. r \in stored /\ stamp[r] < stamp[last[n]]
  BY <1>3, <1>4, <1>5 DEF Matching, older
<1>8. r \in Rows /\ pages[i][x] \in Rows
  BY <1>7, PageRows DEF Typed, TypeOK
<1>9. stamp[r] \in Int /\ stamp[last[n]] \in Int /\ stamp[pages[i][x]] \in Int
  BY <1>5, <1>8 DEF Typed, TypeOK
<1>10. stamp[pages[i][x]] >= stamp[last[n]]
  <2>1. CASE i = l /\ x = n  BY <1>9, <2>1
  <2>2. CASE i = l /\ x # n
    <3>1. x < n  BY <1>5, <2>2
    <3> QED  BY <1>2, <1>6, <2>2, <3>1 DEF WalkInOrder
  <2>3. CASE i # l
    <3>1. i < l  BY <1>1, <1>2, <2>3
    <3>2. stamp[pages[i][x]] > stamp[pages[l][n]]
      BY <1>2, <1>6, <3>1 DEF WalkInOrder
    <3> QED  BY <1>9, <3>2
  <2> QED  BY <2>1, <2>2, <2>3
<1> QED  BY <1>7, <1>9, <1>10

LEMMA WalkList ==
    ASSUME Typed, WalkInOrder, NEW limit \in Limits, list_messages(limit)
    PROVE  WalkInOrder'
<1> PICK p \in Selected(Matching, page_limit(limit)) :
        IF p = <<>> THEN reader' = "walked" /\ UNCHANGED pages
        ELSE pages' = Append(pages, p) /\ UNCHANGED reader
  BY DEF list_messages
<1>1. stamp' = stamp  BY DEF list_messages, sending
<1>2. /\ p \in Seq(Rows)
      /\ Range(p) \subseteq Matching
      /\ IsInjective(p)
      /\ \A x, y \in DOMAIN p : x < y => stamp[p[x]] >= stamp[p[y]]
  BY SelectedPage DEF Typed
<1>3. CASE p = <<>>  BY <1>1, <1>3 DEF WalkInOrder
<1>4. CASE p # <<>>
  <2>1. pages \in Seq(Seq(Rows)) /\ Len(pages) \in Nat
        /\ DOMAIN pages = 1 .. Len(pages)
    BY DEF Typed, TypeOK
  <2>2. /\ DOMAIN pages' = 1 .. Len(pages) + 1
        /\ \A i \in 1 .. Len(pages) : pages'[i] = pages[i]
        /\ pages'[Len(pages) + 1] = p
    <3>1. pages' = Append(pages, p)  BY <1>4
    <3> QED  BY <1>2, <2>1, <3>1, AppendPage
  <2>3. ASSUME NEW i \in DOMAIN pages'
        PROVE  /\ IsInjective(pages'[i])
               /\ \A x, y \in DOMAIN pages'[i] :
                     x < y => stamp[pages'[i][x]] >= stamp[pages'[i][y]]
    <3>1. CASE i = Len(pages) + 1  BY <1>2, <2>2, <3>1
    <3>2. CASE i \in 1 .. Len(pages)
      BY <2>1, <2>2, <3>2 DEF WalkInOrder
    <3> QED  BY <2>1, <2>2, <2>3, <3>1, <3>2
  <2>4. ASSUME NEW i \in DOMAIN pages', NEW j \in DOMAIN pages', i < j,
               NEW x \in DOMAIN pages'[i], NEW y \in DOMAIN pages'[j]
        PROVE  stamp[pages'[i][x]] > stamp[pages'[j][y]]
    <3>1. i \in 1 .. Len(pages) /\ pages'[i] = pages[i]
      BY <2>1, <2>2, <2>4
    <3>2. CASE j = Len(pages) + 1
      <4>1. p[y] \in Matching  BY <1>2, <2>2, <3>2 DEF Range
      <4> QED  BY <2>1, <2>2, <3>1, <3>2, <4>1, MatchingIsOlder
    <3>3. CASE j \in 1 .. Len(pages)
      <4>1. pages'[j] = pages[j]  BY <2>2, <3>3
      <4> QED  BY <2>1, <2>4, <3>1, <3>3, <4>1 DEF WalkInOrder
    <3> QED  BY <2>1, <2>2, <3>2, <3>3
  <2> QED  BY <1>1, <2>3, <2>4 DEF WalkInOrder
<1> QED  BY <1>3, <1>4

LEMMA WalkNext == Typed /\ WalkInOrder /\ [Next]_vars => WalkInOrder'
<1> SUFFICES ASSUME Typed, WalkInOrder, [Next]_vars PROVE WalkInOrder'
  OBVIOUS
<1>1. CASE \E limit \in Limits : list_messages(limit)  BY <1>1, WalkList
<1>2. CASE ~\E limit \in Limits : list_messages(limit)
  <2>1. UNCHANGED pages
    BY <1>2 DEF Next, vars, Tick, Submit, insert_message, InsertErr, Route,
                Deliver, publish_event, PassOver, LookupErr, SubscriberEnds,
                handle_cross_node_event, Open, Ready, walk
  <2> QED  BY <2>1, WalkKept
<1> QED  BY <1>1, <1>2

(* The pages a client walks through show every row once, newest first. *)
THEOREM HistoryWalkInOrder == Spec => []WalkInOrder
<1> DEFINE I == Typed /\ WalkInOrder
<1>1. Init => I  BY TypedInit, WalkInit
<1>2. I /\ [Next]_vars => I'  BY TypedNext, WalkNext
<1> QED  BY <1>1, <1>2, PTL DEF Spec

-----------------------------------------------------------------------------
(* Nothing is missed. *)

(* A step that adds no page and does not end the walk, for a row that was  *)
(* known or ahead before.                                                  *)
LEMMA ShownKept ==
    ASSUME Typed, [Next]_vars, UNCHANGED pages, live \subseteq live',
           reader # "walked" => reader' # "walked",
           NEW r \in stored, Shown(r) \/ Ahead(r)
    PROVE  Shown(r)' \/ Ahead(r)'
<1>1. stamp'[r] = stamp[r]  BY StampKept
<1>2. \A c \in Cursors : stamp'[c] = stamp[c]
  BY StampKept, PageRows DEF Typed, Cursors
<1>3. Cursors' = Cursors  BY DEF Cursors
<1>4. CASE Shown(r)  BY <1>1, <1>2, <1>3, <1>4 DEF Shown
<1>5. CASE Ahead(r)
  <2>1. CASE pages = <<>>  BY <1>5, <2>1 DEF Ahead
  <2>2. CASE pages # <<>>
    <3>1. Len(pages) \in DOMAIN pages
      BY <2>2 DEF Typed, TypeOK
    <3>2. Cursor(Last(pages)) \in stored
      BY <3>1, PageRows DEF Typed, Last
    <3>3. stamp'[Cursor(Last(pages))] = stamp[Cursor(Last(pages))]
      BY <3>2, StampKept
    <3>4. Cursor(Last(pages))' = Cursor(Last(pages))  BY DEF Cursor, Last
    <3> QED  BY <1>1, <1>5, <2>2, <3>3, <3>4 DEF Ahead
  <2> QED  BY <2>1, <2>2
<1> QED  BY <1>4, <1>5

(* A page shows what it holds; what it leaves out is still ahead, or has   *)
(* the created_at of the page's last row.                                  *)
LEMMA ShownList ==
    ASSUME Typed, NEW limit \in Limits, list_messages(limit),
           NEW r \in stored, Shown(r) \/ Ahead(r)
    PROVE  Shown(r)' \/ Ahead(r)'
<1> PICK p \in Selected(Matching, page_limit(limit)) :
        IF p = <<>> THEN reader' = "walked" /\ UNCHANGED pages
        ELSE pages' = Append(pages, p) /\ UNCHANGED reader
  BY DEF list_messages
<1>1. UNCHANGED <<stamp, live>> /\ reader = "walking"  BY DEF list_messages, sending
<1>2. /\ p \in Seq(Rows)
      /\ DOMAIN p = 1 .. Len(p)
      /\ Range(p) \subseteq stored
      /\ \A x \in DOMAIN p, q \in Matching \ Range(p) : stamp[p[x]] >= stamp[q]
      /\ p = <<>> => Matching = {}
  BY SelectedPage DEF Typed
<1>3. Ahead(r) => r \in Matching  BY DEF Ahead, Matching, older
<1>4. CASE p = <<>>
  <2>1. Shown(r)  BY <1>2, <1>3, <1>4
  <2>2. pages' = pages  BY <1>4
  <2>3. Cursors' = Cursors  BY <2>2 DEF Cursors, Cursor, Last
  <2> QED  BY <1>1, <2>1, <2>2, <2>3 DEF Shown
<1>5. CASE p # <<>>
  <2> DEFINE l == Len(pages) + 1
  <2>1. pages \in Seq(Seq(Rows)) /\ Len(pages) \in Nat
        /\ DOMAIN pages = 1 .. Len(pages)
    BY DEF Typed, TypeOK
  <2>2. /\ DOMAIN pages' = 1 .. l
        /\ Len(pages') = l
        /\ \A i \in 1 .. Len(pages) : pages'[i] = pages[i]
        /\ pages'[l] = p
    <3>1. pages' = Append(pages, p)  BY <1>5
    <3> QED  BY <1>2, <2>1, <3>1, AppendPage
  <2>3. \A i \in DOMAIN pages : i \in DOMAIN pages' /\ pages'[i] = pages[i]
    BY <2>1, <2>2
  <2>4. l \in DOMAIN pages'  BY <2>1, <2>2
  <2>5. Cursors \subseteq Cursors' /\ Cursor(p) \in Cursors'
    BY <2>2, <2>3, <2>4 DEF Cursors, Cursor, Last
  <2>6. CASE Shown(r)  BY <1>1, <2>3, <2>5, <2>6 DEF Shown
  <2>7. CASE r \in Range(p)  BY <2>2, <2>4, <2>7 DEF Shown
  <2>8. CASE ~Shown(r) /\ r \notin Range(p)
    <3>1. r \in Matching \ Range(p) /\ reader' # "walked"
      BY <1>1, <1>3, <1>5, <2>8
    <3>2. Len(p) \in DOMAIN p /\ Cursor(p) = p[Len(p)]
      BY <1>2, <1>5 DEF Cursor, Last
    <3>3. Cursor(p) \in Range(p)  BY <3>2 DEF Range
    <3>4. stamp[Cursor(p)] >= stamp[r]  BY <1>2, <3>1, <3>2
    <3>5. stamp[Cursor(p)] \in Int /\ stamp[r] \in Int
      BY <1>2, <3>3 DEF Typed, TypeOK
    <3>6. CASE stamp[Cursor(p)] = stamp[r]
      <4>1. Cursor(p) # r  BY <3>1, <3>3
      <4> QED  BY <1>1, <2>5, <3>6, <4>1 DEF Shown
    <3>7. CASE stamp[r] < stamp[Cursor(p)]
      <4>1. Cursor(Last(pages))' = Cursor(p)  BY <2>2 DEF Cursor, Last
      <4> QED  BY <1>1, <3>1, <3>7, <4>1 DEF Ahead
    <3> QED  BY <3>4, <3>5, <3>6, <3>7
  <2> QED  BY <2>6, <2>7, <2>8
<1> QED  BY <1>4, <1>5

(* What was on its way still is, or has reached the client's node.         *)
LEMMA OnTheWayKept ==
    ASSUME Typed, [Next]_vars, NEW m \in Messages, OnTheWay(m)
    PROVE  \/ OnTheWay(m)' \/ Shown(<<m, "routed">>)' \/ Ahead(<<m, "routed">>)'
<1> DEFINE r == <<m, "routed">>
<1>1. CASE handle_cross_node_event(r)
  <2>1. CASE is_connected
    BY <1>1, <2>1 DEF handle_cross_node_event, Shown
  <2>2. CASE ~is_connected
    <3>1. reader' = "away" /\ pages' = <<>>
      BY <1>1, <2>2 DEF is_connected, handle_cross_node_event, walk, Typed, NoPagesYet
    <3> QED  BY <3>1 DEF Ahead
  <2> QED  BY <2>1, <2>2
<1>2. ASSUME NEW row \in Rows, row # r, handle_cross_node_event(row) PROVE OnTheWay(m)'
  BY <1>2 DEF handle_cross_node_event, OnTheWay
<1>3. CASE SubscriberEnds
  BY <1>3 DEF SubscriberEnds, OnTheWay
<1>4. ASSUME wire \subseteq wire', subscriber' = subscriber PROVE OnTheWay(m)'
  BY <1>4 DEF OnTheWay
<1>5. ASSUME NEW n \in Messages, publish_event(n) PROVE wire \subseteq wire' /\ subscriber' = subscriber
  BY <1>5 DEF publish_event, published
<1>6. ASSUME NEW n \in Messages,
             \/ Submit(n) \/ insert_message(n) \/ InsertErr(n) \/ Route(n)
             \/ Deliver(n) \/ PassOver(n) \/ LookupErr(n)
      PROVE  UNCHANGED <<wire, subscriber>>
  BY <1>6 DEF Submit, insert_message, InsertErr, Route, Deliver, PassOver, LookupErr, redis
<1>7. CASE Tick \/ Open \/ Ready \/ (\E limit \in Limits : list_messages(limit)) \/ UNCHANGED vars
  <2>1. UNCHANGED <<wire, subscriber>>
    BY <1>7 DEF Tick, Open, Ready, list_messages, vars, redis
  <2> QED  BY <1>4, <2>1
<1> QED  BY <1>1, <1>2, <1>3, <1>4, <1>5, <1>6, <1>7 DEF Next

LEMMA ShownNext == Typed /\ ShownOrAhead /\ [Next]_vars => ShownOrAhead'
<1> SUFFICES ASSUME Typed, ShownOrAhead, [Next]_vars,
                    NEW m \in Messages, task'[m] = "done"
             PROVE  Shown(<<m, "routed">>)' \/ Ahead(<<m, "routed">>)' \/ OnTheWay(m)'
  BY DEF ShownOrAhead
<1> DEFINE r == <<m, "routed">>
<1>1. CASE task[m] = "done"
  <2>1. r \in stored /\ (Shown(r) \/ Ahead(r) \/ OnTheWay(m))
    BY <1>1 DEF Typed, StoredInTime, ShownOrAhead
  <2>2. CASE OnTheWay(m)
    BY <2>2, OnTheWayKept
  <2>3. CASE (Shown(r) \/ Ahead(r)) /\ \E limit \in Limits : list_messages(limit)
    BY <2>1, <2>3, ShownList
  <2>4. CASE (Shown(r) \/ Ahead(r)) /\ ~\E limit \in Limits : list_messages(limit)
    <3>1. /\ UNCHANGED pages
          /\ live \subseteq live'
          /\ reader # "walked" => reader' # "walked"
      BY <2>4 DEF Next, vars, Tick, Submit, insert_message, InsertErr, Route,
                  Deliver, publish_event, PassOver, LookupErr, SubscriberEnds,
                  handle_cross_node_event, Open, Ready, walk
    <3> QED  BY <2>1, <2>4, <3>1, ShownKept
  <2> QED  BY <2>1, <2>2, <2>3, <2>4
<1>2. CASE task[m] # "done"
  <2>1. Deliver(m) \/ publish_event(m)
    <3>1. task' # task  BY <1>2
    <3>2. PICK n \in Messages : \/ Submit(n) \/ insert_message(n) \/ InsertErr(n)
                                \/ Route(n) \/ Deliver(n) \/ publish_event(n)
                                \/ PassOver(n) \/ LookupErr(n)
      BY <3>1 DEF Next, vars, Tick, Open, Ready, list_messages, SubscriberEnds,
                  handle_cross_node_event, sending
    <3>3. ~(Submit(n) \/ insert_message(n) \/ InsertErr(n) \/ Route(n)
            \/ PassOver(n) \/ LookupErr(n))
      BY <1>2 DEF Submit, insert_message, InsertErr, Route, PassOver, LookupErr, Goto,
                  Typed, TypeOK
    <3>4. n = m
      BY <1>2, <3>2, <3>3 DEF Deliver, publish_event, Goto, Typed, TypeOK
    <3> QED  BY <3>2, <3>3, <3>4
  <2>2. Row(m) = r  BY <2>1 DEF Deliver, publish_event, Row
  <2>3. CASE Deliver(m) /\ is_connected
    BY <2>2, <2>3 DEF Deliver, Shown
  <2>4. CASE Deliver(m) /\ ~is_connected
    <3>1. reader' = "away" /\ pages' = <<>>
      BY <2>4 DEF is_connected, Deliver, walk, Typed, NoPagesYet
    <3> QED  BY <3>1 DEF Ahead
  <2>5. CASE publish_event(m)
    <3>1. task' # [task EXCEPT ![m] = "failed"]  BY DEF Typed, TypeOK
    <3>2. m \in Far /\ wire' = published(m) /\ subscriber' = subscriber
      BY <2>5, <3>1 DEF publish_event, Goto
    <3> QED  BY <2>2, <3>2 DEF published, OnTheWay, Typed, TypeOK
  <2> QED  BY <2>1, <2>3, <2>4, <2>5
<1> QED  BY <1>1, <1>2

(* A client that has walked to the end knows of every message a handler    *)
(* has sent it or published for it, from the pages or from its session,    *)
(* unless the message has the created_at of one the walk continued from,   *)
(* or comes from another node and is still on its way, or the subscriber   *)
(* of the client's node has ended.                                         *)
THEOREM HistoryNothingMissed == Spec => []NothingMissed
<1> DEFINE I == Typed /\ ShownOrAhead
<1>1. Init => I  BY TypedInit, WalkInit
<1>2. I /\ [Next]_vars => I'  BY TypedNext, ShownNext
<1>3. I => NothingMissed
  BY DEF ShownOrAhead, NothingMissed, Shown, Ahead, OnTheWay
<1> QED  BY <1>1, <1>2, <1>3, PTL DEF Spec
=============================================================================
