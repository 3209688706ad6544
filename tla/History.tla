------------------------------ MODULE History ------------------------------
(***************************************************************************)
(* How a client that has just connected learns of a channel's messages:    *)
(* it walks back through list_messages of routes.rs, page by page, while   *)
(* handle_send of router/fanout.rs stores new messages and sends them to   *)
(* the sessions that are open.                                             *)
(*                                                                         *)
(* A row of the messages table is named by its message and by who stored   *)
(* it: "routed" by handle_send, "rest" by the send_message of routes.rs,   *)
(* which then calls handle_send and so stores the message again.           *)
(* created_at is DEFAULT now(), the time the insert began; the row can be  *)
(* read when it is committed, and inserts that overlap may be committed in *)
(* either order.                                                           *)
(*                                                                         *)
(* The client is on one node. The handler of a message of Far runs on      *)
(* another, which publishes it to Redis for the subscriber of the client's *)
(* node; that task may end, and nothing restarts it. Router has the same   *)
(* path with its buffers and its order. Once open, the session stays       *)
(* registered.                                                             *)
(*                                                                         *)
(* task[m] is where the handling of m stands:                              *)
(*   unsent                  not received yet                              *)
(*   insert_rest             send_message inserts the message              *)
(*   route                   send_message is about to call handle_send     *)
(*   insert_routed           handle_send inserts the message               *)
(*   fanout                  handle_send is to deliver it                  *)
(*   done                    the handler is through, and has sent it to    *)
(*                           the client's sessions or published it for     *)
(*                           the client                                    *)
(*   passed                  the handler is through, without the client    *)
(*   failed                  the handler has returned an error             *)
(* reader is where the client stands:                                      *)
(*   away, open              not connected; its session is registered      *)
(*   walking, walked         it has READY and asks for pages; it has all   *)
(*   blind                   READY came without guilds                     *)
(***************************************************************************)
EXTENDS SequencesExt

CONSTANTS Messages,   \* the messages of the channel, each sent once
          Rest,       \* those that come by REST
          Far,        \* those whose handler is not on the client's node
          Passes,     \* bound: those whose handler may pass the client over
          Fails,      \* bound: the messages for which calls may fail
          Limits,     \* the limits clients ask for
          MaxLimit,   \* the limit the server applies: 100
          MaxTime     \* bound: ticks of the database's clock

ASSUME FiniteAssumption == IsFiniteSet(Messages)
ASSUME LimitsAssumption == Limits \subseteq Nat \ {0} /\ MaxLimit \in Nat \ {0}
ASSUME BoundsAssumption == MaxTime \in Nat

VARIABLES now,      \* the database's clock
          stamp,    \* created_at of a row whose insert has begun
          stored,   \* the rows that can be read
          task,     \* see above
          reader,   \* see above
          pages,    \* the pages the client has got, each newest first
          live,     \* the rows the client's session was sent
          wire,     \* the rows on their way to the subscriber of the client's node
          subscriber  \* whether that task is "listening" or has "ended"

sending == <<now, stamp, stored, task>>
walk == <<reader, pages>>
redis == <<wire, subscriber>>
vars == <<sending, walk, live, redis>>

Rows == Messages \X {"rest", "routed"}

\* The row an insert in progress is about.
Row(m) == <<m, IF task[m] = "insert_rest" THEN "rest" ELSE "routed">>

Init ==
    /\ now = 0
    /\ stamp = [r \in Rows |-> 0]
    /\ stored = {}
    /\ task = [m \in Messages |-> "unsent"]
    /\ reader = "away"
    /\ pages = <<>>
    /\ live = {}
    /\ wire = {}
    /\ subscriber = "listening"

Goto(m, step) == task' = [task EXCEPT ![m] = step]

Tick ==
    /\ now < MaxTime
    /\ now' = now + 1
    /\ UNCHANGED <<stamp, stored, task, walk, live, redis>>

-----------------------------------------------------------------------------
(* Sending a message. *)

\* send_message starts with its own insert, a SendMessage frame in handle_send.
Submit(m) ==
    LET by == IF m \in Rest THEN "rest" ELSE "routed"
    IN  /\ task[m] = "unsent"
        /\ stamp' = [stamp EXCEPT ![<<m, by>>] = now]
        /\ Goto(m, IF m \in Rest THEN "insert_rest" ELSE "insert_routed")
        /\ UNCHANGED <<now, stored, walk, live, redis>>

\* insert_message returns the row it has stored.
insert_message(m) ==
    /\ task[m] \in {"insert_rest", "insert_routed"}
    /\ stored' = stored \cup {Row(m)}
    /\ Goto(m, IF task[m] = "insert_rest" THEN "route" ELSE "fanout")
    /\ UNCHANGED <<now, stamp, walk, live, redis>>

\* It returns an error; the row is there if that came after the commit.
InsertErr(m) ==
    /\ m \in Fails
    /\ task[m] \in {"insert_rest", "insert_routed"}
    /\ stored' \in {stored, stored \cup {Row(m)}}
    /\ Goto(m, "failed")
    /\ UNCHANGED <<now, stamp, walk, live, redis>>

\* send_message calls handle_send, which inserts the message.
Route(m) ==
    /\ task[m] = "route"
    /\ stamp' = [stamp EXCEPT ![<<m, "routed">>] = now]
    /\ Goto(m, "insert_routed")
    /\ UNCHANGED <<now, stored, walk, live, redis>>

is_connected == reader # "away"

\* The lookup finds the client, and is_connected is asked on its own node: it is
\* sent the message, or is taken for a client of another node, for which no other
\* node has a session. A publish for the others that fails is an error of the call.
Deliver(m) ==
    /\ m \notin Far
    /\ task[m] = "fanout"
    /\ live' = IF is_connected THEN live \cup {Row(m)} ELSE live
    /\ \/ Goto(m, "done")
       \/ m \in Fails /\ Goto(m, "failed")
    /\ UNCHANGED <<now, stamp, stored, walk, redis>>

\* What Redis has for the subscriber after a publish.
published(m) == IF subscriber = "listening" THEN wire \cup {Row(m)} ELSE wire

\* The lookup finds the client on a node that has no session of its user: the
\* message is published. A publish that returns an error may have had its effect.
publish_event(m) ==
    /\ m \in Far
    /\ task[m] = "fanout"
    /\ \/ wire' = published(m) /\ Goto(m, "done")
       \/ m \in Fails /\ wire' \in {wire, published(m)} /\ Goto(m, "failed")
    /\ UNCHANGED <<now, stamp, stored, walk, live, subscriber>>

\* The cached list lacks the client, or the handler's node has another session of
\* its user, which alone is sent the message.
PassOver(m) ==
    /\ m \in Passes
    /\ task[m] = "fanout"
    /\ Goto(m, "passed")
    /\ UNCHANGED <<now, stamp, stored, walk, live, redis>>

LookupErr(m) ==
    /\ m \in Fails
    /\ task[m] = "fanout"
    /\ Goto(m, "failed")
    /\ UNCHANGED <<now, stamp, stored, walk, live, redis>>

\* The subscriber of the client's node sends what it gets to the user's sessions.
handle_cross_node_event(row) ==
    /\ row \in wire
    /\ wire' = wire \ {row}
    /\ live' = IF is_connected THEN live \cup {row} ELSE live
    /\ UNCHANGED <<sending, walk, subscriber>>

\* It falls behind its buffer, or loses its connection.
SubscriberEnds ==
    /\ subscriber = "listening"
    /\ subscriber' = "ended"
    /\ wire' = {}
    /\ UNCHANGED <<sending, walk, live>>

-----------------------------------------------------------------------------
(* The client connects and walks back through the channel. *)

\* handle_connection registers the session before it builds READY.
Open ==
    /\ reader = "away"
    /\ reader' = "open"
    /\ UNCHANGED <<sending, pages, live, redis>>

\* READY names the user's channels, or none when the query fails.
Ready ==
    /\ reader = "open"
    /\ reader' \in {"walking", "blind"}
    /\ UNCHANGED <<sending, pages, live, redis>>

\* Mutant: created_at <= that of the message to continue from.
older_or_same(r, before) == stamp[r] <= stamp[before]

\* created_at < (SELECT created_at FROM messages WHERE id = before)
older(r, before) == stamp[r] < stamp[before]

\* The client continues from the last message of the page it got last.
Cursor(page) == Last(page)

Matching ==
    IF pages = <<>> THEN stored
    ELSE {r \in stored : older(r, Cursor(Last(pages)))}

AtMost(x, bound) == IF x <= bound THEN x ELSE bound

\* Mutant: the limit of the request is applied as it is.
page_limit_unchecked(limit) == limit

page_limit(limit) == AtMost(limit, MaxLimit)

\* Mutant: ORDER BY created_at without DESC.
Selected_oldest(rows, n) ==
    {p \in [1 .. AtMost(Cardinality(rows), n) -> rows] :
        /\ IsInjective(p)
        /\ \A i, j \in DOMAIN p : i < j => stamp[p[i]] <= stamp[p[j]]
        /\ \A i \in DOMAIN p : \A r \in rows \ Range(p) : stamp[p[i]] <= stamp[r]}

\* ORDER BY created_at DESC LIMIT n: rows with one created_at may come in any
\* order.
Selected(rows, n) ==
    {p \in [1 .. AtMost(Cardinality(rows), n) -> rows] :
        /\ IsInjective(p)
        /\ \A i, j \in DOMAIN p : i < j => stamp[p[i]] >= stamp[p[j]]
        /\ \A i \in DOMAIN p : \A r \in rows \ Range(p) : stamp[p[i]] >= stamp[r]}

\* An empty page is the end.
list_messages(limit) ==
    /\ reader = "walking"
    /\ \E page \in Selected(Matching, page_limit(limit)) :
          IF page = <<>> THEN reader' = "walked" /\ UNCHANGED pages
          ELSE pages' = Append(pages, page) /\ UNCHANGED reader
    /\ UNCHANGED <<sending, live, redis>>

-----------------------------------------------------------------------------
Next ==
    \/ Tick
    \/ \E m \in Messages :
          \/ Submit(m) \/ insert_message(m) \/ InsertErr(m) \/ Route(m)
          \/ Deliver(m) \/ publish_event(m) \/ PassOver(m) \/ LookupErr(m)
    \/ \E row \in Rows : handle_cross_node_event(row)
    \/ SubscriberEnds
    \/ Open
    \/ Ready
    \/ \E limit \in Limits : list_messages(limit)

Spec == Init /\ [][Next]_vars

-----------------------------------------------------------------------------
Steps == {"unsent", "insert_rest", "route", "insert_routed", "fanout",
          "done", "passed", "failed"}

TypeOK ==
    /\ now \in 0 .. MaxTime
    /\ stamp \in [Rows -> 0 .. now]
    /\ stored \subseteq Rows
    /\ task \in [Messages -> Steps]
    /\ reader \in {"away", "open", "walking", "blind", "walked"}
    /\ pages \in Seq(Seq(Rows))
    /\ \A i \in DOMAIN pages :
          Len(pages[i]) \in 1 .. MaxLimit /\ Range(pages[i]) \subseteq stored
    /\ live \subseteq stored
    /\ wire \subseteq stored
    /\ subscriber \in {"listening", "ended"}

\* The walk through list_messages shows no row twice and goes from the newest
\* to the oldest, although rows are stored between two pages and become
\* readable in another order than their created_at.
WalkInOrder ==
    /\ \A i \in DOMAIN pages :
          /\ IsInjective(pages[i])
          /\ \A x, y \in DOMAIN pages[i] :
                x < y => stamp[pages[i][x]] >= stamp[pages[i][y]]
    /\ \A i, j \in DOMAIN pages : i < j =>
          \A x \in DOMAIN pages[i], y \in DOMAIN pages[j] :
              stamp[pages[i][x]] > stamp[pages[j][y]]

Cursors == {Cursor(pages[i]) : i \in DOMAIN pages}

\* A client that has walked to the end knows of every message that a handler has
\* sent it or published for it: it was in a page, or the session was sent it, or it
\* is still on its way over Redis. For handle_send stores a message before it looks
\* for sessions, handle_connection registers the session before it sends READY, and
\* the subscriber finds the session then as well. What it may miss are the messages
\* with the created_at of one the walk continued from, those of other nodes once the
\* subscriber of its node has ended, and those whose handler passes it over (its
\* task is never "done" here): the cached list lacks the client, or the handler's
\* node has another session of the user.
NothingMissed ==
    reader = "walked" =>
        \A m \in Messages : task[m] = "done" =>
            LET row == <<m, "routed">>
            IN  \/ row \in live
                \/ \E i \in DOMAIN pages : row \in Range(pages[i])
                \/ \E c \in Cursors : c # row /\ stamp[c] = stamp[row]
                \/ m \in Far /\ (row \in wire \/ subscriber = "ended")
=============================================================================
