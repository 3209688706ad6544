# TLA+ models of RustRelay

RustRelay is a chat gateway: clients hold a WebSocket to one of several gateway
nodes; the nodes share a PostgreSQL database and a Redis server. This directory
has TLA+ modules for the parts of it that keep state and run concurrently, TLC
configurations that check them on small instances, and TLAPS proofs of the main
invariants for every instance. `PROJECT.json` lists the runs, the source lines
behind each definition, the hazards, the findings and the theorems.

    tlc -workers 2 -config MCGateway.cfg MCGateway      # one run
    tlapm GatewayProofs.tla                             # one proof module

## The system

| component | source | state | operations |
|---|---|---|---|
| session registry | `gateway/session.rs` | `DashMap<UserId, Vec<Session>>`, connection counter | insert, remove, is_connected, send_to_user, find_stale_sessions |
| connection handler | `gateway/handler.rs` | one task per socket, one writer task, `last_heartbeat` | authenticate, register, READY, dispatch of client messages, cleanup |
| heartbeat monitor | `gateway/heartbeat.rs` | its list of stale sessions | scan, remove, offline |
| presence tracker | `presence/tracker.rs` | status per user, cancel handle per user, debounce tasks | on_session_open, on_all_sessions_closed, set_status |
| presence broadcaster | `presence/broadcast.rs` | channel, batch | broadcast, worker, flush_batch |
| Redis bridge | `router/redis_bridge.rs` | presence keys, pub/sub, the subscriber's bounded buffer | publish, set, remove, subscriber |
| message router | `router/fanout.rs`, `routes.rs` | the progress of each message | handle_send, send_message (REST), StartTyping, Heartbeat |
| REST history | `routes.rs`, `db.rs` | the messages table | list_messages, insert_message |
| member cache | `router/fanout.rs` | member list and `fetched_at` per channel | get_channel_members, invalidate, cleanup |
| read state cache | `readstate/cache.rs`, `db.rs`, `main.rs` | buffered marks, counter, flusher | update, drain, flush, flush_now |
| rate limiter | `ratelimit.rs` | token bucket per user | try_acquire (never called), cleanup |

Connection tasks and the monitor both end sessions: each calls
`SessionStore::remove`, asks `is_connected` and, if it says no, calls
`on_all_sessions_closed`, which spawns a timer. The tracker sends status changes
to the broadcaster, which tells local sessions and, over Redis, the other nodes.
A client's messages go through the router to local sessions and over Redis to
the others; acks go to the read state cache. What a client missed while it was
away it fetches by REST. All of this runs as tokio tasks on
several threads, and every method is a sequence of separately atomic DashMap,
atomic and channel operations. That is where the difficulty is: what happens
between two of these operations, timers racing reconnects, failed database and
Redis calls, and the shutdown.

What each component owes:

- the registry: a session leaves it only by its own removal, is taken out and
  uncounted once, and the counter never wraps;
- tracker, handler, monitor: nobody stays shown online after the last
  connection, nobody connected is shown offline, silent sessions go away;
- broadcaster: clients never see what a node says of a user go back, and see the
  last of it;
- router: each open session of a member gets each message once, in the order
  of the sender, as long as its node listens to Redis;
- REST history: a walk shows each row once and in order, and what is not in it the
  client has been sent, if the handler counted it among the recipients;
- rate limiter: no window of time has more requests than the bucket pays for;
- member cache: no list is used long after it was replaced;
- read states: no acknowledged mark is lost, the stored mark never moves back,
  and buffered marks are written.

## The modules

`RelayTypes` has the identifiers. A session id is a fresh uuid, so it is used by
one connection. Each task that acts on a session calls `remove` and
`on_all_sessions_closed` at most once for it: the pair <<task, session>> names
the call and the timer it spawns.

`SessionStore` — `session.rs`. One step per DashMap or atomic operation:
`insert` is `insert_push`, `insert_count`; `remove` is `remove_retain` (under the
shard lock), `remove_entry` (after the lock was released, if the Vec was empty)
and `remove_count`. `store_pc` says where each call stands. A Vec is a set: its
order only decides the order of sends to different sessions.

`PresenceTracker` — `tracker.rs`. The DashMap operations and the broadcast of each
method are separate steps; a debounce timer is a small state machine. `Notify`
keeps a permit, and `select!` may take the sleep branch although it was notified,
when both are ready. `session_count` is never read and left out.

`Gateway` composes the two: the life of each connection, `cleanup`, and the
monitor, which makes the same calls. Heartbeat time is abstracted to `fresh`: a
session in `Sleepers` may go silent at any time after on_session_open. Sending
fails or succeeds freely.

`ReadMarks` is the abstract promise of the read state cache: the stored mark of a
key only moves forward, to marks that were acknowledged. `ReadState` is the code:
`update` in two steps, `drain` key by key (DashMap iterates shard by shard) with
its reset of the counter, the flusher with chunks and re-buffering, and `flush_now`
followed by the exit of the process, which may come while the flusher is at work.
`upsert_ok` models what the SQL statement does: with more than one row
`ARRAY[now()]` is padded with NULLs that the column rejects. A failed statement
may have been committed.

`Broadcaster` — every node has a tracker and a worker, and each node a user has a
session on follows the user. The changes of a user on one node, their source, are
numbered in the order of the broadcast calls there, and a number stands for a status.
The module follows them through channel, batch, flush, Redis key, pub/sub and the
subscribers. `view[n][s][u]` is the last change of source s that the clients of n were
told. It implements `StatusFeed`, which has nothing but the calls and the views: of the
changes of a source, clients are shown ever later ones, and those of other nodes only
what the clients of the source have been shown. Between the changes of two sources
there is no order, neither in the code nor in what is claimed.

`Router` — a message is stored, the members are looked up, then each is checked
with `is_connected` and either sent to or put in `remote_targets`; these are
separate steps, between which sessions come and go. `got` is the content of each
session's channel. A REST message is stored by `send_message` first. Typing
indicators share the lookup and the delivery, and heartbeats are answered to all
sessions of the user on the node; both take their turn in the frames of a
connection, which its task handles one after the other. A call that returns an
error may have had its effect. `Router` implements `Delivery`, which has nothing but
the sessions and their channels: an event goes into the channel of an open session it
is for (`Reach`), once, and never behind a later one of its connection. `Before` names
the frames of the same connection, so a frame and those before it have one `Origin`.

In both, a node's subscriber reads from the bounded buffer that the Redis client
fills (`inbox`, at most `RxCapacity`). Where a message overruns it, `recv` returns an
error and the loop `while let Ok(..)` ends; it also ends when the connection is lost
for good (`SubscriberEnds`), as the client is built without a reconnect policy.
`listening` has the nodes whose loop still runs; pub/sub keeps nothing for the others.

`History` — how a client learns of messages: live, once its session is registered,
and by walking back through `list_messages`. A row's `created_at` is the time its
insert began and it is readable from its commit, so rows appear in another order
than they are listed. Rows with equal `created_at` come in any order. The client is on
one node. A message handled there is sent to its session; one handled on another node
(`Far`) is published for it, and reaches it through the subscriber of its node, which
may end. A handler may also pass the client over (`PassOver`), because the cached member
list lacks it or the handler's node has another session of the user. The session
stays registered once it is (leaving is in `Router`, being dropped in `SessionStore`).
Limits are positive. Deletions are not modelled; nothing calls them.

`TokenBucket` is what the doc comment of `RateLimiter` promises: a bucket per user
that is always there and fills all the time; and what the cleanup adds to it, that the
bucket of a user who has not asked for `Idle` ticks may be filled up (`TopUp`).
`RateLimiter` is the code: buckets are created at the first request, refilled only
when asked, and dropped by a cleanup that first computes its threshold and then visits
them one by one. Tokens are counted in the fraction one tick of the clock refills; the
rounding of `f64` is not modelled. Where `capacity <= 600 * refill_rate`, which the code
does not check, `TopUp` finds the bucket full.

`MemberCache` — one channel, a clock, and version numbers for member lists. The
answer of a query and its insert into the cache are separate steps.

`MC*` modules give the constants of an instance; definitions whose comment starts
with "Mutant" are deliberately wrong variants, used only to check that a property
notices the error.

## What is model-checked

Passing runs (the states are distinct states found):

| run | instance | properties |
|---|---|---|
| `MCGateway` | 2 sessions of a user, both may go silent, idle updates (2.3M) | `TypeOK`, `CounterBalances`, `StoredSessionsLive`, `TakenOnce`, `HandlesAreLive`, `StoredAreActive`, `NoGhostOnline`, `GoneMeansOffline` |
| `MCGatewayLive` | 2 sessions of a user, one may go silent (115k) | `AwayGoesOffline`, `SilentIsReaped` |
| `MCReadState` | 2 keys, 2 messages, 1 acker, failing database (1.2M) | `TypeOK`, `NoMarkLost`, `MarksSpec` |
| `MCReadStateRetry` | 1 key, 2 messages, 2 ackers, failing database (14k) | `CountedIsFlushed` |
| `MCBroadcaster` | 2 nodes, a user with one change on the first, a user with three on the first and one on the second, failures for the former, batches of 2, a buffer of 2, one subscriber may lose its connection (142k) | `TypeOK`, `PipelineInOrder`, `ViewNeverGoesBack`, `ImplementsFeed`, `LastStatusSeen` |
| `MCRouter` | 2 nodes, 3 sessions of 2 users, a heartbeat, a typing indicator and 2 messages of one connection and a REST message with failures, a buffer of 2, one subscriber may lose its connection (1.8M) | `TypeOK`, `NoDuplicate`, `SenderOrder`, `ReachesAudience`, `ImplementsDelivery` |
| `MCRateLimiter` | 1 user, 2 callers, a bucket of 2 tokens, half a token a tick, dropped after 3 ticks, 8 ticks, 6 grants (769k) | `TypeOK`, `WindowBound`, `BucketSpec` |
| `MCHistory` | a frame, a frame on another node and a REST message with failures, pages of at most 2, 3 ticks (4.2M) | `TypeOK`, `WalkInOrder`, `NothingMissed` |
| `MCMemberCache` | 2 callers, 2 changes, 6 ticks, time to live 2, latency 2 (242k) | `TypeOK`, `BoundedStaleness` |

`MarksSpec` says that the read state cache implements `ReadMarks`; `ImplementsFeed` and
`ImplementsDelivery` that the broadcaster implements `StatusFeed` and the router
`Delivery`. In these three the variables have the same names on both sides, so the
refinement mapping is the identity. `BucketSpec` is `INSTANCE TokenBucket WITH
credit <- credit, idle <- idle`: the abstract bucket of a user holds what the next
request would find, the stored tokens refilled up to now, or a full bucket where there
is none, and `idle` is the time since the user's last answer. A step of the clock maps
to `Refill`, the drop of a bucket to `TopUp`, the rest of the cleanup to a stutter.

Why the bounds are enough: users, keys and channels do not interact, except in
the counter, a batch and a bulk statement, for which the instances have two. Two
sessions of one user are the least for the races between cleanup, reap and
reconnect: each has a cleanup and a reap, so an insert meets two removals. Three
changes are the least for one in the view, one in flight and one in the batch; the
user who has them on one node has a change on the other, too.
Two nodes suffice because a node treats all others alike. The constant `Fails` of
`Broadcaster`, `Router` and `History` names the users and messages for which database and Redis
calls may fail, so that one instance has both the failures and somebody the
failures of others must not harm; `Leavers` and `Lossy` name the sessions that may
disconnect and the nodes whose subscriber may lose its connection. A buffer of two
is overrun by a third message, which every instance has. Eight ticks let a bucket be
used, dropped after three and used again, twice; the capacity is more than three ticks
refill, so a drop gives tokens away and the bound of `WindowBound` is reached, and six
grants are what the drops allow. Three messages with four rows and pages of two make
walks of two pages and more with ties and with rows that become readable late; each of
the three comes to the client in another way. Deadlock is not checked:
sessions and messages are used up, so every instance comes to rest.

Runs that show where the code and what it says of itself differ, each with the
line it contradicts in `PROJECT.json`:

- `MCGatewayDrop` — `remove` releases the lock before it removes the emptied entry.
  A session inserted in between is dropped with it: the client stays connected and
  receives nothing.
- `MCGatewayDebounce` — a reconnect between `is_connected` and
  `on_all_sessions_closed` finds no timer to cancel; five seconds later a connected
  user is shown offline.
- `MCRouterLag` — one message more than the subscriber's buffer holds, and its task
  ends: the node gets nothing of what the others publish until it is restarted.

Other differences met while modelling, which are plain in the code once seen and
have no run:

- `db.rs:223` unnests three arrays of n elements next to `ARRAY[now()]`; from the
  second row on the timestamp is NULL, which `read_states.updated_at` rejects. So no
  batch of two or more rows is ever written: it is put back and tried again. The
  model has this (`upsert_ok`), and `CountedIsFlushed` is checked for one key.
- an ack of a channel that does not exist violates a foreign key of `read_states` at
  every attempt, so its chunk is put back for ever. Rows are valid in the model.
- `cache.rs:66` compares message ids, which are random uuids, so the "later" mark may
  be that of an older message.
- after `MCGatewayDrop`'s race the counter stays one too high for ever, since the
  dropped session's own `remove` finds nothing (`CounterBalances` says what the
  counter does count).
- only the writer task of a reaped session ends (`WriterStops`); the connection task
  goes on in its reader loop, unlike `heartbeat.rs:52-56` says.
- `tracker.rs:46-64` changes the map and broadcasts in two steps, as the timer does. So
  the offline broadcast of a timer may follow the online broadcast of a reconnect:
  a connected user's last broadcast is "offline". `NoGhostOnline` and
  `GoneMeansOffline` speak of the other direction.
- `cache.rs:89` sets the counter to 0 at the end of `drain`. A mark that was buffered
  during it is in the buffer but not counted, and the flusher, which looks at the
  counter (`cache.rs:129`), leaves it there until some other ack comes. So
  `CountedIsFlushed` speaks of counted marks.
- at shutdown `main.rs:211` flushes what is in the buffer. A batch in the hands of the
  flusher, or of `flush_now` itself when its upsert fails, is lost with the process,
  unlike `cache.rs:168-169` says. So `NoMarkLost` speaks of the time before the exit.
- `fanout.rs:97` takes a user with a session on the sender's node as local: sessions of
  the same user on other nodes get nothing, unlike `fanout.rs:15-17` says. `ReachesAudience`
  excludes them by `Split`, which is wider: it has every user who has ever had a session on
  the sender's node. `History` has them as `PassOver`. Typing indicators never leave the
  node (`handler.rs:243`).
- each node's tracker knows its own sessions only, so a user connected to two nodes is
  announced offline when the last session on one of them ends. And the two announce the
  user through batches of their own (`broadcast.rs:91`): of a user who moves, the older
  "offline" of the first node may come after the newer "online" of the second, and the
  clients of the two nodes may end with different statuses. The properties of
  `Broadcaster` therefore speak of each source by itself.
- `routes.rs:169` stores a REST message, and `handle_send` stores it again. The walk
  through the history has both rows, and the id in the REST reply is that of the row
  which is never announced live.
- `routes.rs:121` continues a walk with rows older than the last one shown, so rows
  with the same `created_at` that did not fit on the page are skipped. `NothingMissed`
  excepts them, and the other two ways to miss a message: it was published to a
  subscriber that has ended, or its handler passed the client over.
- a bucket is dropped after 600 s and comes back full. Where `capacity` is more than 600
  times `refill_rate`, its user gets more than the doc comment of `RateLimiter` says: a full
  bucket in every 600 s, which `WindowBound` counts (`Gain`).
- READY has no guilds when their query fails (`handler.rs:163-165`), so the client
  cannot ask for any channel (`blind` in `History`).
- the answer to a heartbeat goes to all sessions of the user (`handler.rs:227-229`).
- the migrations are given up after five attempts (`main.rs:66`), and the server goes
  on without tables.
- a member query answered before `invalidate_channel_cache` puts its list in the
  cache after it (`BoundedStaleness` bounds for how long it is used), and nothing
  calls `invalidate_channel_cache`.

The passing properties are stated so that they hold next to these: a session lost
to `MCGatewayDrop` is still "taken once" and still balanced in the counter's
own terms, `CountedIsFlushed` speaks of single-row chunks of valid rows and counted
marks, and `ReachesAudience` excludes users on another node who have been on the
sender's, and nodes that no longer listen. Those they exclude they do not catch.

### Fairness

Weak fairness of each step a task takes by itself stands for the tokio runtime,
which polls ready tasks again and again, and whose timers elapse. Nothing is
assumed of clients: they need not send, close or authenticate.
`RetrySpec` adds strong fairness of a successful upsert: a database that is tried
for ever answers in the end. `LastStatusSeen` speaks of users whose lookups and
Redis commands do not fail, because a failed one drops an update for good, and of
nodes whose subscriber has not ended, because none is started again.

## What is proved

TLAPS proves, for all users, sessions, owners, keys, messages, callers and
parameters within the assumptions named in the modules (`Owner` maps sessions to
users, finitely many sessions, users, keys and messages, message ids are positive, the
time to live and the idle time are positive and so on):

- `SessionStoreProofs`: `StoreTypeCorrect`, `StoreCounterBalances`, `StoreTakesOnce`,
  `StoreSessionsLive`.
  The counter equals the number of inserted sessions that no removal has found.
  The inductive invariant `StoreInv` needs that a session about to be uncounted was
  counted (`ReapsFollowInsert`) and is uncounted by nobody else (`TakenOnce`), which
  rests on a taken session never being in the registry again
  (`StoredSessionsLive`). The cardinality step uses the library's finite set
  theorems.
- `GatewayProofs`: `GatewayStoreInvariant` (the gateway's actions are put together from
  the store's, so the store's invariants carry over), `GatewayTypeCorrect`, `GatewayHandlesAreLive`, `GatewayNoGhostOnline`,
  `GatewayGoneMeansOffline`, `GatewayStoredAreActive`. `NoGhostOnline` is the heart: a shown user is covered by
  a task with its cleanup still to do or by a timer that nobody cancelled. It is
  inductive together with `PcAgrees` (a task that sets a status is active),
  `StoredAreActive` (the session that makes `is_connected` true will get to its own
  cleanup) and `HandlesAreLive`.
- `ReadStateProofs`: `ReadTypeCorrect`, `ReadNoMarkLost`, `ReadImplementsMarks`.
  `NoMarkLost` is inductive with `HandsFree`: a drain overwrites no mark in the
  drainer's hands. The refinement of `ReadMarks` follows from it.
- `MemberCacheProofs`: `CacheTypeCorrect`, `CacheBoundedStaleness`. A served list
  was current less than `Ttl + Latency` ago, because a cached list was current at
  most `Latency` before its `fetched_at` (`EntryIsRecent`), which follows from the
  same for the calls in flight (`CallsAreRecent`).

- `RateLimiterProofs`: `LimiterTypeCorrect`, `LimiterImplementsBucket`,
  `LimiterWindowBound`, `LimiterRefillBound`. The refinement needs that the cleanup drops
  only buckets whose users have been idle (`RetainTopsUp`, from a threshold that is never
  ahead of the clock and `RefilledWhenAsked`), and that refilling in one step or in
  several comes to the same. `WindowBound` is inductive with `Paid`: what a user holds,
  plus what the requests from the i-th on took, is at most a full bucket plus what the
  time since the i-th brings, at `Gain` in every `Idle`; and the same without what the
  user holds at the time of the last answer, from which the idle time pays for a drop.
  Nothing is assumed of the capacity, the rate and the idle time. `LimiterRefillBound` has
  `Capacity <= Rate * Idle` as its hypothesis and gives the bound of the doc comment.
- `HistoryProofs`: `HistoryTypeCorrect`, `HistoryWalkInOrder`, `HistoryNothingMissed`.
  The strengthening `Typed` adds that a row is stored only by its own insert
  (`StoredInTime`), so its `created_at` no longer changes, and that nobody has
  pages before the walk (`NoPagesYet`). `NothingMissed` is inductive as `ShownOrAhead`:
  during the walk, a row whose handler is done was sent to the session, is on its way to
  it (`OnTheWay`: on the wire, or lost with the subscriber), is on a page, has the
  `created_at` of a cursor, or is older than the last cursor, so still to come.
- `BroadcasterProofs`: `BroadcasterTypeCorrect`, `BroadcasterPipelineInOrder`,
  `BroadcasterViewNeverGoesBack`, `BroadcasterImplementsFeed`, for users on any of the nodes.
  `PipelineInOrder` speaks of a source's own node; `BroadcasterInv` has the other
  nodes, too. What a node's channel holds has been sent by it, in the order of the calls
  (`ChangesAreSent`, `RxInOrder`); what the worker stores and publishes is what local
  clients have just been sent (`WorkerAgrees`); nobody is ahead of the source's clients
  (`SourceIsAhead`); and what a buffer holds of a source lies, in order, between what the
  clients of the two nodes have seen (`InboxInOrder`). `ViewStep` says from this what one
  step can show to whom; `ViewNeverGoesBack` and the refinement of `StatusFeed` follow
  from it.
- `RouterProofs`: `RouterTypeCorrect`, `RouterNoDuplicate`, `RouterSenderOrder`,
  `RouterReachesAudience`, `RouterImplementsDelivery`, from `RouterInv`. `NoDuplicate` needs
  that whoever has an event is passed over by its handler and, on another node, that
  the handler is through and the buffer does not have it (`NothingTwice`); this needs
  that a buffer has an event once, with the targets of a handler that is through
  (`PayloadsAgree`), and that handlers have done what they must for where they stand
  (`TaskAgrees`). `SenderOrder` needs in addition that a buffer has the frames of a
  connection in their order, and ahead of the channels it leads to (`BuffersInOrder`); the
  next frame's handling begins only after the one before is over. For
  `ReachesAudience`, an event is at each moment on its way to every session of its
  audience (`OnItsWay`): among the members to look at, being sent, in `remote_targets`,
  buffered, or there. The lemmas on what a step puts in a channel (`PutIsNew`,
  `PutIsLast`, `PutIsForIt`) are the guards of `Delivery`, and so give the refinement.

Every invariant, every action property and every refinement a passing run checks is the
statement of a theorem. Only model-checked are the liveness properties
(`AwayGoesOffline`, `SilentIsReaped`, `CountedIsFlushed`,
`LastStatusSeen`): the prover has no support for fairness.

## What is not modelled

- the contents of READY beyond whether it names the channels, and of the REST
  answers other than which rows they have in which order; login, stats and the list of
  channels, which are single queries or reads;
- `update_message` and `delete_message`, which
  nothing calls; the rounding of `f64` in the rate limiter;
- token verification (its two outcomes are in `Gateway`), configuration, metrics,
  error texts, start-up;
- which users share a guild: in `Broadcaster` all clients of a node are told;
- memory growth of the unbounded channels, which the code does not limit;
- a crash of the process other than the end of `main`: nothing but the database
  survives it, and the buffered marks are lost by design.

## Plan

In this order:

1. A composition of `PresenceTracker` and `Broadcaster` on two nodes, for a user with
   connections to both: which statuses the clients of each may end with.
2. READY's read states next to the buffered marks of `ReadState`: a client that
   reconnects is told a mark older than the one it acknowledged last.
3. `StatusFeed` with the statuses the source has shown, so that the other nodes show
   only those and not merely changes in between; it needs a history variable in
   `Broadcaster`.
4. The walk of `History` as an implementation of an abstract reader of the table.
