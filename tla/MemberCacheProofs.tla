-------------------------- MODULE MemberCacheProofs --------------------------
(***************************************************************************)
(* How old a member list the router can use, for any time to live, query   *)
(* latency, callers and changes.                                           *)
(***************************************************************************)
EXTENDS MemberCache, TLAPS

\* List v was the channel's at some moment not before t.
CurrentSince(v, t) == v = version \/ replaced[v] >= t

\* A call that is in its query has been there for at most Latency, and what it
\* was answered was the channel's list after the query began.
CallsAreRecent ==
    \A c \in Callers :
        /\ task[c] # "idle" => began[c] <= now /\ now <= began[c] + Latency
        /\ task[c] = "insert" => CurrentSince(list[c], began[c])

\* What is cached was the channel's list at most Latency before fetched_at.
EntryIsRecent ==
    entry # NoEntry => /\ entry.fetched_at <= now
                       /\ CurrentSince(entry.list, entry.fetched_at - Latency)

\* No list was replaced in the future.
ReplacedInPast == \A v \in Version : replaced[v] <= now

\* The inductive invariant: how old a list is when it is served follows from
\* how old it can have been when it was cached.
CacheInv == TypeOK /\ ReplacedInPast /\ CallsAreRecent /\ EntryIsRecent /\ BoundedStaleness

USE DEF Version, Time, ReplacedInPast

-----------------------------------------------------------------------------
\* The inductive invariant holds in the initial state.
LEMMA CacheInit == Init => CacheInv
BY TtlAssumption, BoundsAssumption
DEF Init, CacheInv, TypeOK, CallsAreRecent, EntryIsRecent, BoundedStaleness, CurrentSince

\* A list that has been replaced stays so, since the same moment.
LEMMA CurrentSinceStep ==
    ASSUME TypeOK, ChangeMembers, NEW v \in Version, NEW t \in Int, t <= now,
           CurrentSince(v, t)
    PROVE  CurrentSince(v, t)'
BY DEF TypeOK, ChangeMembers, CurrentSince

\* Every step of a call, of the cleanup and of the world keeps the invariant.
LEMMA CacheStep == ASSUME CacheInv, [Next]_vars PROVE CacheInv'
<1> USE TtlAssumption, BoundsAssumption
<1> USE DEF CacheInv
<1>1. ASSUME NEW c \in Callers, Hit(c) PROVE CacheInv'
  <2>1. entry \in [list : Version, fetched_at : Time] /\ now - entry.fetched_at < Ttl
    BY <1>1 DEF Hit, Fresh, TypeOK
  <2>2. /\ entry.list \in Version /\ entry.fetched_at \in Time
        /\ CurrentSince(entry.list, entry.fetched_at - Latency)
    BY <2>1, <1>1 DEF Hit, Fresh, EntryIsRecent
  <2>3. now \in Time /\ replaced[entry.list] \in Time /\ replaced[entry.list] <= now
    BY <2>2 DEF TypeOK
  <2>4. Age(entry.list) \in Time /\ Age(entry.list) < Ttl + Latency
    BY <2>1, <2>2, <2>3 DEF Age, CurrentSince
  <2>5. age' \in Time /\ BoundedStaleness'
    BY <1>1, <2>2, <2>4 DEF Hit, Serve, TypeOK, BoundedStaleness
  <2>6. UNCHANGED <<now, version, replaced, entry, task, began, list>>
    BY <1>1 DEF Hit
  <2> QED
    BY <2>5, <2>6 DEF TypeOK, CallsAreRecent, EntryIsRecent, CurrentSince
<1>2. ASSUME NEW c \in Callers, Miss(c) PROVE CacheInv'
  <2>1. UNCHANGED <<now, version, replaced, entry, list, age>>
    BY <1>2 DEF Miss
  <2>2. TypeOK' /\ ReplacedInPast' /\ EntryIsRecent' /\ BoundedStaleness'
    BY <1>2, <2>1 DEF Miss, TypeOK, EntryIsRecent, BoundedStaleness, CurrentSince
  <2>3. CallsAreRecent'
    BY <1>2, <2>1 DEF Miss, TypeOK, CallsAreRecent, CurrentSince
  <2> QED BY <2>2, <2>3
<1>3. ASSUME NEW c \in Callers, Query(c) PROVE CacheInv'
  BY <1>3 DEF Query, TypeOK, CallsAreRecent, EntryIsRecent, BoundedStaleness, CurrentSince
<1>4. ASSUME NEW c \in Callers, QueryErr(c) PROVE CacheInv'
  BY <1>4 DEF QueryErr, TypeOK, CallsAreRecent, EntryIsRecent, BoundedStaleness, CurrentSince
<1>5. ASSUME NEW c \in Callers, Insert(c) PROVE CacheInv'
  <2>0. /\ now \in Time /\ list[c] \in Version /\ began[c] \in Time
        /\ replaced[list[c]] \in Time /\ replaced[list[c]] <= now
        /\ began[c] <= now /\ now <= began[c] + Latency
        /\ CurrentSince(list[c], began[c])
    BY <1>5 DEF Insert, TypeOK, CallsAreRecent
  <2>1. Age(list[c]) \in Time /\ Age(list[c]) < Ttl + Latency
    BY <2>0 DEF Age, CurrentSince
  <2>2. TypeOK' /\ ReplacedInPast'
    BY <1>5, <2>1 DEF Insert, Serve, TypeOK
  <2>3. CallsAreRecent'
    BY <1>5 DEF Insert, TypeOK, CallsAreRecent, CurrentSince
  <2>4. EntryIsRecent'
    BY <1>5, <2>0 DEF Insert, EntryIsRecent, CurrentSince
  <2> QED
    BY <1>5, <2>1, <2>2, <2>3, <2>4 DEF Insert, Serve, BoundedStaleness
<1>6. ASSUME invalidate_channel_cache \/ Cleanup PROVE CacheInv'
  BY <1>6 DEF invalidate_channel_cache, Cleanup, TypeOK, CallsAreRecent, EntryIsRecent,
              BoundedStaleness, CurrentSince
<1>7. ASSUME ChangeMembers PROVE CacheInv'
  <2>1. TypeOK' /\ ReplacedInPast' /\ BoundedStaleness'
    BY <1>7 DEF ChangeMembers, TypeOK, BoundedStaleness
  <2>2. CallsAreRecent'
    BY <1>7, CurrentSinceStep DEF ChangeMembers, TypeOK, CallsAreRecent, CurrentSince
  <2>3. EntryIsRecent'
    BY <1>7, CurrentSinceStep DEF ChangeMembers, TypeOK, EntryIsRecent, CurrentSince
  <2> QED BY <2>1, <2>2, <2>3
<1>8. ASSUME Tick PROVE CacheInv'
  <2>1. now \in Time /\ now' = now + 1 /\ now' \in Time
    BY <1>8 DEF Tick, TypeOK
  <2>2. /\ UNCHANGED <<version, replaced, entry, task, began, list, age>>
        /\ \A c \in Callers : task[c] # "idle" => now < began[c] + Latency
    BY <1>8 DEF Tick
  <2>3. TypeOK' /\ BoundedStaleness'
    BY <2>1, <2>2 DEF TypeOK, BoundedStaleness
  <2>4. ReplacedInPast'
    BY <2>1, <2>2 DEF TypeOK
  <2>5. CallsAreRecent'
    BY <2>1, <2>2 DEF TypeOK, CallsAreRecent, CurrentSince
  <2>6. EntryIsRecent'
    <3>1. entry # NoEntry => entry.fetched_at \in Time
      BY DEF TypeOK
    <3> QED BY <2>1, <2>2, <3>1 DEF EntryIsRecent, CurrentSince
  <2> QED BY <2>3, <2>4, <2>5, <2>6
<1>9. ASSUME UNCHANGED vars PROVE CacheInv'
  BY <1>9 DEF vars, TypeOK, CallsAreRecent, EntryIsRecent, BoundedStaleness, CurrentSince
<1> QED BY <1>1, <1>2, <1>3, <1>4, <1>5, <1>6, <1>7, <1>8, <1>9 DEF Next

-----------------------------------------------------------------------------
\* The inductive invariant holds in every reachable state of the cache.
THEOREM CacheInvariant == Spec => []CacheInv
BY CacheInit, CacheStep, PTL DEF Spec

\* Type correctness of the member cache.
THEOREM CacheTypeCorrect == Spec => []TypeOK
<1>1. CacheInv => TypeOK
  BY DEF CacheInv
<1> QED BY <1>1, CacheInvariant, PTL

\* get_channel_members never returns a list that was replaced cache_ttl plus
\* the latency of a query ago or earlier.
THEOREM CacheBoundedStaleness == Spec => []BoundedStaleness
<1>1. CacheInv => BoundedStaleness
  BY DEF CacheInv
<1> QED BY <1>1, CacheInvariant, PTL
=============================================================================
