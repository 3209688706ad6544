----------------------------- MODULE MemberCache -----------------------------
(***************************************************************************)
(* The member cache of router/fanout.rs, for one channel: every message    *)
(* and every typing indicator asks get_channel_members for the members.    *)
(*                                                                         *)
(* The channel's membership changes in the database only; version numbers  *)
(* the member lists it goes through, and a number stands for a list. The   *)
(* clock stands for Instant.  task[c] is where call c stands:              *)
(*   idle     not in get_channel_members                                   *)
(*   query    the cache had nothing fresh; the query is on its way         *)
(*   insert   the query has answered; its list is put in the cache next    *)
(***************************************************************************)
EXTENDS Integers

CONSTANTS Callers,      \* the tasks that call get_channel_members
          Ttl,          \* cache_ttl
          Latency,      \* a query and the insert after it take at most this
          MaxVersion,   \* bound: changes of the membership
          MaxTime,      \* bound: ticks of the clock
          NoEntry       \* the channel is not in member_cache

ASSUME TtlAssumption == Ttl \in Nat \ {0} /\ Latency \in Nat
ASSUME BoundsAssumption == MaxVersion \in Nat /\ MaxTime \in Nat

VARIABLES now,          \* the clock
          version,      \* the list in the database
          replaced,     \* when an earlier list was replaced
          entry,        \* member_cache[channel]: a list and its fetched_at
          task,         \* see above
          began,        \* when the query of a call was sent
          list,         \* the list a call's query has returned
          age           \* how long the list returned last had been replaced

vars == <<now, version, replaced, entry, task, began, list, age>>

Init ==
    /\ now = 0
    /\ version = 0
    /\ replaced = [v \in 0 .. MaxVersion |-> 0]
    /\ entry = NoEntry
    /\ task = [c \in Callers |-> "idle"]
    /\ began = [c \in Callers |-> 0]
    /\ list = [c \in Callers |-> 0]
    /\ age = 0

\* How long list v has not been the channel's.
Age(v) == IF v = version THEN 0 ELSE now - replaced[v]

\* Mutant: the last tick of the time to live is passed over.
Fresh_too_long(e) == e # NoEntry /\ now - e.fetched_at <= Ttl

\* fetched_at.elapsed() < cache_ttl
Fresh(e) == e # NoEntry /\ now - e.fetched_at < Ttl

Serve(v) == age' = Age(v)

-----------------------------------------------------------------------------
(* get_channel_members *)

Hit(c) ==
    /\ task[c] = "idle"
    /\ Fresh(entry)
    /\ Serve(entry.list)
    /\ UNCHANGED <<now, version, replaced, entry, task, began, list>>

Miss(c) ==
    /\ task[c] = "idle"
    /\ ~Fresh(entry)
    /\ task' = [task EXCEPT ![c] = "query"]
    /\ began' = [began EXCEPT ![c] = now]
    /\ UNCHANGED <<now, version, replaced, entry, list, age>>

\* The database evaluates the query.
Query(c) ==
    /\ task[c] = "query"
    /\ list' = [list EXCEPT ![c] = version]
    /\ task' = [task EXCEPT ![c] = "insert"]
    /\ UNCHANGED <<now, version, replaced, entry, began, age>>

\* The query fails, and with it the call.
QueryErr(c) ==
    /\ task[c] = "query"
    /\ task' = [task EXCEPT ![c] = "idle"]
    /\ UNCHANGED <<now, version, replaced, entry, began, list, age>>

\* Mutant: the entry holds the time it expires, not the time it was fetched.
Insert_expiry(c) ==
    /\ task[c] = "insert"
    /\ entry' = [list |-> list[c], fetched_at |-> now + Ttl]
    /\ Serve(list[c])
    /\ task' = [task EXCEPT ![c] = "idle"]
    /\ UNCHANGED <<now, version, replaced, began, list>>

\* The answer goes into the cache, over whatever is there, and to the caller.
Insert(c) ==
    /\ task[c] = "insert"
    /\ entry' = [list |-> list[c], fetched_at |-> now]
    /\ Serve(list[c])
    /\ task' = [task EXCEPT ![c] = "idle"]
    /\ UNCHANGED <<now, version, replaced, began, list>>

-----------------------------------------------------------------------------
invalidate_channel_cache ==
    /\ entry' = NoEntry
    /\ UNCHANGED <<now, version, replaced, task, began, list, age>>

\* The 60 second task drops what has expired.
Cleanup ==
    /\ entry # NoEntry
    /\ ~Fresh(entry)
    /\ entry' = NoEntry
    /\ UNCHANGED <<now, version, replaced, task, began, list, age>>

\* Somebody joins or leaves the channel's guild.
ChangeMembers ==
    /\ version < MaxVersion
    /\ version' = version + 1
    /\ replaced' = [replaced EXCEPT ![version] = now]
    /\ UNCHANGED <<now, entry, task, began, list, age>>

\* Time passes, but not beyond Latency during a query.
Tick ==
    /\ now < MaxTime
    /\ \A c \in Callers : task[c] # "idle" => now < began[c] + Latency
    /\ now' = now + 1
    /\ UNCHANGED <<version, replaced, entry, task, began, list, age>>

-----------------------------------------------------------------------------
Next ==
    \/ \E c \in Callers : Hit(c) \/ Miss(c) \/ Query(c) \/ QueryErr(c) \/ Insert(c)
    \/ invalidate_channel_cache
    \/ Cleanup
    \/ ChangeMembers
    \/ Tick

Spec == Init /\ [][Next]_vars

-----------------------------------------------------------------------------
Version == 0 .. MaxVersion
Time == 0 .. MaxTime

TypeOK ==
    /\ now \in Time
    /\ version \in Version
    /\ replaced \in [Version -> Time]
    /\ entry = NoEntry \/ entry \in [list : Version, fetched_at : Time]
    /\ task \in [Callers -> {"idle", "query", "insert"}]
    /\ began \in [Callers -> Time]
    /\ list \in [Callers -> Version]
    /\ age \in Time

\* No message is fanned out to a member list that was replaced Ttl + Latency
\* ago or earlier, although fetched_at is the time of the insert and not of the
\* query, and a slow query may put an older list over a newer one.
BoundedStaleness == age < Ttl + Latency
=============================================================================
