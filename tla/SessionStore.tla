---------------------------- MODULE SessionStore ----------------------------
(***************************************************************************)
(* gateway/session.rs: the registry of the sessions of one gateway node,   *)
(* a DashMap<UserId, Vec<Session>> and an atomic connection counter.       *)
(*                                                                         *)
(* A DashMap operation holds the user's shard lock, so it is one atomic    *)
(* step; insert and remove make several of them and other tasks run in     *)
(* between.  store_pc[c] is where call c stands:                           *)
(*   none     the connection has not called insert yet                     *)
(*   pushed   insert has pushed the session, fetch_add is next             *)
(*   ready    the session was inserted; remove has not been called by c    *)
(*   emptied  remove took the session out of the Vec, found the Vec empty  *)
(*            and released the lock; DashMap::remove(user) is next         *)
(*   vacant   the same, but the session was not in the Vec any more        *)
(*   removed  remove took the session out; fetch_sub is next               *)
(*   true, false   what remove returned                                    *)
(*                                                                         *)
(* The order of a Vec only decides the order of sends, so it is a set. The *)
(* counter is an integer: CounterBalances says that it never wraps.        *)
(***************************************************************************)
EXTENDS RelayTypes, Integers, FiniteSets

ASSUME SessionsFinite == IsFiniteSet(Sessions)

VARIABLES keys,               \* users that have an entry in the DashMap
          sessions,           \* the sessions in a user's entry
          total_connections,  \* the AtomicU64
          store_pc            \* progress of each call, see above

storeVars == <<keys, sessions, total_connections, store_pc>>

StorePc == {"none", "pushed", "ready", "emptied", "vacant", "removed",
            "true", "false"}

StoreInit ==
    /\ keys = {}
    /\ sessions = [u \in Users |-> {}]
    /\ total_connections = 0
    /\ store_pc = [c \in Calls |-> IF c[1] = "conn" THEN "none" ELSE "ready"]

\* Is s in the registry?
Stored(s) == s \in sessions[Owner[s]]

\* insert has returned for s.
Registered(s) == store_pc[Conn(s)] \notin {"none", "pushed"}

is_connected(u) == u \in keys /\ sessions[u] # {}

-----------------------------------------------------------------------------
\* insert: entry(uid).or_default().push(session) ...
insert_push(c) ==
    /\ store_pc[c] = "none"
    /\ keys' = keys \cup {UserOf(c)}
    /\ sessions' = [sessions EXCEPT ![UserOf(c)] = @ \cup {SessionOf(c)}]
    /\ store_pc' = [store_pc EXCEPT ![c] = "pushed"]
    /\ UNCHANGED total_connections

\* ... and then total_connections.fetch_add(1).
insert_count(c) ==
    /\ store_pc[c] = "pushed"
    /\ total_connections' = total_connections + 1
    /\ store_pc' = [store_pc EXCEPT ![c] = "ready"]
    /\ UNCHANGED <<keys, sessions>>

\* Mutant: whether the session was found is not looked at.
after_retain_always_found(present, left, found) ==
    IF present /\ left = {} THEN "emptied" ELSE "removed"

\* Where remove stands after the retain, given whether the user had an entry,
\* what the retain left in it and whether it took the session out.
after_retain(present, left, found) ==
    IF present /\ left = {} THEN IF found THEN "emptied" ELSE "vacant"
                            ELSE IF found THEN "removed" ELSE "false"

\* Mutant: the condition of the retain is the wrong way round.
remove_retain_inverted(c) ==
    LET u == UserOf(c)
        left == sessions[u] \cap {SessionOf(c)}
    IN  /\ store_pc[c] = "ready"
        /\ Registered(SessionOf(c))
        /\ sessions' = [sessions EXCEPT ![u] = left]
        /\ store_pc' = [store_pc EXCEPT ![c] =
                          after_retain(u \in keys, left, Stored(SessionOf(c)))]
        /\ UNCHANGED <<keys, total_connections>>

\* remove: the Vec is filtered under the shard lock, which is then released.
\* Without an entry there is nothing to do and remove returns false.
remove_retain(c) ==
    LET u == UserOf(c)
        left == sessions[u] \ {SessionOf(c)}
    IN  /\ store_pc[c] = "ready"
        /\ Registered(SessionOf(c))
        /\ sessions' = [sessions EXCEPT ![u] = left]
        /\ store_pc' = [store_pc EXCEPT ![c] =
                          after_retain(u \in keys, left, Stored(SessionOf(c)))]
        /\ UNCHANGED <<keys, total_connections>>

\* Mutant: the counter goes down whether or not the session was found.
remove_entry_always_true(c) ==
    /\ store_pc[c] \in {"emptied", "vacant"}
    /\ keys' = keys \ {UserOf(c)}
    /\ sessions' = [sessions EXCEPT ![UserOf(c)] = {}]
    /\ store_pc' = [store_pc EXCEPT ![c] = "removed"]
    /\ UNCHANGED total_connections

\* remove, after drop(sessions): the user's entry goes, with whatever it holds
\* by now.
remove_entry(c) ==
    /\ store_pc[c] \in {"emptied", "vacant"}
    /\ keys' = keys \ {UserOf(c)}
    /\ sessions' = [sessions EXCEPT ![UserOf(c)] = {}]
    /\ store_pc' = [store_pc EXCEPT ![c] = IF @ = "emptied" THEN "removed"
                                                            ELSE "false"]
    /\ UNCHANGED total_connections

\* remove: total_connections.fetch_sub(1), only if the session was found.
remove_count(c) ==
    /\ store_pc[c] = "removed"
    /\ total_connections' = total_connections - 1
    /\ store_pc' = [store_pc EXCEPT ![c] = "true"]
    /\ UNCHANGED <<keys, sessions>>

-----------------------------------------------------------------------------
\* What call c does inside insert and remove once it has entered them.
StoreStep(c) == insert_count(c) \/ remove_entry(c) \/ remove_count(c)

StoreNext == \E c \in Calls : insert_push(c) \/ remove_retain(c) \/ StoreStep(c)

StoreSpec == StoreInit /\ [][StoreNext]_storeVars

-----------------------------------------------------------------------------
StoreTypeOK ==
    /\ keys \in SUBSET Users
    /\ sessions \in [Users -> SUBSET Sessions]
    /\ total_connections \in Int
    /\ store_pc \in [Calls -> StorePc]

\* Some call is taking s out, or has taken it out, of the Vec itself.
Taken(s) == \E c \in Calls : /\ SessionOf(c) = s
                             /\ store_pc[c] \in {"emptied", "removed", "true"}

\* Sessions that fetch_add has counted and fetch_sub has not.
Counted == {s \in Sessions : /\ Registered(s)
                             /\ \A c \in Calls : SessionOf(c) = s
                                                   => store_pc[c] # "true"}

\* The counter is exactly the number of inserted sessions no remove has
\* returned true for, whatever order inserts and removes interleave in. So the
\* u64 never wraps below zero: a remove decrements it only for a session whose
\* insert has incremented it, and two removals of one session (a disconnect
\* racing the heartbeat monitor) decrement it once.
CounterBalances == total_connections = Cardinality(Counted)

\* A session in the registry was pushed under its own user's key, and no call
\* has taken it out: what remove took out never comes back.
StoredSessionsLive ==
    \A u \in Users : \A s \in sessions[u] :
        /\ u \in keys
        /\ Owner[s] = u
        /\ store_pc[Conn(s)] # "none"
        /\ ~Taken(s)

\* One session is found, and uncounted, by at most one of its two removals.
TakenOnce ==
    \A s \in Sessions :
        ~ /\ store_pc[Conn(s)] \in {"emptied", "removed", "true"}
          /\ store_pc[Reap(s)] \in {"emptied", "removed", "true"}

-----------------------------------------------------------------------------
(* What a comment of the code says that does not hold. *)

\* session.rs removes the map entry "If this was the user's last session": a
\* session leaves the registry only by a remove of that very session.
OnlyOwnRemoval ==
    [][\A s \in Sessions :
          Stored(s) /\ ~Stored(s)' => \E c \in Calls : /\ SessionOf(c) = s
                                                       /\ store_pc[c] = "ready"
                                                       /\ store_pc'[c] # "ready"]_storeVars
=============================================================================
