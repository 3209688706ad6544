------------------------------ MODULE ReadState ------------------------------
(***************************************************************************)
(* readstate/cache.rs: acknowledged read marks are buffered in a DashMap,  *)
(* and written to PostgreSQL by the flusher task, or by flush_now when the *)
(* server shuts down (main.rs).                                            *)
(*                                                                         *)
(* Client tasks (Ackers) call update, which is two steps: the DashMap      *)
(* entry, then the counter.  Two tasks drain the buffer: "flusher", and    *)
(* "main" in flush_now.  task[d] is where drainer d stands:                *)
(*   idle      flusher: waiting for the next tick; main: serving           *)
(*   scan      in drain, iterating over the shards of the map for keys     *)
(*   remove    in drain, removing the keys it saw; pending_count.store(0)  *)
(*             comes last                                                  *)
(*   flush     holding a batch: upserting it chunk by chunk                *)
(*   rebuffer  flusher: putting a chunk back after a failed upsert         *)
(*   recount   ... with the counter increment of one entry still to do     *)
(*   closing   main: flush_now is over and the pool is being closed        *)
(*   exited    main has returned, and the process is gone with every task  *)
(*                                                                         *)
(* pending_count is only ever compared with 0, so it is kept as a BOOLEAN. *)
(* total_ops is never read by the program and is left out.                 *)
(***************************************************************************)
EXTENDS ReadMarks, FiniteSets

CONSTANTS Ackers,     \* the tasks that handle AckMessage
          ChunkSize,  \* batch_threshold.max(100)
          DbFails     \* may a statement fail for reasons outside the program?

ASSUME KeysAssumption == IsFiniteSet(Keys)
ASSUME ChunkAssumption == ChunkSize \in Nat \ {0}
ASSUME DbFailsAssumption == DbFails \in BOOLEAN

VARIABLES pending,   \* the buffer; 0 is an absent entry
          counted,   \* pending_count # 0
          acker,     \* an acker that has its counter increment to do
          task,      \* progress of the drainers, see above
          keys,      \* drain: keys still to scan, then keys still to remove
          seen,      \* drain: the keys collected so far
          batch,     \* the marks a drainer holds; 0 where it holds none
          chunk      \* flusher: the keys of the failed chunk to put back

vars == <<acked, db, pending, counted, acker, task, keys, seen, batch, chunk>>

Drainers == {"flusher", "main"}

Up == task["main"] # "exited"

Later(m, n) == IF m > n THEN m ELSE n

Init ==
    /\ MarksInit
    /\ pending = [k \in Keys |-> 0]
    /\ counted = FALSE
    /\ acker = [a \in Ackers |-> "idle"]
    /\ task = [d \in Drainers |-> "idle"]
    /\ keys = [d \in Drainers |-> {}]
    /\ seen = [d \in Drainers |-> {}]
    /\ batch = [d \in Drainers |-> [k \in Keys |-> 0]]
    /\ chunk = {}

Goto(d, step) == task' = [task EXCEPT ![d] = step]

\* Mutant: the newer call wins, whatever it acknowledges.
update_entry_overwrites(k, m) == pending' = [pending EXCEPT ![k] = m]

\* The first step of update: the entry keeps the later mark.
update_entry(k, m) == pending' = [pending EXCEPT ![k] = Later(m, @)]

-----------------------------------------------------------------------------
(* AckMessage, handled by a connection task. *)

AckStore(a, k, m) ==
    /\ Up
    /\ acker[a] = "idle"
    /\ update_entry(k, m)
    /\ acked' = [acked EXCEPT ![k] = Later(m, @)]
    /\ acker' = [acker EXCEPT ![a] = "stored"]
    /\ UNCHANGED <<db, counted, task, keys, seen, batch, chunk>>

AckCount(a) ==
    /\ Up
    /\ acker[a] = "stored"
    /\ counted' = TRUE
    /\ acker' = [acker EXCEPT ![a] = "idle"]
    /\ UNCHANGED <<acked, db, pending, task, keys, seen, batch, chunk>>

-----------------------------------------------------------------------------
(* drain, by the flusher or by main. *)

start_drain(d) ==
    /\ Goto(d, "scan")
    /\ keys' = [keys EXCEPT ![d] = Keys]
    /\ seen' = [seen EXCEPT ![d] = {}]

\* A tick of the flusher; it goes back to sleep when the counter is 0.
Tick ==
    /\ Up
    /\ task["flusher"] = "idle"
    /\ counted
    /\ start_drain("flusher")
    /\ UNCHANGED <<acked, db, pending, counted, acker, batch, chunk>>

\* Ctrl+C: the server stops serving and flush_now starts. The connection tasks
\* of upgraded sockets are not waited for, nor is the flusher.
Shutdown ==
    /\ task["main"] = "idle"
    /\ start_drain("main")
    /\ UNCHANGED <<acked, db, pending, counted, acker, batch, chunk>>

\* DashMap::iter locks shard after shard: entries come and go meanwhile.
drain_scan(d, k) ==
    LET left == keys[d] \ {k}
        found == IF pending[k] # 0 THEN seen[d] \cup {k} ELSE seen[d]
    IN  /\ Up
        /\ task[d] = "scan"
        /\ k \in keys[d]
        /\ Goto(d, IF left = {} THEN "remove" ELSE "scan")
        /\ keys' = [keys EXCEPT ![d] = IF left = {} THEN found ELSE left]
        /\ seen' = [seen EXCEPT ![d] = found]
        /\ UNCHANGED <<acked, db, pending, counted, acker, batch, chunk>>

drain_remove(d, k) ==
    /\ Up
    /\ task[d] = "remove"
    /\ k \in keys[d]
    /\ keys' = [keys EXCEPT ![d] = @ \ {k}]
    /\ batch' = [batch EXCEPT ![d][k] = pending[k]]
    /\ pending' = [pending EXCEPT ![k] = 0]
    /\ UNCHANGED <<acked, db, counted, acker, task, seen, chunk>>

\* pending_count.store(0), whatever updates counted since.
drain_reset(d) ==
    /\ Up
    /\ task[d] = "remove"
    /\ keys[d] = {}
    /\ counted' = FALSE
    /\ Goto(d, "flush")
    /\ UNCHANGED <<acked, db, pending, acker, keys, seen, batch, chunk>>

-----------------------------------------------------------------------------
(* The upsert of db.rs and what its callers do with the result. *)

Held(d) == {k \in Keys : batch[d][k] # 0}

\* Mutant: no WHERE clause.
upserted_always(d, rows) == [k \in Keys |-> IF k \in rows THEN batch[d][k] ELSE db[k]]

\* The statement writes its rows all or none; the WHERE clause keeps a later
\* mark that is already stored.
upserted(d, rows) == [k \in Keys |-> IF k \in rows THEN Later(batch[d][k], db[k])
                                                   ELSE db[k]]

\* UNNEST pads the one-element array of timestamps with NULLs, which the NOT
\* NULL column updated_at rejects: only one row at a time can be written. The
\* pool must be open, and the server may fail for its own reasons.
upsert_ok(rows) == Cardinality(rows) <= 1 /\ task["main"] # "closing"

upsert_err(rows) == DbFails \/ ~upsert_ok(rows)

\* A connection lost after the commit reports an error for rows that were
\* written.
DbAfterErr(d, rows) ==
    \/ UNCHANGED db
    \/ DbFails /\ upsert_ok(rows) /\ db' = upserted(d, rows)

Chunks(d) == {rows \in SUBSET Held(d) :
                 \/ Cardinality(rows) = ChunkSize
                 \/ rows = Held(d) /\ Cardinality(rows) < ChunkSize} \ {{}}

FlushOk(rows) ==
    /\ Up
    /\ task["flusher"] = "flush"
    /\ rows \in Chunks("flusher")
    /\ upsert_ok(rows)
    /\ db' = upserted("flusher", rows)
    /\ batch' = [batch EXCEPT !["flusher"] =
                    [k \in Keys |-> IF k \in rows THEN 0 ELSE @[k]]]
    /\ UNCHANGED <<acked, pending, counted, acker, task, keys, seen, chunk>>

\* Mutant: the whole batch is put back, not the chunk that failed.
FlushErr_batch(rows) ==
    /\ Up
    /\ task["flusher"] = "flush"
    /\ rows \in Chunks("flusher")
    /\ upsert_err(rows)
    /\ DbAfterErr("flusher", rows)
    /\ chunk' = Held("flusher")
    /\ Goto("flusher", "rebuffer")
    /\ UNCHANGED <<acked, pending, counted, acker, keys, seen, batch>>

FlushErr(rows) ==
    /\ Up
    /\ task["flusher"] = "flush"
    /\ rows \in Chunks("flusher")
    /\ upsert_err(rows)
    /\ DbAfterErr("flusher", rows)
    /\ chunk' = rows
    /\ Goto("flusher", "rebuffer")
    /\ UNCHANGED <<acked, pending, counted, acker, keys, seen, batch>>

\* An entry of the failed chunk goes through update again ...
RebufferStore(k) ==
    /\ Up
    /\ task["flusher"] = "rebuffer"
    /\ k \in chunk
    /\ update_entry(k, batch["flusher"][k])
    /\ batch' = [batch EXCEPT !["flusher"][k] = 0]
    /\ chunk' = chunk \ {k}
    /\ Goto("flusher", "recount")
    /\ UNCHANGED <<acked, db, counted, acker, keys, seen>>

\* Mutant: the marks put back are not counted.
RebufferCount_missing ==
    /\ Up
    /\ task["flusher"] = "recount"
    /\ Goto("flusher", IF chunk = {} THEN "flush" ELSE "rebuffer")
    /\ UNCHANGED <<acked, db, pending, counted, acker, keys, seen, batch, chunk>>

\* ... with its counter; after the last entry comes the next chunk.
RebufferCount ==
    /\ Up
    /\ task["flusher"] = "recount"
    /\ counted' = TRUE
    /\ Goto("flusher", IF chunk = {} THEN "flush" ELSE "rebuffer")
    /\ UNCHANGED <<acked, db, pending, acker, keys, seen, batch, chunk>>

\* No chunk is left (or the batch was empty).
FlushDone ==
    /\ Up
    /\ task["flusher"] = "flush"
    /\ Held("flusher") = {}
    /\ Goto("flusher", "idle")
    /\ UNCHANGED <<acked, db, pending, counted, acker, keys, seen, batch, chunk>>

\* flush_now upserts its batch in one statement; main then closes the pool.
FlushNowOk ==
    /\ task["main"] = "flush"
    /\ upsert_ok(Held("main"))
    /\ db' = upserted("main", Held("main"))
    /\ batch' = [batch EXCEPT !["main"] = [k \in Keys |-> 0]]
    /\ Goto("main", "closing")
    /\ UNCHANGED <<acked, pending, counted, acker, keys, seen, chunk>>

\* On an error main returns at once, and the batch is dropped with it.
FlushNowErr ==
    /\ task["main"] = "flush"
    /\ Held("main") # {}
    /\ upsert_err(Held("main"))
    /\ DbAfterErr("main", Held("main"))
    /\ Goto("main", "exited")
    /\ UNCHANGED <<acked, pending, counted, acker, keys, seen, batch, chunk>>

Exit ==
    /\ task["main"] = "closing"
    /\ Goto("main", "exited")
    /\ UNCHANGED <<acked, db, pending, counted, acker, keys, seen, batch, chunk>>

-----------------------------------------------------------------------------
Drain(d) ==
    \/ \E k \in Keys : drain_scan(d, k) \/ drain_remove(d, k)
    \/ drain_reset(d)

Flush ==
    \/ \E rows \in SUBSET Keys : FlushOk(rows) \/ FlushErr(rows)
    \/ \E k \in Keys : RebufferStore(k)
    \/ RebufferCount
    \/ FlushDone

FlushNow == FlushNowOk \/ FlushNowErr \/ Exit

Next ==
    \/ \E a \in Ackers : AckCount(a) \/ \E k \in Keys, m \in Messages : AckStore(a, k, m)
    \/ Tick
    \/ Shutdown
    \/ \E d \in Drainers : Drain(d)
    \/ Flush
    \/ FlushNow

Spec == Init /\ [][Next]_vars

\* The runtime keeps running ready tasks, and the flusher's interval elapses.
\* Clients need not send acks and nobody need stop the server.
Fairness ==
    /\ \A a \in Ackers : WF_vars(AckCount(a))
    /\ WF_vars(Tick \/ Drain("flusher") \/ Flush)
    /\ WF_vars(Drain("main") \/ FlushNow)

FairSpec == Spec /\ Fairness

-----------------------------------------------------------------------------
TypeOK ==
    /\ acked \in [Keys -> Mark]
    /\ db \in [Keys -> Mark]
    /\ pending \in [Keys -> Mark]
    /\ counted \in BOOLEAN
    /\ acker \in [Ackers -> {"idle", "stored"}]
    /\ task \in [Drainers -> {"idle", "scan", "remove", "flush", "rebuffer",
                              "recount", "closing", "exited"}]
    /\ keys \in [Drainers -> SUBSET Keys]
    /\ seen \in [Drainers -> SUBSET Keys]
    /\ batch \in [Drainers -> [Keys -> Mark]]
    /\ chunk \in SUBSET Keys
    /\ Cardinality(chunk) <= ChunkSize

\* Where a mark for k can be.
Places(k) == {pending[k], db[k]} \cup {batch[d][k] : d \in Drainers}

\* No acknowledged mark is lost while the server runs, and none is made up:
\* the highest mark a client has acknowledged for a key is always in the
\* buffer, in the hands of a drainer or in the database, and nothing higher is
\* in any of them. Failed and half-failed upserts, re-buffering over newer
\* acks and two drains at a time included.
NoMarkLost ==
    \A k \in Keys : /\ Up => acked[k] \in Places(k)
                    /\ \A m \in Places(k) : m <= acked[k]

\* A mark that is in the buffer and counted when the flusher wakes up reaches
\* the database, after however many failed upserts and re-bufferings, unless
\* the process exits. (For a key whose chunks have one row: see upsert_ok.)
CountedIsFlushed ==
    \A k \in Keys, m \in Messages :
        /\ task["flusher"] = "idle"
        /\ counted
        /\ pending[k] = m
        ~> db[k] >= m \/ ~Up

\* A database that fails does not fail forever.
RetrySpec == FairSpec /\ SF_vars(\E rows \in SUBSET Keys : FlushOk(rows))

=============================================================================
