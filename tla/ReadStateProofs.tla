--------------------------- MODULE ReadStateProofs ---------------------------
(***************************************************************************)
(* The read state cache, for any keys, messages, ackers and chunk size:    *)
(* no acknowledged mark is lost while the server runs, and the database    *)
(* moves as ReadMarks allows.                                              *)
(***************************************************************************)
EXTENDS ReadState, FiniteSetTheorems, TLAPS

\* A drain overwrites nothing: where it is about to put a mark it holds none.
HandsFree ==
    \A d \in Drainers, k \in Keys :
        \/ task[d] \in {"idle", "scan"}
        \/ task[d] = "remove" /\ k \in keys[d]
        => batch[d][k] = 0

\* The inductive invariant: NoMarkLost needs HandsFree for drain_remove.
ReadInv == TypeOK /\ HandsFree /\ NoMarkLost

\* NoMarkLost at one key, with the places written out.
Kept(k) ==
    /\ Up => acked[k] \in {pending[k], db[k], batch["flusher"][k], batch["main"][k]}
    /\ pending[k] <= acked[k] /\ db[k] <= acked[k]
    /\ batch["flusher"][k] <= acked[k] /\ batch["main"][k] <= acked[k]

\* NoMarkLost with the set of places spelt out.
LEMMA NoMarkLostIsKept ==
    /\ NoMarkLost <=> \A k \in Keys : Kept(k)
    /\ NoMarkLost' <=> \A k \in Keys : Kept(k)'
<1>1. \A k : /\ Places(k) = {pending[k], db[k], batch["flusher"][k], batch["main"][k]}
             /\ Places(k)' = {pending'[k], db'[k], batch'["flusher"][k], batch'["main"][k]}
    BY DEF Places, Drainers
<1> QED BY <1>1 DEF NoMarkLost, Kept

\* Marks are natural numbers, and 0 is the least.
LEMMA MarkNat == /\ 0 \in Mark
                 /\ \A m \in Mark : m \in Nat
                 /\ \A m \in Messages : m \in Mark
BY MessagesAssumption DEF Mark

\* What the type invariant says of the marks of one key.
LEMMA MarkTypes ==
    ASSUME TypeOK
    PROVE  /\ acked \in [Keys -> Mark] /\ db \in [Keys -> Mark] /\ pending \in [Keys -> Mark]
           /\ batch \in [Drainers -> [Keys -> Mark]] /\ task = [d \in Drainers |-> task[d]]
           /\ \A k \in Keys : acked[k] \in Nat /\ db[k] \in Nat /\ pending[k] \in Nat
           /\ \A d \in Drainers, k \in Keys : batch[d][k] \in Nat
<1>1. /\ acked \in [Keys -> Mark] /\ db \in [Keys -> Mark] /\ pending \in [Keys -> Mark]
      /\ batch \in [Drainers -> [Keys -> Mark]] /\ task = [d \in Drainers |-> task[d]]
    BY DEF TypeOK
<1> QED BY <1>1, MarkNat

\* Later is the maximum of two marks.
LEMMA LaterFacts ==
    \A m, n \in Mark : /\ Later(m, n) \in {m, n} /\ Later(m, n) \in Mark
                       /\ m <= Later(m, n) /\ n <= Later(m, n)
BY MarkNat DEF Later

\* What an upsert leaves in the database.
LEMMA UpsertFacts ==
    ASSUME TypeOK, NEW d \in Drainers, NEW rows
    PROVE  /\ upserted(d, rows) \in [Keys -> Mark]
           /\ \A k \in Keys : /\ k \in rows => upserted(d, rows)[k] = Later(batch[d][k], db[k])
                              /\ k \notin rows => upserted(d, rows)[k] = db[k]
BY LaterFacts, MarkTypes DEF upserted

\* Chunks and what is left of them have at most ChunkSize keys.
LEMMA ChunkSizes ==
    /\ Cardinality({}) <= ChunkSize
    /\ \A rows \in Chunks("flusher") : Cardinality(rows) <= ChunkSize
    /\ \A rows \in SUBSET Keys : \A k \in rows :
            Cardinality(rows) <= ChunkSize => Cardinality(rows \ {k}) <= ChunkSize
<1>1. Cardinality({}) <= ChunkSize
    BY FS_EmptySet, ChunkAssumption
<1>2. ASSUME NEW rows \in Chunks("flusher") PROVE Cardinality(rows) <= ChunkSize
    <2>1. rows \subseteq Keys /\ (Cardinality(rows) = ChunkSize \/ Cardinality(rows) < ChunkSize)
        BY DEF Chunks, Held
    <2>2. Cardinality(rows) \in Nat
        BY <2>1, KeysAssumption, FS_Subset, FS_CardinalityType
    <2> QED BY <2>1, <2>2, ChunkAssumption
<1>3. ASSUME NEW rows \in SUBSET Keys, NEW k \in rows, Cardinality(rows) <= ChunkSize
      PROVE  Cardinality(rows \ {k}) <= ChunkSize
    <2>1. IsFiniteSet(rows)
        BY KeysAssumption, FS_Subset
    <2>2. Cardinality(rows) \in Nat /\ Cardinality(rows \ {k}) = Cardinality(rows) - 1
        BY <2>1, FS_CardinalityType, FS_RemoveElement
    <2> QED BY <1>3, <2>2, ChunkAssumption
<1> QED BY <1>1, <1>2, <1>3

-----------------------------------------------------------------------------
\* The inductive invariant holds in the initial state.
LEMMA ReadInit == Init => ReadInv
<1> SUFFICES ASSUME Init PROVE ReadInv
    OBVIOUS
<1>1. TypeOK
    BY ChunkSizes DEF Init, MarksInit, TypeOK, Mark, Drainers
<1>2. HandsFree
    BY DEF Init, HandsFree, Drainers
<1>3. NoMarkLost
    BY NoMarkLostIsKept DEF Init, MarksInit, Kept, Drainers
<1> QED BY <1>1, <1>2, <1>3 DEF ReadInv

\* Every step keeps the types.
LEMMA ReadTypeStep == ASSUME TypeOK, [Next]_vars PROVE TypeOK'
<1> USE LaterFacts DEF TypeOK, Mark, Drainers, Goto
<1>1. ASSUME NEW a \in Ackers, NEW k \in Keys, NEW m \in Messages, AckStore(a, k, m)
      PROVE  TypeOK'
    BY <1>1 DEF AckStore, update_entry
<1>2. ASSUME NEW a \in Ackers, AckCount(a) PROVE TypeOK'
    BY <1>2 DEF AckCount
<1>3. ASSUME Tick \/ Shutdown PROVE TypeOK'
    BY <1>3 DEF Tick, Shutdown, start_drain
<1>4. ASSUME NEW d \in Drainers, Drain(d) PROVE TypeOK'
    <2>1. ASSUME NEW k \in Keys, drain_scan(d, k) PROVE TypeOK'
        BY <2>1 DEF drain_scan
    <2>2. ASSUME NEW k \in Keys, drain_remove(d, k) PROVE TypeOK'
        BY <2>2 DEF drain_remove
    <2>3. ASSUME drain_reset(d) PROVE TypeOK'
        BY <2>3 DEF drain_reset
    <2> QED BY <1>4, <2>1, <2>2, <2>3 DEF Drain
<1>5. ASSUME Flush PROVE TypeOK'
    <2>1. ASSUME NEW rows \in SUBSET Keys, FlushOk(rows) PROVE TypeOK'
        BY <2>1, UpsertFacts DEF FlushOk
    <2>2. ASSUME NEW rows \in SUBSET Keys, FlushErr(rows) PROVE TypeOK'
        BY <2>2, UpsertFacts, ChunkSizes DEF FlushErr, DbAfterErr
    <2>3. ASSUME NEW k \in Keys, RebufferStore(k) PROVE TypeOK'
        BY <2>3, ChunkSizes DEF RebufferStore, update_entry
    <2>4. ASSUME RebufferCount \/ FlushDone PROVE TypeOK'
        BY <2>4 DEF RebufferCount, FlushDone
    <2> QED BY <1>5, <2>1, <2>2, <2>3, <2>4 DEF Flush
<1>6. ASSUME FlushNow PROVE TypeOK'
    BY <1>6, UpsertFacts DEF FlushNow, FlushNowOk, FlushNowErr, DbAfterErr, Exit
<1>7. ASSUME UNCHANGED vars PROVE TypeOK'
    BY <1>7 DEF vars
<1> QED BY <1>1, <1>2, <1>3, <1>4, <1>5, <1>6, <1>7 DEF Next

\* A drainer starts to remove entries only with empty hands.
LEMMA HandsFreeStep == ASSUME TypeOK, HandsFree, [Next]_vars PROVE HandsFree'
<1> USE DEF HandsFree, TypeOK, Drainers, Goto
<1>1. ASSUME UNCHANGED <<task, keys, batch>> PROVE HandsFree'
    BY <1>1
<1>2. ASSUME NEW a \in Ackers,
             AckCount(a) \/ \E k \in Keys, m \in Messages : AckStore(a, k, m)
      PROVE  HandsFree'
    BY <1>1, <1>2 DEF AckCount, AckStore
<1>3. ASSUME Tick \/ Shutdown PROVE HandsFree'
    BY <1>3 DEF Tick, Shutdown, start_drain
<1>4. ASSUME NEW d \in Drainers, Drain(d) PROVE HandsFree'
    <2>1. ASSUME NEW k \in Keys, drain_scan(d, k) PROVE HandsFree'
        BY <2>1 DEF drain_scan
    <2>2. ASSUME NEW k \in Keys, drain_remove(d, k) PROVE HandsFree'
        BY <2>2 DEF drain_remove
    <2>3. ASSUME drain_reset(d) PROVE HandsFree'
        BY <2>3 DEF drain_reset
    <2> QED BY <1>4, <2>1, <2>2, <2>3 DEF Drain
<1>5. ASSUME Flush PROVE HandsFree'
    <2>1. ASSUME NEW rows \in SUBSET Keys, FlushOk(rows) \/ FlushErr(rows) PROVE HandsFree'
        BY <2>1 DEF FlushOk, FlushErr
    <2>2. ASSUME NEW k \in Keys, RebufferStore(k) PROVE HandsFree'
        BY <2>2 DEF RebufferStore
    <2>3. ASSUME RebufferCount PROVE HandsFree'
        BY <2>3 DEF RebufferCount
    <2>4. ASSUME FlushDone PROVE HandsFree'
        BY <2>4 DEF FlushDone, Held
    <2> QED BY <1>5, <2>1, <2>2, <2>3, <2>4 DEF Flush
<1>6. ASSUME FlushNow PROVE HandsFree'
    BY <1>6 DEF FlushNow, FlushNowOk, FlushNowErr, Exit
<1>7. ASSUME UNCHANGED vars PROVE HandsFree'
    BY <1>1, <1>7 DEF vars
<1> QED BY <1>2, <1>3, <1>4, <1>5, <1>6, <1>7 DEF Next

-----------------------------------------------------------------------------
\* Marks move between the buffer, the drainers' hands and the database, and the
\* highest one is never dropped.
LEMMA NoMarkLostStep == ASSUME ReadInv, TypeOK', [Next]_vars PROVE NoMarkLost'
<1>t. /\ acked \in [Keys -> Mark] /\ db \in [Keys -> Mark] /\ pending \in [Keys -> Mark]
      /\ batch \in [Drainers -> [Keys -> Mark]] /\ task = [d \in Drainers |-> task[d]]
      /\ \A k \in Keys : acked[k] \in Nat /\ db[k] \in Nat /\ pending[k] \in Nat
      /\ \A d \in Drainers, k \in Keys : batch[d][k] \in Nat
    BY MarkTypes DEF ReadInv
<1>u. ASSUME NEW d \in Drainers, NEW rows, NEW k \in Keys
      PROVE  upserted(d, rows)[k] = IF k \in rows THEN Later(batch[d][k], db[k]) ELSE db[k]
    BY UpsertFacts DEF ReadInv
<1>i. \A k \in Keys : Kept(k)
    BY NoMarkLostIsKept DEF ReadInv
<1> SUFFICES ASSUME NEW j \in Keys PROVE Kept(j)'
    BY NoMarkLostIsKept
<1> USE MarkNat, <1>t, <1>i DEF Up, Goto, Kept, Drainers
<1>1. ASSUME NEW a \in Ackers, NEW k \in Keys, NEW m \in Messages, AckStore(a, k, m)
      PROVE  Kept(j)'
    BY <1>1 DEF AckStore, update_entry, Later
<1>2. ASSUME UNCHANGED <<acked, pending, db, batch>>, Up' => Up PROVE Kept(j)'
    BY <1>2
<1>3. ASSUME NEW a \in Ackers, AckCount(a) PROVE Kept(j)'
    BY <1>2, <1>3 DEF AckCount
<1>4. ASSUME Tick \/ Shutdown PROVE Kept(j)'
    BY <1>2, <1>4 DEF Tick, Shutdown, start_drain
<1>5. ASSUME NEW d \in Drainers, Drain(d) PROVE Kept(j)'
    <2>1. CASE drain_reset(d) \/ \E k \in Keys : drain_scan(d, k)
        BY <1>2, <2>1 DEF drain_reset, drain_scan
    <2>2. ASSUME NEW k \in Keys, drain_remove(d, k) PROVE Kept(j)'
        <3>1. batch[d][k] = 0
            BY <2>2 DEF drain_remove, ReadInv, HandsFree
        <3> QED BY <2>2, <3>1 DEF drain_remove
    <2> QED BY <1>5, <2>1, <2>2 DEF Drain
<1>6. ASSUME Flush PROVE Kept(j)'
    <2>1. ASSUME NEW rows \in SUBSET Keys, FlushOk(rows) PROVE Kept(j)'
        BY <2>1, <1>u DEF FlushOk, Later
    <2>2. ASSUME NEW rows \in SUBSET Keys, FlushErr(rows) PROVE Kept(j)'
        BY <2>2, <1>u DEF FlushErr, DbAfterErr, Later
    <2>3. ASSUME NEW k \in Keys, RebufferStore(k) PROVE Kept(j)'
        BY <2>3 DEF RebufferStore, update_entry, Later
    <2>4. ASSUME RebufferCount \/ FlushDone PROVE Kept(j)'
        BY <1>2, <2>4 DEF RebufferCount, FlushDone
    <2> QED BY <1>6, <2>1, <2>2, <2>3, <2>4 DEF Flush
<1>7. ASSUME FlushNow PROVE Kept(j)'
    <2>1. CASE FlushNowOk
        BY <2>1, <1>u DEF FlushNowOk, Held, Later
    <2>2. CASE FlushNowErr
        BY <2>2, <1>u DEF FlushNowErr, DbAfterErr, Held, Later
    <2>3. CASE Exit
        BY <2>3 DEF Exit
    <2> QED BY <1>7, <2>1, <2>2, <2>3 DEF FlushNow
<1>8. ASSUME UNCHANGED vars PROVE Kept(j)'
    BY <1>2, <1>8 DEF vars
<1> QED BY <1>1, <1>3, <1>4, <1>5, <1>6, <1>7, <1>8 DEF Next

-----------------------------------------------------------------------------
\* The inductive invariant holds in every reachable state of the cache.
THEOREM ReadInvariant == Spec => []ReadInv
<1>1. ReadInv /\ [Next]_vars => ReadInv'
    BY ReadTypeStep, HandsFreeStep, NoMarkLostStep DEF ReadInv
<1> QED BY <1>1, ReadInit, PTL DEF Spec

\* Type correctness of the read state cache.
THEOREM ReadTypeCorrect == Spec => []TypeOK
<1>1. ReadInv => TypeOK
    BY DEF ReadInv
<1> QED BY <1>1, ReadInvariant, PTL

\* While the server runs the highest acknowledged mark of every key is in the
\* buffer, with a drainer or in the database, and nothing higher is anywhere.
THEOREM ReadNoMarkLost == Spec => []NoMarkLost
<1>1. ReadInv => NoMarkLost
    BY DEF ReadInv
<1> QED BY <1>1, ReadInvariant, PTL

\* The cache implements ReadMarks: a stored mark never moves back, whatever
\* upserts fail, half-fail, are repeated or overtake each other, and is always
\* one that a client acknowledged.
THEOREM ReadImplementsMarks == Spec => MarksSpec
<1>1. Init => MarksInit
    BY DEF Init
<1>2. ASSUME ReadInv, ReadInv', [Next]_vars PROVE [MarksNext]_marksVars
    <2>t. /\ acked \in [Keys -> Mark] /\ db \in [Keys -> Mark] /\ db' \in [Keys -> Mark]
          /\ \A k \in Keys : acked[k] \in Nat /\ db[k] \in Nat
        <3>1. TypeOK /\ TypeOK'
            BY <1>2 DEF ReadInv
        <3>2. db' \in [Keys -> Mark]
            BY <3>1 DEF TypeOK
        <3> QED BY <3>1, <3>2, MarkTypes
    <2>1. ASSUME NEW a \in Ackers, NEW k \in Keys, NEW m \in Messages, AckStore(a, k, m)
          PROVE  [MarksNext]_marksVars
        <3>2. CASE m > acked[k]
            BY <2>1, <3>2, <2>t DEF AckStore, Later, MarksNext, Ack
        <3>3. CASE ~(m > acked[k])
            BY <2>1, <3>3, <2>t DEF AckStore, Later, marksVars
        <3> QED BY <3>2, <3>3
    <2>2. ASSUME UNCHANGED acked, \A k \in Keys : db[k] <= db'[k]
          PROVE  [MarksNext]_marksVars
        <3>1. \A k \in Keys : db'[k] <= acked'[k]
            BY <1>2, NoMarkLostIsKept DEF ReadInv, Kept
        <3> QED BY <2>2, <2>t, <3>1 DEF MarksNext, Persist
    <2>3. \A d \in Drainers : \A rows : \A k \in Keys : db[k] <= upserted(d, rows)[k]
        <3> TAKE d \in Drainers
        <3> TAKE rows
        <3> TAKE k \in Keys
        <3>1. /\ upserted(d, rows)[k] = IF k \in rows THEN Later(batch[d][k], db[k]) ELSE db[k]
              /\ batch[d][k] \in Nat
            BY <1>2, UpsertFacts, MarkTypes DEF ReadInv
        <3> QED BY <2>t, <3>1 DEF Later
    <2>4. \A k \in Keys : db[k] <= db[k]
        BY <2>t, MarkNat
    <2>5. ASSUME Flush \/ FlushNow PROVE [MarksNext]_marksVars
        <3>1. /\ UNCHANGED acked
              /\ db' = db \/ \E d \in Drainers : \E rows : db' = upserted(d, rows)
            BY <2>5 DEF Flush, FlushNow, FlushOk, FlushErr, DbAfterErr, RebufferStore,
                RebufferCount, FlushDone, FlushNowOk, FlushNowErr, Exit, Drainers
        <3> QED BY <2>2, <2>3, <2>4, <3>1
    <2>6. ASSUME NEW a \in Ackers, AckCount(a) PROVE UNCHANGED marksVars
        BY <2>6 DEF AckCount, marksVars
    <2>7. ASSUME Tick \/ Shutdown \/ \E d \in Drainers : Drain(d) PROVE UNCHANGED marksVars
        BY <2>7 DEF Tick, Shutdown, Drain, drain_scan, drain_remove, drain_reset, marksVars
    <2>8. ASSUME UNCHANGED vars PROVE UNCHANGED marksVars
        BY <2>8 DEF vars, marksVars
    <2> QED BY <1>2, <2>1, <2>5, <2>6, <2>7, <2>8 DEF Next
<1> QED BY <1>1, <1>2, ReadInvariant, PTL DEF Spec, MarksSpec
=============================================================================
