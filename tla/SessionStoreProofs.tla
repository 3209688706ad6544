------------------------- MODULE SessionStoreProofs -------------------------
(***************************************************************************)
(* The session store's invariants, for any users, sessions and owners.     *)
(***************************************************************************)
EXTENDS SessionStore, FiniteSetTheorems, TLAPS

TakenPc == {"emptied", "removed", "true"}

\* A reap never inserts, and its remove runs only for an inserted session.
ReapsFollowInsert ==
    \A s \in Sessions : /\ store_pc[Reap(s)] \notin {"none", "pushed"}
                        /\ store_pc[Reap(s)] # "ready" => Registered(s)

\* The inductive invariant. CounterBalances needs to know that a session about
\* to be uncounted was counted (ReapsFollowInsert) and is uncounted by nobody
\* else (TakenOnce), which in turn rests on a taken session not being in the
\* registry (StoredSessionsLive).
StoreInv ==
    /\ StoreTypeOK
    /\ ReapsFollowInsert
    /\ StoredSessionsLive
    /\ TakenOnce
    /\ CounterBalances

-----------------------------------------------------------------------------
\* The two calls of a session, and that a call is one of them.
LEMMA CallFacts ==
    /\ \A s \in Sessions : /\ Conn(s) \in Calls /\ Reap(s) \in Calls
                           /\ Conn(s) # Reap(s)
                           /\ SessionOf(Conn(s)) = s /\ SessionOf(Reap(s)) = s
    /\ \A s, t \in Sessions : /\ Conn(s) = Conn(t) => s = t
                              /\ Reap(s) = Reap(t) => s = t
                              /\ Conn(s) # Reap(t)
    /\ \A c \in Calls : /\ SessionOf(c) \in Sessions
                        /\ UserOf(c) \in Users
                        /\ UserOf(c) = Owner[SessionOf(c)]
                        /\ c = Conn(SessionOf(c)) \/ c = Reap(SessionOf(c))
BY OwnerAssumption DEF Calls, Conn, Reap, SessionOf, UserOf

\* The inductive invariant holds in the initial state.
LEMMA StoreInitInv == StoreInit => StoreInv
<1> SUFFICES ASSUME StoreInit PROVE StoreInv
    OBVIOUS
<1>1. \A s \in Sessions : store_pc[Conn(s)] = "none" /\ store_pc[Reap(s)] = "ready"
    BY CallFacts DEF StoreInit, Conn, Reap
<1>2. StoreTypeOK
    BY DEF StoreInit, StoreTypeOK, StorePc
<1>3. ReapsFollowInsert /\ TakenOnce
    BY <1>1 DEF ReapsFollowInsert, TakenOnce
<1>4. StoredSessionsLive
    BY DEF StoreInit, StoredSessionsLive
<1>5. CounterBalances
    <2>1. Counted = {}
        BY <1>1 DEF Counted, Registered
    <2> QED BY <2>1, FS_EmptySet DEF CounterBalances, StoreInit
<1> QED BY <1>2, <1>3, <1>4, <1>5 DEF StoreInv

\* The counted sessions have a cardinality.
LEMMA CountedFinite == IsFiniteSet(Counted) /\ Cardinality(Counted) \in Nat
BY SessionsFinite, FS_Subset, FS_CardinalityType DEF Counted

\* The set of counted sessions changes only where the counter does.
LEMMA CountedStep ==
    ASSUME StoreInv, NEW c \in Calls
    PROVE  /\ insert_count(c) => /\ SessionOf(c) \notin Counted
                                 /\ Counted' = Counted \cup {SessionOf(c)}
           /\ remove_count(c) => /\ SessionOf(c) \in Counted
                                 /\ Counted' = Counted \ {SessionOf(c)}
           /\ insert_push(c) \/ remove_retain(c) \/ remove_entry(c)
                 => Counted' = Counted
<1> DEFINE s == SessionOf(c)
<1>0. \A d \in Calls : SessionOf(d) = s => d = Conn(s) \/ d = Reap(s)
    BY CallFacts
<1>00. \A d \in Calls, t \in Sessions : SessionOf(d) = t => d = Conn(t) \/ d = Reap(t)
    BY CallFacts
<1>1. /\ Counted = {t \in Sessions : /\ Registered(t)
                                     /\ store_pc[Conn(t)] # "true"
                                     /\ store_pc[Reap(t)] # "true"}
      /\ Counted' = {t \in Sessions : /\ Registered(t)'
                                      /\ store_pc'[Conn(t)] # "true"
                                      /\ store_pc'[Reap(t)] # "true"}
    BY <1>00, CallFacts DEF Counted
<1>2. ASSUME insert_count(c)
      PROVE  s \notin Counted /\ Counted' = Counted \cup {s}
    <2>1. c = Conn(s)
        BY <1>2, CallFacts DEF insert_count, StoreInv, ReapsFollowInsert
    <2>2. ~Registered(s) /\ store_pc[Reap(s)] = "ready"
        BY <1>2, <2>1, CallFacts
        DEF insert_count, StoreInv, ReapsFollowInsert, Registered
    <2>3. store_pc' = [store_pc EXCEPT ![Conn(s)] = "ready"]
        BY <1>2, <2>1 DEF insert_count
    <2> QED BY <1>1, <2>2, <2>3, CallFacts DEF Registered, StoreInv, StoreTypeOK
<1>3. ASSUME remove_count(c)
      PROVE  s \in Counted /\ Counted' = Counted \ {s}
    <2>1. store_pc[c] = "removed" /\ store_pc' = [store_pc EXCEPT ![c] = "true"]
        BY <1>3 DEF remove_count
    <2>2. Registered(s)
        BY <2>1, CallFacts DEF StoreInv, ReapsFollowInsert, Registered
    <2>3. store_pc[Conn(s)] # "true" /\ store_pc[Reap(s)] # "true"
        BY <2>1, CallFacts DEF StoreInv, TakenOnce
    <2>4. Registered(s)'
        BY <2>1, <2>2, CallFacts DEF Registered, StoreInv, StoreTypeOK
    <2>5. store_pc'[Conn(s)] = "true" \/ store_pc'[Reap(s)] = "true"
        BY <2>1, CallFacts DEF StoreInv, StoreTypeOK
    <2>6. \A t \in Sessions \ {s} : /\ store_pc'[Conn(t)] = store_pc[Conn(t)]
                                    /\ store_pc'[Reap(t)] = store_pc[Reap(t)]
        BY <2>1, CallFacts DEF StoreInv, StoreTypeOK
    <2> QED BY <1>1, <2>2, <2>3, <2>5, <2>6, CallFacts DEF Registered
<1>4. ASSUME insert_push(c) \/ remove_retain(c) \/ remove_entry(c)
      PROVE  Counted' = Counted
    <2>1. \A d \in Calls : /\ d # c => store_pc'[d] = store_pc[d]
                           /\ store_pc[c] # "true" /\ store_pc'[c] # "true"
        BY <1>4 DEF insert_push, remove_retain, remove_entry, after_retain, StoreInv,
                    StoreTypeOK
    <2>2. store_pc[c] \in {"none", "pushed"} <=> store_pc'[c] \in {"none", "pushed"}
        BY <1>4 DEF insert_push, remove_retain, remove_entry, after_retain, StoreInv,
                    StoreTypeOK
    <2> QED BY <1>1, <2>1, <2>2, CallFacts DEF Registered
<1> QED BY <1>2, <1>3, <1>4

\* Each step of insert and remove keeps the invariant.
LEMMA StoreStepInv == StoreInv /\ [StoreNext]_storeVars => StoreInv'
<1> SUFFICES ASSUME StoreInv, [StoreNext]_storeVars PROVE StoreInv'
    OBVIOUS
<1>0. CASE UNCHANGED storeVars
    BY <1>0 DEF StoreInv, storeVars, StoreTypeOK, ReapsFollowInsert, StoredSessionsLive,
                TakenOnce, CounterBalances, Counted, Registered, Taken
<1>1. ASSUME NEW c \in Calls,
             insert_push(c) \/ remove_retain(c) \/ StoreStep(c)
      PROVE  StoreInv'
    <2> DEFINE s == SessionOf(c)
               u == UserOf(c)
    <2>c. /\ s \in Sessions /\ u \in Users /\ u = Owner[s]
          /\ c = Conn(s) \/ c = Reap(s)
          /\ Conn(s) \in Calls /\ Reap(s) \in Calls /\ Conn(s) # Reap(s)
        BY CallFacts
    <2>o. \A t \in Sessions \ {s} : Conn(t) # c /\ Reap(t) # c
        BY CallFacts
    <2>t. \A t \in Sessions : Taken(t) <=> \/ store_pc[Conn(t)] \in TakenPc
                                           \/ store_pc[Reap(t)] \in TakenPc
        BY CallFacts DEF Taken, TakenPc
    <2>u. \A t \in Sessions : Taken(t)' <=> \/ store_pc'[Conn(t)] \in TakenPc
                                            \/ store_pc'[Reap(t)] \in TakenPc
        BY CallFacts DEF Taken, TakenPc
    <2> HIDE DEF s, u
    <2>1. StoreTypeOK'
        BY <1>1, <2>c DEF StoreStep, insert_push, insert_count, remove_retain, remove_entry,
            remove_count, after_retain, StoreInv, StoreTypeOK, StorePc, s, u
    <2>2. ReapsFollowInsert'
        <3> SUFFICES ASSUME NEW t \in Sessions
                     PROVE  /\ store_pc'[Reap(t)] \notin {"none", "pushed"}
                            /\ store_pc'[Reap(t)] # "ready"
                                  => store_pc'[Conn(t)] \notin {"none", "pushed"}
            BY DEF ReapsFollowInsert, Registered
        <3>1. /\ store_pc[Reap(t)] \notin {"none", "pushed"}
              /\ store_pc[Reap(t)] # "ready"
                   => store_pc[Conn(t)] \notin {"none", "pushed"}
              /\ Conn(t) \in Calls /\ Reap(t) \in Calls
            BY CallFacts DEF StoreInv, ReapsFollowInsert, Registered
        <3>2. CASE t # s
            BY <1>1, <2>c, <2>o, <3>1, <3>2 DEF StoreStep, insert_push, insert_count,
                remove_retain, remove_entry, remove_count, StoreInv, StoreTypeOK
        <3>3. CASE t = s
            BY <1>1, <2>c, <3>1, <3>3 DEF StoreStep, insert_push, insert_count,
                remove_retain, remove_entry, remove_count, after_retain, StoreInv,
                StoreTypeOK, Registered, s
        <3> QED BY <3>2, <3>3
    <2>3. StoredSessionsLive'
        <3>1. \A w \in Users : \A t \in sessions[w] :
                 /\ t \in Sessions /\ w \in keys /\ Owner[t] = w
                 /\ store_pc[Conn(t)] # "none"
                 /\ store_pc[Conn(t)] \notin TakenPc /\ store_pc[Reap(t)] \notin TakenPc
            BY <2>t DEF StoreInv, StoreTypeOK, StoredSessionsLive
        <3> SUFFICES ASSUME NEW w \in Users, NEW t \in sessions'[w]
                     PROVE  /\ w \in keys' /\ Owner[t] = w
                            /\ store_pc'[Conn(t)] # "none"
                            /\ store_pc'[Conn(t)] \notin TakenPc
                            /\ store_pc'[Reap(t)] \notin TakenPc
            BY <2>1, <2>u DEF StoredSessionsLive, StoreTypeOK
        <3>2. t \in Sessions
            BY <2>1 DEF StoreTypeOK
        <3>3. CASE insert_push(c)
            <4>1. c = Conn(s) /\ store_pc[Conn(s)] = "none" /\ store_pc[Reap(s)] = "ready"
                BY <3>3, <2>c, CallFacts DEF insert_push, StoreInv, ReapsFollowInsert, Registered
            <4>2. t = s \/ t \in sessions[w]
                BY <3>3 DEF insert_push, StoreInv, StoreTypeOK, s, u
            <4>3. t = s => w = u
                BY <3>1, <3>3, <4>1, <2>c DEF insert_push, StoreInv, StoreTypeOK, s, u
            <4> QED BY <3>1, <3>2, <3>3, <4>1, <4>2, <4>3, <2>c, <2>o, CallFacts
                    DEF insert_push, StoreInv, StoreTypeOK, TakenPc, s, u
        <3>4. CASE insert_count(c) \/ remove_count(c)
            <4>1. sessions' = sessions /\ keys' = keys
                BY <3>4 DEF insert_count, remove_count
            <4>2. t # s \/ insert_count(c)
                BY <3>1, <3>4, <4>1, <2>c DEF remove_count, TakenPc
            <4>3. CASE t # s
                BY <3>1, <3>2, <3>4, <4>1, <4>3, <2>c, <2>o, CallFacts
                    DEF insert_count, remove_count, StoreInv, StoreTypeOK
            <4>4. CASE insert_count(c)
                BY <3>1, <3>2, <4>4, <4>1, <2>c, <2>o, CallFacts
                    DEF insert_count, StoreInv, StoreTypeOK, TakenPc
            <4> QED BY <4>2, <4>3, <4>4
        <3>5. CASE remove_retain(c)
            <4>1. t \in sessions[w] /\ t # s
                BY <3>5, <3>1, <2>c DEF remove_retain, StoreInv, StoreTypeOK, s, u
            <4> QED BY <3>1, <3>2, <3>5, <4>1, <2>o, CallFacts
                    DEF remove_retain, StoreInv, StoreTypeOK
        <3>6. CASE remove_entry(c)
            <4>1. w # u /\ t \in sessions[w]
                BY <3>6, <2>c DEF remove_entry, StoreInv, StoreTypeOK, u
            <4>2. t # s
                BY <3>1, <4>1, <2>c
            <4> QED BY <3>1, <3>2, <3>6, <4>1, <4>2, <2>o, CallFacts
                    DEF remove_entry, StoreInv, StoreTypeOK, u
        <3> QED BY <1>1, <3>3, <3>4, <3>5, <3>6 DEF StoreStep
    <2>4. TakenOnce'
        <3> SUFFICES ASSUME NEW t \in Sessions
                     PROVE  ~(store_pc'[Conn(t)] \in TakenPc /\ store_pc'[Reap(t)] \in TakenPc)
            BY DEF TakenOnce, TakenPc
        <3>1. ~(store_pc[Conn(t)] \in TakenPc /\ store_pc[Reap(t)] \in TakenPc)
            BY DEF StoreInv, TakenOnce, TakenPc
        <3>2. CASE t # s
            BY <1>1, <2>c, <2>o, <3>1, <3>2, CallFacts DEF StoreStep, insert_push, insert_count,
                remove_retain, remove_entry, remove_count, StoreInv, StoreTypeOK
        <3>3. CASE t = s /\ remove_retain(c)
            <4>1. Stored(s) => store_pc[Conn(s)] \notin TakenPc /\ store_pc[Reap(s)] \notin TakenPc
                BY <2>t, <2>c DEF Stored, StoreInv, StoredSessionsLive
            <4>2. store_pc'[c] \in TakenPc => Stored(s)
                BY <3>3 DEF remove_retain, after_retain, StoreInv, StoreTypeOK, TakenPc, s
            <4> QED BY <3>1, <3>3, <4>1, <4>2, <2>c
                    DEF remove_retain, StoreInv, StoreTypeOK
        <3>4. CASE t = s /\ ~remove_retain(c)
            <4>1. store_pc'[c] \in TakenPc => store_pc[c] \in TakenPc
                BY <1>1, <3>4 DEF StoreStep, insert_push, insert_count, remove_entry,
                    remove_count, StoreInv, StoreTypeOK, TakenPc
            <4>2. \A d \in Calls \ {c} : store_pc'[d] = store_pc[d]
                BY <1>1, <3>4 DEF StoreStep, insert_push, insert_count, remove_entry,
                    remove_count, StoreInv, StoreTypeOK
            <4> QED BY <3>1, <3>4, <4>1, <4>2, <2>c
        <3> QED BY <3>2, <3>3, <3>4
    <2>5. CounterBalances'
        <3>1. /\ total_connections = Cardinality(Counted)
              /\ IsFiniteSet(Counted) /\ Cardinality(Counted) \in Nat
            BY CountedFinite DEF StoreInv, CounterBalances
        <3>2. CASE insert_count(c)
            BY <3>1, <3>2, CountedStep, FS_AddElement DEF insert_count, CounterBalances
        <3>3. CASE remove_count(c)
            BY <3>1, <3>3, CountedStep, FS_RemoveElement DEF remove_count, CounterBalances
        <3>4. CASE insert_push(c) \/ remove_retain(c) \/ remove_entry(c)
            <4>1. total_connections' = total_connections
                BY <3>4 DEF insert_push, remove_retain, remove_entry
            <4> QED BY <3>1, <3>4, <4>1, CountedStep DEF CounterBalances
        <3> QED BY <1>1, <3>2, <3>3, <3>4 DEF StoreStep
    <2> QED BY <2>1, <2>2, <2>3, <2>4, <2>5 DEF StoreInv
<1> QED BY <1>0, <1>1 DEF StoreNext

-----------------------------------------------------------------------------
\* The inductive invariant holds in every reachable state of the store.
THEOREM StoreInvariant == StoreSpec => []StoreInv
BY StoreInitInv, StoreStepInv, PTL DEF StoreSpec

\* Type correctness of the session store.
THEOREM StoreTypeCorrect == StoreSpec => []StoreTypeOK
<1>1. StoreInv => StoreTypeOK
    BY DEF StoreInv
<1> QED BY <1>1, StoreInvariant, PTL

\* SessionStore::total_connections is the number of inserted sessions that no
\* remove has returned true for, in every interleaving of insert and remove.
THEOREM StoreCounterBalances == StoreSpec => []CounterBalances
<1>1. StoreInv => CounterBalances
    BY DEF StoreInv
<1> QED BY <1>1, StoreInvariant, PTL

\* A cleanup and a reap of the same session take it out of the registry once,
\* and what they took out is not in the registry.
THEOREM StoreTakesOnce == StoreSpec => []TakenOnce
<1>1. StoreInv => TakenOnce
    BY DEF StoreInv
<1> QED BY <1>1, StoreInvariant, PTL

\* What is in the registry was inserted and taken out by no remove.
THEOREM StoreSessionsLive == StoreSpec => []StoredSessionsLive
<1>1. StoreInv => StoredSessionsLive
    BY DEF StoreInv
<1> QED BY <1>1, StoreInvariant, PTL
=============================================================================
