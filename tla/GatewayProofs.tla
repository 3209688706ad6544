---------------------------- MODULE GatewayProofs ----------------------------
(***************************************************************************)
(* The gateway node's invariants, for any users, sessions and owners: it   *)
(* uses the session store as SessionStore specifies, and never leaves a    *)
(* user shown online with nobody to take the user offline.                 *)
(***************************************************************************)
EXTENDS Gateway, SessionStoreProofs

\* A call is inside a tracker method only at the step of handle_connection or
\* of the monitor that calls the method, and a reap stays in its own steps.
PcAgrees ==
    \A c \in Calls :
        /\ tracker_pc[c] = "opening" => pc[c] = "opening"
        /\ tracker_pc[c] \in PresenceStatus => pc[c] \in {"opening", "reading"}
        /\ tracker_pc[c] = "closing" => pc[c] = "offlining"
        /\ pc[c] \in IF c[1] = "conn" THEN ConnPc ELSE ReapPc

\* The inductive invariant. NoGhostOnline needs PcAgrees, to know that a task
\* that is setting a status is active, and StoredAreActive, to know that the
\* session which makes is_connected true will get to its own cleanup.
GatewayInv ==
    /\ StoreInv
    /\ TypeOK
    /\ PcAgrees
    /\ StoredAreActive
    /\ HandlesAreLive
    /\ NoGhostOnline

-----------------------------------------------------------------------------
\* Every step of the gateway is a step of the session store, or leaves it alone.
LEMMA StepOfStore == ASSUME [Next]_vars PROVE [StoreNext]_storeVars
<1>1. ASSUME NEW s \in Sessions, InsertSession(s) PROVE StoreNext
    BY <1>1, CallFacts DEF InsertSession, StoreNext
<1>2. ASSUME NEW c \in Calls, RemoveSession(c) PROVE StoreNext
    BY <1>2 DEF RemoveSession, StoreNext
<1>3. ASSUME NEW c \in Calls, InnerStep(c) PROVE StoreNext \/ UNCHANGED storeVars
    BY <1>3 DEF InnerStep, StoreNext
<1>4. ASSUME NEW s \in Sessions,
             Client(s) \/ OpenPresence(s) \/ SendReady(s) \/ WriterStops(s)
      PROVE  UNCHANGED storeVars
    BY <1>4 DEF Client, Authenticate, AuthFail, ReadyFail, ClientFrame, UpdatePresence,
                Disconnect, GoSilent, OpenPresence, SendReady, WriterStops
<1>5. ASSUME NEW c \in Calls,
             CheckConnected(c) \/ CloseAll(c) \/ SpawnTimer(c) \/ Timer(c)
      PROVE  UNCHANGED storeVars
    BY <1>5 DEF CheckConnected, CloseAll, SpawnTimer, Timer
<1>6. ASSUME MonitorTick PROVE UNCHANGED storeVars
    BY <1>6 DEF MonitorTick
<1>7. ASSUME UNCHANGED vars PROVE UNCHANGED storeVars
    BY <1>7 DEF vars
<1> QED BY <1>1, <1>2, <1>3, <1>4, <1>5, <1>6, <1>7 DEF Next

\* The gateway's behaviours are behaviours of the session store, by the way its
\* actions are put together; what SessionStoreProofs shows holds here.
LEMMA GatewayImplementsStore == Spec => StoreSpec
<1>1. Init => StoreInit
    BY DEF Init
<1> QED BY <1>1, StepOfStore, PTL DEF Spec, StoreSpec

\* Hence the store's invariants hold on a gateway node.
THEOREM GatewayStoreInvariant == Spec => [](CounterBalances /\ TakenOnce)
<1>1. StoreInv => CounterBalances /\ TakenOnce
    BY DEF StoreInv
<1> QED BY <1>1, GatewayImplementsStore, StoreInvariant, PTL

-----------------------------------------------------------------------------
\* The first component of a call tells the two tasks apart.
LEMMA KindFacts ==
    /\ \A s \in Sessions : Conn(s)[1] = "conn" /\ Reap(s)[1] = "reap"
    /\ \A c \in Calls : c[1] \in {"conn", "reap"}
    /\ \A c \in Calls : c[1] = "conn" <=> c = Conn(SessionOf(c))
BY CallFacts DEF Calls, Conn, Reap, SessionOf

\* The inductive invariant holds in the initial states.
LEMMA GatewayInitInv == Init => GatewayInv
<1> SUFFICES ASSUME Init PROVE GatewayInv
    OBVIOUS
<1>1. TypeOK
    BY StoreInitInv DEF Init, TypeOK, StoreInv, TrackerInit, TrackerTypeOK, TimerState,
        ConnPc, ReapPc
<1>2. PcAgrees
    BY DEF Init, TrackerInit, PcAgrees, ConnPc, ReapPc, PresenceStatus
<1>3. StoredAreActive
    BY DEF Init, StoreInit, StoredAreActive
<1>4. HandlesAreLive
    BY DEF Init, TrackerInit, HandlesAreLive
<1>5. NoGhostOnline
    BY DEF Init, TrackerInit, NoGhostOnline, Shown
<1> QED BY <1>1, <1>2, <1>3, <1>4, <1>5, StoreInitInv DEF GatewayInv, Init

\* The types of the presence tracker's and the gateway's own state are kept.
LEMMA TypeStep == ASSUME TypeOK, StoreTypeOK', [Next]_vars PROVE TypeOK'
<1> USE CallFacts, ClientStatusAssumption DEF TypeOK, TrackerTypeOK, TimerState, ConnPc, ReapPc,
        Goto, trackerVars, gatewayVars
<1>1. ASSUME NEW s \in Sessions, Client(s) PROVE TypeOK'
    <2>1. CASE \E new \in ClientStatus : UpdatePresence(s, new)
        BY <2>1 DEF UpdatePresence, set_status_state
    <2>2. CASE Authenticate(s) \/ AuthFail(s) \/ ReadyFail(s) \/ Disconnect(s)
        BY <2>2 DEF Authenticate, AuthFail, ReadyFail, Disconnect
    <2>3. CASE ClientFrame(s)
        BY <2>3 DEF ClientFrame
    <2>4. CASE GoSilent(s)
        BY <2>4 DEF GoSilent
    <2> QED BY <1>1, <2>1, <2>2, <2>3, <2>4 DEF Client
<1>2. ASSUME NEW s \in Sessions, InsertSession(s) \/ SendReady(s) \/ WriterStops(s)
      PROVE  TypeOK'
    BY <1>2 DEF InsertSession, SendReady, WriterStops
<1>3. ASSUME NEW s \in Sessions, OpenPresence(s) PROVE TypeOK'
    BY <1>3 DEF OpenPresence, on_session_open_cancel, cancel_pending
<1>4. ASSUME NEW c \in Calls, InnerStep(c) PROVE TypeOK'
    <2>1. CASE StoreStep(c) /\ UNCHANGED <<trackerVars, gatewayVars>>
        BY <2>1
    <2>2. CASE TrackerStep(c) /\ UNCHANGED <<storeVars, gatewayVars>>
        <3>1. CASE on_session_open_state(c)
            BY <2>2, <3>1 DEF on_session_open_state, PresenceStatus
        <3>2. CASE broadcast(c)
            BY <2>2, <3>2 DEF broadcast, PresenceStatus
        <3> QED BY <2>2, <3>1, <3>2 DEF TrackerStep
    <2> QED BY <1>4, <2>1, <2>2 DEF InnerStep
<1>5. ASSUME NEW c \in Calls, RemoveSession(c) \/ CheckConnected(c) PROVE TypeOK'
    BY <1>5 DEF RemoveSession, CheckConnected
<1>6. ASSUME NEW c \in Calls, CloseAll(c) PROVE TypeOK'
    BY <1>6 DEF CloseAll, on_all_sessions_closed_cancel, cancel_pending
<1>7. ASSUME NEW c \in Calls, SpawnTimer(c) PROVE TypeOK'
    BY <1>7 DEF SpawnTimer, on_all_sessions_closed_spawn
<1>8. ASSUME NEW c \in Calls, Timer(c) PROVE TypeOK'
    BY <1>8 DEF Timer, TimerStep, timer_offline, timer_unregister, timer_broadcast,
        timer_cancelled, PresenceStatus
<1>9. ASSUME MonitorTick PROVE TypeOK'
    BY <1>9 DEF MonitorTick
<1>10. ASSUME UNCHANGED vars PROVE TypeOK'
    BY <1>10 DEF vars
<1> QED BY <1>1, <1>2, <1>3, <1>4, <1>5, <1>6, <1>7, <1>8, <1>9, <1>10 DEF Next

\* The steps of the tasks and of the calls they are in stay in agreement.
LEMMA PcAgreesStep == ASSUME TypeOK, PcAgrees, [Next]_vars PROVE PcAgrees'
<1> USE CallFacts, KindFacts, ClientStatusAssumption
    DEF TypeOK, TrackerTypeOK, ConnPc, ReapPc, PresenceStatus, PcAgrees, Goto,
        trackerVars, gatewayVars
<1>1. ASSUME NEW s \in Sessions, Client(s) PROVE PcAgrees'
    <2>1. CASE \E new \in ClientStatus : UpdatePresence(s, new)
        BY <2>1 DEF UpdatePresence, set_status_state, Reading
    <2>2. CASE Authenticate(s) \/ AuthFail(s) \/ ReadyFail(s)
        BY <2>2 DEF Authenticate, AuthFail, ReadyFail
    <2>3. CASE ClientFrame(s) \/ Disconnect(s) \/ GoSilent(s)
        BY <2>3 DEF ClientFrame, Disconnect, GoSilent, Reading
    <2> QED BY <1>1, <2>1, <2>2, <2>3 DEF Client
<1>2. ASSUME NEW s \in Sessions, InsertSession(s) \/ SendReady(s) \/ WriterStops(s)
      PROVE  PcAgrees'
    BY <1>2 DEF InsertSession, SendReady, WriterStops
<1>3. ASSUME NEW s \in Sessions, OpenPresence(s) PROVE PcAgrees'
    BY <1>3 DEF OpenPresence, on_session_open_cancel
<1>4. ASSUME NEW c \in Calls, InnerStep(c) PROVE PcAgrees'
    <2>1. CASE StoreStep(c) /\ UNCHANGED <<trackerVars, gatewayVars>>
        BY <2>1
    <2>2. CASE TrackerStep(c) /\ UNCHANGED <<storeVars, gatewayVars>>
        BY <2>2 DEF TrackerStep, on_session_open_state, broadcast
    <2> QED BY <1>4, <2>1, <2>2 DEF InnerStep
<1>5. ASSUME NEW c \in Calls, RemoveSession(c) \/ CheckConnected(c) PROVE PcAgrees'
    BY <1>5 DEF RemoveSession, CheckConnected
<1>6. ASSUME NEW c \in Calls, CloseAll(c) \/ SpawnTimer(c) PROVE PcAgrees'
    BY <1>6 DEF CloseAll, SpawnTimer, on_all_sessions_closed_cancel,
        on_all_sessions_closed_spawn
<1>7. ASSUME NEW c \in Calls, Timer(c) PROVE PcAgrees'
    BY <1>7 DEF Timer, TimerStep, timer_offline, timer_unregister, timer_broadcast,
        timer_cancelled
<1>8. ASSUME MonitorTick PROVE PcAgrees'
    <2>1. ASSUME NEW c \in Calls
          PROVE  pc'[c] = pc[c] \/ (c = Reap(SessionOf(c)) /\ pc'[c] = "cleanup"
                                      /\ pc[c] \in {"unlisted", "closed"})
        BY <1>8 DEF MonitorTick
    <2> QED BY <1>8, <2>1 DEF MonitorTick
<1>9. ASSUME UNCHANGED vars PROVE PcAgrees'
    BY <1>9 DEF vars
<1> QED BY <1>1, <1>2, <1>3, <1>4, <1>5, <1>6, <1>7, <1>8, <1>9 DEF Next

\* A connection removes its session before it ends.
LEMMA StoredAreActiveStep ==
    ASSUME TypeOK, TypeOK', StoredAreActive, [Next]_vars PROVE StoredAreActive'
<1> USE CallFacts, KindFacts DEF TypeOK, StoreTypeOK, Goto, StoredAreActive
\* Steps that leave the registry alone move a task that owns a session there
\* from one active step to the next.
<1>1. ASSUME NEW s \in Sessions,
             Client(s) \/ OpenPresence(s) \/ SendReady(s) \/ WriterStops(s)
      PROVE  StoredAreActive'
    BY <1>1 DEF Client, Authenticate, AuthFail, ReadyFail, ClientFrame, UpdatePresence,
        Disconnect, GoSilent, OpenPresence, SendReady, WriterStops, storeVars, Reading
<1>2. ASSUME NEW s \in Sessions, InsertSession(s) PROVE StoredAreActive'
    BY <1>2 DEF InsertSession, insert_push
<1>3. ASSUME NEW c \in Calls, InnerStep(c) PROVE StoredAreActive'
    BY <1>3 DEF InnerStep, StoreStep, insert_count, remove_entry, remove_count, gatewayVars,
        storeVars
<1>4. ASSUME NEW c \in Calls, RemoveSession(c) PROVE StoredAreActive'
    BY <1>4 DEF RemoveSession, remove_retain
<1>5. ASSUME NEW c \in Calls, CheckConnected(c) PROVE StoredAreActive'
    BY <1>5 DEF CheckConnected, storeVars
<1>6. ASSUME NEW c \in Calls, CloseAll(c) \/ SpawnTimer(c) \/ Timer(c) PROVE StoredAreActive'
    BY <1>6 DEF CloseAll, SpawnTimer, Timer, gatewayVars, storeVars
<1>7. ASSUME MonitorTick PROVE StoredAreActive'
    BY <1>7 DEF MonitorTick, storeVars
<1>8. ASSUME UNCHANGED vars PROVE StoredAreActive'
    BY <1>8 DEF vars, storeVars, gatewayVars
<1> QED BY <1>1, <1>2, <1>3, <1>4, <1>5, <1>6, <1>7, <1>8 DEF Next

\* A cancel handle goes when its timer is cancelled or fires.
LEMMA HandlesStep == ASSUME TypeOK, HandlesAreLive, [Next]_vars PROVE HandlesAreLive'
<1> USE CallFacts, NoTimerAssumption DEF TypeOK, TrackerTypeOK, HandlesAreLive
<1>1. ASSUME NEW u \in Users, cancel_pending(u) PROVE HandlesAreLive'
    BY <1>1 DEF cancel_pending
<1>2. ASSUME NEW s \in Sessions, OpenPresence(s) PROVE HandlesAreLive'
    BY <1>1, <1>2 DEF OpenPresence, on_session_open_cancel
<1>3. ASSUME NEW c \in Calls, CloseAll(c) PROVE HandlesAreLive'
    BY <1>1, <1>3 DEF CloseAll, on_all_sessions_closed_cancel
<1>4. ASSUME NEW c \in Calls, SpawnTimer(c) PROVE HandlesAreLive'
    BY <1>4 DEF SpawnTimer, on_all_sessions_closed_spawn
<1>5. ASSUME NEW c \in Calls, Timer(c) PROVE HandlesAreLive'
    BY <1>5 DEF Timer, TimerStep, timer_offline, timer_unregister, timer_broadcast,
        timer_cancelled
<1>6. ASSUME UNCHANGED <<pending_offline, timer>> PROVE HandlesAreLive'
    BY <1>6
<1>7. ASSUME NEW s \in Sessions,
             Client(s) \/ InsertSession(s) \/ SendReady(s) \/ WriterStops(s)
      PROVE  UNCHANGED <<pending_offline, timer>>
    BY <1>7 DEF Client, Authenticate, AuthFail, ReadyFail, ClientFrame, UpdatePresence,
        Disconnect, GoSilent, InsertSession, SendReady, WriterStops, set_status_state,
        trackerVars
<1>8. ASSUME NEW c \in Calls, InnerStep(c) \/ RemoveSession(c) \/ CheckConnected(c)
      PROVE  UNCHANGED <<pending_offline, timer>>
    BY <1>8 DEF InnerStep, TrackerStep, on_session_open_state, broadcast, RemoveSession,
        CheckConnected, trackerVars
<1>9. ASSUME MonitorTick \/ UNCHANGED vars PROVE UNCHANGED <<pending_offline, timer>>
    BY <1>9 DEF MonitorTick, vars, trackerVars
<1> QED BY <1>2, <1>3, <1>4, <1>5, <1>6, <1>7, <1>8, <1>9 DEF Next

-----------------------------------------------------------------------------
\* No step leaves a shown user without cover.
LEMMA NoGhostStep ==
    ASSUME GatewayInv, [Next]_vars PROVE NoGhostOnline'
<1> DEFINE Late(u) == \E t \in Calls : UserOf(t) = u /\ Firing(t)
<1>i. \A u \in Users : /\ Shown(status[u]) => Covered(u)
                       /\ Shown(last_update[u]) => Covered(u) \/ Late(u)
    BY DEF GatewayInv, NoGhostOnline
<1> USE CallFacts, KindFacts DEF Goto
<1>t. TypeOK /\ TrackerTypeOK
    BY DEF GatewayInv, TypeOK
\* Steps that change neither the statuses nor the timers, and end no task.
<1>1. ASSUME UNCHANGED <<status, last_update, timer>>,
             \A c \in Calls : Active(c) => Active(c)'
      PROVE  NoGhostOnline'
    BY <1>1, <1>i DEF NoGhostOnline, Covered, Live, Firing
<1>2. ASSUME NEW s \in Sessions, InsertSession(s) \/ SendReady(s) \/ WriterStops(s)
      PROVE  NoGhostOnline'
    BY <1>1, <1>2, <1>t DEF InsertSession, SendReady, WriterStops, Active, TypeOK, trackerVars
<1>3. ASSUME NEW s \in Sessions, Client(s) PROVE NoGhostOnline'
    <2>1. CASE Authenticate(s) \/ AuthFail(s) \/ ReadyFail(s)
        BY <1>1, <2>1, <1>t DEF Authenticate, AuthFail, ReadyFail, Active, TypeOK, trackerVars
    <2>2. CASE ClientFrame(s) \/ Disconnect(s) \/ GoSilent(s)
        BY <1>1, <2>2, <1>t DEF ClientFrame, Disconnect, GoSilent, Active, TypeOK, trackerVars
    <2>3. CASE \E new \in ClientStatus : UpdatePresence(s, new)
        <3>1. /\ pc[Conn(s)] = "reading"
              /\ UNCHANGED <<pc, timer, last_update>>
              /\ \A u \in Users : u # UserOf(Conn(s)) => status'[u] = status[u]
            BY <2>3, <1>t DEF UpdatePresence, Reading, set_status_state, TrackerTypeOK
        <3>2. Covered(UserOf(Conn(s)))'
            BY <3>1 DEF Covered, Active
        <3> QED BY <3>1, <3>2, <1>i DEF NoGhostOnline, Covered, Active, Live, Firing
    <2> QED BY <1>3, <2>1, <2>2, <2>3 DEF Client
\* Cancelling a pending timer: the caller is active itself.
<1>4. ASSUME NEW c \in Calls, cancel_pending(UserOf(c)), Active(c)',
             UNCHANGED <<status, last_update>>,
             \A d \in Calls : Active(d) => Active(d)'
      PROVE  NoGhostOnline'
    <2>1. Covered(UserOf(c))'
        BY <1>4 DEF Covered
    <2>2. \A t \in Calls : /\ Firing(t) => Firing(t)'
                           /\ Live(t) /\ UserOf(t) # UserOf(c) => Live(t)'
        BY <1>4, NoTimerAssumption
        DEF cancel_pending, Firing, Live, GatewayInv, HandlesAreLive
    <2> QED BY <1>4, <1>i, <2>1, <2>2 DEF NoGhostOnline, Covered
<1>5. ASSUME NEW s \in Sessions, OpenPresence(s) PROVE NoGhostOnline'
    BY <1>4, <1>5, <1>t DEF OpenPresence, on_session_open_cancel, Active, TypeOK
<1>6. ASSUME NEW c \in Calls, CloseAll(c) PROVE NoGhostOnline'
    BY <1>4, <1>6, <1>t DEF CloseAll, on_all_sessions_closed_cancel, Active, gatewayVars
<1>7. ASSUME NEW c \in Calls, SpawnTimer(c) PROVE NoGhostOnline'
    <2>1. /\ UNCHANGED <<status, last_update>>
          /\ Live(c)'
          /\ \A d \in Calls \ {c} : /\ Active(d) <=> Active(d)'
                                    /\ timer'[d] = timer[d]
        BY <1>7, <1>t DEF SpawnTimer, on_all_sessions_closed_spawn, Active, Live, TypeOK,
            TrackerTypeOK
    <2> QED BY <2>1, <1>i DEF NoGhostOnline, Covered, Live, Firing
<1>8. ASSUME NEW c \in Calls, InnerStep(c) PROVE NoGhostOnline'
    <2>1. CASE StoreStep(c) /\ UNCHANGED <<trackerVars, gatewayVars>>
        BY <1>1, <2>1 DEF trackerVars, gatewayVars, Active
    <2>2. CASE TrackerStep(c) /\ UNCHANGED <<storeVars, gatewayVars>>
        <3>1. /\ pc[c] \in {"opening", "reading"}
              /\ UNCHANGED <<pc, timer>>
              /\ \A u \in Users : u # UserOf(c) => /\ status'[u] = status[u]
                                                   /\ last_update'[u] = last_update[u]
            BY <2>2, <1>t DEF TrackerStep, on_session_open_state, broadcast, GatewayInv, PcAgrees,
                TrackerTypeOK, gatewayVars
        <3>2. Active(c)'
            BY <3>1 DEF Active, GatewayInv, PcAgrees, ReapPc
        <3>3. Covered(UserOf(c))'
            BY <3>2 DEF Covered
        <3> QED BY <3>1, <3>3, <1>i DEF NoGhostOnline, Covered, Active, Live, Firing
    <2> QED BY <1>8, <2>1, <2>2 DEF InnerStep
<1>9. ASSUME NEW c \in Calls, RemoveSession(c) PROVE NoGhostOnline'
    BY <1>1, <1>9, <1>t DEF RemoveSession, Active, TypeOK, trackerVars
\* A task that finds the user connected leaves the matter to that connection.
<1>10. ASSUME NEW c \in Calls, CheckConnected(c) PROVE NoGhostOnline'
    <2>1. CASE ~is_connected(UserOf(c))
        BY <1>1, <1>10, <2>1, <1>t DEF CheckConnected, Active, TypeOK, trackerVars
    <2>2. CASE is_connected(UserOf(c))
        <3>1. PICK s \in sessions[UserOf(c)] :
                 Owner[s] = UserOf(c) /\ pc[Conn(s)] \in {"inserting", "opening", "reading", "cleanup"}
            BY <2>2 DEF is_connected, GatewayInv, StoredAreActive
        <3>2. s \in Sessions
            BY <1>t DEF TypeOK, StoreTypeOK
        <3>3. Conn(s) # c /\ UserOf(Conn(s)) = UserOf(c)
            BY <1>10, <3>1, <3>2 DEF CheckConnected
        <3>4. Covered(UserOf(c))'
            BY <1>10, <1>t, <3>1, <3>2, <3>3 DEF CheckConnected, Covered, Active, TypeOK
        <3>5. \A d \in Calls : UserOf(d) # UserOf(c) => (Active(d) => Active(d)')
            BY <1>10, <1>t DEF CheckConnected, Active, TypeOK
        <3> QED BY <1>10, <1>i, <3>4, <3>5
                DEF CheckConnected, NoGhostOnline, Covered, Live, Firing, trackerVars
    <2> QED BY <2>1, <2>2
<1>11. ASSUME NEW t \in Calls, Timer(t) PROVE NoGhostOnline'
    <2>0. \A c \in Calls : Active(c) <=> Active(c)'
        BY <1>11 DEF Timer, gatewayVars, Active
    <2>1. CASE timer_offline(t)
        <3>1. ~Shown(status'[UserOf(t)]) /\ Firing(t)'
            BY <2>1, <1>t DEF timer_offline, Shown, Firing, TrackerTypeOK
        <3>2. /\ UNCHANGED last_update
              /\ \A u \in Users \ {UserOf(t)} : status'[u] = status[u]
              /\ \A d \in Calls \ {t} : timer'[d] = timer[d]
            BY <2>1, <1>t DEF timer_offline, TrackerTypeOK
        <3> QED BY <2>0, <3>1, <3>2, <1>i DEF NoGhostOnline, Covered, Live, Firing
    <2>2. CASE timer_unregister(t) \/ timer_cancelled(t)
        <3>1. /\ UNCHANGED <<status, last_update>>
              /\ \A d \in Calls : (Live(d) => Live(d)') /\ (Firing(d) => Firing(d)')
            BY <2>2, <1>t DEF timer_unregister, timer_cancelled, Live, Firing, TrackerTypeOK
        <3> QED BY <2>0, <3>1, <1>i DEF NoGhostOnline, Covered
    <2>3. CASE timer_broadcast(t)
        <3>1. /\ ~Shown(last_update'[UserOf(t)])
              /\ UNCHANGED status
              /\ \A u \in Users \ {UserOf(t)} : last_update'[u] = last_update[u]
              /\ \A d \in Calls : /\ Live(d) => Live(d)'
                                  /\ Firing(d) /\ d # t => Firing(d)'
            BY <2>3, <1>t DEF timer_broadcast, Shown, Live, Firing, TrackerTypeOK
        <3> QED BY <2>0, <3>1, <1>i DEF NoGhostOnline, Covered
    <2> QED BY <1>11, <2>1, <2>2, <2>3 DEF Timer, TimerStep
<1>12. ASSUME MonitorTick PROVE NoGhostOnline'
    BY <1>1, <1>12 DEF MonitorTick, Active, trackerVars
<1>13. ASSUME UNCHANGED vars PROVE NoGhostOnline'
    BY <1>1, <1>13 DEF vars, trackerVars, gatewayVars, Active
<1> QED BY <1>2, <1>3, <1>5, <1>6, <1>7, <1>8, <1>9, <1>10, <1>11, <1>12, <1>13 DEF Next

-----------------------------------------------------------------------------
\* The inductive invariant holds in every reachable state of a gateway node.
THEOREM GatewayInvariant == Spec => []GatewayInv
<1>1. ASSUME GatewayInv, [Next]_vars PROVE GatewayInv'
    <2>1. StoreInv'
        BY <1>1, StepOfStore, StoreStepInv DEF GatewayInv
    <2>2. TypeOK'
        BY <1>1, <2>1, TypeStep DEF GatewayInv, StoreInv
    <2>3. PcAgrees' /\ HandlesAreLive'
        BY <1>1, PcAgreesStep, HandlesStep DEF GatewayInv
    <2>4. StoredAreActive'
        BY <1>1, <2>2, StoredAreActiveStep DEF GatewayInv
    <2> QED BY <1>1, <2>1, <2>2, <2>3, <2>4, NoGhostStep DEF GatewayInv
<1> QED BY <1>1, GatewayInitInv, PTL DEF Spec

\* Type correctness of a gateway node.
THEOREM GatewayTypeCorrect == Spec => []TypeOK
<1>1. GatewayInv => TypeOK
    BY DEF GatewayInv
<1> QED BY <1>1, GatewayInvariant, PTL

\* No user is left shown online, in the tracker or by the last broadcast, with
\* no task or timer that will still take the user offline.
THEOREM GatewayNoGhostOnline == Spec => []NoGhostOnline
<1>1. GatewayInv => NoGhostOnline
    BY DEF GatewayInv
<1> QED BY <1>1, GatewayInvariant, PTL

\* Every session in the registry belongs to a task that will take it out again
\* (cleanup, the heartbeat monitor), or is still being served.
THEOREM GatewayStoredAreActive == Spec => []StoredAreActive
<1>1. GatewayInv => StoredAreActive
    BY DEF GatewayInv
<1> QED BY <1>1, GatewayInvariant, PTL

\* Registered cancel handles belong to running timers of their user.
THEOREM GatewayHandlesAreLive == Spec => []HandlesAreLive
<1>1. GatewayInv => HandlesAreLive
    BY DEF GatewayInv
<1> QED BY <1>1, GatewayInvariant, PTL

\* A user for whom nothing runs any more is offline to get_status and to the
\* other clients.
THEOREM GatewayGoneMeansOffline == Spec => []GoneMeansOffline
<1>1. GatewayInv => GoneMeansOffline
    <2> SUFFICES ASSUME GatewayInv, NEW u \in Users, Gone(u)
                 PROVE  ~Shown(status[u]) /\ ~Shown(last_update[u])
        <3> HAVE GatewayInv
        <3>1. \A u \in Users : ~Shown(status[u]) => get_status(u) = "offline"
            BY DEF get_status, Shown
        <3> QED BY <3>1 DEF GoneMeansOffline
    <2>1. \A c \in Calls : UserOf(c) = u => ~Active(c) /\ ~Live(c) /\ ~Firing(c)
        BY DEF Gone, Active, Live, Firing, GatewayInv, PcAgrees, ConnPc
    <2> QED BY <2>1 DEF GatewayInv, NoGhostOnline, Covered
<1> QED BY <1>1, GatewayInvariant, PTL
=============================================================================
