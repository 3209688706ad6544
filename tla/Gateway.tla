------------------------------- MODULE Gateway -------------------------------
(***************************************************************************)
(* One gateway node: the connection tasks (gateway/handler.rs) and the     *)
(* heartbeat monitor (gateway/heartbeat.rs) over the session store and the *)
(* presence tracker they share.                                            *)
(*                                                                         *)
(* pc[Conn(s)] is the step of handle_connection for s:                     *)
(*   connecting  waiting for the token                                     *)
(*   authed      authenticated, sessions.insert is next                    *)
(*   inserting   in insert; on_session_open follows                        *)
(*   opening     in on_session_open; READY follows                         *)
(*   reading     the reader loop                                           *)
(*   cleanup     the loop ended (or READY failed); sessions.remove is next *)
(*   removing    in remove; the is_connected check follows                 *)
(*   offlining   the check said no session is left                         *)
(*   closed      handle_connection has returned                            *)
(* pc[Reap(s)] is the step of the monitor for s: "unlisted" until a scan   *)
(* puts s on the list of stale sessions, then cleanup .. closed as above.  *)
(*                                                                         *)
(* Time is not counted. fresh[s] says that s was heard from within the     *)
(* heartbeat timeout; a session can go silent whenever its client may.     *)
(***************************************************************************)
EXTENDS SessionStore, PresenceTracker

CONSTANT Sleepers   \* the sessions whose client may go silent
ASSUME SleepersAssumption == Sleepers \subseteq Sessions

VARIABLES pc,      \* progress of each connection task and of the monitor
          fresh,   \* last_heartbeat[s] is within the timeout
          writer   \* the spawned writer task of s

gatewayVars == <<pc, fresh, writer>>
vars == <<storeVars, trackerVars, gatewayVars>>

ConnPc == {"connecting", "authed", "inserting", "opening", "reading", "cleanup",
           "removing", "offlining", "closed"}
ReapPc == {"unlisted", "cleanup", "removing", "offlining", "closed"}

Init ==
    /\ StoreInit
    /\ TrackerInit
    /\ pc = [c \in Calls |-> IF c[1] = "conn" THEN "connecting" ELSE "unlisted"]
    /\ fresh = [s \in Sessions |-> TRUE]
    /\ writer = [s \in Sessions |-> "none"]

Goto(c, step) == pc' = [pc EXCEPT ![c] = step]

\* The reader loop of s runs, and no handler of an earlier message does.
Reading(s) == pc[Conn(s)] = "reading" /\ tracker_pc[Conn(s)] = "returned"

-----------------------------------------------------------------------------
(* handle_connection, for the connection of session s. *)

\* The first message is a valid token ...
Authenticate(s) ==
    /\ pc[Conn(s)] = "connecting"
    /\ Goto(Conn(s), "authed")
    /\ UNCHANGED <<storeVars, trackerVars, fresh, writer>>

\* ... or it is not, or it is not text, or none comes within five seconds.
AuthFail(s) ==
    /\ pc[Conn(s)] = "connecting"
    /\ Goto(Conn(s), "closed")
    /\ UNCHANGED <<storeVars, trackerVars, fresh, writer>>

InsertSession(s) ==
    /\ pc[Conn(s)] = "authed"
    /\ insert_push(Conn(s))
    /\ Goto(Conn(s), "inserting")
    /\ UNCHANGED <<trackerVars, fresh, writer>>

OpenPresence(s) ==
    /\ pc[Conn(s)] = "inserting"
    /\ store_pc[Conn(s)] = "ready"
    /\ on_session_open_cancel(Conn(s))
    /\ Goto(Conn(s), "opening")
    /\ UNCHANGED <<storeVars, fresh, writer>>

\* READY is sent, the socket is split and the writer task spawned.
SendReady(s) ==
    /\ pc[Conn(s)] = "opening"
    /\ tracker_pc[Conn(s)] = "returned"
    /\ Goto(Conn(s), "reading")
    /\ writer' = [writer EXCEPT ![s] = "running"]
    /\ UNCHANGED <<storeVars, trackerVars, fresh>>

\* Mutant: handle_connection returns at once, without cleanup.
ReadyFail_returns(s) ==
    /\ pc[Conn(s)] = "opening"
    /\ tracker_pc[Conn(s)] = "returned"
    /\ Goto(Conn(s), "closed")
    /\ UNCHANGED <<storeVars, trackerVars, fresh, writer>>

\* Sending READY fails.
ReadyFail(s) ==
    /\ pc[Conn(s)] = "opening"
    /\ tracker_pc[Conn(s)] = "returned"
    /\ Goto(Conn(s), "cleanup")
    /\ UNCHANGED <<storeVars, trackerVars, fresh, writer>>

\* A text frame or a ping that leaves presence alone: the heartbeat is stored.
ClientFrame(s) ==
    /\ Reading(s)
    /\ fresh' = [fresh EXCEPT ![s] = TRUE]
    /\ UNCHANGED <<storeVars, trackerVars, pc, writer>>

\* An UpdatePresence message: the heartbeat is stored, then set_status runs.
UpdatePresence(s, new) ==
    /\ Reading(s)
    /\ fresh' = [fresh EXCEPT ![s] = TRUE]
    /\ set_status_state(Conn(s), new)
    /\ UNCHANGED <<storeVars, pc, writer>>

\* Mutant: the end of the stream returns without cleanup.
Disconnect_returns(s) ==
    /\ Reading(s)
    /\ Goto(Conn(s), "closed")
    /\ writer' = [writer EXCEPT ![s] = "stopped"]
    /\ UNCHANGED <<storeVars, trackerVars, fresh>>

\* A close frame, an error or the end of the stream ends the loop; the writer
\* task is aborted.
Disconnect(s) ==
    /\ Reading(s)
    /\ Goto(Conn(s), "cleanup")
    /\ writer' = [writer EXCEPT ![s] = "stopped"]
    /\ UNCHANGED <<storeVars, trackerVars, fresh>>

\* The writer task ends when its channel is closed, because the Session with
\* the only sender was dropped, or when writing to the socket fails. Neither
\* ends the reader loop.
WriterStops(s) ==
    /\ writer[s] = "running"
    /\ writer' = [writer EXCEPT ![s] = "stopped"]
    /\ UNCHANGED <<storeVars, trackerVars, pc, fresh>>

-----------------------------------------------------------------------------
(* cleanup() of a connection task, and the body of the monitor's loop, which
   makes the same calls. *)

\* The monitor works off its list one session at a time.
MonitorFree == \A s \in Sessions : pc[Reap(s)] \notin {"removing", "offlining"}

RemoveSession(c) ==
    /\ pc[c] = "cleanup"
    /\ c[1] = "reap" => MonitorFree
    /\ remove_retain(c)
    /\ Goto(c, "removing")
    /\ UNCHANGED <<trackerVars, fresh, writer>>

\* Mutant: only the task whose remove found the session goes on.
CheckConnected_found(c) ==
    /\ pc[c] = "removing"
    /\ store_pc[c] \in {"true", "false"}
    /\ Goto(c, IF is_connected(UserOf(c)) \/ store_pc[c] = "false"
               THEN "closed" ELSE "offlining")
    /\ UNCHANGED <<storeVars, trackerVars, fresh, writer>>

CheckConnected(c) ==
    /\ pc[c] = "removing"
    /\ store_pc[c] \in {"true", "false"}
    /\ Goto(c, IF is_connected(UserOf(c)) THEN "closed" ELSE "offlining")
    /\ UNCHANGED <<storeVars, trackerVars, fresh, writer>>

CloseAll(c) ==
    /\ pc[c] = "offlining"
    /\ on_all_sessions_closed_cancel(c)
    /\ UNCHANGED <<storeVars, gatewayVars>>

SpawnTimer(c) ==
    /\ pc[c] = "offlining"
    /\ on_all_sessions_closed_spawn(c)
    /\ Goto(c, "closed")
    /\ UNCHANGED <<storeVars, fresh, writer>>

-----------------------------------------------------------------------------
(* The heartbeat monitor. *)

\* The timeout passes without a message of s. The few statements from insert
\* to the end of on_session_open take far less than the timeout.
GoSilent(s) ==
    /\ s \in Sleepers
    /\ fresh[s]
    /\ pc[Conn(s)] \in {"opening", "reading"}
    /\ tracker_pc[Conn(s)] = "returned"
    /\ fresh' = [fresh EXCEPT ![s] = FALSE]
    /\ UNCHANGED <<storeVars, trackerVars, pc, writer>>

\* Mutant: only users none of whose sessions was heard from count.
find_stale_users ==
    {s \in Sessions : Stored(s) /\ \A t \in sessions[Owner[s]] : ~fresh[t]}

\* Sessions in the registry that were not heard from within the timeout.
find_stale_sessions == {s \in Sessions : Stored(s) /\ ~fresh[s]}

\* A tick: with the previous list worked off, the stale sessions are listed.
MonitorTick ==
    /\ \A s \in Sessions : pc[Reap(s)] \in {"unlisted", "closed"}
    /\ find_stale_sessions # {}
    /\ pc' = [c \in Calls |-> IF c[1] = "reap" /\ SessionOf(c) \in find_stale_sessions
                              THEN "cleanup" ELSE pc[c]]
    /\ UNCHANGED <<storeVars, trackerVars, fresh, writer>>

-----------------------------------------------------------------------------
\* The inner steps of insert, remove, on_session_open and set_status.
InnerStep(c) ==
    \/ StoreStep(c) /\ UNCHANGED <<trackerVars, gatewayVars>>
    \/ TrackerStep(c) /\ UNCHANGED <<storeVars, gatewayVars>>

Timer(t) == TimerStep(t) /\ UNCHANGED <<storeVars, gatewayVars>>

Client(s) ==
    \/ Authenticate(s)
    \/ AuthFail(s)
    \/ ReadyFail(s)
    \/ ClientFrame(s)
    \/ \E new \in ClientStatus : UpdatePresence(s, new)
    \/ Disconnect(s)
    \/ GoSilent(s)

Next ==
    \/ \E s \in Sessions :
          \/ Client(s)
          \/ InsertSession(s)
          \/ OpenPresence(s)
          \/ SendReady(s)
          \/ WriterStops(s)
    \/ \E c \in Calls :
          \/ InnerStep(c)
          \/ RemoveSession(c)
          \/ CheckConnected(c)
          \/ CloseAll(c)
          \/ SpawnTimer(c)
          \/ Timer(c)
    \/ MonitorTick

Spec == Init /\ [][Next]_vars

\* The runtime keeps polling ready tasks and its timers elapse. Clients owe
\* nothing: they may stay silent or connected forever.
Fairness ==
    /\ \A s \in Sessions :
          /\ WF_vars(InsertSession(s))
          /\ WF_vars(OpenPresence(s))
          /\ WF_vars(SendReady(s) \/ ReadyFail(s))
    /\ \A c \in Calls :
          /\ WF_vars(InnerStep(c))
          /\ WF_vars(RemoveSession(c))
          /\ WF_vars(CheckConnected(c))
          /\ WF_vars(CloseAll(c) \/ SpawnTimer(c))
          /\ WF_vars(Timer(c))
    /\ WF_vars(MonitorTick)

FairSpec == Spec /\ Fairness

-----------------------------------------------------------------------------
TypeOK ==
    /\ StoreTypeOK
    /\ TrackerTypeOK
    /\ pc \in [Calls -> ConnPc \cup ReapPc]
    /\ fresh \in [Sessions -> BOOLEAN]
    /\ writer \in [Sessions -> {"none", "running", "stopped"}]

Shown(st) == st \notin {"absent", "offline"}

\* The connection task of s is between its insert and the end of its cleanup,
\* or the monitor is about to start the offline timer for s.
Active(c) == IF c[1] = "conn" THEN pc[c] \notin {"connecting", "authed", "closed"}
                              ELSE pc[c] = "offlining"

\* Somebody will see to it that u goes offline: a task that still has its
\* cleanup to do, or a debounce timer nobody has cancelled.
Covered(u) == \E c \in Calls : UserOf(c) = u /\ (Active(c) \/ Live(c))

\* A session in the registry belongs to a connection that has yet to remove it.
StoredAreActive ==
    \A u \in Users : \A s \in sessions[u] :
        Owner[s] = u /\ pc[Conn(s)] \in {"inserting", "opening", "reading", "cleanup"}

\* No user is left shown online with nobody to take it back. Whatever cleanups,
\* reaps, reconnects and timers cancel each other, a user whose tracked status
\* or last broadcast status is not offline has a task or a timer that will
\* still get to on_all_sessions_closed or to its offline broadcast.
NoGhostOnline ==
    \A u \in Users :
        /\ Shown(status[u]) => Covered(u)
        /\ Shown(last_update[u]) => \/ Covered(u)
                                   \/ \E t \in Calls : UserOf(t) = u /\ Firing(t)

\* All that ever runs for u has ended.
Gone(u) == \A c \in Calls : UserOf(c) = u =>
              /\ pc[c] \in {"connecting", "authed", "unlisted", "closed"}
              /\ timer[c] \in {"none", "fired", "cancelled"}

\* Once the last connection, reap and timer of a user have ended, get_status
\* says offline and so does the last update sent to the other clients.
GoneMeansOffline ==
    \A u \in Users : Gone(u) => /\ get_status(u) = "offline"
                                /\ ~Shown(last_update[u])

\* handle_connection is over, or has not begun, for every session of u.
Away(u) == \A s \in Sessions : Owner[s] = u =>
              pc[Conn(s)] \in {"connecting", "closed"}

\* A user whose connections have all ended is eventually shown offline, unless
\* a new connection comes.
AwayGoesOffline ==
    \A u \in Users :
        Away(u) ~> \/ ~Away(u)
                   \/ get_status(u) = "offline" /\ ~Shown(last_update[u])

\* A session that stays silent past the timeout is eventually reaped: it does
\* not stay in the registry forever.
SilentIsReaped ==
    \A s \in Sessions : Stored(s) /\ ~fresh[s] ~> ~Stored(s) \/ fresh[s]

-----------------------------------------------------------------------------
(* What the code and its documents say that does not hold, see also
   OnlyOwnRemoval. *)

\* Nothing is under way for u: its connections idle in their reader loops or
\* are over, no timer runs.
Settled(u) == \A c \in Calls : UserOf(c) = u =>
                 /\ pc[c] \in {"connecting", "unlisted", "reading", "closed"}
                 /\ tracker_pc[c] = "returned"
                 /\ timer[c] \in {"none", "fired", "cancelled"}

\* handler.rs starts the offline timer "If this was the user's last session",
\* and the README says of a user who returns in time that "the timer cancels
\* silently": a settled user with a live connection is not shown offline (no
\* client asks for it as long as "offline" is not in ClientStatus).
ConnectedNotOffline ==
    \A u \in Users : Settled(u) /\ is_connected(u) => get_status(u) # "offline"
=============================================================================
