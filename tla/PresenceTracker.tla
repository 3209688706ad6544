--------------------------- MODULE PresenceTracker ---------------------------
(***************************************************************************)
(* presence/tracker.rs: the status of each user of one gateway node, and   *)
(* the debounce timers that take a user offline.                           *)
(*                                                                         *)
(* Each DashMap operation and each channel send is one step; other tasks   *)
(* and timers run between the steps of one method.  tracker_pc[c] is where *)
(* call c stands:                                                          *)
(*   returned   in no tracker method                                       *)
(*   opening    on_session_open has cancelled the pending timer; the       *)
(*              user's entry is updated next                               *)
(*   closing    on_all_sessions_closed has cancelled the pending timer;    *)
(*              the new handle is inserted and the timer spawned next      *)
(*   a status   broadcaster.broadcast(user, status) is next                *)
(*                                                                         *)
(* timer[c] is the debounce task spawned by on_all_sessions_closed of c:   *)
(*   none         not spawned                                              *)
(*   sleeping     in select!, its Notify holds no permit                   *)
(*   notified     in select!, its Notify holds a permit                    *)
(*   offlined     the sleep branch ran and set the user offline            *)
(*   unregistered ... and removed the user's pending_offline entry         *)
(*   fired        ... and broadcast offline: finished                      *)
(*   cancelled    the notified branch ran: finished                        *)
(* The sleep may have elapsed by the time a notified timer is polled, and  *)
(* select! picks a ready branch at random, so a notified timer can still   *)
(* take the sleep branch.                                                  *)
(*                                                                         *)
(* UserPresence.session_count is written but never read, so it is left out.*)
(***************************************************************************)
EXTENDS RelayTypes

CONSTANT NoTimer   \* pending_offline has no entry for the user
ASSUME NoTimerAssumption == NoTimer \notin Calls

VARIABLES status,           \* state[u].status, "absent" without an entry
          pending_offline,  \* the timer whose Notify is registered for u
          timer,            \* the debounce tasks, see above
          tracker_pc,       \* progress of each call, see above
          last_update       \* the last status sent to the broadcaster for u

trackerVars ==
    <<status, pending_offline, timer, tracker_pc, last_update>>

TimerState == {"none", "sleeping", "notified", "offlined", "unregistered",
               "fired", "cancelled"}

TrackerInit ==
    /\ status = [u \in Users |-> "absent"]
    /\ pending_offline = [u \in Users |-> NoTimer]
    /\ timer = [c \in Calls |-> "none"]
    /\ tracker_pc = [c \in Calls |-> "returned"]
    /\ last_update = [u \in Users |-> "absent"]

get_status(u) == IF status[u] = "absent" THEN "offline" ELSE status[u]

\* pending_offline.remove(user) and notify_one() on the handle it returns. The
\* permit is kept until the timer is polled; one past its select! ignores it.
cancel_pending(u) ==
    /\ pending_offline' = [pending_offline EXCEPT ![u] = NoTimer]
    /\ timer' = [t \in Calls |-> IF t = pending_offline[u] /\ timer[t] = "sleeping"
                                 THEN "notified" ELSE timer[t]]

-----------------------------------------------------------------------------
on_session_open_cancel(c) ==
    /\ tracker_pc[c] = "returned"
    /\ cancel_pending(UserOf(c))
    /\ tracker_pc' = [tracker_pc EXCEPT ![c] = "opening"]
    /\ UNCHANGED <<status, last_update>>

\* Mutant: the status from before the update is broadcast.
on_session_open_state_old(c) ==
    LET u == UserOf(c)
        changed == status[u] \in {"absent", "offline"}
    IN  /\ tracker_pc[c] = "opening"
        /\ status' = [status EXCEPT ![u] = IF changed THEN "online" ELSE @]
        /\ tracker_pc' = [tracker_pc EXCEPT ![c] =
                             IF changed THEN status[u] ELSE "returned"]
        /\ UNCHANGED <<pending_offline, timer, last_update>>

\* entry(user).and_modify(..).or_insert_with(..): a user not shown online
\* becomes so, and only then is the change broadcast.
on_session_open_state(c) ==
    LET u == UserOf(c)
        changed == status[u] \in {"absent", "offline"}
    IN  /\ tracker_pc[c] = "opening"
        /\ status' = [status EXCEPT ![u] = IF changed THEN "online" ELSE @]
        /\ tracker_pc' = [tracker_pc EXCEPT ![c] =
                             IF changed THEN "online" ELSE "returned"]
        /\ UNCHANGED <<pending_offline, timer, last_update>>

\* A user without an entry is left alone, an equal status is no change.
set_status_state(c, new) ==
    LET u == UserOf(c)
        changed == status[u] \notin {"absent", new}
    IN  /\ tracker_pc[c] = "returned"
        /\ status' = [status EXCEPT ![u] = IF changed THEN new ELSE @]
        /\ tracker_pc' = [tracker_pc EXCEPT ![c] = IF changed THEN new ELSE @]
        /\ UNCHANGED <<pending_offline, timer, last_update>>

\* broadcaster.broadcast(user, status), the last statement of both methods.
broadcast(c) ==
    /\ tracker_pc[c] \in PresenceStatus
    /\ last_update' = [last_update EXCEPT ![UserOf(c)] = tracker_pc[c]]
    /\ tracker_pc' = [tracker_pc EXCEPT ![c] = "returned"]
    /\ UNCHANGED <<status, pending_offline, timer>>

on_all_sessions_closed_cancel(c) ==
    /\ tracker_pc[c] = "returned"
    /\ timer[c] = "none"
    /\ cancel_pending(UserOf(c))
    /\ tracker_pc' = [tracker_pc EXCEPT ![c] = "closing"]
    /\ UNCHANGED <<status, last_update>>

\* insert overwrites, and so forgets, a handle registered in between.
on_all_sessions_closed_spawn(c) ==
    /\ tracker_pc[c] = "closing"
    /\ pending_offline' = [pending_offline EXCEPT ![UserOf(c)] = c]
    /\ timer' = [timer EXCEPT ![c] = "sleeping"]
    /\ tracker_pc' = [tracker_pc EXCEPT ![c] = "returned"]
    /\ UNCHANGED <<status, last_update>>

-----------------------------------------------------------------------------
\* The sleep branch of the debounce task: the user goes offline ...
timer_offline(t) ==
    LET u == UserOf(t)
    IN  /\ timer[t] \in {"sleeping", "notified"}
        /\ status' = [status EXCEPT ![u] = IF @ = "absent" THEN @ ELSE "offline"]
        /\ timer' = [timer EXCEPT ![t] = "offlined"]
        /\ UNCHANGED <<pending_offline, tracker_pc, last_update>>

\* Mutant: the entry of pending_offline stays.
timer_unregister_missing(t) ==
    /\ timer[t] = "offlined"
    /\ timer' = [timer EXCEPT ![t] = "unregistered"]
    /\ UNCHANGED <<status, pending_offline, tracker_pc, last_update>>

\* ... pending.remove(user), whoever's handle is registered ...
timer_unregister(t) ==
    /\ timer[t] = "offlined"
    /\ pending_offline' = [pending_offline EXCEPT ![UserOf(t)] = NoTimer]
    /\ timer' = [timer EXCEPT ![t] = "unregistered"]
    /\ UNCHANGED <<status, tracker_pc, last_update>>

\* Mutant: the status changes, but nobody is told.
timer_broadcast_missing(t) ==
    /\ timer[t] = "unregistered"
    /\ timer' = [timer EXCEPT ![t] = "fired"]
    /\ UNCHANGED <<status, pending_offline, tracker_pc, last_update>>

\* ... and the broadcast.
timer_broadcast(t) ==
    /\ timer[t] = "unregistered"
    /\ last_update' = [last_update EXCEPT ![UserOf(t)] = "offline"]
    /\ timer' = [timer EXCEPT ![t] = "fired"]
    /\ UNCHANGED <<status, pending_offline, tracker_pc>>

\* The notified branch.
timer_cancelled(t) ==
    /\ timer[t] = "notified"
    /\ timer' = [timer EXCEPT ![t] = "cancelled"]
    /\ UNCHANGED <<status, pending_offline, tracker_pc, last_update>>

-----------------------------------------------------------------------------
\* What call c does inside a tracker method once it has entered it, but for
\* the spawn, after which the caller has nothing left to do.
TrackerStep(c) == on_session_open_state(c) \/ broadcast(c)

TimerStep(t) == timer_offline(t) \/ timer_unregister(t) \/ timer_broadcast(t)
                    \/ timer_cancelled(t)

TrackerNext ==
    \E c \in Calls :
        \/ on_session_open_cancel(c)
        \/ \E new \in ClientStatus : set_status_state(c, new)
        \/ on_all_sessions_closed_cancel(c)
        \/ on_all_sessions_closed_spawn(c)
        \/ TrackerStep(c)
        \/ TimerStep(c)

TrackerSpec == TrackerInit /\ [][TrackerNext]_trackerVars

-----------------------------------------------------------------------------
TrackerTypeOK ==
    /\ status \in [Users -> PresenceStatus \cup {"absent"}]
    /\ pending_offline \in [Users -> Calls \cup {NoTimer}]
    /\ timer \in [Calls -> TimerState]
    /\ tracker_pc \in [Calls -> {"returned", "opening", "closing"} \cup PresenceStatus]
    /\ last_update \in [Users -> PresenceStatus \cup {"absent"}]

\* The timer will set its user offline unless somebody cancels it.
Live(t) == timer[t] = "sleeping"

\* The timer is in its sleep branch.
Firing(t) == timer[t] \in {"offlined", "unregistered"}

\* A registered cancel handle is never dead: it is the handle of a timer of
\* that user which nobody has cancelled and which has not finished, so the
\* map never accumulates handles of timers that are gone.
HandlesAreLive ==
    \A u \in Users : LET t == pending_offline[u]
                     IN  t # NoTimer => /\ UserOf(t) = u
                                        /\ timer[t] \in {"sleeping", "offlined"}
=============================================================================
