----------------------------- MODULE RelayTypes -----------------------------
(***************************************************************************)
(* Identifiers shared by the modules of one gateway node (models.rs).      *)
(*                                                                         *)
(* A session id is a fresh uuid (Session::new), so a session is used once: *)
(* a user who reconnects does so with another member of Sessions.          *)
(*                                                                         *)
(* Two tasks act on a session s: the connection task that runs             *)
(* handle_connection for it, and the heartbeat monitor while it reaps it.  *)
(* Each calls SessionStore::remove and                                     *)
(* PresenceTracker::on_all_sessions_closed at most once for s, so the pair *)
(* <<task, s>> names the call, and also the debounce timer it spawns.      *)
(***************************************************************************)
CONSTANTS Users,         \* the user ids
          Sessions,      \* the session ids, each used by one connection
          Owner,         \* the user a session authenticates as
          ClientStatus   \* the statuses clients send in UpdatePresence

\* models.rs: enum PresenceStatus.
PresenceStatus == {"online", "idle", "dnd", "offline"}

ASSUME OwnerAssumption == Owner \in [Sessions -> Users]
ASSUME ClientStatusAssumption == ClientStatus \subseteq PresenceStatus

Calls == {"conn", "reap"} \X Sessions

Conn(s) == <<"conn", s>>
Reap(s) == <<"reap", s>>

\* The session a call is about, and the user it belongs to.
SessionOf(c) == c[2]
UserOf(c) == Owner[c[2]]
=============================================================================
