------------------------------ MODULE ReadMarks ------------------------------
(***************************************************************************)
(* What the read state cache promises: for each (user, channel) the stored *)
(* mark only moves forward, and only to marks a client has acknowledged.   *)
(***************************************************************************)
EXTENDS Integers

CONSTANTS Keys,      \* the (user_id, channel_id) pairs
          Messages   \* message ids, in the order of their uuids

\* 0 stands for "no mark".
ASSUME MessagesAssumption == Messages \subseteq Nat \ {0}

Mark == Messages \cup {0}

VARIABLES acked,   \* the highest message acknowledged for a key
          db       \* read_states.last_read_message_id

marksVars == <<acked, db>>

MarksInit == acked = [k \in Keys |-> 0] /\ db = [k \in Keys |-> 0]

Ack(k, m) ==
    /\ m > acked[k]
    /\ acked' = [acked EXCEPT ![k] = m]
    /\ UNCHANGED db

\* One bulk write moves any number of marks.
Persist ==
    /\ db' \in [Keys -> Mark]
    /\ \A k \in Keys : db[k] <= db'[k] /\ db'[k] <= acked[k]
    /\ UNCHANGED acked

MarksNext == Persist \/ \E k \in Keys, m \in Messages : Ack(k, m)

MarksSpec == MarksInit /\ [][MarksNext]_marksVars
=============================================================================
