----------------------------- MODULE TokenBucket -----------------------------
(***************************************************************************)
(* What ratelimit.rs promises its callers: every user has a bucket that    *)
(* is always there, fills by Rate at every tick of the clock up to         *)
(* Capacity, and loses Unit with every request that is allowed.  A request *)
(* is refused exactly when the bucket holds less than Unit.  The bucket of *)
(* a user who has not asked for Idle ticks may be filled up at any time.   *)
(***************************************************************************)
EXTENDS Integers

CONSTANTS Users,        \* the user ids
          Calls,        \* the tasks that call try_acquire
          CallUser,     \* the user a task asks for
          Unit,         \* one token, in the fractions the clock can refill
          Capacity,     \* a full bucket, in the same fractions
          Rate,         \* what a tick of the clock refills
          Idle          \* silence after which a bucket may be filled up

VARIABLES credit,       \* what a user's bucket holds now
          idle,         \* ticks since a user's last request was answered
          reply         \* the answer to a task's request

vars == <<credit, idle, reply>>

Init ==
    /\ credit = [u \in Users |-> Capacity]
    /\ idle = [u \in Users |-> 0]
    /\ reply = [c \in Calls |-> "none"]

AtMost(x, bound) == IF x <= bound THEN x ELSE bound

Ask(c) ==
    /\ reply[c] # "pending"
    /\ reply' = [reply EXCEPT ![c] = "pending"]
    /\ UNCHANGED <<credit, idle>>

Allow(c) ==
    /\ reply[c] = "pending"
    /\ credit[CallUser[c]] >= Unit
    /\ credit' = [credit EXCEPT ![CallUser[c]] = @ - Unit]
    /\ idle' = [idle EXCEPT ![CallUser[c]] = 0]
    /\ reply' = [reply EXCEPT ![c] = "allowed"]

Refuse(c) ==
    /\ reply[c] = "pending"
    /\ credit[CallUser[c]] < Unit
    /\ idle' = [idle EXCEPT ![CallUser[c]] = 0]
    /\ reply' = [reply EXCEPT ![c] = "refused"]
    /\ UNCHANGED credit

Refill ==
    /\ credit' = [u \in Users |-> AtMost(credit[u] + Rate, Capacity)]
    /\ idle' = [u \in Users |-> idle[u] + 1]
    /\ UNCHANGED reply

TopUp(u) ==
    /\ idle[u] >= Idle
    /\ credit' = [credit EXCEPT ![u] = Capacity]
    /\ UNCHANGED <<idle, reply>>

Next ==
    \/ Refill
    \/ \E u \in Users : TopUp(u)
    \/ \E c \in Calls : Ask(c) \/ Allow(c) \/ Refuse(c)

Spec == Init /\ [][Next]_vars
=============================================================================
