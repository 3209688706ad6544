----------------------------- MODULE RateLimiter -----------------------------
(***************************************************************************)
(* The token buckets of ratelimit.rs.  A bucket is only refilled when its  *)
(* user asks, from the time that has passed since it was last refilled;    *)
(* it is created full at the first request, and a cleanup task drops the   *)
(* buckets nobody has asked for in a while.                                *)
(*                                                                         *)
(* Tokens are f64 in the code.  Here they are integers, counted in the     *)
(* fraction of a token that one tick of the clock can refill: a token is   *)
(* Unit of them.  The rounding of f64 is not modelled.                     *)
(*                                                                         *)
(* try_acquire holds the entry of its user from the first line to the      *)
(* last, so it is one step.  The cleanup reads the clock, and then retain  *)
(* visits the buckets one after the other: sweep holds its threshold and   *)
(* the users it has not visited.                                           *)
(***************************************************************************)
EXTENDS Integers, Sequences

CONSTANTS Users,        \* the user ids
          Calls,        \* the tasks that call try_acquire
          CallUser,     \* the user a task asks for
          Unit,         \* one token
          Capacity,     \* a full bucket
          Rate,         \* what a tick of the clock refills
          Idle,         \* a bucket unused for this long is dropped (600 s)
          Period,       \* time between two cleanups (300 s)
          MaxTime,      \* bound: ticks of the clock
          MaxGrants     \* bound: requests of a user that are allowed

ASSUME CallUserAssumption == CallUser \in [Calls -> Users]
ASSUME TokenAssumption ==
    Unit \in Nat \ {0} /\ Capacity \in Nat /\ Rate \in Nat
ASSUME CleanupAssumption == Idle \in Nat \ {0} /\ Period \in Nat \ {0}
ASSUME BoundsAssumption == MaxTime \in Nat /\ MaxGrants \in Nat

VARIABLES now,          \* the clock
          buckets,      \* buckets: a function on the users who have one
          reply,        \* the answer to a task's request
          due,          \* when the cleanup runs next
          sweep,        \* see above
          asked,        \* history: when a user's last request was answered
          grants        \* history: when requests of a user were allowed

vars == <<now, buckets, reply, due, sweep, asked, grants>>

Bucket == [tokens : 0 .. Capacity, last_refill : 0 .. now]

TypeOK ==
    /\ now \in 0 .. MaxTime
    /\ DOMAIN buckets \subseteq Users
    /\ buckets \in [DOMAIN buckets -> Bucket]
    /\ reply \in [Calls -> {"none", "pending", "allowed", "refused"}]
    /\ due \in Nat
    /\ sweep \in [threshold : Int, left : SUBSET Users]
    /\ asked \in [Users -> 0 .. now]
    /\ grants \in [Users -> Seq(Nat)]

Init ==
    /\ now = 0
    /\ buckets = [u \in {} |-> 0]
    /\ reply = [c \in Calls |-> "none"]
    /\ due = 0
    /\ sweep = [threshold |-> -Idle, left |-> {}]
    /\ asked = [u \in Users |-> 0]
    /\ grants = [u \in Users |-> <<>>]

-----------------------------------------------------------------------------
(* try_acquire *)

\* A task is about to ask for its user.
Ask(c) ==
    /\ reply[c] # "pending"
    /\ reply' = [reply EXCEPT ![c] = "pending"]
    /\ UNCHANGED <<now, buckets, due, sweep, asked, grants>>

\* entry(user_id).or_insert_with(..)
entry(u) ==
    IF u \in DOMAIN buckets THEN buckets[u]
    ELSE [tokens |-> Capacity, last_refill |-> now]

\* Mutant: no .min(capacity).
refilled_uncapped(b) == b.tokens + Rate * (now - b.last_refill)

AtMost(x, bound) == IF x <= bound THEN x ELSE bound

refilled(b) == AtMost(b.tokens + Rate * (now - b.last_refill), Capacity)

\* Mutant: last_refill stays what it was when the request is refused.
store_refused_old(u, t, ok) ==
    buckets' = [v \in DOMAIN buckets \cup {u} |->
                  IF v # u THEN buckets[v]
                  ELSE [tokens |-> IF ok THEN t - Unit ELSE t,
                        last_refill |-> IF ok THEN now
                                        ELSE entry(u).last_refill]]

\* The bucket of u after a request that found t tokens.
store(u, t, ok) ==
    buckets' = [v \in DOMAIN buckets \cup {u} |->
                  IF v # u THEN buckets[v]
                  ELSE [tokens |-> IF ok THEN t - Unit ELSE t,
                        last_refill |-> now]]

Allow(c) ==
    LET u == CallUser[c]
        t == refilled(entry(u))
    IN  /\ reply[c] = "pending"
        /\ Len(grants[u]) < MaxGrants
        /\ t >= Unit
        /\ store(u, t, TRUE)
        /\ reply' = [reply EXCEPT ![c] = "allowed"]
        /\ asked' = [asked EXCEPT ![u] = now]
        /\ grants' = [grants EXCEPT ![u] = Append(@, now)]
        /\ UNCHANGED <<now, due, sweep>>

Refuse(c) ==
    LET u == CallUser[c]
        t == refilled(entry(u))
    IN  /\ reply[c] = "pending"
        /\ t < Unit
        /\ store(u, t, FALSE)
        /\ reply' = [reply EXCEPT ![c] = "refused"]
        /\ asked' = [asked EXCEPT ![u] = now]
        /\ UNCHANGED <<now, due, sweep, grants>>

-----------------------------------------------------------------------------
(* spawn_cleanup *)

\* Mutant: buckets are dropped after one period.
threshold_period == now - Period

threshold == now - Idle

CleanupTick ==
    /\ sweep.left = {}
    /\ now >= due
    /\ due' = due + Period
    /\ sweep' = [threshold |-> threshold, left |-> Users]
    /\ UNCHANGED <<now, buckets, reply, asked, grants>>

\* retain's closure for one bucket: keep it if last_refill > threshold.
Retain(u) ==
    /\ u \in sweep.left
    /\ sweep' = [sweep EXCEPT !.left = @ \ {u}]
    /\ LET kept == {v \in DOMAIN buckets :
                      v = u => buckets[v].last_refill > sweep.threshold}
       IN  buckets' = [v \in kept |-> buckets[v]]
    /\ UNCHANGED <<now, reply, due, asked, grants>>

-----------------------------------------------------------------------------

Tick ==
    /\ now < MaxTime
    /\ now' = now + 1
    /\ UNCHANGED <<buckets, reply, due, sweep, asked, grants>>

Next ==
    \/ Tick
    \/ CleanupTick
    \/ \E u \in Users : Retain(u)
    \/ \E c \in Calls : Ask(c) \/ Allow(c) \/ Refuse(c)

Spec == Init /\ [][Next]_vars

-----------------------------------------------------------------------------

(* What a user may draw at this moment: the bucket as the next request     *)
(* would find it.                                                          *)
credit == [u \in Users |-> refilled(entry(u))]

idle == [u \in Users |-> now - asked[u]]

TB == INSTANCE TokenBucket WITH credit <- credit, idle <- idle

(* Refilling late, creating a bucket at the first request and dropping it  *)
(* when it has been idle (try_acquire and spawn_cleanup in ratelimit.rs)   *)
(* cannot be told from a bucket that is always there, fills with every     *)
(* tick, and may be topped up when its user has been silent for Idle: the  *)
(* same requests are allowed and refused.                                  *)
BucketSpec == TB!Spec

(* What a time of Idle can bring a user: its refill, or a full bucket when *)
(* the old one is dropped.  Nothing in the code makes the refill the       *)
(* larger of the two.                                                      *)
Gain == IF Capacity <= Rate * Idle THEN Rate * Idle ELSE Capacity

(* Between any two requests of a user that try_acquire allowed, these      *)
(* included, no more were allowed than a full bucket pays for and the time *)
(* between them can bring, at Gain in every Idle, whatever was dropped and *)
(* re-created.                                                             *)
WindowBound ==
    \A u \in Users : \A j \in 1 .. Len(grants[u]) : \A i \in 1 .. j :
        Idle * (Unit * (j - i + 1))
            <= Idle * Capacity + Gain * (grants[u][j] - grants[u][i])
=============================================================================
