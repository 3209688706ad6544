-------------------------- MODULE RateLimiterProofs --------------------------
(***************************************************************************)
(* The token buckets of ratelimit.rs implement TokenBucket, and no window  *)
(* of time lets through more than it pays for, for any users, tasks,       *)
(* capacity, rate and idle time.                                           *)
(***************************************************************************)
EXTENDS RateLimiter, TLAPS

(* Time passes, and what was a threshold for idleness stays one. *)
SweepBehind == sweep.threshold <= now - Idle

(* A bucket was last refilled when its user's last request was answered. *)
RefilledWhenAsked == \A u \in DOMAIN buckets : buckets[u].last_refill = asked[u]

Typed == TypeOK /\ SweepBehind /\ RefilledWhenAsked

(* What user u was allowed from the i-th allowed request on. *)
Spent(u, i) == Unit * (Len(grants[u]) - i + 1)

(* What was allowed since any allowed request, and what the user may still *)
(* draw, is paid for by a full bucket and what the time since then brings; *)
(* when the user last asked, that time up to then paid for what was        *)
(* allowed.                                                                *)
Paid ==
    \A u \in Users : \A i \in 1 .. Len(grants[u]) :
        /\ Idle * (Spent(u, i) + credit[u])
              <= Idle * Capacity + Gain * (now - grants[u][i])
        /\ Idle * Spent(u, i)
              <= Idle * Capacity + Gain * (asked[u] - grants[u][i])

-----------------------------------------------------------------------------
(* Arithmetic. *)

(* Refilling over a time is additive and never negative. *)
LEMMA RateTimes ==
    ASSUME NEW n \in Nat
    PROVE  Rate * n \in Nat /\ Rate * (n + 1) = Rate * n + Rate
BY TokenAssumption

(* The same for a difference of times. *)
LEMMA RateTimesInt ==
    ASSUME NEW n \in Int
    PROVE  Rate * n \in Int /\ Rate * (n + 1) = Rate * n + Rate
BY TokenAssumption

(* Multiplication distributes over sums and keeps the order. *)
LEMMA Times ==
    ASSUME NEW k \in Nat, NEW m \in Int, NEW n \in Int
    PROVE  /\ k * m \in Int
           /\ k * (m + n) = k * m + k * n
           /\ k * (m - n) = k * m - k * n
           /\ m <= n => k * m <= k * n
<1>1. k * m \in Int /\ k * n \in Int
      /\ k * (m + n) = k * m + k * n /\ k * (m - n) = k * m - k * n
  OBVIOUS
<1>2. ASSUME m <= n PROVE k * m <= k * n
  <2>1. n - m \in Nat  BY <1>2
  <2>2. k * (n - m) \in Nat  BY <2>1
  <2>3. k * (n - m) = k * n - k * m  OBVIOUS
  <2> QED  BY <1>1, <2>2, <2>3
<1> QED  BY <1>1, <1>2

(* In a time of Idle the refill and a full bucket are both within Gain. *)
LEMMA GainFacts ==
    /\ Gain \in Nat
    /\ Capacity <= Gain
    /\ Idle * Rate <= Gain
    /\ Gain = Capacity \/ Gain = Rate * Idle
<1>1. Rate * Idle \in Nat /\ Rate * Idle = Idle * Rate
  BY TokenAssumption, CleanupAssumption
<1> QED  BY <1>1, TokenAssumption, CleanupAssumption DEF Gain

(* One more request costs one more token. *)
LEMMA UnitTimes ==
    ASSUME NEW n \in Nat
    PROVE  Unit * n \in Nat /\ Unit * (n + 1) = Unit * n + Unit
BY TokenAssumption

-----------------------------------------------------------------------------
(* The bucket a request finds. *)

(* A user's bucket, whether there or about to be created, is well formed. *)
LEMMA EntryType ==
    ASSUME TypeOK, NEW u \in Users
    PROVE  /\ entry(u).tokens \in 0 .. Capacity
           /\ entry(u).last_refill \in 0 .. now
<1>1. CASE u \in DOMAIN buckets  BY <1>1 DEF TypeOK, Bucket, entry
<1>2. CASE u \notin DOMAIN buckets
  BY <1>2, TokenAssumption DEF TypeOK, entry
<1> QED  BY <1>1, <1>2

(* The refilled bucket holds between nothing and the capacity. *)
LEMMA CreditType ==
    ASSUME TypeOK, NEW u \in Users
    PROVE  credit[u] = refilled(entry(u)) /\ credit[u] \in 0 .. Capacity
<1> DEFINE e == entry(u)
           d == now - e.last_refill
<1>1. e.tokens \in 0 .. Capacity /\ d \in Nat
  BY EntryType DEF TypeOK
<1>2. Rate * d \in Nat  BY <1>1, RateTimes
<1>3. credit[u] = AtMost(e.tokens + Rate * d, Capacity)
  BY DEF credit, refilled
<1> HIDE DEF e, d
<1>4. credit[u] \in 0 .. Capacity
  BY <1>1, <1>2, <1>3, TokenAssumption DEF AtMost
<1> QED  BY <1>4 DEF credit

-----------------------------------------------------------------------------
(* What every step does to what users may draw. *)

(* A tick refills every user's bucket by Rate, up to the capacity. *)
LEMMA TickRefills ==
    ASSUME TypeOK, Tick, NEW u \in Users
    PROVE  credit'[u] = AtMost(credit[u] + Rate, Capacity)
<1>1. CASE u \in DOMAIN buckets
  <2> DEFINE b == buckets[u]
             d == now - b.last_refill
  <2>1. b.tokens \in 0 .. Capacity /\ d \in Nat
    BY <1>1 DEF TypeOK, Bucket
  <2>2. credit[u] = AtMost(b.tokens + Rate * d, Capacity)
    BY <1>1 DEF credit, refilled, entry
  <2>3. now' - b.last_refill = d + 1
    BY <1>1 DEF Tick, TypeOK, Bucket
  <2>4. credit'[u] = AtMost(b.tokens + Rate * (now' - b.last_refill), Capacity)
    BY <1>1 DEF Tick, credit, refilled, entry, AtMost
  <2>5. Rate * d \in Nat /\ Rate * (d + 1) = Rate * d + Rate
    BY <2>1, RateTimes
  <2>6. credit'[u] = AtMost(b.tokens + (Rate * d + Rate), Capacity)
    BY <2>3, <2>4, <2>5
  <2> HIDE DEF b, d
  <2> QED  BY <2>1, <2>2, <2>5, <2>6, TokenAssumption DEF AtMost
<1>2. CASE u \notin DOMAIN buckets
  <2>1. credit[u] = AtMost(Capacity + Rate * (now - now), Capacity)
    BY <1>2 DEF credit, refilled, entry
  <2>2. credit'[u] = AtMost(Capacity + Rate * (now' - now'), Capacity)
    BY <1>2 DEF Tick, credit, refilled, entry, AtMost
  <2>3. now - now = 0 /\ now' - now' = 0  BY DEF TypeOK, Tick
  <2>4. Rate * 0 = 0  BY TokenAssumption
  <2> QED  BY <2>1, <2>2, <2>3, <2>4, TokenAssumption DEF AtMost
<1> QED  BY <1>1, <1>2

(* A request changes the bucket of its user, and takes what was allowed. *)
LEMMA StoreTakes ==
    ASSUME TypeOK, NEW c \in Calls, NEW ok \in BOOLEAN,
           UNCHANGED now,
           ok => credit[CallUser[c]] >= Unit,
           store(CallUser[c], refilled(entry(CallUser[c])), ok)
    PROVE  credit' = [credit EXCEPT ![CallUser[c]] =
                        IF ok THEN @ - Unit ELSE @]
<1> DEFINE u == CallUser[c]
           t == refilled(entry(u))
           left == IF ok THEN t - Unit ELSE t
<1>1. u \in Users  BY CallUserAssumption
<1>2. t = credit[u] /\ t \in 0 .. Capacity  BY <1>1, CreditType
<1>3. left \in 0 .. Capacity
  <2> HIDE DEF t
  <2> QED  BY <1>2, TokenAssumption
<1>4. now - now = 0 /\ Rate * 0 = 0  BY TokenAssumption DEF TypeOK
<1>5. credit'[u] = left
  <2>1. buckets'[u] = [tokens |-> left, last_refill |-> now]
        /\ u \in DOMAIN buckets'
    BY DEF store
  <2>2. credit'[u] = AtMost(left + Rate * (now - now), Capacity)
    BY <1>1, <2>1 DEF credit, refilled, entry, AtMost
  <2> HIDE DEF left
  <2> QED  BY <1>3, <1>4, <2>2, TokenAssumption DEF AtMost
<1>6. ASSUME NEW v \in Users, v # u
      PROVE  credit'[v] = credit[v]
  <2>1. v \in DOMAIN buckets' <=> v \in DOMAIN buckets
    BY <1>6 DEF store
  <2>2. v \in DOMAIN buckets => buckets'[v] = buckets[v]
    BY <1>6 DEF store
  <2> QED  BY <2>1, <2>2 DEF credit, refilled, entry, AtMost
<1> QED  BY <1>1, <1>2, <1>5, <1>6 DEF credit

(* Dropping a bucket leaves its user, who has been idle, a full one. *)
LEMMA RetainTopsUp ==
    ASSUME Typed, NEW w \in Users, Retain(w)
    PROVE  \/ credit' = credit
           \/ /\ credit' = [credit EXCEPT ![w] = Capacity]
              /\ now - asked[w] >= Idle
<1>1. now' = now  BY DEF Retain
<1>2. ASSUME NEW u \in Users, u \in DOMAIN buckets <=> u \in DOMAIN buckets'
      PROVE  credit'[u] = credit[u]
  <2>1. u \in DOMAIN buckets => buckets'[u] = buckets[u]  BY <1>2 DEF Retain
  <2> QED  BY <1>1, <1>2, <2>1 DEF credit, refilled, entry, AtMost
<1>3. ASSUME NEW u \in Users, u # w PROVE credit'[u] = credit[u]
  <2>1. u \in DOMAIN buckets <=> u \in DOMAIN buckets'  BY <1>3 DEF Retain
  <2> QED  BY <1>2, <2>1
<1>4. CASE w \in DOMAIN buckets <=> w \in DOMAIN buckets'
  <2>1. \A u \in Users : credit'[u] = credit[u]  BY <1>2, <1>3, <1>4
  <2> QED  BY <2>1 DEF credit
<1>5. CASE ~(w \in DOMAIN buckets <=> w \in DOMAIN buckets')
  <2>1. /\ w \in DOMAIN buckets /\ w \notin DOMAIN buckets'
        /\ ~(buckets[w].last_refill > sweep.threshold)
    BY <1>5 DEF Retain
  <2>2. now - asked[w] >= Idle
    <3>1. buckets[w].last_refill = asked[w]
      BY <2>1 DEF Typed, RefilledWhenAsked
    <3>2. now \in Nat /\ sweep.threshold \in Int /\ asked[w] \in Nat
          /\ sweep.threshold <= now - Idle
      BY DEF Typed, TypeOK, SweepBehind
    <3> QED  BY <2>1, <3>1, <3>2, CleanupAssumption
  <2>3. credit'[w] = AtMost(Capacity + Rate * (now - now), Capacity)
    BY <1>1, <2>1 DEF credit, refilled, entry, AtMost
  <2>4. now - now = 0 /\ Rate * 0 = 0
    BY TokenAssumption DEF Typed, TypeOK
  <2>5. credit'[w] = Capacity  BY <2>3, <2>4, TokenAssumption DEF AtMost
  <2>6. credit' = [credit EXCEPT ![w] = Capacity]
    BY <1>3, <2>5 DEF credit
  <2> QED  BY <2>2, <2>6
<1> QED  BY <1>4, <1>5

-----------------------------------------------------------------------------
(* Types and the threshold of the cleanup. *)

(* A bucket stored by a request is well formed. *)
LEMMA StoreType ==
    ASSUME TypeOK, NEW c \in Calls, NEW ok \in BOOLEAN,
           UNCHANGED now,
           ok => refilled(entry(CallUser[c])) >= Unit,
           store(CallUser[c], refilled(entry(CallUser[c])), ok)
    PROVE  /\ DOMAIN buckets' \subseteq Users
           /\ buckets' \in [DOMAIN buckets' -> Bucket']
<1> DEFINE u == CallUser[c]
           t == refilled(entry(u))
           left == IF ok THEN t - Unit ELSE t
<1>1. u \in Users  BY CallUserAssumption
<1>2. t \in 0 .. Capacity  BY <1>1, CreditType
<1>3. left \in 0 .. Capacity
  <2>1. ok => t >= Unit  OBVIOUS
  <2> HIDE DEF t
  <2> QED  BY <1>2, <2>1, TokenAssumption
<1>4. now \in 0 .. now  BY DEF TypeOK
<1>5. [tokens |-> left, last_refill |-> now] \in Bucket'
  <2> HIDE DEF left
  <2> QED  BY <1>3, <1>4 DEF Bucket
<1>6. buckets' = [v \in DOMAIN buckets \cup {u} |->
                    IF v # u THEN buckets[v]
                    ELSE [tokens |-> left, last_refill |-> now]]
  BY DEF store
<1>7. \A v \in DOMAIN buckets : buckets[v] \in Bucket'
  BY DEF TypeOK, Bucket
<1> HIDE DEF left, u
<1> QED  BY <1>1, <1>5, <1>6, <1>7 DEF TypeOK

(* A request that is answered refills the bucket of its user. *)
LEMMA StoreRefills ==
    ASSUME Typed, NEW c \in Calls, NEW t, NEW ok,
           UNCHANGED now, store(CallUser[c], t, ok),
           asked' = [asked EXCEPT ![CallUser[c]] = now]
    PROVE  RefilledWhenAsked' /\ asked' \in [Users -> 0 .. now']
<1>1. now \in 0 .. now /\ asked \in [Users -> 0 .. now]
  BY DEF Typed, TypeOK
<1>2. asked' \in [Users -> 0 .. now']  BY <1>1
<1>3. ASSUME NEW u \in DOMAIN buckets'
      PROVE  buckets'[u].last_refill = asked'[u]
  <2>1. CASE u = CallUser[c]
    BY <1>1, <2>1, CallUserAssumption DEF store
  <2>2. CASE u # CallUser[c]
    <3>1. u \in DOMAIN buckets /\ buckets'[u] = buckets[u]
      BY <2>2 DEF store
    <3>2. u \in Users  BY <3>1 DEF Typed, TypeOK
    <3> QED  BY <1>1, <2>2, <3>1, <3>2 DEF Typed, RefilledWhenAsked
  <2> QED  BY <2>1, <2>2
<1> QED  BY <1>2, <1>3 DEF RefilledWhenAsked

LEMMA TypedInit == Init => Typed
BY BoundsAssumption, CleanupAssumption
DEF Init, Typed, TypeOK, SweepBehind, RefilledWhenAsked, Bucket

LEMMA TypedNext == Typed /\ [Next]_vars => Typed'
<1> SUFFICES ASSUME Typed, [Next]_vars PROVE Typed'  OBVIOUS
<1> USE DEF Typed
<1>1. CASE Tick
  <2>1. now' \in 0 .. MaxTime /\ now' = now + 1 /\ now \in Nat
    BY <1>1, BoundsAssumption DEF Tick, TypeOK
  <2>2. 0 .. now \subseteq 0 .. now'  BY <2>1
  <2>3. buckets' \in [DOMAIN buckets' -> Bucket']
    BY <1>1, <2>2 DEF Tick, TypeOK, Bucket
  <2>5. SweepBehind'
    BY <1>1, <2>1, CleanupAssumption DEF Tick, SweepBehind, TypeOK
  <2>6. asked' \in [Users -> 0 .. now']  BY <1>1, <2>2 DEF Tick, TypeOK
  <2>7. RefilledWhenAsked'  BY <1>1 DEF Tick, RefilledWhenAsked
  <2> QED  BY <1>1, <2>1, <2>3, <2>5, <2>6, <2>7 DEF Tick, TypeOK
<1>2. CASE CleanupTick
  <2>1. sweep' = [threshold |-> now - Idle, left |-> Users] /\ now' = now
    BY <1>2 DEF CleanupTick, threshold
  <2>2. due' \in Nat  BY <1>2, CleanupAssumption DEF CleanupTick, TypeOK
  <2>3. sweep' \in [threshold : Int, left : SUBSET Users] /\ SweepBehind'
    BY <2>1, CleanupAssumption DEF SweepBehind, TypeOK
  <2>4. RefilledWhenAsked'  BY <1>2 DEF CleanupTick, RefilledWhenAsked
  <2> QED  BY <1>2, <2>2, <2>3, <2>4 DEF CleanupTick, TypeOK, Bucket
<1>3. CASE \E w \in Users : Retain(w)
  <2> PICK w \in Users : Retain(w)  BY <1>3
  <2>1. sweep' = [threshold |-> sweep.threshold, left |-> sweep.left \ {w}]
    BY DEF Retain, TypeOK
  <2>2. sweep' \in [threshold : Int, left : SUBSET Users] /\ SweepBehind'
    <3>1. sweep.threshold \in Int /\ sweep.left \subseteq Users  BY DEF TypeOK
    <3>2. sweep'.threshold = sweep.threshold /\ now' = now  BY <2>1 DEF Retain
    <3> QED  BY <2>1, <3>1, <3>2 DEF SweepBehind
  <2>3. /\ DOMAIN buckets' \subseteq DOMAIN buckets
        /\ buckets' = [v \in DOMAIN buckets' |-> buckets[v]]
    BY DEF Retain
  <2>4. buckets' \in [DOMAIN buckets' -> Bucket']
    BY <2>3 DEF Retain, TypeOK, Bucket
  <2>5. RefilledWhenAsked'  BY <2>3 DEF Retain, RefilledWhenAsked
  <2> QED  BY <2>2, <2>3, <2>4, <2>5 DEF Retain, TypeOK
<1>4. ASSUME NEW c \in Calls, Ask(c) PROVE Typed'
  BY <1>4 DEF Ask, TypeOK, SweepBehind, RefilledWhenAsked, Bucket
<1>5. ASSUME NEW c \in Calls, Allow(c) PROVE Typed'
  <2>1. store(CallUser[c], refilled(entry(CallUser[c])), TRUE)
        /\ UNCHANGED now /\ refilled(entry(CallUser[c])) >= Unit
    BY <1>5 DEF Allow
  <2>2. DOMAIN buckets' \subseteq Users
        /\ buckets' \in [DOMAIN buckets' -> Bucket']
    BY <2>1, StoreType
  <2>3. grants' \in [Users -> Seq(Nat)]
    <3>1. Append(grants[CallUser[c]], now) \in Seq(Nat)
      BY CallUserAssumption DEF TypeOK
    <3> QED  BY <1>5, <3>1, CallUserAssumption DEF Allow, TypeOK
  <2>4. asked' = [asked EXCEPT ![CallUser[c]] = now]  BY <1>5 DEF Allow
  <2>5. RefilledWhenAsked' /\ asked' \in [Users -> 0 .. now']
    BY <2>1, <2>4, StoreRefills
  <2> QED  BY <1>5, <2>2, <2>3, <2>5 DEF Allow, TypeOK, SweepBehind
<1>6. ASSUME NEW c \in Calls, Refuse(c) PROVE Typed'
  <2>1. store(CallUser[c], refilled(entry(CallUser[c])), FALSE)
        /\ UNCHANGED now
    BY <1>6 DEF Refuse
  <2>2. DOMAIN buckets' \subseteq Users
        /\ buckets' \in [DOMAIN buckets' -> Bucket']
    BY <2>1, StoreType
  <2>4. asked' = [asked EXCEPT ![CallUser[c]] = now]  BY <1>6 DEF Refuse
  <2>5. RefilledWhenAsked' /\ asked' \in [Users -> 0 .. now']
    BY <2>1, <2>4, StoreRefills
  <2> QED  BY <1>6, <2>2, <2>5 DEF Refuse, TypeOK, SweepBehind
<1>7. CASE UNCHANGED vars
  BY <1>7 DEF vars, TypeOK, SweepBehind, RefilledWhenAsked, Bucket
<1> QED  BY <1>1, <1>2, <1>3, <1>4, <1>5, <1>6, <1>7 DEF Next

(* Every step of the rate limiter keeps tokens between 0 and the capacity  *)
(* and no bucket is refilled from the future.                              *)
THEOREM LimiterTypeCorrect == Spec => []TypeOK
<1>1. Typed => TypeOK  BY DEF Typed
<1> QED  BY <1>1, TypedInit, TypedNext, PTL DEF Spec

-----------------------------------------------------------------------------
(* What is allowed is paid for. *)

(* The inductive invariant: Paid is what makes WindowBound inductive. *)
Inv == Typed /\ Paid /\ WindowBound

LEMMA PaidInit == Init => Paid /\ WindowBound
<1> SUFFICES ASSUME Init PROVE Paid /\ WindowBound  OBVIOUS
<1>1. \A u \in Users : Len(grants[u]) = 0  BY DEF Init
<1> QED  BY <1>1 DEF Paid, WindowBound

(* A step that allows nothing and leaves users no more to draw. *)
LEMMA PaidKept ==
    ASSUME Inv, UNCHANGED <<now, asked, grants>>, credit' = credit
    PROVE  Paid' /\ WindowBound'
BY DEF Inv, Paid, Spent, WindowBound

(* The numbers in Paid. *)
LEMMA GrantTypes ==
    ASSUME TypeOK, NEW u \in Users, NEW i \in 1 .. Len(grants[u])
    PROVE  /\ Len(grants[u]) \in Nat
           /\ grants[u][i] \in Nat /\ asked[u] \in Nat /\ now \in Nat
           /\ Spent(u, i) \in Nat
           /\ credit[u] \in 0 .. Capacity
<1>1. grants[u] \in Seq(Nat) /\ asked[u] \in Nat /\ now \in Nat
  BY DEF TypeOK
<1>2. Len(grants[u]) \in Nat /\ grants[u][i] \in Nat  BY <1>1
<1>3. Len(grants[u]) - i + 1 \in Nat  BY <1>2
<1>4. Spent(u, i) \in Nat  BY <1>3, UnitTimes DEF Spent
<1> QED  BY <1>1, <1>2, <1>4, CreditType

(* A tick brings Rate, which is within what it may bring. *)
LEMMA PayTick ==
    ASSUME NEW n \in Int, NEW c \in Int, NEW x \in Int, NEW d \in Int,
           x <= c + Rate,
           Idle * (n + c) <= Idle * Capacity + Gain * d
    PROVE  Idle * (n + x) <= Idle * Capacity + Gain * (d + 1)
<1>1. Idle \in Nat /\ Rate \in Nat /\ Capacity \in Nat /\ Gain \in Nat
  BY TokenAssumption, CleanupAssumption, GainFacts
<1>2. n + x \in Int /\ n + c \in Int /\ n + x <= (n + c) + Rate
  BY <1>1
<1>3. Idle * (n + x) <= Idle * ((n + c) + Rate) /\ Idle * (n + x) \in Int
  BY <1>1, <1>2, Times
<1>4. Idle * ((n + c) + Rate) = Idle * (n + c) + Idle * Rate
      /\ Idle * (n + c) \in Int /\ Idle * Rate \in Int
  BY <1>1, <1>2, Times
<1>5. Gain * (d + 1) = Gain * d + Gain * 1 /\ Gain * d \in Int /\ Gain * 1 = Gain
  BY <1>1, Times
<1>6. Idle * Capacity \in Int /\ Idle * Rate <= Gain
  BY <1>1, Times, GainFacts
<1> DEFINE a == Idle * (n + x)
           b == Idle * ((n + c) + Rate)
           p == Idle * (n + c)
           q == Idle * Rate
           r == Gain * d
           v == Gain * (d + 1)
           w == Idle * Capacity
<1>7. /\ a <= b /\ b = p + q /\ p <= w + r /\ v = r + Gain /\ q <= Gain
      /\ a \in Int /\ p \in Int /\ q \in Int /\ r \in Int /\ w \in Int
  BY <1>3, <1>4, <1>5, <1>6
<1> HIDE DEF a, b, p, q, r, v, w
<1>8. a <= w + v  BY <1>1, <1>7
<1> QED  BY <1>8 DEF a, v, w

(* A bucket that is filled up after Idle is paid for by that time. *)
LEMMA PayTopUp ==
    ASSUME NEW n \in Int, NEW d \in Int, NEW e \in Int, e >= Idle,
           Idle * n <= Idle * Capacity + Gain * d
    PROVE  Idle * (n + Capacity) <= Idle * Capacity + Gain * (d + e)
<1>1. Idle \in Nat /\ Capacity \in Nat /\ Gain \in Nat /\ Capacity <= Gain
  BY TokenAssumption, CleanupAssumption, GainFacts
<1>2. Idle * (n + Capacity) = Idle * n + Idle * Capacity
      /\ Idle * n \in Int /\ Idle * Capacity \in Int
  BY <1>1, Times
<1>3. Gain * (d + e) = Gain * d + Gain * e
      /\ Gain * d \in Int /\ Gain * e \in Int
  BY <1>1, Times
<1>4. Gain * Idle <= Gain * e /\ Gain * Idle \in Int
  BY <1>1, Times
<1>5. Idle * Capacity <= Idle * Gain /\ Idle * Gain \in Int
  BY <1>1, Times
<1>6. Idle * Gain = Gain * Idle  BY <1>1
<1> DEFINE a == Idle * n
           p == Idle * Capacity
           q == Gain * d
           r == Gain * e
           v == Gain * Idle
<1>7. /\ a <= p + q /\ p <= v /\ v <= r
      /\ a \in Int /\ p \in Int /\ q \in Int /\ r \in Int /\ v \in Int
  BY <1>2, <1>3, <1>4, <1>5, <1>6
<1> HIDE DEF a, p, q, r, v
<1>8. a + p <= p + (q + r)  BY <1>7
<1> QED  BY <1>2, <1>3, <1>8 DEF a, p, q, r

(* What was allowed is paid for when that and what is left are. *)
LEMMA PayLess ==
    ASSUME NEW n \in Int, NEW c \in Nat, NEW y \in Int, Idle * (n + c) <= y
    PROVE  Idle * n <= y
<1>1. Idle \in Nat /\ n + c \in Int /\ n <= n + c  BY CleanupAssumption
<1>2. Idle * n <= Idle * (n + c) /\ Idle * n \in Int /\ Idle * (n + c) \in Int
  BY <1>1, Times
<1> DEFINE a == Idle * n
           b == Idle * (n + c)
<1>3. a <= b /\ b <= y /\ a \in Int /\ b \in Int  BY <1>2
<1> HIDE DEF a, b
<1>4. a <= y  BY <1>3
<1> QED  BY <1>4 DEF a

(* What a full bucket pays for, and what a time can bring. *)
LEMMA BoundType ==
    ASSUME NEW d \in Int
    PROVE  Idle * Capacity + Gain * d \in Int
<1>1. Idle \in Nat /\ Capacity \in Int /\ Gain \in Nat
  BY TokenAssumption, CleanupAssumption, GainFacts
<1>2. Idle * Capacity \in Int /\ Gain * d \in Int  BY <1>1, Times
<1> QED  BY <1>2

LEMMA PaidTick == ASSUME Inv, Tick PROVE Paid' /\ WindowBound'
<1>1. grants' = grants /\ asked' = asked /\ now' = now + 1  BY DEF Tick
<1>2. WindowBound'  BY <1>1 DEF Inv, WindowBound
<1>3. ASSUME NEW u \in Users, NEW i \in 1 .. Len(grants[u])
      PROVE  Idle * (Spent(u, i) + credit'[u])
               <= Idle * Capacity + Gain * (now' - grants[u][i])
  <2>1. /\ grants[u][i] \in Nat /\ now \in Nat
        /\ Spent(u, i) \in Nat /\ credit[u] \in 0 .. Capacity
    BY GrantTypes DEF Inv, Typed
  <2>2. credit'[u] = AtMost(credit[u] + Rate, Capacity)
    BY TickRefills DEF Inv, Typed
  <2>3. credit'[u] \in Int /\ credit'[u] <= credit[u] + Rate
    BY <2>1, <2>2, TokenAssumption DEF AtMost
  <2>4. now - grants[u][i] \in Int
        /\ now' - grants[u][i] = (now - grants[u][i]) + 1
    BY <1>1, <2>1
  <2>5. Idle * (Spent(u, i) + credit[u])
          <= Idle * Capacity + Gain * (now - grants[u][i])
    BY DEF Inv, Paid
  <2>6. Idle * (Spent(u, i) + credit'[u])
          <= Idle * Capacity + Gain * ((now - grants[u][i]) + 1)
    <3> DEFINE n == Spent(u, i)
               d == now - grants[u][i]
               b == credit[u]
               x == credit'[u]
    <3>1. /\ n \in Int /\ b \in Int /\ x \in Int /\ d \in Int /\ x <= b + Rate
          /\ Idle * (n + b) <= Idle * Capacity + Gain * d
      BY <2>1, <2>3, <2>4, <2>5
    <3> HIDE DEF n, d, b, x
    <3>2. Idle * (n + x) <= Idle * Capacity + Gain * (d + 1)  BY <3>1, PayTick
    <3> QED  BY <3>2 DEF n, d, x
  <2> QED  BY <2>4, <2>6
<1>4. Paid'  BY <1>1, <1>3 DEF Inv, Paid, Spent
<1> QED  BY <1>2, <1>4

LEMMA PaidRetain ==
    ASSUME Inv, NEW w \in Users, Retain(w)
    PROVE  Paid' /\ WindowBound'
<1>1. UNCHANGED <<now, asked, grants>>  BY DEF Retain
<1>2. WindowBound'  BY <1>1 DEF Inv, WindowBound
<1>3. CASE credit' = credit  BY <1>1, <1>3, PaidKept
<1>4. CASE credit' = [credit EXCEPT ![w] = Capacity] /\ now - asked[w] >= Idle
  <2>1. ASSUME NEW u \in Users, NEW i \in 1 .. Len(grants[u])
        PROVE  Idle * (Spent(u, i) + credit'[u])
                 <= Idle * Capacity + Gain * (now - grants[u][i])
    <3>1. CASE u # w
      <4>1. credit'[u] = credit[u]  BY <1>4, <3>1 DEF credit
      <4> QED  BY <4>1 DEF Inv, Paid
    <3>2. CASE u = w
      <4>1. credit'[u] = Capacity  BY <1>4, <3>2 DEF credit
      <4>2. /\ grants[u][i] \in Nat /\ now \in Nat /\ asked[u] \in Nat
            /\ Spent(u, i) \in Nat
        BY GrantTypes DEF Inv, Typed
      <4>3. /\ asked[u] - grants[u][i] \in Int /\ now - asked[u] \in Int
            /\ now - grants[u][i]
                 = (asked[u] - grants[u][i]) + (now - asked[u])
        <5> DEFINE g == grants[u][i]
                   a == asked[u]
        <5>1. g \in Nat /\ a \in Nat /\ now \in Nat  BY <4>2
        <5> HIDE DEF g, a
        <5>2. a - g \in Int /\ now - a \in Int /\ now - g = (a - g) + (now - a)
          BY <5>1
        <5> QED  BY <5>2 DEF g, a
      <4>4. Idle * Spent(u, i)
              <= Idle * Capacity + Gain * (asked[u] - grants[u][i])
        BY DEF Inv, Paid
      <4>5. Idle * (Spent(u, i) + Capacity)
              <= Idle * Capacity
                   + Gain * ((asked[u] - grants[u][i]) + (now - asked[u]))
        BY <1>4, <3>2, <4>2, <4>3, <4>4, PayTopUp
      <4> QED  BY <4>1, <4>3, <4>5
    <3> QED  BY <3>1, <3>2
  <2>2. Paid'  BY <1>1, <2>1 DEF Inv, Paid, Spent
  <2> QED  BY <1>2, <2>2
<1> QED  BY <1>3, <1>4, RetainTopsUp DEF Inv

LEMMA PaidRefuse ==
    ASSUME Inv, NEW c \in Calls, Refuse(c)
    PROVE  Paid' /\ WindowBound'
<1>1. store(CallUser[c], refilled(entry(CallUser[c])), FALSE)
      /\ UNCHANGED <<now, grants>>
      /\ asked' = [asked EXCEPT ![CallUser[c]] = now]
  BY DEF Refuse
<1>2. credit' = credit
  <2>1. credit' = [credit EXCEPT ![CallUser[c]] = @]
    BY <1>1, StoreTakes DEF Inv, Typed
  <2> QED  BY <2>1 DEF credit
<1>3. WindowBound'  BY <1>1 DEF Inv, WindowBound
<1>4. ASSUME NEW u \in Users, NEW i \in 1 .. Len(grants[u])
      PROVE  Idle * Spent(u, i)
               <= Idle * Capacity + Gain * (asked'[u] - grants[u][i])
  <2>1. CASE u # CallUser[c]
    <3>1. asked'[u] = asked[u]  BY <1>1, <2>1 DEF Inv, Typed, TypeOK
    <3> QED  BY <3>1 DEF Inv, Paid
  <2>2. CASE u = CallUser[c]
    <3>1. asked'[u] = now  BY <1>1, <2>2 DEF Inv, Typed, TypeOK
    <3>2. /\ grants[u][i] \in Nat /\ now \in Nat
          /\ Spent(u, i) \in Nat /\ credit[u] \in Nat
      BY GrantTypes DEF Inv, Typed
    <3>3. Idle * Capacity + Gain * (now - grants[u][i]) \in Int
      <4>1. now - grants[u][i] \in Int  BY <3>2
      <4> QED  BY <4>1, BoundType
    <3>4. Idle * (Spent(u, i) + credit[u])
            <= Idle * Capacity + Gain * (now - grants[u][i])
      BY DEF Inv, Paid
    <3>5. Idle * Spent(u, i)
            <= Idle * Capacity + Gain * (now - grants[u][i])
      <4> DEFINE n == Spent(u, i)
                 b == credit[u]
                 y == Idle * Capacity + Gain * (now - grants[u][i])
      <4>1. n \in Int /\ b \in Nat /\ y \in Int /\ Idle * (n + b) <= y
        BY <3>2, <3>3, <3>4
      <4> HIDE DEF n, b, y
      <4>2. Idle * n <= y  BY <4>1, PayLess
      <4> QED  BY <4>2 DEF n, y
    <3> QED  BY <3>1, <3>5
  <2> QED  BY <2>1, <2>2
<1>5. Paid'  BY <1>1, <1>2, <1>4 DEF Inv, Paid, Spent
<1> QED  BY <1>3, <1>5

LEMMA PaidAllow ==
    ASSUME Inv, NEW c \in Calls, Allow(c)
    PROVE  Paid' /\ WindowBound'
<1> DEFINE w == CallUser[c]
           l == Len(grants[w])
<1>1. w \in Users  BY CallUserAssumption
<1>2. now' = now /\ now \in Nat  BY DEF Allow, Inv, Typed, TypeOK
<1>3. grants[w] \in Seq(Nat) /\ l \in Nat
  BY <1>1 DEF Inv, Typed, TypeOK
<1>4. grants' = [grants EXCEPT ![w] = Append(@, now)]
      /\ asked' = [asked EXCEPT ![w] = now]
  BY DEF Allow
<1>5. credit[w] >= Unit /\ credit[w] \in 0 .. Capacity
  BY <1>1, CreditType DEF Allow, Inv, Typed
<1>6. credit' = [credit EXCEPT ![w] = @ - Unit]
  <2>1. store(w, refilled(entry(w)), TRUE)  BY DEF Allow
  <2> QED  BY <1>2, <1>5, <2>1, StoreTakes DEF Inv, Typed
<1>7. credit'[w] = credit[w] - Unit /\ credit'[w] \in Nat
  <2>1. credit'[w] = credit[w] - Unit  BY <1>1, <1>6 DEF credit
  <2> QED  BY <1>5, <2>1, TokenAssumption
<1>8. grants'[w] = Append(grants[w], now) /\ asked'[w] = now
  BY <1>1, <1>4 DEF Inv, Typed, TypeOK
<1>9. Len(grants'[w]) = l + 1 /\ grants'[w][l + 1] = now
      /\ \A i \in 1 .. l : grants'[w][i] = grants[w][i]
  <2> DEFINE g == grants[w]
  <2>1. g \in Seq(Nat) /\ now \in Nat  BY <1>2, <1>3
  <2> HIDE DEF g
  <2>2. Len(Append(g, now)) = Len(g) + 1 /\ Append(g, now)[Len(g) + 1] = now
        /\ \A i \in 1 .. Len(g) : Append(g, now)[i] = g[i]
    BY <2>1
  <2> QED  BY <1>8, <2>2 DEF g
<1>10. \A i \in 1 .. l + 1 : grants'[w][i] \in Nat
  <2>1. \A i \in 1 .. l : grants[w][i] \in Nat  BY <1>3
  <2>2. \A i \in 1 .. l + 1 : i \in 1 .. l \/ i = l + 1
    <3>1. l \in Nat  BY <1>3
    <3> HIDE DEF l
    <3> QED  BY <3>1
  <2> QED  BY <1>2, <1>9, <2>1, <2>2
<1>11. ASSUME NEW i \in 1 .. l + 1
       PROVE  /\ Spent(w, i)' = Unit * (l + 1 - i + 1)
              /\ Spent(w, i)' \in Nat
              /\ Idle * (Spent(w, i)' + credit'[w])
                   <= Idle * Capacity + Gain * (now - grants'[w][i])
              /\ Idle * Spent(w, i)'
                   <= Idle * Capacity + Gain * (now - grants'[w][i])
  <2>1. Spent(w, i)' = Unit * (l + 1 - i + 1)  BY <1>9 DEF Spent
  <2>2. l + 1 - i + 1 \in Nat  BY <1>3
  <2>3. Spent(w, i)' \in Nat  BY <2>1, <2>2, UnitTimes
  <2>4. Idle * (Spent(w, i)' + credit'[w])
          <= Idle * Capacity + Gain * (now - grants'[w][i])
    <3>1. CASE i = l + 1
      <4>1. l + 1 - i + 1 = 1 /\ now - grants'[w][i] = 0
        BY <1>2, <1>3, <1>9, <3>1
      <4>2. Spent(w, i)' = Unit
        <5>1. Unit * 1 = Unit  BY TokenAssumption
        <5> QED  BY <2>1, <4>1, <5>1
      <4>3. Spent(w, i)' + credit'[w] = credit[w]
        BY <1>5, <1>7, <4>2, TokenAssumption
      <4>4. Idle * credit[w] <= Idle * Capacity /\ Idle * Capacity \in Int
        BY <1>5, Times, TokenAssumption, CleanupAssumption
      <4>5. Gain * 0 = 0  BY GainFacts
      <4>6. Idle * Capacity + Gain * (now - grants'[w][i]) = Idle * Capacity
        BY <4>1, <4>4, <4>5
      <4> QED  BY <4>3, <4>4, <4>6
    <3>2. CASE i \in 1 .. l
      <4> DEFINE k == l - i + 1
      <4>1. k \in Nat /\ l + 1 - i + 1 = k + 1
        <5>1. l \in Nat  BY <1>3
        <5> HIDE DEF l
        <5> QED  BY <3>2, <5>1
      <4>2. Unit * k \in Nat /\ Unit * (k + 1) = Unit * k + Unit
        BY <4>1, UnitTimes
      <4>3. Spent(w, i) = Unit * k  BY DEF Spent
      <4>4. Spent(w, i)' = Spent(w, i) + Unit  BY <2>1, <4>1, <4>2, <4>3
      <4>5. Spent(w, i) \in Nat  BY <4>2, <4>3
      <4>6. Spent(w, i)' + credit'[w] = Spent(w, i) + credit[w]
        BY <1>5, <1>7, <4>4, <4>5, TokenAssumption
      <4>7. Idle * (Spent(w, i) + credit[w])
              <= Idle * Capacity + Gain * (now - grants[w][i])
        BY <1>1, <3>2 DEF Inv, Paid
      <4>8. grants'[w][i] = grants[w][i]  BY <1>9, <3>2
      <4> QED  BY <4>6, <4>7, <4>8
    <3> QED  BY <1>3, <3>1, <3>2
  <2>5. now - grants'[w][i] \in Int  BY <1>2, <1>10
  <2>6. Idle * Capacity + Gain * (now - grants'[w][i]) \in Int
    BY <2>5, BoundType
  <2>7. Idle * Spent(w, i)'
          <= Idle * Capacity + Gain * (now - grants'[w][i])
    <3> DEFINE n == Spent(w, i)'
               b == credit'[w]
               y == Idle * Capacity + Gain * (now - grants'[w][i])
    <3>1. n \in Int /\ b \in Nat /\ y \in Int /\ Idle * (n + b) <= y
      BY <1>7, <2>3, <2>4, <2>6
    <3> HIDE DEF n, b, y
    <3>2. Idle * n <= y  BY <3>1, PayLess
    <3> QED  BY <3>2 DEF n, y
  <2> QED  BY <2>1, <2>3, <2>4, <2>7
<1>12. ASSUME NEW v \in Users, v # w
       PROVE  /\ grants'[v] = grants[v] /\ asked'[v] = asked[v]
              /\ credit'[v] = credit[v]
  BY <1>4, <1>6, <1>12 DEF Inv, Typed, TypeOK, credit
<1>13. Paid'
  <2> SUFFICES ASSUME NEW v \in Users, NEW i \in 1 .. Len(grants'[v])
               PROVE  /\ Idle * (Spent(v, i)' + credit'[v])
                           <= Idle * Capacity + Gain * (now - grants'[v][i])
                      /\ Idle * Spent(v, i)'
                           <= Idle * Capacity + Gain * (asked'[v] - grants'[v][i])
    BY <1>2 DEF Paid, Gain
  <2>1. CASE v = w
    <3>1. i \in 1 .. l + 1  BY <1>9, <2>1
    <3> QED  BY <2>1, <3>1, <1>8, <1>11
  <2>2. CASE v # w
    <3>1. Spent(v, i)' = Spent(v, i)  BY <1>12, <2>2 DEF Spent
    <3> QED  BY <2>2, <3>1, <1>12 DEF Inv, Paid
  <2> QED  BY <2>1, <2>2
<1>14. WindowBound'
  <2> SUFFICES ASSUME NEW v \in Users, NEW j \in 1 .. Len(grants'[v]),
                      NEW i \in 1 .. j
               PROVE  Idle * (Unit * (j - i + 1))
                        <= Idle * Capacity + Gain * (grants'[v][j] - grants'[v][i])
    BY DEF WindowBound, Gain
  <2>1. CASE v # w  BY <2>1, <1>12 DEF Inv, WindowBound
  <2>2. CASE v = w /\ j \in 1 .. l
    <3>1. i \in 1 .. l /\ i \in 1 .. j  BY <1>3, <2>2
    <3> QED  BY <1>1, <1>9, <2>2, <3>1 DEF Inv, WindowBound
  <2>3. CASE v = w /\ j = l + 1
    <3>1. i \in 1 .. l + 1  BY <2>3
    <3>2. Idle * (Unit * (l + 1 - i + 1))
            <= Idle * Capacity + Gain * (now - grants'[w][i])
      BY <1>11, <3>1
    <3> QED  BY <1>9, <2>3, <3>2
  <2> QED  BY <1>3, <1>9, <2>1, <2>2, <2>3
<1> QED  BY <1>13, <1>14

-----------------------------------------------------------------------------
(* Every step of the rate limiter is a step of the bucket, or none. *)

(* An answered request ends its user's silence. *)
LEMMA IdleReset ==
    ASSUME Typed, NEW c \in Calls, UNCHANGED now,
           asked' = [asked EXCEPT ![CallUser[c]] = now]
    PROVE  idle' = [idle EXCEPT ![CallUser[c]] = 0]
<1>1. asked \in [Users -> 0 .. now] /\ now - now = 0
  BY DEF Typed, TypeOK
<1>2. \A u \in Users : now - asked'[u] = IF u = CallUser[c] THEN 0 ELSE now - asked[u]
  BY <1>1
<1> QED  BY <1>2 DEF idle

LEMMA BucketStep ==
    ASSUME Typed, [Next]_vars
    PROVE  [TB!Next]_(TB!vars)
<1> USE DEF TB!vars
<1>1. CASE Tick
  <2>1. credit' = [u \in Users |-> AtMost(credit[u] + Rate, Capacity)]
    BY <1>1, TickRefills DEF Typed, credit
  <2>3. idle' = [u \in Users |-> idle[u] + 1]
    BY <1>1 DEF Tick, Typed, TypeOK, idle
  <2>2. TB!Refill
    BY <1>1, <2>1, <2>3 DEF Tick, TB!Refill, TB!AtMost, AtMost
  <2> QED  BY <2>2 DEF TB!Next
<1>2. CASE CleanupTick
  BY <1>2 DEF CleanupTick, credit, idle, refilled, entry, AtMost
<1>3. ASSUME NEW w \in Users, Retain(w) PROVE [TB!Next]_(TB!vars)
  <2>1. UNCHANGED <<idle, reply>>  BY <1>3 DEF Retain, idle
  <2>2. CASE credit' = credit  BY <2>1, <2>2
  <2>3. CASE credit' = [credit EXCEPT ![w] = Capacity] /\ now - asked[w] >= Idle
    <3>1. TB!TopUp(w)  BY <2>1, <2>3 DEF TB!TopUp, idle
    <3> QED  BY <3>1 DEF TB!Next
  <2> QED  BY <1>3, <2>2, <2>3, RetainTopsUp
<1>4. ASSUME NEW c \in Calls, Ask(c) PROVE [TB!Next]_(TB!vars)
  <2>1. TB!Ask(c)
    BY <1>4 DEF Ask, TB!Ask, credit, idle, refilled, entry, AtMost
  <2> QED  BY <2>1 DEF TB!Next
<1>5. ASSUME NEW c \in Calls, Allow(c) PROVE [TB!Next]_(TB!vars)
  <2>1. credit[CallUser[c]] >= Unit
    BY <1>5, CallUserAssumption, CreditType DEF Allow, Typed
  <2>2. credit' = [credit EXCEPT ![CallUser[c]] = @ - Unit]
    <3>1. store(CallUser[c], refilled(entry(CallUser[c])), TRUE)
          /\ UNCHANGED now
      BY <1>5 DEF Allow
    <3> QED  BY <2>1, <3>1, StoreTakes DEF Typed
  <2>4. idle' = [idle EXCEPT ![CallUser[c]] = 0]
    BY <1>5, IdleReset DEF Allow
  <2>3. TB!Allow(c)  BY <1>5, <2>1, <2>2, <2>4 DEF Allow, TB!Allow
  <2> QED  BY <2>3 DEF TB!Next
<1>6. ASSUME NEW c \in Calls, Refuse(c) PROVE [TB!Next]_(TB!vars)
  <2>1. credit[CallUser[c]] < Unit
    BY <1>6, CallUserAssumption, CreditType DEF Refuse, Typed
  <2>2. credit' = credit
    <3>1. store(CallUser[c], refilled(entry(CallUser[c])), FALSE)
          /\ UNCHANGED now
      BY <1>6 DEF Refuse
    <3>2. credit' = [credit EXCEPT ![CallUser[c]] = @]
      BY <3>1, StoreTakes DEF Typed
    <3> QED  BY <3>2 DEF credit
  <2>4. idle' = [idle EXCEPT ![CallUser[c]] = 0]
    BY <1>6, IdleReset DEF Refuse
  <2>3. TB!Refuse(c)  BY <1>6, <2>1, <2>2, <2>4 DEF Refuse, TB!Refuse
  <2> QED  BY <2>3 DEF TB!Next
<1>7. CASE UNCHANGED vars
  BY <1>7 DEF vars, credit, idle, refilled, entry, AtMost
<1> QED  BY <1>1, <1>2, <1>3, <1>4, <1>5, <1>6, <1>7 DEF Next

LEMMA BucketInit == Init => TB!Init
<1> SUFFICES ASSUME Init PROVE TB!Init  OBVIOUS
<1>1. now - now = 0 /\ Rate * 0 = 0  BY TokenAssumption DEF Init
<1>2. ASSUME NEW u \in Users PROVE refilled(entry(u)) = Capacity
  <2>1. entry(u) = [tokens |-> Capacity, last_refill |-> now]
    BY DEF Init, entry
  <2> QED  BY <1>1, <2>1, TokenAssumption DEF refilled, AtMost
<1> QED  BY <1>1, <1>2 DEF Init, TB!Init, credit, idle

(* The lazily refilled buckets of ratelimit.rs implement buckets that are  *)
(* always there and fill with every tick: the same requests are allowed.   *)
THEOREM LimiterImplementsBucket == Spec => BucketSpec
<1>1. Init /\ [][Next]_vars /\ []Typed => TB!Init /\ [][TB!Next]_(TB!vars)
  BY BucketInit, BucketStep, PTL
<1>2. Spec => []Typed  BY TypedInit, TypedNext, PTL DEF Spec
<1> QED  BY <1>1, <1>2, PTL DEF Spec, BucketSpec, TB!Spec

LEMMA InvNext == Inv /\ [Next]_vars => Inv'
<1> SUFFICES ASSUME Inv, [Next]_vars PROVE Inv'  OBVIOUS
<1>1. Typed'  BY TypedNext DEF Inv
<1>2. Paid' /\ WindowBound'
  <2>1. CASE Tick  BY <2>1, PaidTick
  <2>2. CASE CleanupTick
    BY <2>2, PaidKept DEF CleanupTick, credit, refilled, entry, AtMost
  <2>3. ASSUME NEW w \in Users, Retain(w) PROVE Paid' /\ WindowBound'
    BY <2>3, PaidRetain
  <2>4. ASSUME NEW c \in Calls, Ask(c) PROVE Paid' /\ WindowBound'
    BY <2>4, PaidKept DEF Ask, credit, refilled, entry, AtMost
  <2>5. ASSUME NEW c \in Calls, Allow(c) PROVE Paid' /\ WindowBound'
    BY <2>5, PaidAllow
  <2>6. ASSUME NEW c \in Calls, Refuse(c) PROVE Paid' /\ WindowBound'
    BY <2>6, PaidRefuse
  <2>7. CASE UNCHANGED vars
    BY <2>7, PaidKept DEF vars, credit, refilled, entry, AtMost
  <2> QED  BY <2>1, <2>2, <2>3, <2>4, <2>5, <2>6, <2>7 DEF Next
<1> QED  BY <1>1, <1>2 DEF Inv

(* No window of time lets a user's requests through that a full bucket and *)
(* what the window brings, at Gain in every Idle, do not pay for, whatever *)
(* the capacity, the rate and the idle time are.                           *)
THEOREM LimiterWindowBound == Spec => []WindowBound
<1>1. Init => Inv  BY TypedInit, PaidInit DEF Inv
<1>2. Inv => WindowBound  BY DEF Inv
<1> QED  BY <1>1, <1>2, InvNext, PTL DEF Spec

(* What the doc comment of RateLimiter promises: a full bucket and the     *)
(* refill of the window pay for what the window lets through.              *)
RefillBound ==
    \A u \in Users : \A j \in 1 .. Len(grants[u]) : \A i \in 1 .. j :
        Unit * (j - i + 1) <= Capacity + Rate * (grants[u][j] - grants[u][i])

(* It holds where the clock refills a bucket before it can be dropped,     *)
(* capacity <= 600 * refill_rate, which RateLimiter::new does not ensure.  *)
THEOREM LimiterRefillBound == Capacity <= Rate * Idle => (Spec => []RefillBound)
<1> SUFFICES ASSUME Capacity <= Rate * Idle PROVE Spec => []RefillBound
  OBVIOUS
<1>1. TypeOK /\ WindowBound => RefillBound
  <2> SUFFICES ASSUME TypeOK, WindowBound, NEW u \in Users,
                      NEW j \in 1 .. Len(grants[u]), NEW i \in 1 .. j
               PROVE  Unit * (j - i + 1)
                        <= Capacity + Rate * (grants[u][j] - grants[u][i])
    BY DEF RefillBound
  <2>1. grants[u] \in Seq(Nat)  BY DEF TypeOK
  <2>2. grants[u][j] - grants[u][i] \in Int /\ j - i + 1 \in Nat
    <3>1. Len(grants[u]) \in Nat  BY <2>1
    <3>2. j \in Nat /\ i \in Nat /\ i <= j /\ i \in 1 .. Len(grants[u])  BY <3>1
    <3>3. grants[u][j] \in Nat /\ grants[u][i] \in Nat  BY <2>1, <3>2
    <3> QED  BY <3>2, <3>3
  <2> DEFINE x == Unit * (j - i + 1)
             d == grants[u][j] - grants[u][i]
             y == Capacity + Rate * d
  <2>3. x \in Int /\ d \in Int  BY <2>2, UnitTimes
  <2>4. y \in Int  BY <2>3, RateTimesInt, TokenAssumption
  <2>5. Idle * x <= Idle * Capacity + (Rate * Idle) * d
    BY DEF WindowBound, Gain
  <2> HIDE DEF x, d
  <2>6. Idle * x <= Idle * y
    <3>1. Idle * (Capacity + Rate * d) = Idle * Capacity + Idle * (Rate * d)
      BY <2>3, RateTimesInt, Times, TokenAssumption, CleanupAssumption
    <3>2. Idle * (Rate * d) = (Rate * Idle) * d
      BY <2>3, TokenAssumption, CleanupAssumption
    <3> QED  BY <2>5, <3>1, <3>2
  <2> HIDE DEF y
  <2>7. ASSUME y + 1 <= x PROVE FALSE
    <3>1. Idle * (y + 1) <= Idle * x /\ Idle * (y + 1) = Idle * y + Idle * 1
          /\ Idle * y \in Int /\ Idle * x \in Int /\ Idle * 1 = Idle
      BY <2>3, <2>4, <2>7, Times, CleanupAssumption
    <3> DEFINE a == Idle * x
               b == Idle * y
    <3>2. b + Idle <= a /\ a <= b /\ a \in Int /\ b \in Int  BY <2>6, <3>1
    <3> HIDE DEF a, b
    <3> QED  BY <3>2, CleanupAssumption
  <2>8. x <= y  BY <2>3, <2>4, <2>7
  <2> QED  BY <2>8 DEF x, d, y
<1> QED  BY <1>1, LimiterTypeCorrect, LimiterWindowBound, PTL
=============================================================================
