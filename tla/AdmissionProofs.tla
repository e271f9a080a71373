--------------------------- MODULE AdmissionProofs ---------------------------
(***************************************************************************)
(* Theorems about the admission of sign ins, for any attempts, accounts,   *)
(* addresses, policies and lockouts.                                       *)
(***************************************************************************)
EXTENDS Admission, TLAPS

Stages == {"idle", "limited", "throttled", "admitted", "wrong", "right", "refused", "signed_in"}

TypeOK ==
  /\ now \in Nat
  /\ bucket \in [Buckets -> [tokens : Int, lastSeen : Int]]
  /\ attempts \in [Accounts -> [failures : Nat, first : Nat, blockedUntil : Int]]
  /\ stage \in [Attempts -> Stages]
  /\ passed \in [Attempts -> Nat]
  /\ clock \in [Attempts -> Nat]
  /\ granted \in [Buckets -> Nat]
  /\ told \in [Buckets -> [at : Nat, wait : Nat]]
  /\ failed \in [Accounts -> Seq(Nat)]
  /\ inFlight \in [Accounts -> SUBSET Attempts]

(* A request is at a policy of its route, with a time that is not old. *)
Asking(a) ==
  /\ stage[a] \in {"idle", "limited"} => passed[a] < Len(Policies)
  /\ stage[a] = "limited" => clock[a] <= now /\ now <= clock[a] + Delay

(* The row of an account counts failures that happened, and was locked     *)
(* only after enough of them.                                              *)
Counted(e) ==
  /\ attempts[e].failures <= Len(failed[e])
  /\ attempts[e].blockedUntil # -1 => Len(failed[e]) >= MaxFailures

(* Nobody gets past the check of a locked account. *)
Closed(e) == Blocked(e) => PastTheCheck(e) \subseteq inFlight[e]

PolicyOf(b) == Policies[b[1]]

(* A bucket in memory owes at most what the clocks disagree about, and     *)
(* that is paid back by now.                                               *)
Bounded(p, k, time) ==
  k # NoBucket =>
    /\ 0 <= k.lastSeen /\ k.lastSeen <= time
    /\ - (Delay * p.requests) <= k.tokens /\ k.tokens <= Capacity(p)
    /\ 0 <= k.tokens + (time - k.lastSeen) * p.requests

(* What a bucket granted and what it has left came from its burst and from *)
(* the time it has seen; what a dropped one granted came from time alone,  *)
(* so the burst of the next one is free.                                   *)
Balanced(p, k, grants, time) ==
  IdleIsFull(p) =>
    /\ k = NoBucket => \A t \in Nat : time <= t + Delay => grants * p.window <= t * p.requests
    /\ k # NoBucket => grants * p.window + k.tokens <= Capacity(p) + k.lastSeen * p.requests

(* What a refused caller was told is still what the bucket says. *)
Answered(p, k, was) ==
  was # Nothing /\ k # NoBucket =>
    k.lastSeen = was.at /\ was.wait = RetryAfter(p, k.tokens)

Sound(p, k, grants, was, time) ==
  Bounded(p, k, time) /\ Balanced(p, k, grants, time) /\ Answered(p, k, was)

IInv ==
  /\ TypeOK
  /\ \A a \in Attempts : Asking(a)
  /\ \A e \in Accounts : Counted(e) /\ Closed(e)
  /\ \A b \in Buckets : Sound(PolicyOf(b), bucket[b], granted[b], told[b], now)

USE AdmissionAssumption
-----------------------------------------------------------------------------
(* Arithmetic. *)

LEMMA MinOfTwo ==
  ASSUME NEW x \in Int, NEW y \in Int
  PROVE  Min({x, y}) = IF x <= y THEN x ELSE y
BY DEF Min

LEMMA MaxOfTwo ==
  ASSUME NEW x \in Int, NEW y \in Int
  PROVE  Max({x, y}) = IF x >= y THEN x ELSE y
BY DEF Max

LEMMA Scale ==
  ASSUME NEW r \in Nat, NEW x \in Int, NEW y \in Int, x <= y
  PROVE  x * r \in Int /\ y * r \in Int /\ x * r <= y * r
OBVIOUS

LEMMA Spread ==
  ASSUME NEW r \in Nat, NEW x \in Int, NEW y \in Int
  PROVE  (x - y) * r = x * r - y * r /\ (x + y) * r = x * r + y * r
OBVIOUS

(* What the quotient of a division leaves out is less than the divisor. *)
LEMMA CutOff ==
  ASSUME NEW x \in Int, NEW d \in Nat \ {0}
  PROVE  x \div d \in Int /\ x < (x \div d + 1) * d
OBVIOUS

(* A bucket idle for two windows of some policy, whose burst would have    *)
(* been refilled in that time, has been paid for by the time.              *)
LEMMA IdleIsPaidFor ==
  ASSUME NEW r \in Nat, NEW d \in Nat, NEW w \in Nat, NEW c \in Int, NEW g \in Int,
         NEW k \in Int, NEW seen \in Int, NEW t \in Int, NEW n \in Int, NEW u \in Int,
         c <= (2 * w - 2 * d) * r, t - seen > 2 * w, t <= n, n <= u + d,
         g + k <= c + seen * r, - (d * r) <= k
  PROVE  g <= u * r
<1>1. seen * r <= (t - 2 * w) * r
  BY Scale
<1>2. (t - d) * r <= u * r
  BY Scale
<1>3. (t - 2 * w) * r = t * r - (2 * w) * r /\ (t - d) * r = t * r - d * r
  BY Spread
<1>4. (2 * w - 2 * d) * r = (2 * w) * r - (2 * d) * r /\ (2 * d) * r = d * r + d * r
  BY Spread
<1> DEFINE a1 == seen * r
           a2 == t * r
           a3 == (2 * w) * r
           a4 == d * r
           a5 == u * r
<1>5. a1 \in Int /\ a2 \in Int /\ a3 \in Int /\ a4 \in Int /\ a5 \in Int
  OBVIOUS
<1>6. a1 <= a2 - a3 /\ a2 - a4 <= a5 /\ c <= a3 - (a4 + a4) /\ g + k <= c + a1 /\ - a4 <= k
  BY <1>1, <1>2, <1>3, <1>4
<1> HIDE DEF a1, a2, a3, a4, a5
<1>7. g <= a5
  BY <1>5, <1>6
<1>8. QED
  BY <1>7 DEF a5

(* A caller who waits as told, and a second more, finds a whole token. *)
LEMMA WaitSuffices ==
  ASSUME NEW w \in Nat, NEW k \in Int, NEW r \in Nat \ {0}, NEW s \in Nat \ {0},
         NEW wait \in Nat, NEW at \in Int, NEW t \in Int,
         (w - k) \div (r * s) <= wait, (wait + 1) * s <= t - at
  PROVE  w <= k + (t - at) * r
<1>1. r * s \in Nat \ {0}
  OBVIOUS
<1> DEFINE q == (w - k) \div (r * s)
<1>2. q \in Int /\ w - k < (q + 1) * (r * s)
  BY <1>1, CutOff
<1> HIDE DEF q
<1>3. (q + 1) * (r * s) <= (wait + 1) * (r * s)
  BY <1>1, <1>2, Scale DEF q
<1>4. (wait + 1) * (r * s) = ((wait + 1) * s) * r
  OBVIOUS
<1>5. ((wait + 1) * s) * r <= (t - at) * r
  BY Scale
<1> DEFINE x == (q + 1) * (r * s)
           y == ((wait + 1) * s) * r
           z == (t - at) * r
<1>6. x \in Int /\ y \in Int /\ z \in Int
  BY <1>2
<1>7. w - k < x /\ x <= y /\ y <= z
  BY <1>2, <1>3, <1>4, <1>5
<1> HIDE DEF x, y, z
<1>8. w <= k + z
  BY <1>6, <1>7
<1>9. QED
  BY <1>8 DEF z
-----------------------------------------------------------------------------
LEMMA PolicyIsParsed ==
  ASSUME NEW b \in Buckets
  PROVE  /\ PolicyOf(b) \in ParsePolicy
         /\ PolicyOf(b).requests \in Nat \ {0}
         /\ PolicyOf(b).window \in Nat \ {0}
         /\ Capacity(PolicyOf(b)) \in Nat /\ PolicyOf(b).window <= Capacity(PolicyOf(b))
<1>1. b[1] \in 1 .. Len(Policies)
  BY DEF Buckets
<1>2. PolicyOf(b) \in ParsePolicy
  BY <1>1 DEF PolicyOf
<1>3. /\ PolicyOf(b).requests \in Nat \ {0}
      /\ PolicyOf(b).window \in Nat \ {0}
      /\ PolicyOf(b).burst \in Nat \ {0}
  BY <1>2 DEF ParsePolicy
<1>4. ASSUME NEW x \in Nat \ {0}, NEW w \in Nat \ {0} PROVE x * w \in Nat /\ w <= x * w
  <2>1. 1 * w <= x * w
    BY Scale
  <2>2. QED
    BY <2>1
<1>5. QED
  BY <1>2, <1>3, <1>4 DEF Capacity

(* Where an attempt at the mutex stands. *)
LEMMA AskerIs ==
  ASSUME IInv, NEW a \in Attempts, stage[a] = "limited"
  PROVE  /\ Bucket(a) \in Buckets /\ Policy(a) = PolicyOf(Bucket(a))
         /\ passed[a] + 1 \in DOMAIN Policies
         /\ clock[a] \in Nat /\ clock[a] <= now /\ now <= clock[a] + Delay
<1>1. passed[a] \in Nat /\ passed[a] < Len(Policies) /\ Len(Policies) \in Nat
  BY DEF IInv, Asking, TypeOK
<1>2. passed[a] + 1 \in 1 .. Len(Policies) /\ passed[a] + 1 \in DOMAIN Policies
  BY <1>1
<1>3. Address[a] \in Addresses
  BY DEF Addresses
<1>4. QED
  BY <1>2, <1>3 DEF Bucket, Buckets, Policy, PolicyOf, IInv, Asking, TypeOK

(* A bucket that one of the policies drops was paid for by the time. *)
LEMMA KeptIsSound ==
  ASSUME IInv, NEW a \in Attempts, stage[a] = "limited", NEW b \in Buckets
  PROVE  LET k == EvictStale(clock[a], Policy(a).window)[b]
         IN  /\ k \in [tokens : Int, lastSeen : Int]
             /\ k = NoBucket \/ k = bucket[b]
             /\ Sound(PolicyOf(b), k, granted[b], told[b], now)
<1> DEFINE k == EvictStale(clock[a], Policy(a).window)[b]
           p == PolicyOf(b)
           w == Policy(a).window
           t == clock[a]
<1>1. /\ bucket[b] \in [tokens : Int, lastSeen : Int] /\ granted[b] \in Nat
      /\ now \in Nat /\ told[b] \in [at : Nat, wait : Nat]
      /\ Sound(p, bucket[b], granted[b], told[b], now)
  BY DEF IInv, TypeOK
<1>2. /\ t \in Nat /\ t <= now /\ now <= t + Delay
      /\ passed[a] + 1 \in DOMAIN Policies /\ w \in Nat
  <2>1. Bucket(a) \in Buckets /\ Policy(a) = PolicyOf(Bucket(a))
    BY AskerIs
  <2>2. w \in Nat
    BY <2>1, PolicyIsParsed
  <2>3. QED
    BY <2>2, AskerIs
<1>3. k = IF t - bucket[b].lastSeen > 2 * w THEN NoBucket ELSE bucket[b]
  BY DEF EvictStale
<1>4. CASE k = bucket[b]
  BY <1>1, <1>4
<1>5. CASE k = NoBucket /\ bucket[b] # NoBucket
  <2>1. k \in [tokens : Int, lastSeen : Int]
    BY <1>5 DEF NoBucket
  <2>2. Bounded(p, k, now) /\ Answered(p, k, told[b])
    BY <1>5 DEF Bounded, Answered
  <2>3. ASSUME IdleIsFull(p), NEW u \in Nat, now <= u + Delay
        PROVE  granted[b] * p.window <= u * p.requests
    <3>1. p.requests \in Nat /\ p.window \in Nat /\ Capacity(p) \in Nat
      BY PolicyIsParsed
    <3>2. Capacity(p) <= (2 * w - 2 * Delay) * p.requests
      BY <1>2, <2>3 DEF IdleIsFull, Policy
    <3>3. t - bucket[b].lastSeen > 2 * w
      BY <1>3, <1>5
    <3>4. /\ granted[b] * p.window + bucket[b].tokens
               <= Capacity(p) + bucket[b].lastSeen * p.requests
          /\ - (Delay * p.requests) <= bucket[b].tokens
      BY <1>1, <1>5, <2>3 DEF Sound, Balanced, Bounded
    <3>5. bucket[b].tokens \in Int /\ bucket[b].lastSeen \in Int
      BY <1>1
    <3>6. PICK g \in Int : g = granted[b] * p.window
      BY <1>1, <3>1
    <3>7. Delay \in Nat /\ now \in Int /\ t \in Int /\ u \in Int /\ Capacity(p) \in Int
      BY <1>1, <1>2, <3>1
    <3>8. g + bucket[b].tokens <= Capacity(p) + bucket[b].lastSeen * p.requests
      BY <3>4, <3>6
    <3> HIDE DEF p, w, t, k
    <3>9. g <= u * p.requests
      BY <1>2, <2>3, <3>1, <3>2, <3>3, <3>4, <3>5, <3>7, <3>8, IdleIsPaidFor
    <3>10. QED
      BY <3>6, <3>9
  <2>4. Balanced(p, k, granted[b], now)
    BY <1>5, <2>3 DEF Balanced
  <2>5. QED
    BY <1>5, <2>1, <2>2, <2>4 DEF Sound
<1>6. QED
  BY <1>3, <1>4, <1>5

(* A bucket as a request finds it. *)
LEMMA FoundIsSound ==
  ASSUME NEW b \in Buckets, NEW k \in [tokens : Int, lastSeen : Int], NEW grants \in Nat,
         NEW t \in Nat, now \in Nat, t <= now, now <= t + Delay,
         Bounded(PolicyOf(b), k, now), Balanced(PolicyOf(b), k, grants, now)
  PROVE  LET p == PolicyOf(b)
             found == Refill(p, k, t)
         IN  /\ found.tokens \in Int /\ found.lastSeen = t
             /\ found = [tokens |-> found.tokens, lastSeen |-> t]
             /\ found.tokens <= Capacity(p) /\ - (Delay * p.requests) <= found.tokens
             /\ 0 <= found.tokens + (now - t) * p.requests
             /\ IdleIsFull(p) =>
                  grants * p.window + found.tokens <= Capacity(p) + t * p.requests
<1> DEFINE p == PolicyOf(b)
           found == Refill(p, k, t)
<1>1. /\ p.requests \in Nat /\ Capacity(p) \in Nat /\ p.window \in Nat
      /\ Delay \in Nat /\ now \in Nat
  BY PolicyIsParsed
<1>2. PICK r \in Nat, c \in Nat, d \in Nat, n \in Nat, gw \in Nat :
        r = p.requests /\ c = Capacity(p) /\ d = Delay /\ n = now /\ gw = grants * p.window
  <2>1. grants * p.window \in Nat
    BY <1>1
  <2> HIDE DEF p
  <2>2. QED
    BY <1>1, <2>1, Zenon
<1>3. t <= n /\ n <= t + d
  BY <1>2
<1> SUFFICES ASSUME NEW y \in Int, found = [tokens |-> y, lastSeen |-> t]
             PROVE  /\ y <= c /\ - (d * r) <= y /\ 0 <= y + (n - t) * r
                    /\ IdleIsFull(p) => gw + y <= c + t * r
  <2>1. \E y \in Int : found = [tokens |-> y, lastSeen |-> t]
    <3>1. CASE k = NoBucket
      BY <1>1, <3>1 DEF Refill
    <3>2. CASE k # NoBucket
      <4>1. PICK z \in Int : z = k.tokens + (t - k.lastSeen) * r
        BY <1>2
      <4>2. Min({z, c}) \in Int
        <5>1. c \in Int
          OBVIOUS
        <5>2. Min({z, c}) = IF z <= c THEN z ELSE c
          BY <5>1, MinOfTwo
        <5>3. QED
          BY <5>1, <5>2
      <4>3. found = [tokens |-> Min({z, c}), lastSeen |-> t]
        BY <1>2, <3>2, <4>1 DEF Refill
      <4>4. QED
        BY <4>2, <4>3
    <3>3. QED
      BY <3>1, <3>2
  <2> HIDE DEF p, found
  <2>2. QED
    BY <1>2, <2>1 DEF p, found
<1>4. CASE k = NoBucket
  <2>1. y = c
    BY <1>2, <1>4 DEF Refill
  <2>2. IdleIsFull(p) => gw <= t * r
    BY <1>2, <1>4 DEF Balanced
  <2> HIDE DEF p, found
  <2>3. PICK a1 \in Nat, a2 \in Nat, a3 \in Nat : a1 = (n - t) * r /\ a2 = d * r /\ a3 = t * r
    <3>1. n - t \in Nat
      BY <1>3
    <3>2. QED
      BY <3>1
  <2>4. IdleIsFull(p) => gw <= a3
    BY <2>2, <2>3
  <2>5. y <= c /\ - a2 <= y /\ 0 <= y + a1 /\ (IdleIsFull(p) => gw + y <= c + a3)
    BY <2>1, <2>4
  <2>6. QED
    BY <2>3, <2>5
<1>5. CASE k # NoBucket
  <2>1. PICK x \in Int, seen \in Int : x = k.tokens /\ seen = k.lastSeen
    OBVIOUS
  <2>2. 0 <= x + (n - seen) * r
    BY <1>2, <1>5, <2>1 DEF Bounded
  <2>3. IdleIsFull(p) => gw + x <= c + seen * r
    BY <1>2, <1>5, <2>1 DEF Balanced
  <2>4. y = Min({x + (t - seen) * r, c})
    BY <1>2, <1>5, <2>1 DEF Refill
  <2> HIDE DEF p, found
  <2>5. PICK full \in Int : full = x + (t - seen) * r
    OBVIOUS
  <2>6. y = IF full <= c THEN full ELSE c
    <3>1. c \in Int /\ full \in Int /\ y = Min({full, c})
      BY <2>4, <2>5
    <3>2. QED
      BY <3>1, MinOfTwo
  <2>7. y = IF x + (t - seen) * r <= c THEN x + (t - seen) * r ELSE c
    BY <2>5, <2>6
  <2> DEFINE a1 == t * r
             a2 == n * r
             a3 == seen * r
             a4 == d * r
  <2>8. a1 \in Int /\ a2 \in Int /\ a3 \in Int /\ a4 \in Nat
    OBVIOUS
  <2>9. a1 <= a2
    BY <1>3, Scale
  <2>10. a2 <= a1 + a4
    <3>1. n * r <= (t + d) * r /\ (t + d) * r = t * r + d * r
      BY <1>3, Scale, Spread
    <3>2. QED
      BY <3>1
  <2>11. (t - seen) * r = a1 - a3 /\ (n - seen) * r = a2 - a3 /\ (n - t) * r = a2 - a1
    BY Spread
  <2> HIDE DEF a1, a2, a3, a4
  <2>12. 0 <= x + (a2 - a3) /\ y = IF x + (a1 - a3) <= c THEN x + (a1 - a3) ELSE c
    BY <2>2, <2>7, <2>11
  <2>13. IdleIsFull(p) => gw + x <= c + a3
    BY <2>3 DEF a3
  <2>14. /\ y <= c /\ - a4 <= y /\ 0 <= y + (a2 - a1)
         /\ IdleIsFull(p) => gw + y <= c + a1
    BY <2>8, <2>9, <2>10, <2>12, <2>13
  <2>15. QED
    BY <2>11, <2>14 DEF a1, a3, a4
<1>6. QED
  BY <1>4, <1>5

(* The time a refused caller is told is a natural number of seconds. *)
LEMMA RetryIsLater ==
  ASSUME NEW b \in Buckets, NEW k \in Int
  PROVE  LET p == PolicyOf(b)
         IN  /\ RetryAfter(p, k) \in Nat /\ RetryAfter(p, k) >= 1
             /\ (p.window - k) \div (p.requests * TicksPerSecond) <= RetryAfter(p, k)
<1> DEFINE p == PolicyOf(b)
           q == (p.window - k) \div (p.requests * TicksPerSecond)
<1>1. p.requests \in Nat \ {0} /\ p.window \in Nat /\ TicksPerSecond \in Nat \ {0}
  BY PolicyIsParsed
<1>2. p.requests * TicksPerSecond \in Nat \ {0} /\ p.window - k \in Int
  BY <1>1
<1>3. q \in Int
  BY <1>2, CutOff
<1>4. RetryAfter(p, k) = Max({q, 1})
  BY DEF RetryAfter
<1> HIDE DEF q
<1>5. Max({q, 1}) = IF q >= 1 THEN q ELSE 1
  BY <1>3, MaxOfTwo
<1>6. QED
  BY <1>3, <1>4, <1>5 DEF q

(* The request that takes the mutex. *)
LEMMA AllowKeeps ==
  ASSUME IInv, NEW a \in Attempts, Allow(a)
  PROVE  IInv'
<1> DEFINE b == Bucket(a)
           t == clock[a]
           kept == EvictStale(t, Policy(a).window)
           p == PolicyOf(b)
           found == Refill(p, kept[b], t)
           left == [tokens |-> Spend(p, found.tokens), lastSeen |-> t]
<1>1. stage[a] = "limited" /\ UNCHANGED <<now, attempts, failed, inFlight>>
      /\ clock' = [clock EXCEPT ![a] = 0]
  BY DEF Allow, lockout
<1>2. /\ b \in Buckets /\ Policy(a) = p
      /\ t \in Nat /\ t <= now /\ now <= t + Delay
  BY <1>1, AskerIs
<1>3. TypeOK
  BY DEF IInv
<1>4. ASSUME NEW x \in Buckets
      PROVE  /\ kept[x] \in [tokens : Int, lastSeen : Int]
             /\ Sound(PolicyOf(x), kept[x], granted[x], told[x], now)
  BY <1>1, KeptIsSound
<1>5. /\ found.tokens \in Int /\ found.lastSeen = t
      /\ found = [tokens |-> found.tokens, lastSeen |-> t]
      /\ found.tokens <= Capacity(p) /\ - (Delay * p.requests) <= found.tokens
      /\ 0 <= found.tokens + (now - t) * p.requests
      /\ IdleIsFull(p) =>
           granted[b] * p.window + found.tokens <= Capacity(p) + t * p.requests
  <2>1. granted[b] \in Nat /\ now \in Nat
    BY <1>2, <1>3 DEF TypeOK
  <2>2. Bounded(p, kept[b], now) /\ Balanced(p, kept[b], granted[b], now)
    BY <1>2, <1>4 DEF Sound
  <2> HIDE DEF kept, b, t
  <2>3. QED
    BY <1>2, <1>4, <2>1, <2>2, FoundIsSound
<1>6. p.requests \in Nat /\ p.window \in Nat \ {0} /\ Capacity(p) \in Nat
  BY <1>2, PolicyIsParsed
<1>7. bucket' = [kept EXCEPT ![b] = left]
  <2>1. bucket' = [kept EXCEPT ![b] = [found EXCEPT !.tokens = Spend(p, found.tokens)]]
    BY <1>2 DEF Allow
  <2>2. [found EXCEPT !.tokens = Spend(p, found.tokens)] = left
    BY <1>5
  <2>3. QED
    BY <2>1, <2>2
<1>8. \/ /\ found.tokens < p.window
         /\ told' = [told EXCEPT ![b] = [at |-> t, wait |-> RetryAfter(p, found.tokens)]]
         /\ stage' = [stage EXCEPT ![a] = "throttled"]
         /\ passed' = passed /\ granted' = granted
      \/ /\ found.tokens >= p.window
         /\ told' = [told EXCEPT ![b] = Nothing]
         /\ granted' = [granted EXCEPT ![b] = @ + 1]
         /\ passed' = [passed EXCEPT ![a] = @ + 1]
         /\ stage' = [stage EXCEPT ![a] = IF passed[a] + 1 = Len(Policies) THEN "admitted" ELSE "idle"]
  BY <1>2 DEF Allow, Goto
<1> HIDE DEF found, kept, left, b, t, p
<1>r. ASSUME found.tokens < p.window
      PROVE  /\ told' = [told EXCEPT ![b] = [at |-> t, wait |-> RetryAfter(p, found.tokens)]]
             /\ stage' = [stage EXCEPT ![a] = "throttled"]
             /\ passed' = passed /\ granted' = granted
  <2>1. ~ (found.tokens >= p.window)
    BY <1>5, <1>6, <1>r
  <2>2. QED
    BY <1>8, <2>1
<1>g. ASSUME found.tokens >= p.window
      PROVE  /\ told' = [told EXCEPT ![b] = Nothing]
             /\ granted' = [granted EXCEPT ![b] = @ + 1]
             /\ passed' = [passed EXCEPT ![a] = @ + 1]
             /\ stage' = [stage EXCEPT ![a] = IF passed[a] + 1 = Len(Policies) THEN "admitted" ELSE "idle"]
  <2>1. ~ (found.tokens < p.window)
    BY <1>5, <1>6, <1>g
  <2>2. QED
    BY <1>8, <2>1
<1>9. kept \in [Buckets -> [tokens : Int, lastSeen : Int]]
  BY <1>4 DEF kept, EvictStale
<1>10. left \in [tokens : Int, lastSeen : Int] /\ left.tokens \in Int /\ left.lastSeen = t
       /\ left.tokens = Spend(p, found.tokens) /\ left # NoBucket
  BY <1>2, <1>5, <1>6 DEF left, Spend, NoBucket
<1>11. RetryAfter(p, found.tokens) \in Nat
  BY <1>2, <1>5, RetryIsLater DEF p
<1>12. TypeOK'
  <2>1. bucket' \in [Buckets -> [tokens : Int, lastSeen : Int]]
    BY <1>7, <1>9, <1>10
  <2>2. clock' \in [Attempts -> Nat] /\ UNCHANGED <<now, attempts, failed, inFlight>>
    BY <1>1, <1>3 DEF TypeOK
  <2>3. stage' \in [Attempts -> Stages] /\ passed' \in [Attempts -> Nat]
    <3>1. \E s \in Stages : stage' = [stage EXCEPT ![a] = s]
      BY <1>8 DEF Stages
    <3>2. passed' = passed \/ passed' = [passed EXCEPT ![a] = @ + 1]
      BY <1>8
    <3>3. QED
      BY <1>3, <3>1, <3>2 DEF TypeOK
  <2>4. granted' \in [Buckets -> Nat] /\ told' \in [Buckets -> [at : Nat, wait : Nat]]
    <3>1. granted' = granted \/ granted' = [granted EXCEPT ![b] = @ + 1]
      BY <1>8
    <3>2. \E m \in [at : Nat, wait : Nat] : told' = [told EXCEPT ![b] = m]
      BY <1>2, <1>8, <1>11 DEF Nothing
    <3>3. granted \in [Buckets -> Nat] /\ told \in [Buckets -> [at : Nat, wait : Nat]]
      BY <1>3 DEF TypeOK
    <3>4. granted' \in [Buckets -> Nat]
      <4>1. b \in Buckets /\ granted[b] + 1 \in Nat
        BY <1>2, <3>3
      <4>2. CASE granted' = granted
        BY <3>3, <4>2
      <4>3. CASE granted' = [granted EXCEPT ![b] = granted[b] + 1]
        BY <3>3, <4>1, <4>3
      <4>4. QED
        BY <3>1, <4>2, <4>3
    <3>5. told' \in [Buckets -> [at : Nat, wait : Nat]]
      BY <1>2, <3>2, <3>3
    <3>6. QED
      BY <3>4, <3>5
  <2>5. QED
    BY <1>3, <2>1, <2>2, <2>3, <2>4 DEF TypeOK
<1>13. ASSUME NEW x \in Attempts PROVE Asking(x)'
  <2>1. CASE x = a
    <3>1. stage'[a] # "limited" /\ passed[a] < Len(Policies) /\ passed[a] \in Nat
      BY <1>1, <1>3, <1>8 DEF IInv, Asking, TypeOK
    <3>2. stage'[a] = "idle" => passed'[a] < Len(Policies)
      BY <1>3, <1>8, <3>1 DEF TypeOK
    <3>3. QED
      BY <2>1, <3>1, <3>2 DEF Asking
  <2>2. CASE x # a
    <3>1. stage'[x] = stage[x] /\ passed'[x] = passed[x] /\ clock'[x] = clock[x] /\ now' = now
      BY <1>1, <1>3, <1>8, <2>2 DEF TypeOK
    <3>2. QED
      BY <3>1 DEF IInv, Asking
  <2>3. QED
    BY <2>1, <2>2
<1>14. ASSUME NEW e \in Accounts PROVE Counted(e)' /\ Closed(e)'
  <2>1. Counted(e)'
    BY <1>1 DEF IInv, Counted
  <2>2. PastTheCheck(e)' = PastTheCheck(e)
    BY <1>1, <1>3, <1>8 DEF PastTheCheck, TypeOK
  <2>3. QED
    BY <1>1, <2>1, <2>2 DEF IInv, Closed, Blocked
<1>15. ASSUME NEW x \in Buckets
       PROVE  Sound(PolicyOf(x), bucket'[x], granted'[x], told'[x], now')
  <2>1. CASE x # b
    <3>1. bucket'[x] = kept[x] /\ granted'[x] = granted[x] /\ told'[x] = told[x] /\ now' = now
      BY <1>1, <1>3, <1>7, <1>8, <1>9, <2>1 DEF TypeOK
    <3>2. QED
      BY <1>4, <3>1
  <2>2. CASE x = b
    <3>1. bucket'[b] = left /\ now' = now /\ granted[b] \in Nat /\ now \in Nat
      BY <1>1, <1>2, <1>3, <1>7, <1>9 DEF TypeOK
    <3>2. PICK r \in Nat, w \in Nat \ {0}, c \in Nat, d \in Nat, y \in Int, n \in Nat, g \in Nat, z \in Int :
            /\ r = p.requests /\ w = p.window /\ c = Capacity(p) /\ d = Delay
            /\ y = found.tokens /\ n = now /\ g = granted[b] /\ z = left.tokens
      BY <1>5, <1>6, <1>10, <3>1
    <3>3. /\ y <= c /\ - (d * r) <= y /\ 0 <= y + (n - t) * r /\ t <= n
          /\ IdleIsFull(p) => g * w + y <= c + t * r
          /\ z = IF y >= w THEN y - w ELSE y
      BY <1>2, <1>5, <1>10, <3>2 DEF Spend
    <3>4. PICK a1 \in Nat, a2 \in Nat : a1 = (n - t) * r /\ a2 = d * r
      <4>1. n - t \in Nat
        BY <1>2, <3>3
      <4>2. QED
        BY <4>1
    <3>5. z <= c /\ - a2 <= z /\ 0 <= z + a1
      BY <3>3, <3>4
    <3>6. Bounded(p, left, now)
      BY <1>2, <1>10, <3>2, <3>3, <3>4, <3>5 DEF Bounded
    <3>7. CASE y < w
      <4>1. found.tokens < p.window /\ z = y
        <5>1. z = IF y >= w THEN y - w ELSE y
          BY <3>3
        <5>2. z = y
          BY <3>7, <5>1
        <5>3. found.tokens < p.window
          BY <3>2, <3>7
        <5>4. QED
          BY <5>2, <5>3
      <4>2. granted'[b] = g /\ told'[b] = [at |-> t, wait |-> RetryAfter(p, y)]
        BY <1>2, <1>3, <1>r, <3>2, <4>1 DEF TypeOK
      <4>3. Balanced(p, left, granted'[b], now)
        BY <1>10, <3>2, <3>3, <4>1, <4>2 DEF Balanced
      <4>4. Answered(p, left, told'[b])
        BY <1>10, <3>2, <4>1, <4>2 DEF Answered
      <4>5. QED
        BY <2>2, <3>1, <3>6, <4>3, <4>4 DEF Sound, p
    <3>8. CASE y >= w
      <4>1. found.tokens >= p.window /\ z = y - w
        BY <3>2, <3>3, <3>8
      <4>2. granted'[b] = g + 1 /\ told'[b] = Nothing
        BY <1>2, <1>3, <1>g, <3>2, <4>1 DEF TypeOK
      <4>3. (g + 1) * w + z = g * w + y
        BY <4>1, Spread
      <4>4. Balanced(p, left, granted'[b], now)
        BY <1>10, <3>2, <3>3, <4>2, <4>3 DEF Balanced
      <4>5. Answered(p, left, told'[b])
        BY <4>2 DEF Answered
      <4>6. QED
        BY <2>2, <3>1, <3>6, <4>4, <4>5 DEF Sound, p
    <3>9. QED
      BY <3>7, <3>8
  <2>3. QED
    BY <2>1, <2>2
<1>16. QED
  BY <1>12, <1>13, <1>14, <1>15 DEF IInv

(* The steps that move no bucket. *)
LEMMA LimiterKept ==
  ASSUME IInv, UNCHANGED <<now, limiter>>
  PROVE  \A b \in Buckets : Sound(PolicyOf(b), bucket'[b], granted'[b], told'[b], now')
BY DEF IInv, limiter

LEMMA ReadClockKeeps ==
  ASSUME IInv, NEW a \in Attempts, ReadClock(a)
  PROVE  IInv'
<1>1. /\ stage[a] = "idle" /\ stage' = [stage EXCEPT ![a] = "limited"]
      /\ clock' = [clock EXCEPT ![a] = now]
      /\ UNCHANGED <<now, bucket, passed, granted, told, attempts, failed, inFlight>>
  BY DEF ReadClock, Goto, lockout
<1>2. TypeOK
  BY DEF IInv
<1>3. TypeOK'
  BY <1>1, <1>2 DEF TypeOK, Stages
<1>4. ASSUME NEW x \in Attempts PROVE Asking(x)'
  BY <1>1, <1>2 DEF IInv, TypeOK, Asking
<1>5. ASSUME NEW e \in Accounts PROVE Counted(e)' /\ Closed(e)'
  <2>1. PastTheCheck(e)' = PastTheCheck(e)
    BY <1>1, <1>2 DEF PastTheCheck, TypeOK
  <2>2. QED
    BY <1>1, <2>1 DEF IInv, Counted, Closed, Blocked
<1>6. \A b \in Buckets : Sound(PolicyOf(b), bucket'[b], granted'[b], told'[b], now')
  BY <1>1 DEF IInv
<1>7. QED
  BY <1>3, <1>4, <1>5, <1>6 DEF IInv

LEMMA TickKeeps ==
  ASSUME IInv, Tick
  PROVE  IInv'
<1>1. now' = now + 1 /\ UNCHANGED <<bucket, passed, clock, granted, told, attempts, failed, inFlight, stage>>
  BY DEF Tick, limiter, lockout
<1>2. TypeOK
  BY DEF IInv
<1>3. TypeOK'
  BY <1>1, <1>2 DEF TypeOK
<1>4. ASSUME NEW x \in Attempts PROVE Asking(x)'
  BY <1>1, <1>2 DEF IInv, TypeOK, Asking, Tick
<1>5. ASSUME NEW e \in Accounts PROVE Counted(e)' /\ Closed(e)'
  <2>1. attempts[e].blockedUntil \in Int /\ now \in Nat
    BY <1>2 DEF TypeOK
  <2>2. Blocked(e)' => Blocked(e)
    BY <1>1, <2>1 DEF Blocked
  <2>3. PastTheCheck(e)' = PastTheCheck(e)
    BY <1>1 DEF PastTheCheck
  <2>4. QED
    BY <1>1, <2>2, <2>3 DEF IInv, Counted, Closed
<1>6. ASSUME NEW b \in Buckets
      PROVE  Sound(PolicyOf(b), bucket'[b], granted'[b], told'[b], now')
  <2> DEFINE p == PolicyOf(b)
  <2>1. Bounded(p, bucket[b], now) /\ Balanced(p, bucket[b], granted[b], now) /\ Answered(p, bucket[b], told[b])
    BY DEF IInv, Sound
  <2>2. Balanced(p, bucket[b], granted[b], now')
    BY <1>1, <1>2, <2>1 DEF Balanced, TypeOK
  <2>3. Bounded(p, bucket[b], now')
    <3> SUFFICES ASSUME bucket[b] # NoBucket PROVE Bounded(p, bucket[b], now')
      BY DEF Bounded
    <3>1. PICK n \in Nat, y \in Int, seen \in Int, r \in Nat :
            n = now /\ y = bucket[b].tokens /\ seen = bucket[b].lastSeen /\ r = p.requests
      BY <1>2, PolicyIsParsed DEF TypeOK
    <3>2. seen <= n /\ 0 <= y + (n - seen) * r
      BY <2>1, <3>1 DEF Bounded
    <3>3. (n - seen) * r <= (n + 1 - seen) * r
      BY Scale
    <3>4. 0 <= y + (n + 1 - seen) * r
      <4>1. (n - seen) * r \in Int /\ (n + 1 - seen) * r \in Int
        OBVIOUS
      <4>2. QED
        BY <3>2, <3>3, <4>1
    <3>5. seen <= n + 1
      BY <3>2
    <3>6. /\ 0 <= bucket[b].lastSeen
          /\ - (Delay * p.requests) <= bucket[b].tokens /\ bucket[b].tokens <= Capacity(p)
      BY <2>1 DEF Bounded
    <3>7. /\ bucket[b].lastSeen <= now'
          /\ 0 <= bucket[b].tokens + (now' - bucket[b].lastSeen) * p.requests
      <4> HIDE DEF p
      <4>1. PICK m \in Nat : m = now' /\ m = n + 1
        BY <1>1, <3>1
      <4>2. seen <= m /\ 0 <= y + (m - seen) * r
        BY <3>4, <3>5, <4>1
      <4>3. m = now' /\ y = bucket[b].tokens /\ seen = bucket[b].lastSeen /\ r = p.requests
        BY <3>1, <4>1
      <4>4. QED
        BY <4>2, <4>3
    <3> HIDE DEF p
    <3>8. QED
      BY <3>6, <3>7 DEF Bounded
  <2>4. QED
    BY <1>1, <2>1, <2>2, <2>3 DEF Sound
<1>7. QED
  BY <1>3, <1>4, <1>5, <1>6 DEF IInv

(* Login and LoginFails: a locked account lets nobody past. *)
LEMMA LookKeeps ==
  ASSUME IInv, NEW a \in Attempts, Login(a) \/ LoginFails(a)
  PROVE  IInv'
<1>1. UNCHANGED <<now, limiter, lockout>>
  BY DEF Login, LoginFails
<1>2. /\ stage[a] \in {"admitted", "wrong", "right"}
      /\ \E s \in {"refused", "wrong", "right"} :
           /\ stage' = [stage EXCEPT ![a] = s]
           /\ s # "refused" => ~ Blocked(Email[a])
  BY DEF Login, LoginFails, Goto
<1>3. TypeOK
  BY DEF IInv
<1>4. TypeOK'
  BY <1>1, <1>2, <1>3 DEF TypeOK, Stages, limiter, lockout
<1>5. ASSUME NEW x \in Attempts PROVE Asking(x)'
  BY <1>1, <1>2, <1>3 DEF IInv, TypeOK, Asking, limiter
<1>6. ASSUME NEW e \in Accounts PROVE Counted(e)' /\ Closed(e)'
  <2>1. Counted(e)'
    BY <1>1 DEF IInv, Counted, lockout
  <2>2. Blocked(e)' = Blocked(e) /\ inFlight' = inFlight
    BY <1>1 DEF Blocked, lockout
  <2>3. Blocked(e) => PastTheCheck(e)' \subseteq PastTheCheck(e)
    BY <1>2, <1>3 DEF PastTheCheck, TypeOK
  <2>4. QED
    BY <2>1, <2>2, <2>3 DEF IInv, Closed
<1>7. QED
  BY <1>1, <1>4, <1>5, <1>6, LimiterKept DEF IInv

LEMMA RegisterKeeps ==
  ASSUME IInv, NEW a \in Attempts, RegisterFailedLogin(a)
  PROVE  IInv'
<1> DEFINE e == Email[a]
<1>1. /\ stage[a] = "wrong" /\ stage' = [stage EXCEPT ![a] = "refused"]
      /\ attempts' = [attempts EXCEPT ![e] = Upsert(@)]
      /\ failed' = [failed EXCEPT ![e] = Append(@, now)]
      /\ inFlight' = [inFlight EXCEPT ![e] = IF Blocked(e) THEN @ ELSE PastTheCheck(e)]
      /\ UNCHANGED <<now, limiter>>
  BY DEF RegisterFailedLogin, Goto
<1>2. e \in Accounts
  BY DEF Accounts
<1>3. TypeOK
  BY DEF IInv
<1> DEFINE row == attempts[e]
           over == row # NoRow /\ row.first < now - FailureWindow
<1>4. /\ row.failures \in Nat /\ row.first \in Nat /\ row.blockedUntil \in Int /\ now \in Nat
      /\ failed[e] \in Seq(Nat) /\ Len(failed[e]) \in Nat
      /\ MaxFailures \in Nat \ {0} /\ Lockout \in Nat /\ FailureWindow \in Nat
  BY <1>2, <1>3 DEF TypeOK
<1> DEFINE new == Upsert(row)
<1>5. /\ new.failures = IF over THEN 1 ELSE row.failures + 1
      /\ new.blockedUntil = IF row.failures + 1 >= MaxFailures THEN now + Lockout ELSE row.blockedUntil
      /\ new.first = IF over \/ row = NoRow THEN now ELSE row.first
      /\ new = [failures |-> new.failures, first |-> new.first, blockedUntil |-> new.blockedUntil]
  BY DEF Upsert
<1> HIDE DEF over, new, row, e
<1>6. new.failures \in Nat /\ new.blockedUntil \in Int /\ new.first \in Nat
  BY <1>4, <1>5
<1>7. new \in [failures : Nat, first : Nat, blockedUntil : Int]
  BY <1>5, <1>6
<1>8. /\ attempts' = [attempts EXCEPT ![e] = new] /\ attempts'[e] = new
      /\ \A x \in Accounts : x # e => attempts'[x] = attempts[x]
  BY <1>1, <1>2, <1>3 DEF TypeOK, new, row
<1>9. failed'[e] = Append(failed[e], now) /\ Len(failed'[e]) = Len(failed[e]) + 1
  BY <1>1, <1>2, <1>3, <1>4 DEF TypeOK
<1>10. PastTheCheck(e) \subseteq Attempts
  BY DEF PastTheCheck
<1>11. TypeOK'
  <2>1. attempts' \in [Accounts -> [failures : Nat, first : Nat, blockedUntil : Int]]
    BY <1>2, <1>3, <1>7, <1>8 DEF TypeOK
  <2>2. failed' \in [Accounts -> Seq(Nat)]
    BY <1>1, <1>2, <1>3, <1>4 DEF TypeOK
  <2>3. inFlight' \in [Accounts -> SUBSET Attempts]
    BY <1>1, <1>2, <1>3, <1>10 DEF TypeOK
  <2>4. stage' \in [Attempts -> Stages]
    BY <1>1, <1>3 DEF TypeOK, Stages
  <2>5. QED
    BY <1>1, <1>3, <2>1, <2>2, <2>3, <2>4 DEF TypeOK, limiter
<1>12. ASSUME NEW x \in Attempts PROVE Asking(x)'
  BY <1>1, <1>3 DEF IInv, TypeOK, Asking, limiter
<1>13. ASSUME NEW x \in Accounts PROVE Counted(x)' /\ Closed(x)'
  <2>1. PastTheCheck(x)' \subseteq PastTheCheck(x)
    BY <1>1, <1>3 DEF PastTheCheck, TypeOK
  <2>2. CASE x = e
    <3>1. row.failures <= Len(failed[e]) /\ (row.blockedUntil # -1 => Len(failed[e]) >= MaxFailures)
      BY <1>2 DEF IInv, Counted, row
    <3>2. Counted(x)'
      <4>1. new.failures <= Len(failed[e]) + 1
        BY <1>4, <1>5, <3>1
      <4>2. new.blockedUntil # -1 => Len(failed[e]) + 1 >= MaxFailures
        BY <1>4, <1>5, <3>1
      <4>3. QED
        BY <1>8, <1>9, <2>2, <4>1, <4>2 DEF Counted
    <3>3. inFlight'[x] = IF Blocked(e) THEN inFlight[e] ELSE PastTheCheck(e)
      BY <1>1, <1>2, <1>3, <2>2 DEF TypeOK
    <3>4. Blocked(e) => PastTheCheck(e) \subseteq inFlight[e]
      BY <1>2 DEF IInv, Closed
    <3>5. PastTheCheck(x)' \subseteq inFlight'[x]
      BY <2>1, <2>2, <3>3, <3>4
    <3>6. QED
      BY <3>2, <3>5 DEF Closed
  <2>3. CASE x # e
    <3>1. attempts'[x] = attempts[x] /\ failed'[x] = failed[x] /\ inFlight'[x] = inFlight[x]
      BY <1>1, <1>3, <1>8, <2>3 DEF TypeOK
    <3>2. QED
      BY <1>1, <2>1, <3>1 DEF IInv, Counted, Closed, Blocked
  <2>4. QED
    BY <2>2, <2>3
<1>14. QED
  BY <1>1, <1>11, <1>12, <1>13, LimiterKept DEF IInv

LEMMA ClearKeeps ==
  ASSUME IInv, NEW a \in Attempts, ClearLoginFailures(a)
  PROVE  IInv'
<1> DEFINE e == Email[a]
<1>1. /\ stage[a] = "right" /\ stage' = [stage EXCEPT ![a] = "signed_in"]
      /\ attempts' = [attempts EXCEPT ![e] = NoRow]
      /\ failed' = [failed EXCEPT ![e] = << >>]
      /\ inFlight' = [inFlight EXCEPT ![e] = {}]
      /\ UNCHANGED <<now, limiter>>
  BY DEF ClearLoginFailures, Goto
<1>2. e \in Accounts
  BY DEF Accounts
<1>3. TypeOK
  BY DEF IInv
<1> HIDE DEF e
<1>4. NoRow \in [failures : Nat, first : Nat, blockedUntil : Int]
  BY DEF NoRow
<1>5. TypeOK'
  <2>1. attempts' \in [Accounts -> [failures : Nat, first : Nat, blockedUntil : Int]]
    BY <1>1, <1>2, <1>3, <1>4 DEF TypeOK
  <2>2. << >> \in Seq(Nat)
    OBVIOUS
  <2>3. failed' \in [Accounts -> Seq(Nat)]
    BY <1>1, <1>2, <1>3, <2>2 DEF TypeOK
  <2>4. inFlight' \in [Accounts -> SUBSET Attempts] /\ stage' \in [Attempts -> Stages]
    BY <1>1, <1>2, <1>3 DEF TypeOK, Stages
  <2>5. QED
    BY <1>1, <1>3, <2>1, <2>3, <2>4 DEF TypeOK, limiter
<1>6. ASSUME NEW x \in Attempts PROVE Asking(x)'
  BY <1>1, <1>3 DEF IInv, TypeOK, Asking, limiter
<1>7. ASSUME NEW x \in Accounts PROVE Counted(x)' /\ Closed(x)'
  <2>1. CASE x = e
    <3>1. attempts'[x] = NoRow /\ failed'[x] = << >> /\ now' = now /\ now \in Nat
      BY <1>1, <1>2, <1>3, <2>1 DEF TypeOK
    <3>2. QED
      BY <3>1 DEF Counted, Closed, Blocked, NoRow
  <2>2. CASE x # e
    <3>1. attempts'[x] = attempts[x] /\ failed'[x] = failed[x] /\ inFlight'[x] = inFlight[x]
      BY <1>1, <1>3, <2>2 DEF TypeOK
    <3>2. PastTheCheck(x)' \subseteq PastTheCheck(x)
      BY <1>1, <1>3 DEF PastTheCheck, TypeOK
    <3>3. QED
      BY <1>1, <3>1, <3>2 DEF IInv, Counted, Closed, Blocked
  <2>3. QED
    BY <2>1, <2>2
<1>8. QED
  BY <1>1, <1>5, <1>6, <1>7, LimiterKept DEF IInv

LEMMA InitInv == Init => IInv
<1> SUFFICES ASSUME Init PROVE IInv
  OBVIOUS
<1>1. TypeOK
  <2>1. << >> \in Seq(Nat)
    OBVIOUS
  <2>2. /\ NoBucket \in [tokens : Int, lastSeen : Int]
        /\ NoRow \in [failures : Nat, first : Nat, blockedUntil : Int]
        /\ Nothing \in [at : Nat, wait : Nat]
    BY DEF NoBucket, NoRow, Nothing
  <2>3. QED
    BY <2>1, <2>2 DEF Init, TypeOK, Stages
<1>2. ASSUME NEW a \in Attempts PROVE Asking(a)
  BY DEF Init, Asking
<1>3. ASSUME NEW e \in Accounts PROVE Counted(e) /\ Closed(e)
  BY DEF Init, Counted, Closed, Blocked, NoRow
<1>4. ASSUME NEW b \in Buckets PROVE Sound(PolicyOf(b), bucket[b], granted[b], told[b], now)
  <2>1. bucket[b] = NoBucket /\ granted[b] = 0
    BY DEF Init
  <2>2. ASSUME NEW t \in Nat PROVE 0 * PolicyOf(b).window <= t * PolicyOf(b).requests
    <3>1. PICK r \in Nat, w \in Nat : r = PolicyOf(b).requests /\ w = PolicyOf(b).window
      BY PolicyIsParsed
    <3>2. 0 * w <= t * r
      <4>1. 0 * r <= t * r
        BY Scale
      <4>2. QED
        BY <4>1
    <3>3. QED
      BY <3>1, <3>2
  <2>3. Balanced(PolicyOf(b), NoBucket, 0, now)
    BY <2>2 DEF Balanced
  <2>4. QED
    BY <2>1, <2>3 DEF Sound, Bounded, Answered
<1>5. QED
  BY <1>1, <1>2, <1>3, <1>4 DEF IInv

LEMMA StutterKeeps ==
  ASSUME IInv, UNCHANGED vars
  PROVE  IInv'
<1> USE DEF vars
<1>1. TypeOK'
  BY DEF IInv, TypeOK
<1>2. ASSUME NEW a \in Attempts PROVE Asking(a)'
  BY DEF IInv, Asking
<1>3. ASSUME NEW e \in Accounts PROVE Counted(e)' /\ Closed(e)'
  BY DEF IInv, Counted, Closed, Blocked, PastTheCheck
<1>4. \A b \in Buckets : Sound(PolicyOf(b), bucket'[b], granted'[b], told'[b], now')
  BY DEF IInv
<1>5. QED
  BY <1>1, <1>2, <1>3, <1>4 DEF IInv

LEMMA StepKeeps == IInv /\ [Next]_vars => IInv'
<1> SUFFICES ASSUME IInv, [Next]_vars PROVE IInv'
  OBVIOUS
<1>1. ASSUME NEW a \in Attempts,
             \/ ReadClock(a) \/ Allow(a)
             \/ Login(a) \/ RegisterFailedLogin(a) \/ ClearLoginFailures(a) \/ LoginFails(a)
      PROVE  IInv'
  BY <1>1, ReadClockKeeps, AllowKeeps, LookKeeps, RegisterKeeps, ClearKeeps
<1>2. QED
  BY <1>1, TickKeeps, StutterKeeps DEF Next
-----------------------------------------------------------------------------
(* The invariant that the theorems below follow from. *)
THEOREM Invariant == Spec => []IInv
<1>1. QED
  BY InitInv, StepKeeps, PTL DEF Spec

(* Allow: whatever buckets are dropped, by whatever policy, and in         *)
(* whatever order requests come to the mutex, an address gets its burst    *)
(* and what the time refilled.                                             *)
THEOREM AllowancesHold == Spec => []AllowanceIsBounded
<1>1. IInv => AllowanceIsBounded
  <2> SUFFICES ASSUME IInv, NEW b \in Buckets, IdleIsFull(PolicyOf(b))
               PROVE  granted[b] * PolicyOf(b).window
                        <= Capacity(PolicyOf(b)) + now * PolicyOf(b).requests
    BY DEF AllowanceIsBounded, PolicyOf
  <2> DEFINE p == PolicyOf(b)
  <2>1. PICK r \in Nat, w \in Nat, c \in Nat, n \in Nat, g \in Nat :
          r = p.requests /\ w = p.window /\ c = Capacity(p) /\ n = now /\ g = granted[b]
    BY PolicyIsParsed DEF IInv, TypeOK
  <2>2. bucket[b].tokens \in Int /\ bucket[b].lastSeen \in Int
    BY DEF IInv, TypeOK
  <2>3. Bounded(p, bucket[b], now) /\ Balanced(p, bucket[b], granted[b], now)
    BY DEF IInv, Sound
  <2> HIDE DEF p
  <2>4. g * w <= c + n * r
    <3>1. CASE bucket[b] = NoBucket
      <4>1. Delay \in Nat /\ now <= n + Delay
        BY <2>1
      <4>2. g * w <= n * r
        BY <2>1, <2>3, <3>1, <4>1 DEF Balanced, p
      <4>3. g * w \in Int /\ n * r \in Int
        OBVIOUS
      <4>4. QED
        BY <4>2, <4>3
    <3>2. CASE bucket[b] # NoBucket
      <4>1. PICK y \in Int, seen \in Int : y = bucket[b].tokens /\ seen = bucket[b].lastSeen
        BY <2>2
      <4>2. g * w + y <= c + seen * r /\ 0 <= y + (n - seen) * r
        BY <2>1, <2>3, <3>2, <4>1 DEF Bounded, Balanced, p
      <4>3. (n - seen) * r = n * r - seen * r
        BY Spread
      <4> DEFINE a1 == g * w
                 a2 == seen * r
                 a3 == n * r
      <4>4. a1 \in Int /\ a2 \in Int /\ a3 \in Int
        OBVIOUS
      <4> HIDE DEF a1, a2, a3
      <4>5. a1 + y <= c + a2 /\ 0 <= y + (a3 - a2)
        BY <4>2, <4>3 DEF a1, a2, a3
      <4>6. a1 <= c + a3
        BY <4>4, <4>5
      <4>7. QED
        BY <4>6 DEF a1, a3
    <3>3. QED
      BY <3>1, <3>2
  <2>5. QED
    BY <2>1, <2>4 DEF p
<1>2. QED
  BY <1>1, Invariant, PTL

(* RegisterFailedLogin: the window starts the count again, and yet no      *)
(* account is locked with fewer failures than the policy says.             *)
THEOREM LockoutsAreEarned == Spec => []LockoutIsEarned
<1>1. IInv => LockoutIsEarned
  BY DEF IInv, TypeOK, Counted, LockoutIsEarned, Blocked
<1>2. QED
  BY <1>1, Invariant, PTL

(* Login: for any number of attempts at once, a lockout is touched only by *)
(* those that had passed the check when it began.                          *)
THEOREM LockoutsHold == Spec => OnlyThoseInFlightTouchALockout
<1>1. ASSUME IInv, [Next]_vars, NEW e \in Accounts, Blocked(e), attempts'[e] # attempts[e]
      PROVE  \E a \in inFlight[e] : stage'[a] # stage[a]
  <2>1. PICK a \in Attempts : RegisterFailedLogin(a) \/ ClearLoginFailures(a)
    BY <1>1 DEF Next, Tick, ReadClock, Allow, Login, LoginFails, vars, lockout
  <2>2. attempts \in [Accounts -> [failures : Nat, first : Nat, blockedUntil : Int]]
        /\ stage \in [Attempts -> Stages]
    BY <1>1 DEF IInv, TypeOK
  <2>3. e = Email[a]
    BY <1>1, <2>1, <2>2 DEF RegisterFailedLogin, ClearLoginFailures
  <2>4. stage[a] \in {"wrong", "right"} /\ stage'[a] \in {"refused", "signed_in"}
    BY <2>1, <2>2 DEF RegisterFailedLogin, ClearLoginFailures, Goto
  <2>5. a \in PastTheCheck(e)
    BY <2>3, <2>4 DEF PastTheCheck
  <2>6. PastTheCheck(e) \subseteq inFlight[e]
    BY <1>1 DEF IInv, Closed
  <2>7. QED
    BY <2>4, <2>5, <2>6
<1>2. IInv /\ [Next]_vars =>
        [\A e \in Accounts : Blocked(e) /\ attempts'[e] # attempts[e] =>
           \E a \in inFlight[e] : stage'[a] # stage[a]]_vars
  BY <1>1
<1>3. QED
  BY <1>2, Invariant, PTL DEF Spec, OnlyThoseInFlightTouchALockout

(* Allow: what Retry-After says is enough, a second for its rounding added. *)
THEOREM WaitingSuffices == Spec => WaitingIsEnough
<1>1. ASSUME IInv, [Next]_vars, NEW a \in Attempts,
             stage[a] = "limited", stage'[a] = "throttled", told[Bucket(a)] # Nothing
      PROVE  clock[a] < told[Bucket(a)].at + (told[Bucket(a)].wait + 1) * TicksPerSecond
  <2> DEFINE b == Bucket(a)
             t == clock[a]
             p == PolicyOf(b)
             k == EvictStale(t, Policy(a).window)[b]
             found == Refill(p, k, t)
  <2>1. b \in Buckets /\ Policy(a) = p /\ t \in Nat
    BY <1>1, AskerIs
  <2>2. Allow(a)
    <3>1. stage' # stage /\ stage \in [Attempts -> Stages]
      BY <1>1 DEF IInv, TypeOK
    <3>2. PICK x \in Attempts : \/ ReadClock(x) \/ Allow(x) \/ Login(x)
                                \/ RegisterFailedLogin(x) \/ ClearLoginFailures(x) \/ LoginFails(x)
      BY <1>1, <3>1 DEF Next, Tick, vars
    <3>3. \E s \in Stages : stage' = [stage EXCEPT ![x] = s]
      BY <3>2 DEF ReadClock, Allow, Login, RegisterFailedLogin, ClearLoginFailures, LoginFails, Goto, Stages
    <3>4. x = a
      BY <1>1, <3>1, <3>3
    <3>5. QED
      BY <1>1, <3>2, <3>4 DEF ReadClock, Login, RegisterFailedLogin, ClearLoginFailures, LoginFails
  <2>3. found.tokens < p.window
    <3>1. stage \in [Attempts -> Stages]
      BY <1>1 DEF IInv, TypeOK
    <3>2. stage' = [stage EXCEPT ![a] = IF passed[a] + 1 = Len(Policies) THEN "admitted" ELSE "idle"]
            => stage'[a] # "throttled"
      BY <3>1
    <3>3. \/ found.tokens < p.window
          \/ stage' = [stage EXCEPT ![a] = IF passed[a] + 1 = Len(Policies) THEN "admitted" ELSE "idle"]
      BY <2>1, <2>2 DEF Allow, Goto
    <3>4. QED
      BY <1>1, <3>2, <3>3
  <2>4. /\ k \in [tokens : Int, lastSeen : Int]
        /\ Sound(p, k, granted[b], told[b], now)
    BY <1>1, <2>1, KeptIsSound
  <2> HIDE DEF k
  <2>5. PICK r \in Nat \ {0}, w \in Nat, c \in Nat, s \in Nat \ {0} :
          r = p.requests /\ w = p.window /\ c = Capacity(p) /\ s = TicksPerSecond /\ w <= c
    BY <2>1, PolicyIsParsed
  <2>6. k # NoBucket
    <3> SUFFICES ASSUME k = NoBucket PROVE FALSE
      OBVIOUS
    <3>1. found.tokens = Capacity(p)
      BY DEF Refill
    <3>2. QED
      BY <2>3, <2>5, <3>1
  <2>7. PICK y \in Int, seen \in Int : y = k.tokens /\ seen = k.lastSeen
    BY <2>4
  <2>8. seen = told[b].at /\ told[b].wait = RetryAfter(p, y)
    BY <1>1, <2>4, <2>6, <2>7 DEF Sound, Answered
  <2>9. PICK wait \in Nat : wait = told[b].wait /\ (w - y) \div (r * s) <= wait
    BY <2>1, <2>5, <2>8, RetryIsLater
  <2>10. Min({y + (t - seen) * r, c}) < w
    <3>1. found.tokens = Min({y + (t - seen) * r, c})
      BY <2>5, <2>6, <2>7 DEF Refill
    <3>2. QED
      BY <2>3, <2>5, <3>1
  <2> HIDE DEF found, p, b
  <2>11. y + (t - seen) * r < w
    <3>1. PICK full \in Int : full = y + (t - seen) * r
      BY <2>1
    <3>2. c \in Int /\ Min({full, c}) < w
      BY <2>10, <3>1
    <3>3. full < w
      BY <2>5, <3>2, MinOfTwo
    <3>4. QED
      BY <3>1, <3>3
  <2>12. ~ ((wait + 1) * s <= t - seen)
    <3> SUFFICES ASSUME (wait + 1) * s <= t - seen PROVE FALSE
      OBVIOUS
    <3>1. t \in Int
      BY <2>1
    <3> HIDE DEF t
    <3>2. w <= y + (t - seen) * r
      BY <2>9, <3>1, WaitSuffices
    <3>3. QED
      BY <2>11, <3>1, <3>2
  <2>13. t < seen + (wait + 1) * s
    <3>1. t \in Int /\ (wait + 1) * s \in Int
      BY <2>1
    <3>2. QED
      BY <2>12, <3>1
  <2>14. QED
    BY <2>5, <2>8, <2>9, <2>13 DEF b
<1>2. IInv /\ [Next]_vars =>
        [\A a \in Attempts :
           LET was == told[Bucket(a)]
           IN stage[a] = "limited" /\ stage'[a] = "throttled" /\ was # Nothing =>
                clock[a] < was.at + (was.wait + 1) * TicksPerSecond]_vars
  BY <1>1
<1>3. QED
  BY <1>2, Invariant, PTL DEF Spec, WaitingIsEnough
=============================================================================
