------------------------------ MODULE Admission ------------------------------
(***************************************************************************)
(* How the identity service admits a sign in: the token buckets of one     *)
(* process, one per policy and address, and the lockout that counts the    *)
(* failures of an account in the database.                                 *)
(*                                                                         *)
(* A request passes the policies of its route one after the other, and     *)
(* reads the clock before it takes the mutex of the buckets, so a bucket   *)
(* may be asked with an older time than it was last seen at.  The check of *)
(* the lockout, the count of the failure and the clearing of the count are *)
(* separate statements, between which other requests for the same account  *)
(* take theirs.                                                            *)
(*                                                                         *)
(* Time is a number of ticks.  A bucket counts in units: one request costs *)
(* as many units as a window has ticks and a tick brings as many of them   *)
(* as requests are allowed per window, which keeps the fractions of a      *)
(* token exact.                                                            *)
(***************************************************************************)
EXTENDS Integers, Sequences, FiniteSetsExt

CONSTANTS
  Attempts,        \* requests to sign in
  Address,         \* where each comes from
  Email,           \* the account each is for
  RightPassword,   \* the attempts that carry the password of an account
  Policies,        \* the policies of the route, the outermost first
  TicksPerSecond,
  Delay,           \* how long a request that read the clock may wait for the mutex
  MaxFailures,     \* LOGIN_MAX_FAILURES
  FailureWindow,   \* loginFailureWindow
  Lockout,         \* LOGIN_LOCKOUT
  MaxTime          \* bound: length of the run

Addresses == {Address[a] : a \in Attempts}
Accounts == {Email[a] : a \in Attempts}
Buckets == (1 .. Len(Policies)) \X Addresses

(* What a configured policy may be: so many requests per window, and so    *)
(* many back to back.                                                      *)
ParsePolicy == [requests : Nat \ {0}, window : Nat \ {0}, burst : Nat \ {0}]

ASSUME AdmissionAssumption ==
  /\ RightPassword \subseteq Attempts
  /\ Policies \in Seq(ParsePolicy) /\ Len(Policies) > 0
  /\ {TicksPerSecond, MaxFailures, Lockout} \subseteq Nat \ {0}
  /\ {Delay, FailureWindow, MaxTime} \subseteq Nat

VARIABLES
  now,
  bucket,    \* the buckets in memory
  attempts,  \* login_attempts
  stage,     \* where each attempt is
  passed,    \* how many policies let it through
  clock,     \* the time an attempt at the mutex has read
  \* history
  granted,   \* requests each bucket allowed
  told,      \* the last Retry-After of each bucket, until it allows one again
  failed,    \* when failures were counted, since the last success
  inFlight   \* attempts past the check when the present lockout began

vars == <<now, bucket, attempts, stage, passed, clock, granted, told, failed, inFlight>>
limiter == <<bucket, passed, clock, granted, told>>
lockout == <<attempts, failed, inFlight>>

NoBucket == [tokens |-> 0, lastSeen |-> -1]
NoRow == [failures |-> 0, first |-> 0, blockedUntil |-> -1]
Nothing == [at |-> 0, wait |-> 0]

Init ==
  /\ now = 0
  /\ bucket = [b \in Buckets |-> NoBucket]
  /\ attempts = [e \in Accounts |-> NoRow]
  /\ stage = [a \in Attempts |-> "idle"]
  /\ passed = [a \in Attempts |-> 0]
  /\ clock = [a \in Attempts |-> 0]
  /\ granted = [b \in Buckets |-> 0]
  /\ told = [b \in Buckets |-> Nothing]
  /\ failed = [e \in Accounts |-> << >>]
  /\ inFlight = [e \in Accounts |-> {}]

Goto(a, s) == stage' = [stage EXCEPT ![a] = s]
-----------------------------------------------------------------------------
(* The token bucket. *)

(* The policy an attempt comes to, and the bucket it is counted in. *)
Policy(a) == Policies[passed[a] + 1]
Bucket(a) == <<passed[a] + 1, Address[a]>>

(* The clock is read before the mutex is taken. *)
ReadClock(a) ==
  /\ stage[a] = "idle"
  /\ Goto(a, "limited")
  /\ clock' = [clock EXCEPT ![a] = now]
  /\ UNCHANGED <<now, bucket, passed, granted, told, lockout>>

Capacity(p) == p.burst * p.window

(* Mutant: idle for a moment is idle. *)
EvictTooSoon(t, window) ==
  [b \in Buckets |-> IF t > bucket[b].lastSeen THEN NoBucket ELSE bucket[b]]

(* The buckets left at time t: those idle for two windows are dropped, be  *)
(* they of this policy or of another one.                                  *)
EvictStale(t, window) ==
  [b \in Buckets |-> IF t - bucket[b].lastSeen > 2 * window THEN NoBucket ELSE bucket[b]]

(* A bucket as a request at time t finds it: full if there was none, and   *)
(* with less than before if t is before it was last seen.                  *)
Refill(p, b, t) ==
  IF b = NoBucket THEN [tokens |-> Capacity(p), lastSeen |-> t]
  ELSE [tokens |-> Min({b.tokens + (t - b.lastSeen) * p.requests, Capacity(p)}), lastSeen |-> t]

(* Mutant: a request that is refused costs a token too. *)
SpendAlways(p, tokens) == tokens - p.window

(* What is left in a bucket after a request. *)
Spend(p, tokens) == IF tokens >= p.window THEN tokens - p.window ELSE tokens

(* The Retry-After header in seconds: at least one, the rest cut off. *)
RetryAfter(p, tokens) == Max({(p.window - tokens) \div (p.requests * TicksPerSecond), 1})

(* An attempt that every policy let through comes to the handler. *)
Allow(a) ==
  /\ stage[a] = "limited"
  /\ LET b == Bucket(a)
         kept == EvictStale(clock[a], Policy(a).window)
         found == Refill(Policy(a), kept[b], clock[a])
     IN /\ bucket' = [kept EXCEPT ![b] = [found EXCEPT !.tokens = Spend(Policy(a), found.tokens)]]
        /\ \/ /\ found.tokens < Policy(a).window
              /\ told' = [told EXCEPT ![b] = [at |-> clock[a], wait |-> RetryAfter(Policy(a), found.tokens)]]
              /\ Goto(a, "throttled")
              /\ UNCHANGED <<passed, granted>>
           \/ /\ found.tokens >= Policy(a).window
              /\ told' = [told EXCEPT ![b] = Nothing]
              /\ granted' = [granted EXCEPT ![b] = @ + 1]
              /\ passed' = [passed EXCEPT ![a] = @ + 1]
              /\ Goto(a, IF passed[a] + 1 = Len(Policies) THEN "admitted" ELSE "idle")
  /\ clock' = [clock EXCEPT ![a] = 0]
  /\ UNCHANGED <<now, lockout>>
-----------------------------------------------------------------------------
(* The lockout. *)

Blocked(e) == attempts[e].blockedUntil >= now

(* Mutant: the right password opens a locked account. *)
LoginRightPasswordIsLetIn(a) ==
  /\ stage[a] = "admitted"
  /\ \/ Blocked(Email[a]) /\ a \notin RightPassword /\ Goto(a, "refused")
     \/ ~ Blocked(Email[a]) /\ a \notin RightPassword /\ Goto(a, "wrong")
     \/ a \in RightPassword /\ Goto(a, "right")
  /\ UNCHANGED <<now, limiter, lockout>>

(* The check and, if the account is not locked, the look at the password,  *)
(* which changes nothing.  A locked account is locked to everybody.        *)
Login(a) ==
  /\ stage[a] = "admitted"
  /\ \/ Blocked(Email[a]) /\ Goto(a, "refused")
     \/ ~ Blocked(Email[a]) /\ a \notin RightPassword /\ Goto(a, "wrong")
     \/ ~ Blocked(Email[a]) /\ a \in RightPassword /\ Goto(a, "right")
  /\ UNCHANGED <<now, limiter, lockout>>

PastTheCheck(e) == {a \in Attempts : Email[a] = e /\ stage[a] \in {"right", "wrong"}}

(* Mutant: one failure too few. *)
UpsertTooSoon(row) ==
  LET over == row # NoRow /\ row.first < now - FailureWindow
  IN [failures |-> IF over THEN 1 ELSE row.failures + 1,
      first |-> IF over \/ row = NoRow THEN now ELSE row.first,
      blockedUntil |-> IF row.failures + 2 >= MaxFailures THEN now + Lockout ELSE row.blockedUntil]

(* INSERT ... ON CONFLICT DO UPDATE: every expression reads the old row,   *)
(* so the end of a lockout is computed from a count the window has just    *)
(* started again.                                                          *)
Upsert(row) ==
  LET over == row # NoRow /\ row.first < now - FailureWindow
  IN [failures |-> IF over THEN 1 ELSE row.failures + 1,
      first |-> IF over \/ row = NoRow THEN now ELSE row.first,
      blockedUntil |-> IF row.failures + 1 >= MaxFailures THEN now + Lockout ELSE row.blockedUntil]

RegisterFailedLogin(a) ==
  /\ stage[a] = "wrong"
  /\ LET e == Email[a]
     IN /\ attempts' = [attempts EXCEPT ![e] = Upsert(@)]
        /\ failed' = [failed EXCEPT ![e] = Append(@, now)]
        /\ inFlight' = [inFlight EXCEPT ![e] = IF Blocked(e) THEN @ ELSE PastTheCheck(e)]
  /\ Goto(a, "refused")
  /\ UNCHANGED <<now, limiter>>

(* Then the session is started: see Sessions. *)
ClearLoginFailures(a) ==
  /\ stage[a] = "right"
  /\ LET e == Email[a]
     IN /\ attempts' = [attempts EXCEPT ![e] = NoRow]
        /\ failed' = [failed EXCEPT ![e] = << >>]
        /\ inFlight' = [inFlight EXCEPT ![e] = {}]
  /\ Goto(a, "signed_in")
  /\ UNCHANGED <<now, limiter>>

(* A statement fails: the answer is an error, and a failure that was not   *)
(* counted stays uncounted.                                                *)
LoginFails(a) ==
  /\ stage[a] \in {"admitted", "wrong", "right"}
  /\ Goto(a, "refused")
  /\ UNCHANGED <<now, limiter, lockout>>

Tick ==
  /\ now < MaxTime
  /\ \A a \in Attempts : stage[a] = "limited" => now < clock[a] + Delay
  /\ now' = now + 1
  /\ UNCHANGED <<limiter, lockout, stage>>

Next ==
  \/ Tick
  \/ \E a \in Attempts :
       \/ ReadClock(a) \/ Allow(a)
       \/ Login(a) \/ RegisterFailedLogin(a) \/ ClearLoginFailures(a) \/ LoginFails(a)

Spec == Init /\ [][Next]_vars
-----------------------------------------------------------------------------
(* Two windows of idleness, the shortest window of the route, fill a       *)
(* bucket of the policy, even if clocks differ by what waiting for the     *)
(* mutex takes.  Nothing keeps a configuration from having another one.    *)
IdleIsFull(p) ==
  \A q \in DOMAIN Policies : Capacity(p) <= (2 * Policies[q].window - 2 * Delay) * p.requests

(* Allowances hold over any run: an address never gets more than the burst *)
(* and what the time that passed refills, whatever is evicted, by whatever *)
(* policy, and however old the time is that a request asks with.           *)
AllowanceIsBounded ==
  \A b \in Buckets :
    LET p == Policies[b[1]]
    IN IdleIsFull(p) => granted[b] * p.window <= Capacity(p) + now * p.requests

(* A refused caller who waits as told, and a second more for the part of a *)
(* second the header cuts off, is let through unless somebody else at the  *)
(* same address was.                                                       *)
WaitingIsEnough ==
  [][\A a \in Attempts :
       LET was == told[Bucket(a)]
       IN stage[a] = "limited" /\ stage'[a] = "throttled" /\ was # Nothing =>
            clock[a] < was.at + (was.wait + 1) * TicksPerSecond]_vars

(* An account is locked only after as many wrong passwords as the policy   *)
(* tolerates since somebody last signed in to it.                          *)
LockoutIsEarned == \A e \in Accounts : Blocked(e) => Len(failed[e]) >= MaxFailures

(* While an account is locked its row is touched by nobody but attempts    *)
(* that had passed the check when the lockout began: those are all the     *)
(* passwords that can be tried beyond the limit, and the only ones that    *)
(* can lift it.                                                            *)
OnlyThoseInFlightTouchALockout ==
  [][\A e \in Accounts : Blocked(e) /\ attempts'[e] # attempts[e] =>
       \E a \in inFlight[e] : stage'[a] # stage[a]]_vars

=============================================================================
