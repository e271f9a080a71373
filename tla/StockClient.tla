---------------------------- MODULE StockClient ----------------------------
(***************************************************************************)
(* Billing's client of the stock service: one circuit breaker shared by    *)
(* every request of the process, and bounded retries inside it.  The       *)
(* breaker's mutex makes allow and the recording of an outcome atomic; the *)
(* exchanges between them are not, so outcomes are recorded in any order   *)
(* and long after the circuit has changed.                                 *)
(***************************************************************************)
EXTENDS Integers, FiniteSets

CONSTANTS
  Clients,    \* requests of the billing service, each asking again and again
  Rejected,   \* those that ask for something the stock service refuses
  Threshold,  \* failureThreshold of the breaker
  Attempts,   \* attempts of the retry policy
  MaxOutages, \* bound: how often the stock service goes down
  MaxCancels  \* bound: requests whose context is cancelled while they wait

ASSUME ClientAssumption ==
  /\ Rejected \subseteq Clients
  /\ Threshold \in Nat \ {0} /\ Attempts \in Nat \ {0}
  /\ MaxOutages \in Nat /\ MaxCancels \in Nat

VARIABLES
  circuit,   \* state of the circuit
  cooled,    \* the cool down of an open circuit has elapsed
  failures,  \* failures counted by the breaker
  stage,     \* where each caller is in Lookup
  attempt,   \* attempts of Retry made
  outcome,   \* what Retry returned to the breaker
  up,        \* the stock service answers
  streak,    \* outcomes other than success recorded since the last success
  outages, cancels

breaker == <<circuit, cooled, failures, streak>>
callers == <<stage, attempt, outcome>>
environment == <<up, outages, cancels>>
client == <<breaker, callers, environment>>

ClientInit ==
  /\ circuit = "closed" /\ cooled = FALSE /\ failures = 0 /\ streak = 0
  /\ stage = [c \in Clients |-> "idle"]
  /\ attempt = [c \in Clients |-> 0]
  /\ outcome = [c \in Clients |-> "none"]
  /\ up = TRUE /\ outages = 0 /\ cancels = 0

(* allow refuses while an open circuit cools down.  The first caller after *)
(* that makes it half open, and a half open circuit refuses nobody.        *)
Allow(c) ==
  /\ stage[c] = "idle"
  /\ circuit = "open" => cooled
  /\ circuit' = IF circuit = "open" THEN "half_open" ELSE circuit
  /\ stage' = [stage EXCEPT ![c] = "calling"]
  /\ attempt' = [attempt EXCEPT ![c] = 1]
  /\ UNCHANGED <<cooled, failures, streak, outcome, environment>>

Return(c, o) ==
  /\ outcome' = [outcome EXCEPT ![c] = o]
  /\ stage' = [stage EXCEPT ![c] = "returned"]
  /\ UNCHANGED attempt

(* One attempt: an answer, a rejection, which is never retried, or no      *)
(* answer, which is retried until the attempts run out.                    *)
Exchange(c) ==
  /\ stage[c] = "calling"
  /\ \/ up /\ Return(c, IF c \in Rejected THEN "rejected" ELSE "ok")
     \/ ~ up /\ attempt[c] = Attempts /\ Return(c, "failed")
     \/ /\ ~ up /\ attempt[c] < Attempts
        /\ attempt' = [attempt EXCEPT ![c] = @ + 1]
        /\ UNCHANGED <<stage, outcome>>
  /\ UNCHANGED <<breaker, environment>>

(* The caller's context ends during an attempt or the pause after it.      *)
Cancel(c) ==
  /\ stage[c] = "calling"
  /\ cancels < MaxCancels
  /\ cancels' = cancels + 1
  /\ Return(c, "failed")
  /\ UNCHANGED <<breaker, up, outages>>

(* Mutants: a success does not reset the count; a probe that succeeds is   *)
(* not enough to close the circuit.                                        *)
RecordSuccessKeepsCount ==
  /\ streak' = 0
  /\ circuit' = IF circuit = "half_open" THEN "closed" ELSE circuit
  /\ UNCHANGED <<cooled, failures>>

RecordSuccessStaysHalfOpen ==
  /\ failures' = 0 /\ streak' = 0
  /\ UNCHANGED <<circuit, cooled>>

(* A success clears the count, and closes a half open circuit whichever    *)
(* call it belongs to.                                                     *)
RecordSuccess ==
  /\ failures' = 0 /\ streak' = 0
  /\ circuit' = IF circuit = "half_open" THEN "closed" ELSE circuit
  /\ UNCHANGED cooled

(* A failure opens a half open circuit at once and a closed one at the     *)
(* threshold, and starts the cool down of an open one again.  The count is *)
(* kept at the threshold.                                                  *)
RecordFailure ==
  /\ failures' = IF circuit = "half_open" \/ failures + 1 > Threshold THEN Threshold
                 ELSE failures + 1
  /\ streak' = IF streak < Threshold THEN streak + 1 ELSE streak
  /\ IF circuit = "half_open" \/ failures + 1 >= Threshold
     THEN circuit' = "open" /\ cooled' = FALSE
     ELSE UNCHANGED <<circuit, cooled>>

(* Do asks whether the error is marked as permanent, but Retry has already *)
(* taken the mark off: a rejection is recorded as a failure.               *)
Do(c) ==
  /\ stage[c] = "returned"
  /\ IF outcome[c] = "ok" THEN RecordSuccess ELSE RecordFailure
  /\ stage' = [stage EXCEPT ![c] = "idle"]
  /\ outcome' = [outcome EXCEPT ![c] = "none"]
  /\ attempt' = [attempt EXCEPT ![c] = 0]
  /\ UNCHANGED environment

CooldownElapses ==
  /\ circuit = "open" /\ ~ cooled
  /\ cooled' = TRUE
  /\ UNCHANGED <<circuit, failures, streak, callers, environment>>

(* The stock service goes down, and comes back. *)
GoDown ==
  /\ up /\ outages < MaxOutages
  /\ up' = FALSE /\ outages' = outages + 1
  /\ UNCHANGED <<breaker, callers, cancels>>

ComeUp ==
  /\ ~ up
  /\ up' = TRUE
  /\ UNCHANGED <<breaker, callers, outages, cancels>>

Lookup(c) == Allow(c) \/ Exchange(c) \/ Do(c)

ClientNext ==
  \/ \E c \in Clients : Lookup(c) \/ Cancel(c)
  \/ CooldownElapses \/ GoDown \/ ComeUp

ClientSpec == ClientInit /\ [][ClientNext]_client

(* Requests run to their end and the screens behind them ask again; the    *)
(* clock moves; an outage ends.                                            *)
ClientFairSpec ==
  /\ ClientSpec
  /\ \A c \in Clients : SF_client(Allow(c)) /\ WF_client(Exchange(c) \/ Do(c))
  /\ WF_client(CooldownElapses) /\ WF_client(ComeUp)
-----------------------------------------------------------------------------
(* A closed circuit opens only after as many failures in a row as the      *)
(* threshold says, successes of other callers in between included.         *)
OpensAfterAStreak == circuit = "closed" /\ circuit' = "open" => streak' = Threshold
OpensAfterConsecutiveFailures == [][OpensAfterAStreak]_client

(* The circuit closes again once the stock service is back. *)
CircuitRecovers == circuit # "closed" ~> circuit = "closed"
=============================================================================
