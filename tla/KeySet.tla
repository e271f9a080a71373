------------------------------- MODULE KeySet -------------------------------
(***************************************************************************)
(* How a service verifies access tokens: it keeps the key set it read from *)
(* a replica of the identity service and reads it again for a key it does  *)
(* not know, but not if it was read moments ago.  Requests read the set    *)
(* under a lock, decide and fetch without one, and store what they got     *)
(* under it.  Each identity process answers the one key it signs with.     *)
(***************************************************************************)
EXTENDS Deployment

CONSTANTS
  Callers,      \* requests a service handles at once
  Cooldown,     \* jwksRefetchCooldown, in ticks
  FetchTimeout  \* timeout of the client that reads the key set, in ticks

ASSUME KeySetAssumption == Cooldown \in Nat \ {0} /\ FetchTimeout \in Nat

VARIABLES
  keys,     \* v.keys
  age,      \* the time since v.fetchedAt; Cooldown stands for that and more
  state,    \* where each request is
  kid,      \* the key its token was signed with
  recent,   \* recentlyAsked, as it was read
  got,      \* the key set on its way to it
  waited,   \* for how long it has been fetching
  settled   \* history: for how long the keys of the serving replicas have been the same

verifier == <<keys, age, state, kid, recent, got, waited>>
keyset == <<deployment, verifier, settled>>

Published == {key[r] : r \in Serving}
AtMost(bound, n) == IF n > bound THEN bound ELSE n
Horizon == Cooldown + FetchTimeout

KeySetInit ==
  /\ DeploymentInit
  /\ keys = {}
  /\ age = Cooldown
  /\ state = [c \in Callers |-> "idle"]
  /\ kid = [c \in Callers |-> 0]
  /\ recent = [c \in Callers |-> FALSE]
  /\ got = [c \in Callers |-> {}]
  /\ waited = [c \in Callers |-> 0]
  /\ settled = 0

Becomes(c, s) == state' = [state EXCEPT ![c] = s]
-----------------------------------------------------------------------------
(* A token arrives, signed by an identity process or made up, and the set  *)
(* is read under the lock.                                                 *)
Present(c, k) ==
  /\ state[c] = "idle"
  /\ kid' = [kid EXCEPT ![c] = k]
  /\ recent' = [recent EXCEPT ![c] = age < Cooldown]
  /\ Becomes(c, IF k \in keys THEN "accepted" ELSE "missed")
  /\ UNCHANGED <<keys, age, got, waited>>

(* Mutant: an unknown key never makes a service ask again. *)
TrustedForever(c) == keys # {}

(* Asked recently, and the set, read without the lock, has keys. *)
Trusted(c) == recent[c] /\ keys # {}

Refuse(c) ==
  /\ state[c] = "missed"
  /\ Trusted(c)
  /\ Becomes(c, "unknown")
  /\ UNCHANGED <<keys, age, kid, recent, got, waited>>

(* One of the serving replicas takes the request, and answers its key. *)
Fetch(c) ==
  /\ state[c] = "missed"
  /\ ~ Trusted(c)
  /\ \E r \in Serving : got' = [got EXCEPT ![c] = {key[r]}]
  /\ waited' = [waited EXCEPT ![c] = 0]
  /\ Becomes(c, "fetching")
  /\ UNCHANGED <<keys, age, kid, recent>>

(* Mutant: a failure counts as having asked. *)
FailCounted(c) ==
  /\ \/ state[c] = "missed" /\ ~ Trusted(c)
     \/ state[c] = "fetching"
  /\ Becomes(c, "unreachable")
  /\ got' = [got EXCEPT ![c] = {}]
  /\ waited' = [waited EXCEPT ![c] = 0]
  /\ age' = 0
  /\ UNCHANGED <<keys, kid, recent>>

(* None takes it, or the answer does not come. *)
FetchFails(c) ==
  /\ \/ state[c] = "missed" /\ ~ Trusted(c)
     \/ state[c] = "fetching"
  /\ Becomes(c, "unreachable")
  /\ got' = [got EXCEPT ![c] = {}]
  /\ waited' = [waited EXCEPT ![c] = 0]
  /\ UNCHANGED <<keys, age, kid, recent>>

(* The answer replaces the set, whichever answer was stored before it. *)
Store(c) ==
  /\ state[c] = "fetching"
  /\ keys' = got[c]
  /\ age' = 0
  /\ got' = [got EXCEPT ![c] = {}]
  /\ waited' = [waited EXCEPT ![c] = 0]
  /\ Becomes(c, "stored")
  /\ UNCHANGED <<kid, recent>>

(* The set is read again under the lock. *)
LookAgain(c) ==
  /\ state[c] = "stored"
  /\ Becomes(c, IF kid[c] \in keys THEN "accepted" ELSE "unknown")
  /\ UNCHANGED <<keys, age, kid, recent, got, waited>>

Busy(c) == state[c] \in {"missed", "stored"}
Fetching(c) == state[c] = "fetching"

(* Time passes while nobody but the network has anything to do.  A request *)
(* that has its answer makes room for the next.                            *)
Tick ==
  /\ \A c \in Callers : ~ Busy(c) /\ (Fetching(c) => waited[c] < FetchTimeout)
  /\ age' = AtMost(Cooldown, age + 1)
  /\ waited' = [c \in Callers |-> IF Fetching(c) THEN waited[c] + 1 ELSE 0]
  /\ settled' = AtMost(Horizon, settled + 1)
  /\ state' = [c \in Callers |-> IF Fetching(c) THEN state[c] ELSE "idle"]
  /\ kid' = [c \in Callers |-> IF Fetching(c) THEN kid[c] ELSE 0]
  /\ recent' = [c \in Callers |-> Fetching(c) /\ recent[c]]
  /\ UNCHANGED <<deployment, keys, got>>

(* A key that no process has generated yet stands for one that is made up. *)
Tokens == 1 .. MaxStarts

Verify(c) == Refuse(c) \/ Fetch(c) \/ FetchFails(c) \/ Store(c) \/ LookAgain(c)

KeySetNext ==
  \/ /\ DeploymentNext
     /\ settled' = IF Published' = Published THEN settled ELSE 0
     /\ UNCHANGED verifier
  \/ /\ \E c \in Callers : Verify(c) \/ \E k \in Tokens : Present(c, k)
     /\ UNCHANGED <<deployment, settled>>
  \/ Tick

Answered(c) == Fetch(c) /\ UNCHANGED <<deployment, settled>>
Stored(c) == Store(c) /\ UNCHANGED <<deployment, settled>>

(* Time passes, what a request does by itself is done, and of the fetches  *)
(* that are tried over and over some are answered.                         *)
KeySetFairness ==
  /\ WF_keyset(Tick)
  /\ \A c \in Callers : /\ WF_keyset(Verify(c) /\ UNCHANGED <<deployment, settled>>)
                        /\ SF_keyset(Answered(c)) /\ SF_keyset(Stored(c))

KeySetSpec == KeySetInit /\ [][KeySetNext]_keyset /\ KeySetFairness
-----------------------------------------------------------------------------
IsRefused(c) == state[c] # "unknown" /\ state'[c] = "unknown"

(* A token is refused as signed with an unknown key only while a set read  *)
(* from before the last change of keys may still be trusted: once the      *)
(* serving replicas have all had its key for a cooldown and the time an    *)
(* answer may be under way, it is not, although answers are stored in any  *)
(* order and a decision uses what was read before the lock was left.       *)
RefusedOnlyWhenStale ==
  [][\A c \in Callers : IsRefused(c) /\ Published = {kid[c]} => settled < Horizon]_keyset

(* When the serving replicas keep one key, a service that goes on missing  *)
(* it comes to know it for good.                                           *)
RotationIsHonoured ==
  \A k \in Tokens :
    <>[](Published = {k}) /\ []<>(\E c \in Callers : state[c] = "missed" /\ kid[c] = k)
      => <>[](k \in keys)
=============================================================================
