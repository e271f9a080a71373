----------------------------- MODULE Deployment -----------------------------
(***************************************************************************)
(* Replicas of one service started over one database, as in a rolling      *)
(* deploy: each brings the schema to the version it was built with before  *)
(* it serves.  A process may end at any step, by a crash, a failed         *)
(* statement or a signal, and its session ends with it: the transaction it *)
(* was in is rolled back and the advisory lock it held is freed.           *)
(***************************************************************************)
EXTENDS Naturals

CONSTANTS
  Replicas,
  Versions,    \* how many migrations each was built with
  Configured,  \* whether a signing key is configured
  MaxStarts    \* bound: processes started

ASSUME DeploymentAssumption ==
  /\ Versions \in [Replicas -> Nat]
  /\ Configured \in BOOLEAN
  /\ MaxStarts \in Nat

Migrations == UNION {1 .. Versions[r] : r \in Replicas}

VARIABLES
  phase,        \* where the process of each replica is
  tableExists,  \* schema_migrations
  recorded,     \* its rows
  ran,          \* how often the SQL of each migration was committed
  lock,         \* who holds migrationLockID
  applied,      \* what each process knows to be applied
  key,          \* the signing key of each process
  starts

deployment == <<phase, tableExists, recorded, ran, lock, applied, key, starts>>

DeploymentInit ==
  /\ phase = [r \in Replicas |-> "down"]
  /\ tableExists = FALSE
  /\ recorded = {}
  /\ ran = [m \in Migrations |-> 0]
  /\ lock = {}
  /\ applied = [r \in Replicas |-> {}]
  /\ key = [r \in Replicas |-> 0]
  /\ starts = 0

Enter(r, p) == phase' = [phase EXCEPT ![r] = p]
Serving == {r \in Replicas : phase[r] = "serving"}
-----------------------------------------------------------------------------
(* A key that is not configured is generated, for as long as the process   *)
(* lives.                                                                  *)
Start(r) ==
  /\ phase[r] = "down"
  /\ starts < MaxStarts
  /\ starts' = starts + 1
  /\ key' = [key EXCEPT ![r] = IF Configured THEN 1 ELSE starts + 1]
  /\ Enter(r, "connected")
  /\ UNCHANGED <<tableExists, recorded, ran, lock, applied>>

(* CREATE TABLE IF NOT EXISTS comes before the lock: the statement that    *)
(* found no table fails if another made it meanwhile.                      *)
FindTable(r) ==
  /\ phase[r] = "connected"
  /\ Enter(r, IF tableExists THEN "waiting" ELSE "creating")
  /\ UNCHANGED <<tableExists, recorded, ran, lock, applied, key, starts>>

CreateTable(r) ==
  /\ phase[r] = "creating"
  /\ Enter(r, IF tableExists THEN "down" ELSE "waiting")
  /\ tableExists' = TRUE
  /\ UNCHANGED <<recorded, ran, lock, applied, key, starts>>

Lock(r) ==
  /\ phase[r] = "waiting"
  /\ lock = {}
  /\ lock' = {r}
  /\ Enter(r, "locked")
  /\ UNCHANGED <<tableExists, recorded, ran, applied, key, starts>>

(* Mutant: what was applied is read before the lock is waited for. *)
ReadAppliedEarly(r) ==
  /\ \/ /\ phase[r] = "locked"
        /\ Enter(r, "migrating")
        /\ UNCHANGED applied
     \/ /\ phase[r] = "waiting"
        /\ applied' = [applied EXCEPT ![r] = recorded]
        /\ UNCHANGED phase
  /\ UNCHANGED <<tableExists, recorded, ran, lock, key, starts>>

ReadApplied(r) ==
  /\ phase[r] = "locked"
  /\ applied' = [applied EXCEPT ![r] = recorded]
  /\ Enter(r, "migrating")
  /\ UNCHANGED <<tableExists, recorded, ran, lock, key, starts>>

(* The first migration that was not applied, and the row that records it,  *)
(* in one transaction.                                                     *)
Apply(r, m) ==
  /\ phase[r] = "migrating"
  /\ m \in 1 .. Versions[r] /\ m \notin applied[r] /\ 1 .. m - 1 \subseteq applied[r]
  /\ m \notin recorded
  /\ ran' = [ran EXCEPT ![m] = @ + 1]
  /\ recorded' = recorded \union {m}
  /\ applied' = [applied EXCEPT ![r] = @ \union {m}]
  /\ UNCHANGED <<phase, tableExists, lock, key, starts>>

Unlock(r) ==
  /\ phase[r] = "migrating"
  /\ 1 .. Versions[r] \subseteq applied[r]
  /\ lock' = lock \ {r}
  /\ Enter(r, "serving")
  /\ UNCHANGED <<tableExists, recorded, ran, applied, key, starts>>

(* A signal while it serves: no new requests, those it has may end. *)
Shutdown(r) ==
  /\ phase[r] = "serving"
  /\ Enter(r, "draining")
  /\ UNCHANGED <<tableExists, recorded, ran, lock, applied, key, starts>>

(* The process ends, wherever it is. *)
Exit(r) ==
  /\ phase[r] # "down"
  /\ Enter(r, "down")
  /\ lock' = lock \ {r}
  /\ UNCHANGED <<tableExists, recorded, ran, applied, key, starts>>

DeploymentNext ==
  \E r \in Replicas :
    \/ Start(r) \/ FindTable(r) \/ CreateTable(r) \/ Lock(r) \/ ReadApplied(r)
    \/ \E m \in Migrations : Apply(r, m)
    \/ Unlock(r) \/ Shutdown(r) \/ Exit(r)
-----------------------------------------------------------------------------
Migrating(r) == phase[r] = "migrating"

(* However starts overlap and wherever they are cut off, each migration    *)
(* takes effect once and after those before it, a replica that migrates    *)
(* works from what is true of the schema, so that no start is spoilt by    *)
(* another one, and a replica that serves has the schema it was built for. *)
ServesOnlyMigrated ==
  /\ \A m \in Migrations : ran[m] = IF m \in recorded THEN 1 ELSE 0
  /\ \A m \in recorded : 1 .. m \subseteq recorded
  /\ \A r \in Replicas : Migrating(r) => applied[r] = recorded
  /\ \A r \in Serving : 1 .. Versions[r] \subseteq recorded
=============================================================================
