---------------------------- MODULE RequestProofs ----------------------------
(***************************************************************************)
(* Theorems about what a request passes on its way: the verification of    *)
(* its token, its idempotency key, and the circuit breaker in front of the *)
(* stock service.  Each part is about a module of its own, for any values  *)
(* of its constants.                                                       *)
(***************************************************************************)
EXTENDS KeySet, Idempotency, StockClient, FiniteSetTheorems, TLAPS

(***************************************************************************)
(* The replicas that replace one another and a service that verifies the   *)
(* tokens they sign.                                                       *)
(***************************************************************************)

Phases == {"down", "connected", "creating", "waiting", "locked", "migrating", "serving", "draining"}
States == {"idle", "missed", "accepted", "unknown", "unreachable", "fetching", "stored"}

DeploymentTypeOK ==
  /\ phase \in [Replicas -> Phases]
  /\ tableExists \in BOOLEAN
  /\ recorded \in SUBSET Migrations
  /\ ran \in [Migrations -> Nat]
  /\ lock \in SUBSET Replicas
  /\ applied \in [Replicas -> SUBSET Migrations]
  /\ key \in [Replicas -> Nat]
  /\ starts \in Nat

VerifierTypeOK ==
  /\ keys \in SUBSET Nat
  /\ age \in 0 .. Cooldown
  /\ state \in [Callers -> States]
  /\ kid \in [Callers -> Nat]
  /\ recent \in [Callers -> BOOLEAN]
  /\ got \in [Callers -> SUBSET Nat]
  /\ waited \in [Callers -> Nat]
  /\ settled \in Nat

KeySetTypeOK == DeploymentTypeOK /\ VerifierTypeOK

Inside(r) == phase[r] \in {"locked", "migrating"}

(* The advisory lock keeps those between it and their last migration       *)
(* apart.                                                                  *)
LockExcludes ==
  /\ \A r \in Replicas : Inside(r) => r \in lock
  /\ \A r, s \in lock : r = s

MigrationInv == LockExcludes /\ ServesOnlyMigrated

(* A set that may still be trusted has keys, and the answers on their way  *)
(* have some.                                                              *)
SetsHaveKeys ==
  /\ age < Cooldown => keys # {}
  /\ \A c \in Callers : Fetching(c) => got[c] # {}
  /\ \A c \in Callers : state[c] = "missed" /\ recent[c] => keys # {}

(* How old what is not known can be: an answer from before the last change *)
(* of keys has been on its way since, and a set from before it was stored  *)
(* before such an answer had to arrive.                                    *)
AnswersAreYoung ==
  \A c \in Callers : Fetching(c) =>
    /\ waited[c] <= FetchTimeout
    /\ \A k \in Nat \ got[c] : Published = {k} => settled <= waited[c]

SetIsYoung ==
  \A k \in Nat \ keys : Published = {k} => age = Cooldown \/ settled <= age + FetchTimeout

RequestsAreYoung ==
  \A c \in Callers :
    /\ state[c] = "missed" /\ recent[c] /\ Published = {kid[c]} => settled < Horizon
    /\ state[c] = "stored" => age = 0

KeySetInv == KeySetTypeOK /\ MigrationInv /\ SetsHaveKeys /\ AnswersAreYoung /\ SetIsYoung /\ RequestsAreYoung
-----------------------------------------------------------------------------
(* The replicas. *)

USE DeploymentAssumption, KeySetAssumption

LEMMA MigrationsOf ==
  ASSUME NEW r \in Replicas
  PROVE  1 .. Versions[r] \subseteq Migrations
BY DEF Migrations

LEMMA MigrationsAreNumbers == Migrations \subseteq Nat \ {0}
BY DEF Migrations

LEMMA DeploymentInitInv == DeploymentInit => DeploymentTypeOK /\ MigrationInv
<1> SUFFICES ASSUME DeploymentInit PROVE DeploymentTypeOK /\ MigrationInv
  OBVIOUS
<1>1. DeploymentTypeOK
  BY DEF DeploymentInit, DeploymentTypeOK, Phases
<1>2. LockExcludes
  BY DEF DeploymentInit, LockExcludes, Inside
<1>3. ServesOnlyMigrated
  BY DEF DeploymentInit, ServesOnlyMigrated, Serving, Migrating
<1>4. QED
  BY <1>1, <1>2, <1>3 DEF MigrationInv

LEMMA DeploymentStep ==
  ASSUME DeploymentTypeOK, MigrationInv, DeploymentNext
  PROVE  DeploymentTypeOK' /\ MigrationInv'
<1> USE DEF MigrationInv
<1>1. PICK r \in Replicas :
        \/ Start(r) \/ FindTable(r) \/ CreateTable(r) \/ Lock(r) \/ ReadApplied(r)
        \/ \E m \in Migrations : Apply(r, m)
        \/ Unlock(r) \/ Shutdown(r) \/ Exit(r)
  BY DEF DeploymentNext
<1>2. CASE Start(r) \/ FindTable(r) \/ CreateTable(r) \/ Shutdown(r)
  <2>1. /\ \A q \in Replicas : phase'[q] # phase[q] => phase'[q] \in {"connected", "creating", "waiting", "down", "draining"}
        /\ phase' \in [Replicas -> Phases]
    BY <1>2 DEF Start, FindTable, CreateTable, Shutdown, Enter, DeploymentTypeOK, Phases
  <2>2. UNCHANGED <<recorded, ran, lock, applied>>
    BY <1>2 DEF Start, FindTable, CreateTable, Shutdown
  <2>3. tableExists' \in BOOLEAN /\ key' \in [Replicas -> Nat] /\ starts' \in Nat
    <3>1. CASE Start(r)
      <4> DEFINE generated == IF Configured THEN 1 ELSE starts + 1
      <4>1. generated \in Nat
        BY DEF DeploymentTypeOK
      <4>2. key' = [key EXCEPT ![r] = generated] /\ starts' = starts + 1 /\ UNCHANGED tableExists
        BY <3>1 DEF Start
      <4> HIDE DEF generated
      <4>3. QED
        BY <4>1, <4>2 DEF DeploymentTypeOK
    <3>2. CASE FindTable(r) \/ CreateTable(r) \/ Shutdown(r)
      BY <3>2 DEF FindTable, CreateTable, Shutdown, DeploymentTypeOK
    <3>3. QED
      BY <1>2, <3>1, <3>2
  <2>4. DeploymentTypeOK'
    BY <2>1, <2>2, <2>3 DEF DeploymentTypeOK
  <2>5. LockExcludes'
    BY <2>1, <2>2 DEF LockExcludes, Inside
  <2>6. ServesOnlyMigrated'
    BY <2>1, <2>2 DEF ServesOnlyMigrated, Serving, Migrating
  <2>7. QED
    BY <2>4, <2>5, <2>6
<1>3. CASE Lock(r)
  <2>1. DeploymentTypeOK'
    BY <1>3 DEF Lock, Enter, DeploymentTypeOK, Phases
  <2>2. LockExcludes'
    BY <1>3 DEF Lock, Enter, LockExcludes, Inside, DeploymentTypeOK
  <2>3. ServesOnlyMigrated'
    BY <1>3 DEF Lock, Enter, ServesOnlyMigrated, Serving, Migrating, DeploymentTypeOK
  <2>4. QED
    BY <2>1, <2>2, <2>3
<1>4. CASE ReadApplied(r)
  <2>1. DeploymentTypeOK'
    BY <1>4 DEF ReadApplied, Enter, DeploymentTypeOK, Phases
  <2>2. LockExcludes'
    BY <1>4 DEF ReadApplied, Enter, LockExcludes, Inside, DeploymentTypeOK
  <2>3. ServesOnlyMigrated'
    BY <1>4 DEF ReadApplied, Enter, ServesOnlyMigrated, Serving, Migrating, DeploymentTypeOK
  <2>4. QED
    BY <2>1, <2>2, <2>3
<1>5. ASSUME NEW m \in Migrations, Apply(r, m)
      PROVE  DeploymentTypeOK' /\ MigrationInv'
  <2>1. DeploymentTypeOK'
    BY <1>5 DEF Apply, DeploymentTypeOK
  <2>2. LockExcludes'
    BY <1>5 DEF Apply, LockExcludes, Inside
  <2>3. applied[r] = recorded /\ \A q \in Replicas \ {r} : ~ Migrating(q)
    BY <1>5 DEF Apply, ServesOnlyMigrated, Migrating, LockExcludes, Inside
  <2>4. \A n \in Migrations : ran'[n] = IF n \in recorded' THEN 1 ELSE 0
    BY <1>5 DEF Apply, ServesOnlyMigrated, DeploymentTypeOK
  <2>5. \A n \in recorded' : 1 .. n \subseteq recorded'
    <3> SUFFICES ASSUME NEW n \in recorded', NEW i \in 1 .. n
                 PROVE  i \in recorded'
      OBVIOUS
    <3>1. CASE n \in recorded
      BY <3>1, <1>5 DEF Apply, ServesOnlyMigrated
    <3>2. CASE n = m
      <4>1. m \in Nat
        BY MigrationsAreNumbers
      <4>2. i = m \/ i \in 1 .. m - 1
        BY <3>2, <4>1
      <4>3. QED
        BY <4>2, <1>5, <2>3 DEF Apply
    <3>3. QED
      BY <3>1, <3>2, <1>5 DEF Apply
  <2>6. \A q \in Replicas : Migrating(q)' => applied'[q] = recorded'
    BY <1>5, <2>3 DEF Apply, Migrating, DeploymentTypeOK
  <2>7. \A q \in Serving' : 1 .. Versions[q] \subseteq recorded'
    BY <1>5 DEF Apply, Serving, ServesOnlyMigrated
  <2>8. QED
    BY <2>1, <2>2, <2>4, <2>5, <2>6, <2>7 DEF ServesOnlyMigrated
<1>6. CASE Unlock(r)
  <2>1. DeploymentTypeOK'
    BY <1>6 DEF Unlock, Enter, DeploymentTypeOK, Phases
  <2>2. LockExcludes'
    BY <1>6 DEF Unlock, Enter, LockExcludes, Inside, DeploymentTypeOK
  <2>3. 1 .. Versions[r] \subseteq recorded
    BY <1>6 DEF Unlock, ServesOnlyMigrated, Migrating
  <2>4. \A q \in Serving' : q = r \/ q \in Serving
    BY <1>6 DEF Unlock, Enter, Serving, DeploymentTypeOK
  <2>5. \A q \in Replicas : Migrating(q)' => Migrating(q)
    BY <1>6 DEF Unlock, Enter, Migrating, DeploymentTypeOK
  <2>6. ServesOnlyMigrated'
    BY <1>6, <2>3, <2>4, <2>5 DEF Unlock, ServesOnlyMigrated
  <2>7. QED
    BY <2>1, <2>2, <2>6
<1>7. CASE Exit(r)
  <2>1. DeploymentTypeOK'
    BY <1>7 DEF Exit, Enter, DeploymentTypeOK, Phases
  <2>2. LockExcludes'
    BY <1>7 DEF Exit, Enter, LockExcludes, Inside, DeploymentTypeOK
  <2>3. ServesOnlyMigrated'
    BY <1>7 DEF Exit, Enter, ServesOnlyMigrated, Serving, Migrating, DeploymentTypeOK
  <2>4. QED
    BY <2>1, <2>2, <2>3
<1>8. QED
  BY <1>1, <1>2, <1>3, <1>4, <1>5, <1>6, <1>7
-----------------------------------------------------------------------------
(* The services that verify. *)

VerifierInv == VerifierTypeOK /\ SetsHaveKeys /\ AnswersAreYoung /\ SetIsYoung /\ RequestsAreYoung

LEMMA KeySetInitInv == KeySetInit => KeySetInv
<1> SUFFICES ASSUME KeySetInit PROVE KeySetInv
  OBVIOUS
<1>1. DeploymentTypeOK /\ MigrationInv
  BY DeploymentInitInv DEF KeySetInit
<1>2. VerifierTypeOK
  BY DEF KeySetInit, VerifierTypeOK, States
<1>3. SetsHaveKeys /\ AnswersAreYoung /\ SetIsYoung /\ RequestsAreYoung
  BY DEF KeySetInit, SetsHaveKeys, AnswersAreYoung, SetIsYoung, RequestsAreYoung, Fetching, Horizon
<1>4. QED
  BY <1>1, <1>2, <1>3 DEF KeySetInv, KeySetTypeOK

LEMMA HorizonIsPositive == Horizon \in Nat /\ Horizon > 0 /\ Horizon > FetchTimeout
BY DEF Horizon

(* A step of the replicas starts the clock of the published keys again     *)
(* when it changes them, and the verifier is left alone.                   *)
LEMMA RotationStep ==
  ASSUME VerifierInv, settled' = (IF Published' = Published THEN settled ELSE 0), UNCHANGED verifier
  PROVE  VerifierInv'
<1>1. VerifierTypeOK'
  BY DEF VerifierInv, VerifierTypeOK, verifier
<1>2. SetsHaveKeys'
  BY DEF VerifierInv, SetsHaveKeys, verifier, Fetching
<1>3. CASE Published' = Published
  <2>1. settled' = settled
    BY <1>3
  <2>2. QED
    BY <1>1, <1>2, <1>3, <2>1 DEF VerifierInv, AnswersAreYoung, SetIsYoung, RequestsAreYoung, verifier, Fetching
<1>4. CASE Published' # Published
  <2>1. settled' = 0
    BY <1>4
  <2>2. AnswersAreYoung'
    BY <2>1 DEF VerifierInv, VerifierTypeOK, AnswersAreYoung, verifier, Fetching
  <2>3. SetIsYoung'
    BY <2>1 DEF VerifierInv, VerifierTypeOK, SetIsYoung, verifier
  <2>4. RequestsAreYoung'
    BY <2>1, HorizonIsPositive DEF VerifierInv, VerifierTypeOK, RequestsAreYoung, verifier, Horizon
  <2>5. QED
    BY <1>1, <1>2, <2>2, <2>3, <2>4 DEF VerifierInv
<1>5. QED
  BY <1>3, <1>4

LEMMA TickStep ==
  ASSUME VerifierInv, Tick
  PROVE  VerifierInv'
<1>1. Published' = Published
  BY DEF Tick, Published, Serving, deployment
<1>2. /\ age' \in 0 .. Cooldown
      /\ age' = Cooldown \/ age' = age + 1
      /\ age' = Cooldown \/ age < Cooldown
      /\ settled' \in Nat /\ settled' <= settled + 1
  BY HorizonIsPositive DEF Tick, AtMost, VerifierInv, VerifierTypeOK
<1>3. \A c \in Callers : /\ Fetching(c)' <=> Fetching(c)
                         /\ state'[c] # "missed" /\ state'[c] # "stored"
  BY DEF Tick, Fetching, Busy
<1>4. VerifierTypeOK'
  <2>1. state' \in [Callers -> States]
    BY DEF Tick, VerifierInv, VerifierTypeOK, States
  <2>2. kid' \in [Callers -> Nat] /\ waited' \in [Callers -> Nat]
    BY DEF Tick, VerifierInv, VerifierTypeOK
  <2>3. recent' \in [Callers -> BOOLEAN]
    BY DEF Tick, VerifierInv, VerifierTypeOK
  <2>4. keys' \in SUBSET Nat /\ got' \in [Callers -> SUBSET Nat]
    BY DEF Tick, VerifierInv, VerifierTypeOK
  <2>5. QED
    BY <1>2, <2>1, <2>2, <2>3, <2>4 DEF VerifierTypeOK
<1>5. SetsHaveKeys'
  BY <1>2, <1>3 DEF Tick, VerifierInv, VerifierTypeOK, SetsHaveKeys
<1>6. AnswersAreYoung'
  <2> SUFFICES ASSUME NEW c \in Callers, Fetching(c)'
               PROVE  /\ waited'[c] <= FetchTimeout
                      /\ \A k \in Nat \ got'[c] : Published' = {k} => settled' <= waited'[c]
    BY DEF AnswersAreYoung
  <2>1. Fetching(c) /\ waited[c] < FetchTimeout /\ waited'[c] = waited[c] + 1 /\ got' = got
    BY <1>3 DEF Tick, Fetching
  <2>2. waited[c] \in Nat /\ settled \in Nat
    BY DEF VerifierInv, VerifierTypeOK
  <2>3. \A k \in Nat \ got[c] : Published = {k} => settled <= waited[c]
    BY <2>1 DEF VerifierInv, AnswersAreYoung
  <2>4. waited'[c] <= FetchTimeout
    BY <2>1, <2>2
  <2>5. QED
    BY <1>1, <1>2, <2>1, <2>2, <2>3, <2>4
<1>7. SetIsYoung'
  <2> SUFFICES ASSUME NEW k \in Nat \ keys', Published' = {k}, age' # Cooldown
               PROVE  settled' <= age' + FetchTimeout
    BY <1>2 DEF SetIsYoung
  <2>1. keys' = keys
    BY DEF Tick
  <2>2. age = Cooldown \/ settled <= age + FetchTimeout
    BY <1>1, <2>1 DEF VerifierInv, SetIsYoung
  <2>3. age \in Nat /\ age < Cooldown /\ age' = age + 1
    BY <1>2 DEF VerifierInv, VerifierTypeOK
  <2>4. settled \in Nat /\ settled <= age + FetchTimeout
    BY <2>2, <2>3 DEF VerifierInv, VerifierTypeOK
  <2>5. QED
    BY <1>2, <2>3, <2>4
<1>8. RequestsAreYoung'
  BY <1>3 DEF RequestsAreYoung
<1>9. QED
  BY <1>4, <1>5, <1>6, <1>7, <1>8 DEF VerifierInv
(* A request takes a step by itself, and no time passes. *)

Still == UNCHANGED <<deployment, settled>>

LEMMA StillPublished ==
  ASSUME Still
  PROVE  Published' = Published /\ settled' = settled
BY DEF Still, Published, Serving, deployment

(* The rest of a request's step: it is the only one to move. *)
OnlyMoves(c, to) ==
  /\ state' \in [Callers -> States]
  /\ state'[c] \in to
  /\ \A d \in Callers \ {c} : /\ state'[d] = state[d] /\ kid'[d] = kid[d] /\ recent'[d] = recent[d]
                              /\ got'[d] = got[d] /\ waited'[d] = waited[d]

LEMMA PresentStep ==
  ASSUME VerifierInv, Still, NEW c \in Callers, NEW k \in Tokens, Present(c, k)
  PROVE  VerifierInv'
<1>1. Published' = Published /\ settled' = settled
  BY StillPublished
<1>2. OnlyMoves(c, {"accepted", "missed"})
  BY DEF Present, Becomes, OnlyMoves, VerifierInv, VerifierTypeOK, States
<1> DEFINE asked == age < Cooldown
<1>3. /\ UNCHANGED <<keys, age, got, waited>> /\ kid'[c] = k
      /\ recent' \in [Callers -> BOOLEAN] /\ (recent'[c] => age < Cooldown)
  <2>1. asked \in BOOLEAN /\ recent' = [recent EXCEPT ![c] = asked]
    BY DEF Present
  <2>2. asked => age < Cooldown
    OBVIOUS
  <2> HIDE DEF asked
  <2>3. recent' \in [Callers -> BOOLEAN] /\ recent'[c] = asked
    BY <2>1 DEF VerifierInv, VerifierTypeOK
  <2>4. UNCHANGED <<keys, age, got, waited>> /\ kid'[c] = k
    BY DEF Present, VerifierInv, VerifierTypeOK
  <2>5. QED
    BY <2>2, <2>3, <2>4
<1>4. state'[c] = "missed" => k \notin keys
  BY DEF Present, Becomes, VerifierInv, VerifierTypeOK
<1>5. k \in Nat
  BY DEF Tokens
<1>6. VerifierTypeOK'
  <2>1. kid' \in [Callers -> Nat]
    BY <1>5 DEF Present, VerifierInv, VerifierTypeOK
  <2>2. QED
    BY <1>1, <1>2, <1>3, <2>1 DEF OnlyMoves, VerifierInv, VerifierTypeOK
<1>7. SetsHaveKeys'
  BY <1>2, <1>3 DEF OnlyMoves, VerifierInv, SetsHaveKeys, Fetching
<1>8. AnswersAreYoung' /\ SetIsYoung'
  BY <1>1, <1>2, <1>3 DEF OnlyMoves, VerifierInv, AnswersAreYoung, SetIsYoung, Fetching
<1>9. RequestsAreYoung'
  <2>1. ASSUME state'[c] = "missed", recent'[c], Published' = {kid'[c]}
        PROVE  settled' < Horizon
    <3>1. settled <= age + FetchTimeout /\ age < Cooldown
      BY <1>1, <1>3, <1>4, <1>5, <2>1 DEF VerifierInv, VerifierTypeOK, SetIsYoung
    <3>2. QED
      BY <1>1, <3>1 DEF Horizon, VerifierInv, VerifierTypeOK
  <2>2. QED
    BY <1>1, <1>2, <1>3, <2>1 DEF OnlyMoves, VerifierInv, RequestsAreYoung
<1>10. QED
  BY <1>6, <1>7, <1>8, <1>9 DEF VerifierInv

LEMMA FetchStep ==
  ASSUME VerifierInv, DeploymentTypeOK, Still, NEW c \in Callers, Fetch(c)
  PROVE  VerifierInv'
<1>1. Published' = Published /\ settled' = settled
  BY StillPublished
<1>2. OnlyMoves(c, {"fetching"})
  BY DEF Fetch, Becomes, OnlyMoves, VerifierInv, VerifierTypeOK, States
<1>3. PICK r \in Serving : got' = [got EXCEPT ![c] = {key[r]}]
  BY DEF Fetch
<1>4. key[r] \in Nat /\ key[r] \in Published
  BY DEF Serving, Published, DeploymentTypeOK
<1>5. UNCHANGED <<keys, age, kid, recent>> /\ got'[c] = {key[r]} /\ waited'[c] = 0
  BY <1>3 DEF Fetch, VerifierInv, VerifierTypeOK
<1>6. VerifierTypeOK'
  BY <1>1, <1>2, <1>3, <1>4 DEF Fetch, OnlyMoves, VerifierInv, VerifierTypeOK
<1>7. SetsHaveKeys'
  BY <1>2, <1>5 DEF OnlyMoves, VerifierInv, SetsHaveKeys, Fetching
<1>8. AnswersAreYoung'
  <2>1. \A k \in Nat \ got'[c] : Published' # {k}
    BY <1>1, <1>4, <1>5
  <2>2. QED
    BY <1>1, <1>2, <1>5, <2>1 DEF OnlyMoves, VerifierInv, AnswersAreYoung, Fetching
<1>9. SetIsYoung' /\ RequestsAreYoung'
  BY <1>1, <1>2, <1>5 DEF OnlyMoves, VerifierInv, SetIsYoung, RequestsAreYoung
<1>10. QED
  BY <1>6, <1>7, <1>8, <1>9 DEF VerifierInv

LEMMA StoreStep ==
  ASSUME VerifierInv, Still, NEW c \in Callers, Store(c)
  PROVE  VerifierInv'
<1>1. Published' = Published /\ settled' = settled
  BY StillPublished
<1>2. OnlyMoves(c, {"stored"})
  BY DEF Store, Becomes, OnlyMoves, VerifierInv, VerifierTypeOK, States
<1>3. keys' = got[c] /\ age' = 0 /\ UNCHANGED <<kid, recent>> /\ Fetching(c)
  BY DEF Store, Fetching
<1>4. VerifierTypeOK'
  <2>1. keys' \in SUBSET Nat /\ age' \in 0 .. Cooldown
    BY <1>3 DEF VerifierInv, VerifierTypeOK
  <2>2. got' \in [Callers -> SUBSET Nat] /\ waited' \in [Callers -> Nat]
    BY DEF Store, VerifierInv, VerifierTypeOK
  <2>3. QED
    BY <1>1, <1>2, <1>3, <2>1, <2>2 DEF OnlyMoves, VerifierInv, VerifierTypeOK
<1>5. SetsHaveKeys'
  BY <1>2, <1>3 DEF OnlyMoves, VerifierInv, SetsHaveKeys, Fetching
<1>6. AnswersAreYoung'
  BY <1>1, <1>2 DEF OnlyMoves, VerifierInv, AnswersAreYoung, Fetching
<1>7. SetIsYoung'
  <2> SUFFICES ASSUME NEW k \in Nat \ keys', Published' = {k}
               PROVE  settled' <= age' + FetchTimeout
    BY DEF SetIsYoung
  <2>1. settled <= waited[c] /\ waited[c] <= FetchTimeout
    BY <1>1, <1>3 DEF VerifierInv, AnswersAreYoung
  <2>2. QED
    BY <1>1, <1>3, <2>1 DEF VerifierInv, VerifierTypeOK
<1>8. RequestsAreYoung'
  BY <1>1, <1>2, <1>3 DEF OnlyMoves, VerifierInv, RequestsAreYoung
<1>9. QED
  BY <1>4, <1>5, <1>6, <1>7, <1>8 DEF VerifierInv

(* A request that ends changes nothing others see. *)
LEMMA EndStep ==
  ASSUME VerifierInv, Still, NEW c \in Callers, Refuse(c) \/ FetchFails(c) \/ LookAgain(c)
  PROVE  VerifierInv'
<1>1. Published' = Published /\ settled' = settled
  BY StillPublished
<1>2. OnlyMoves(c, {"accepted", "unknown", "unreachable"}) /\ UNCHANGED <<keys, age, kid, recent>>
  BY DEF Refuse, FetchFails, LookAgain, Becomes, OnlyMoves, VerifierInv, VerifierTypeOK, States
<1>3. VerifierTypeOK'
  BY <1>1, <1>2 DEF Refuse, FetchFails, LookAgain, OnlyMoves, VerifierInv, VerifierTypeOK
<1>4. SetsHaveKeys' /\ AnswersAreYoung' /\ SetIsYoung' /\ RequestsAreYoung'
  BY <1>1, <1>2 DEF OnlyMoves, VerifierInv, SetsHaveKeys, AnswersAreYoung, SetIsYoung, RequestsAreYoung, Fetching
<1>5. QED
  BY <1>3, <1>4 DEF VerifierInv

LEMMA KeySetStep == KeySetInv /\ [KeySetNext]_keyset => KeySetInv'
<1> SUFFICES ASSUME KeySetInv, [KeySetNext]_keyset PROVE KeySetInv'
  OBVIOUS
<1>1. VerifierInv /\ DeploymentTypeOK /\ MigrationInv
  BY DEF KeySetInv, KeySetTypeOK, VerifierInv
<1>2. ASSUME UNCHANGED deployment PROVE DeploymentTypeOK' /\ MigrationInv'
  BY <1>1, <1>2 DEF deployment, DeploymentTypeOK, MigrationInv, LockExcludes, Inside, ServesOnlyMigrated,
                    Serving, Migrating
<1>3. CASE /\ DeploymentNext
           /\ settled' = IF Published' = Published THEN settled ELSE 0
           /\ UNCHANGED verifier
  BY <1>1, <1>3, DeploymentStep, RotationStep DEF KeySetInv, KeySetTypeOK, VerifierInv
<1>4. CASE (\E c \in Callers : Verify(c) \/ \E k \in Tokens : Present(c, k)) /\ Still
  <2>1. VerifierInv'
    BY <1>1, <1>4, PresentStep, FetchStep, StoreStep, EndStep DEF Verify
  <2>2. QED
    BY <1>2, <1>4, <2>1 DEF Still, KeySetInv, KeySetTypeOK, VerifierInv
<1>5. CASE Tick
  <2>1. VerifierInv'
    BY <1>1, <1>5, TickStep
  <2>2. QED
    BY <1>2, <1>5, <2>1 DEF Tick, KeySetInv, KeySetTypeOK, VerifierInv
<1>6. CASE UNCHANGED keyset
  <2>1. Still /\ UNCHANGED verifier
    BY <1>6 DEF keyset, Still
  <2>2. settled' = (IF Published' = Published THEN settled ELSE 0)
    BY <2>1, StillPublished
  <2>3. QED
    BY <1>1, <1>2, <2>1, <2>2, RotationStep DEF Still, KeySetInv, KeySetTypeOK, VerifierInv
<1>7. QED
  BY <1>3, <1>4, <1>5, <1>6 DEF KeySetNext, Still
-----------------------------------------------------------------------------
(* The variables keep their types, and what was said above of the replicas *)
(* and of the ages of answers and sets holds in every state of the program *)
(* of postgres/migrate.go and authn/authn.go.                              *)
THEOREM KeySetInvariant == KeySetSpec => []KeySetInv
<1>1. QED
  BY KeySetInitInv, KeySetStep, PTL DEF KeySetSpec

(* Migrate applies each migration once and in order whatever starts        *)
(* overlap or are cut off, and Serve is reached with the schema complete.  *)
THEOREM MigratedOnce == KeySetSpec => []ServesOnlyMigrated
<1>1. KeySetInv => ServesOnlyMigrated
  BY DEF KeySetInv, MigrationInv
<1>2. QED
  BY KeySetInvariant, <1>1, PTL

(* The length of the key set that keyFor reads without the lock never      *)
(* decides: whoever found the set read recently finds keys in it whenever  *)
(* it looks again.                                                         *)
THEOREM UnlockedReadIsHarmless ==
  KeySetSpec => [](\A c \in Callers : state[c] = "missed" => (Trusted(c) <=> recent[c]))
<1>1. KeySetInv => \A c \in Callers : state[c] = "missed" => (Trusted(c) <=> recent[c])
  BY DEF KeySetInv, SetsHaveKeys, Trusted, KeySetTypeOK, VerifierTypeOK
<1>2. QED
  BY KeySetInvariant, <1>1, PTL

(* keyFor refuses the key that all replicas have signed with for no longer *)
(* than the cooldown and the time an older answer may be under way.        *)
THEOREM RefusalsAreBounded == KeySetSpec => RefusedOnlyWhenStale
<1>1. ASSUME KeySetInv, [KeySetNext]_keyset, NEW c \in Callers, IsRefused(c), Published = {kid[c]}
      PROVE  settled < Horizon
  <2>1. VerifierTypeOK /\ SetIsYoung /\ RequestsAreYoung
    BY <1>1 DEF KeySetInv, KeySetTypeOK
  <2>2. PICK d \in Callers : Verify(d) \/ \E k \in Tokens : Present(d, k)
    BY <1>1 DEF KeySetNext, IsRefused, keyset, verifier, Tick, Fetching
  <2>3. c = d /\ (Refuse(c) \/ LookAgain(c))
    BY <1>1, <2>1, <2>2 DEF IsRefused, Verify, Present, Refuse, Fetch, FetchFails, Store, LookAgain, Becomes, VerifierTypeOK
  <2>4. CASE Refuse(c)
    BY <1>1, <2>1, <2>4 DEF Refuse, Trusted, RequestsAreYoung
  <2>5. CASE LookAgain(c)
    <3>1. age = 0 /\ kid[c] \in Nat \ keys
      BY <1>1, <2>1, <2>5 DEF LookAgain, Becomes, IsRefused, RequestsAreYoung, VerifierTypeOK
    <3>2. settled <= FetchTimeout
      BY <1>1, <2>1, <3>1 DEF SetIsYoung, VerifierTypeOK
    <3>3. QED
      BY <2>1, <3>2, HorizonIsPositive DEF VerifierTypeOK
  <2>6. QED
    BY <2>3, <2>4, <2>5
<1>2. KeySetInv /\ [KeySetNext]_keyset =>
        [\A c \in Callers : IsRefused(c) /\ Published = {kid[c]} => settled < Horizon]_keyset
  BY <1>1
<1>3. QED
  BY KeySetInvariant, <1>2, PTL DEF RefusedOnlyWhenStale, KeySetSpec

-----------------------------------------------------------------------------
(***************************************************************************)
(* One idempotency key.                                                    *)
(***************************************************************************)

Told == Outcomes \union {"none", "in_progress", "key_reuse"}

IdempotencyTypeOK ==
  /\ row \in [hash : Payloads \union {"none"}, stale : BOOLEAN, stored : Outcomes \union {"none"}]
  /\ pc \in [Requests -> {"new", "inserting", "running", "finished", "closed"}]
  /\ answer \in [Requests -> Told]
  /\ \A r \in Requests : pc[r] = "finished" => answer[r] \in Outcomes
  /\ work \in [Payloads -> Nat]
  /\ faults \in Nat

(* A request at work is the one whose payload reserved the key, and it     *)
(* keeps the reservation fresh and open until it has its answer.           *)
OwnerHolds ==
  /\ \A r \in Live : row = Reserved(Payload[r])
  /\ \A r, s \in Live : r = s

(* A success that was told, or is stored to be told, is of work done. *)
SuccessIsOfWork ==
  /\ OkMeansDone
  /\ row.stored = "ok" => work[row.hash] > 0

(* The work of a payload is accounted for when an answer that is not a     *)
(* failure is stored, or about to be.                                      *)
Accounted(p) ==
  \/ Completed /\ row.hash = p
  \/ \E r \in Requests : pc[r] = "finished" /\ answer[r] # "failed" /\ Payload[r] = p

(* Until then each time it was done is the doing of a fault. *)
WorkIsPaidFor ==
  \A p \in Payloads : work[p] <= faults \/ (Accounted(p) /\ work[p] <= 1 + faults)

IdempotencyInv == IdempotencyTypeOK /\ OwnerHolds /\ SuccessIsOfWork /\ WorkIsPaidFor

USE IdempotencyAssumption
-----------------------------------------------------------------------------
LEMMA IdempotencyInitInv == IdempotencyInit => IdempotencyInv
<1> SUFFICES ASSUME IdempotencyInit PROVE IdempotencyInv
  OBVIOUS
<1>1. IdempotencyTypeOK
  BY DEF IdempotencyInit, IdempotencyTypeOK, NoRow, Told
<1>2. OwnerHolds
  BY DEF IdempotencyInit, OwnerHolds, Live
<1>3. SuccessIsOfWork
  BY DEF IdempotencyInit, SuccessIsOfWork, OkMeansDone, NoRow
<1>4. WorkIsPaidFor
  BY DEF IdempotencyInit, WorkIsPaidFor
<1>5. QED
  BY <1>1, <1>2, <1>3, <1>4 DEF IdempotencyInv

LEMMA ReserveKeeps ==
  ASSUME IdempotencyInv, NEW r \in Requests, Reserve(r)
  PROVE  IdempotencyInv'
<1> USE DEF IdempotencyInv
<1>1. Payload[r] \in Payloads
  BY DEF Payloads
<1>2. r \notin Live /\ UNCHANGED <<work, faults>>
  BY DEF Reserve, Live
<1>3. CASE Unknown(r)
  <2>1. IdempotencyTypeOK'
    BY <1>2, <1>3 DEF Unknown, Goes, IdempotencyTypeOK
  <2>2. Live' = Live /\ UNCHANGED <<row, answer>>
    BY <1>2, <1>3 DEF Unknown, Goes, IdempotencyTypeOK, Live
  <2>3. OwnerHolds' /\ SuccessIsOfWork'
    BY <1>2, <2>2 DEF OwnerHolds, SuccessIsOfWork, OkMeansDone
  <2>4. WorkIsPaidFor'
    BY <1>2, <1>3, <2>2 DEF WorkIsPaidFor, Accounted, Completed, Unknown, Goes, IdempotencyTypeOK, Reserve
  <2>5. QED
    BY <2>1, <2>3, <2>4
<1>4. CASE \E a \in Told : Answers(r, a) /\ UNCHANGED row /\ (a = "ok" => work[Payload[r]] > 0)
  <2>1. PICK a \in Told : Answers(r, a) /\ UNCHANGED row /\ (a = "ok" => work[Payload[r]] > 0)
    BY <1>4
  <2>2. IdempotencyTypeOK'
    BY <1>2, <2>1 DEF Answers, Goes, IdempotencyTypeOK
  <2>3. Live' = Live
    BY <1>2, <2>1 DEF Answers, Goes, IdempotencyTypeOK, Live
  <2>4. OwnerHolds'
    BY <2>1, <2>3 DEF OwnerHolds
  <2>5. SuccessIsOfWork'
    BY <1>2, <2>1 DEF Answers, IdempotencyTypeOK, SuccessIsOfWork, OkMeansDone
  <2>6. WorkIsPaidFor'
    BY <1>2, <2>1 DEF WorkIsPaidFor, Accounted, Completed, Answers, Goes, IdempotencyTypeOK, Reserve
  <2>7. QED
    BY <2>2, <2>4, <2>5, <2>6
<1>5. CASE row.hash = Payload[r] /\ row.stale /\ TakeOver(r)
  <2>1. row' = Reserved(Payload[r]) /\ Live = {} /\ UNCHANGED answer
    BY <1>5 DEF TakeOver, OwnerHolds, Reserved, Live
  <2>2. IdempotencyTypeOK'
    BY <1>1, <1>2, <1>5, <2>1 DEF TakeOver, Goes, IdempotencyTypeOK, Reserved
  <2>3. Live' = {r}
    BY <1>5, <2>1 DEF TakeOver, Goes, IdempotencyTypeOK, Live
  <2>4. OwnerHolds'
    BY <2>1, <2>3 DEF OwnerHolds
  <2>5. SuccessIsOfWork'
    BY <1>2, <2>1 DEF Reserved, SuccessIsOfWork, OkMeansDone
  <2>6. \A p \in Payloads : ~ Accounted(p)
    BY <1>5, <2>1 DEF Accounted, TakeOver, Live, Completed
  <2>7. WorkIsPaidFor'
    BY <1>2, <2>6 DEF WorkIsPaidFor
  <2>8. QED
    BY <2>2, <2>4, <2>5, <2>7
<1>6. Foreign(r) \/ (row.hash = Payload[r] /\ (Replay(r) \/ Wait(r))) =>
        \E a \in Told : Answers(r, a) /\ UNCHANGED row /\ (a = "ok" => work[Payload[r]] > 0)
  BY DEF Foreign, Replay, Wait, Completed, IdempotencyTypeOK, Told, SuccessIsOfWork
<1>7. QED
  BY <1>3, <1>4, <1>5, <1>6 DEF Reserve

LEMMA InsertKeeps ==
  ASSUME IdempotencyInv, NEW r \in Requests, Insert(r)
  PROVE  IdempotencyInv'
<1> USE DEF IdempotencyInv
<1>1. Payload[r] \in Payloads /\ Payload[r] # "none"
  BY DEF Payloads
<1>2. r \notin Live /\ UNCHANGED <<work, faults>>
  BY DEF Insert, Live
<1>3. CASE row = NoRow /\ row' = Reserved(Payload[r]) /\ Goes(r, "running") /\ UNCHANGED answer
  <2>1. Live = {}
    BY <1>3 DEF OwnerHolds, Reserved, NoRow, Live
  <2>2. Live' = {r}
    BY <1>3, <2>1 DEF Goes, IdempotencyTypeOK, Live
  <2>3. IdempotencyTypeOK'
    BY <1>1, <1>2, <1>3 DEF Goes, IdempotencyTypeOK, Reserved
  <2>4. OwnerHolds'
    BY <1>3, <2>2 DEF OwnerHolds
  <2>5. SuccessIsOfWork'
    BY <1>2, <1>3 DEF Reserved, SuccessIsOfWork, OkMeansDone
  <2>6. \A p \in Payloads : ~ Accounted(p)
    BY <1>3, <2>1 DEF Accounted, Live, Completed, NoRow
  <2>7. WorkIsPaidFor'
    BY <1>2, <2>6 DEF WorkIsPaidFor
  <2>8. QED
    BY <2>3, <2>4, <2>5, <2>7
<1>4. CASE Answers(r, "in_progress") /\ UNCHANGED row
  <2>1. IdempotencyTypeOK'
    BY <1>2, <1>4 DEF Answers, Goes, IdempotencyTypeOK, Told
  <2>2. Live' = Live
    BY <1>2, <1>4 DEF Answers, Goes, IdempotencyTypeOK, Live
  <2>3. OwnerHolds'
    BY <1>4, <2>2 DEF OwnerHolds
  <2>4. SuccessIsOfWork'
    BY <1>2, <1>4 DEF Answers, IdempotencyTypeOK, SuccessIsOfWork, OkMeansDone
  <2>5. WorkIsPaidFor'
    BY <1>2, <1>4 DEF WorkIsPaidFor, Accounted, Completed, Answers, Goes, IdempotencyTypeOK, Insert
  <2>6. QED
    BY <2>1, <2>3, <2>4, <2>5
<1>5. QED
  BY <1>3, <1>4 DEF Insert

LEMMA ServeKeeps ==
  ASSUME IdempotencyInv, NEW r \in Requests, Serve(r)
  PROVE  IdempotencyInv'
<1> USE DEF IdempotencyInv
<1> DEFINE p == Payload[r]
<1>1. p \in Payloads /\ pc[r] = "running" /\ r \in Live
  BY DEF Payloads, Serve, Live
<1>2. row = Reserved(p) /\ Live = {r} /\ UNCHANGED row
  BY <1>1 DEF OwnerHolds, Serve
<1>3. PICK o \in Outcomes :
        /\ answer' = [answer EXCEPT ![r] = o]
        /\ \/ o = "ok" /\ work' = [work EXCEPT ![p] = @ + 1] /\ UNCHANGED faults
           \/ o \in {"refused", "unauthorized"} /\ UNCHANGED <<work, faults>>
           \/ o = "failed" /\ Fault("server_error") /\ UNCHANGED work
           \/ /\ o = "failed" /\ Fault("doubtful_failure")
              /\ work' = [work EXCEPT ![p] = @ + 1]
  BY DEF Serve
<1>4. pc' = [pc EXCEPT ![r] = "finished"]
  BY DEF Serve, Goes
<1>5. /\ work' \in [Payloads -> Nat] /\ faults' \in Nat /\ faults <= faults'
      /\ \A q \in Payloads \ {p} : work'[q] = work[q]
      /\ work[p] <= work'[p]
  BY <1>1, <1>3 DEF IdempotencyTypeOK, Fault
<1>6. IdempotencyTypeOK'
  BY <1>2, <1>3, <1>4, <1>5 DEF IdempotencyTypeOK, Told
<1>7. Live' = {r}
  BY <1>1, <1>2, <1>4 DEF IdempotencyTypeOK, Live
<1>8. OwnerHolds'
  BY <1>2, <1>7 DEF OwnerHolds
<1>9. SuccessIsOfWork'
  <2>1. row'.stored # "ok"
    BY <1>2 DEF Reserved
  <2>2. ASSUME NEW s \in Requests, answer'[s] = "ok" PROVE work'[Payload[s]] > 0
    <3>1. CASE s = r
      BY <1>1, <1>3, <2>2, <3>1 DEF IdempotencyTypeOK
    <3>2. CASE s # r
      <4>1. answer[s] = "ok" /\ work[Payload[s]] > 0 /\ Payload[s] \in Payloads
        BY <1>3, <2>2, <3>2 DEF IdempotencyTypeOK, SuccessIsOfWork, OkMeansDone, Payloads
      <4>2. QED
        BY <1>5, <4>1 DEF IdempotencyTypeOK
    <3>3. QED
      BY <3>1, <3>2
  <2>3. QED
    BY <2>1, <2>2 DEF SuccessIsOfWork, OkMeansDone
<1>10. \A q \in Payloads : ~ Accounted(q) /\ work[q] <= faults
  <2>1. ~ Completed /\ \A s \in Requests : pc[s] # "finished"
    BY <1>1, <1>2 DEF Completed, Reserved, Live
  <2>2. QED
    BY <2>1 DEF Accounted, WorkIsPaidFor
<1>11. WorkIsPaidFor'
  <2>1. \A q \in Payloads \ {p} : work'[q] <= faults'
    BY <1>5, <1>10 DEF IdempotencyTypeOK
  <2>2. CASE o # "failed"
    <3>1. Accounted(p)'
      BY <1>3, <1>4, <2>2 DEF Accounted, IdempotencyTypeOK
    <3>2. work'[p] <= 1 + faults'
      BY <1>1, <1>3, <1>10, <2>2 DEF IdempotencyTypeOK
    <3>3. QED
      BY <2>1, <3>1, <3>2 DEF WorkIsPaidFor
  <2>3. CASE o = "failed"
    <3>1. work'[p] <= faults'
      BY <1>1, <1>3, <1>10, <2>3 DEF IdempotencyTypeOK, Fault
    <3>2. QED
      BY <2>1, <3>1 DEF WorkIsPaidFor
  <2>4. QED
    BY <2>2, <2>3
<1>12. QED
  BY <1>6, <1>8, <1>9, <1>11

(* What a fault or the deletion of an answer takes off the account, it     *)
(* pays for.                                                               *)
LEMMA FaultPays ==
  ASSUME IdempotencyTypeOK, WorkIsPaidFor, UNCHANGED work, faults' = faults + 1
  PROVE  WorkIsPaidFor'
BY DEF IdempotencyTypeOK, WorkIsPaidFor

LEMMA SettleKeeps ==
  ASSUME IdempotencyInv, NEW r \in Requests, Settle(r)
  PROVE  IdempotencyInv'
<1> USE DEF IdempotencyInv
<1> DEFINE p == Payload[r]
<1>1. p \in Payloads /\ pc[r] = "finished" /\ r \in Live
  BY DEF Payloads, Settle, Live
<1>2. row = Reserved(p) /\ Live = {r} /\ ~ Completed
  BY <1>1 DEF OwnerHolds, Reserved, Completed
<1>3. pc' = [pc EXCEPT ![r] = "closed"] /\ UNCHANGED <<answer, work>>
  BY DEF Settle, Goes
<1>4. Live' = {}
  BY <1>2, <1>3 DEF IdempotencyTypeOK, Live
<1>5. OwnerHolds'
  BY <1>4 DEF OwnerHolds
<1>6. answer[r] \in Outcomes
  BY <1>1 DEF IdempotencyTypeOK
<1>7. CASE answer[r] # "failed" /\ row' = [row EXCEPT !.stored = answer[r]] /\ UNCHANGED faults
  <2>1. row' = [hash |-> p, stale |-> FALSE, stored |-> answer[r]]
    BY <1>2, <1>7 DEF Reserved
  <2>2. IdempotencyTypeOK'
    BY <1>1, <1>3, <1>6, <1>7, <2>1 DEF IdempotencyTypeOK
  <2>3. SuccessIsOfWork'
    BY <1>3, <2>1 DEF SuccessIsOfWork, OkMeansDone
  <2>4. \A q \in Payloads : Accounted(q) => q = p
    BY <1>2 DEF Accounted, Live
  <2>5. Accounted(p)'
    BY <1>6, <2>1 DEF Accounted, Completed, Outcomes
  <2>6. WorkIsPaidFor'
    BY <1>3, <1>7, <2>4, <2>5 DEF WorkIsPaidFor
  <2>7. QED
    BY <1>5, <2>2, <2>3, <2>6
<1>8. CASE answer[r] = "failed" /\ row' = NoRow /\ UNCHANGED faults
  <2>1. IdempotencyTypeOK'
    BY <1>3, <1>8 DEF IdempotencyTypeOK, NoRow
  <2>2. SuccessIsOfWork'
    BY <1>3, <1>8 DEF SuccessIsOfWork, OkMeansDone, NoRow
  <2>3. \A q \in Payloads : ~ Accounted(q)
    BY <1>2, <1>8 DEF Accounted, Live
  <2>4. WorkIsPaidFor'
    BY <1>3, <1>8, <2>3 DEF WorkIsPaidFor
  <2>5. QED
    BY <1>5, <2>1, <2>2, <2>4
<1>9. CASE UNCHANGED row /\ Fault("lost_completion")
  <2>1. IdempotencyTypeOK'
    BY <1>3, <1>9 DEF IdempotencyTypeOK, Fault
  <2>2. SuccessIsOfWork'
    BY <1>3, <1>9 DEF SuccessIsOfWork, OkMeansDone
  <2>3. WorkIsPaidFor'
    BY <1>3, <1>9, FaultPays DEF Fault
  <2>4. QED
    BY <1>5, <2>1, <2>2, <2>3
<1>10. row # NoRow
  BY <1>1, <1>2 DEF Reserved, NoRow
<1>11. QED
  BY <1>2, <1>7, <1>8, <1>9, <1>10 DEF Settle

LEMMA CrashKeeps ==
  ASSUME IdempotencyInv, NEW r \in Requests, Crash(r)
  PROVE  IdempotencyInv'
<1> USE DEF IdempotencyInv
<1>1. IdempotencyTypeOK'
  BY DEF Crash, Goes, Fault, IdempotencyTypeOK, Told
<1>2. Live' \subseteq Live /\ UNCHANGED row
  BY DEF Crash, Goes, IdempotencyTypeOK, Live
<1>3. OwnerHolds'
  BY <1>2 DEF OwnerHolds
<1>4. SuccessIsOfWork'
  BY DEF Crash, IdempotencyTypeOK, SuccessIsOfWork, OkMeansDone
<1>5. WorkIsPaidFor'
  BY FaultPays DEF Crash, Fault
<1>6. QED
  BY <1>1, <1>3, <1>4, <1>5

LEMMA RetryKeeps ==
  ASSUME IdempotencyInv, NEW r \in Requests, Retry(r)
  PROVE  IdempotencyInv'
<1> USE DEF IdempotencyInv
<1>1. IdempotencyTypeOK'
  BY DEF Retry, Goes, IdempotencyTypeOK, Told
<1>2. Live' = Live /\ UNCHANGED row
  BY DEF Retry, Goes, IdempotencyTypeOK, Live
<1>3. OwnerHolds'
  BY <1>2 DEF OwnerHolds
<1>4. SuccessIsOfWork'
  BY DEF Retry, IdempotencyTypeOK, SuccessIsOfWork, OkMeansDone
<1>5. WorkIsPaidFor'
  BY DEF Retry, Goes, IdempotencyTypeOK, WorkIsPaidFor, Accounted, Completed
<1>6. QED
  BY <1>1, <1>3, <1>4, <1>5

LEMMA TimeKeeps ==
  ASSUME IdempotencyInv, GoesStale \/ DeleteCompleted
  PROVE  IdempotencyInv'
<1> USE DEF IdempotencyInv
<1>1. UNCHANGED <<pc, answer, work>> /\ Live' = Live
  BY DEF GoesStale, DeleteCompleted, Live
<1>2. CASE GoesStale
  <2>1. IdempotencyTypeOK'
    BY <1>1, <1>2 DEF GoesStale, IdempotencyTypeOK
  <2>2. OwnerHolds'
    BY <1>1, <1>2 DEF GoesStale, OwnerHolds
  <2>3. row'.hash = row.hash /\ row'.stored = row.stored /\ UNCHANGED faults
    BY <1>2 DEF GoesStale, IdempotencyTypeOK
  <2>4. SuccessIsOfWork' /\ WorkIsPaidFor'
    BY <1>1, <2>3 DEF SuccessIsOfWork, OkMeansDone, WorkIsPaidFor, Accounted, Completed
  <2>5. QED
    BY <2>1, <2>2, <2>4
<1>3. CASE DeleteCompleted
  <2>1. IdempotencyTypeOK'
    BY <1>1, <1>3 DEF DeleteCompleted, Fault, IdempotencyTypeOK, NoRow
  <2>2. Live = {}
    BY <1>3 DEF DeleteCompleted, Completed, OwnerHolds, Reserved
  <2>3. OwnerHolds'
    BY <1>1, <2>2 DEF OwnerHolds
  <2>4. SuccessIsOfWork'
    BY <1>1, <1>3 DEF DeleteCompleted, SuccessIsOfWork, OkMeansDone, NoRow
  <2>5. WorkIsPaidFor'
    BY <1>1, <1>3, FaultPays DEF DeleteCompleted, Fault
  <2>6. QED
    BY <2>1, <2>3, <2>4, <2>5
<1>4. QED
  BY <1>2, <1>3

LEMMA IdempotencyStep == IdempotencyInv /\ [IdempotencyNext]_idempotency => IdempotencyInv'
<1> SUFFICES ASSUME IdempotencyInv, [IdempotencyNext]_idempotency PROVE IdempotencyInv'
  OBVIOUS
<1>1. CASE UNCHANGED idempotency
  BY <1>1 DEF idempotency, IdempotencyInv, IdempotencyTypeOK, OwnerHolds, Live, SuccessIsOfWork, OkMeansDone, WorkIsPaidFor,
              Accounted, Completed
<1>2. CASE IdempotencyNext
  BY <1>2, ReserveKeeps, InsertKeeps, ServeKeeps, SettleKeeps, CrashKeeps, RetryKeeps, TimeKeeps
     DEF IdempotencyNext, Step
<1>3. QED
  BY <1>1, <1>2

THEOREM IdempotencyInvariant == IdempotencySpec => []IdempotencyInv
<1>1. QED
  BY IdempotencyInitInv, IdempotencyStep, PTL DEF IdempotencySpec
-----------------------------------------------------------------------------
(* The middleware of any number of replicas never lets two requests of one *)
(* key through at a time.                                                  *)
THEOREM NeverTwoOwners == IdempotencySpec => []OneOwner
<1>1. IdempotencyInv => OneOwner
  <2> SUFFICES ASSUME IdempotencyInv PROVE Cardinality(Live) <= 1
    BY DEF OneOwner
  <2>1. Live = {} \/ \E r \in Live : Live = {r}
    BY DEF IdempotencyInv, OwnerHolds
  <2>2. Cardinality({}) = 0 /\ \A r \in Live : Cardinality({r}) = 1
    BY FS_EmptySet, FS_Singleton
  <2>3. QED
    BY <2>1, <2>2
<1>2. QED
  BY IdempotencyInvariant, <1>1, PTL

(* However often a client retries, work is repeated only by what a crash,  *)
(* a lost answer or an expired one left undecided.                         *)
THEOREM RepeatsAreCounted == IdempotencySpec => []RepeatsArePaidFor
<1>1. IdempotencyInv => RepeatsArePaidFor
  BY DEF IdempotencyInv, IdempotencyTypeOK, WorkIsPaidFor, RepeatsArePaidFor
<1>2. QED
  BY IdempotencyInvariant, <1>1, PTL

(* A success is never replayed to another payload, nor told for work that  *)
(* was not committed.                                                      *)
THEOREM SuccessIsTrue == IdempotencySpec => []OkMeansDone
<1>1. IdempotencyInv => OkMeansDone
  BY DEF IdempotencyInv, SuccessIsOfWork
<1>2. QED
  BY IdempotencyInvariant, <1>1, PTL

-----------------------------------------------------------------------------
(***************************************************************************)
(* The circuit breaker.                                                    *)
(***************************************************************************)

USE ClientAssumption

ClientTypeOK ==
  /\ circuit \in {"closed", "open", "half_open"}
  /\ failures \in 0 .. Threshold
  /\ streak \in 0 .. Threshold

(* While the circuit is closed the breaker has counted what was recorded   *)
(* since the last success, and not yet too much of it.                     *)
CountsTheStreak == circuit = "closed" => failures = streak /\ failures < Threshold

ClientInv == ClientTypeOK /\ CountsTheStreak

LEMMA ClientInitInv == ClientInit => ClientInv
BY DEF ClientInit, ClientInv, ClientTypeOK, CountsTheStreak

(* What any recording of an outcome preserves. *)
LEMMA OutcomeKeeps ==
  ASSUME ClientInv, RecordSuccess \/ RecordFailure
  PROVE  ClientInv' /\ OpensAfterAStreak
<1> USE DEF ClientInv, ClientTypeOK, CountsTheStreak, OpensAfterAStreak
<1>1. CASE RecordSuccess
  BY <1>1 DEF RecordSuccess
<1>2. CASE RecordFailure /\ circuit = "half_open"
  BY <1>2 DEF RecordFailure
<1>3. CASE RecordFailure /\ circuit = "open"
  BY <1>3 DEF RecordFailure
<1>4. CASE RecordFailure /\ circuit = "closed"
  BY <1>4 DEF RecordFailure
<1>5. QED
  BY <1>1, <1>2, <1>3, <1>4

(* A circuit that is let through, or that cools down, does not open, and   *)
(* nothing else touches it.                                                *)
LEMMA ClientStep == ClientInv /\ [ClientNext]_client => ClientInv' /\ OpensAfterAStreak
<1> SUFFICES ASSUME ClientInv, [ClientNext]_client PROVE ClientInv' /\ OpensAfterAStreak
  OBVIOUS
<1> USE DEF OpensAfterAStreak
<1>1. ASSUME NEW c \in Clients, Allow(c) PROVE ClientInv' /\ OpensAfterAStreak
  BY <1>1 DEF Allow, ClientInv, ClientTypeOK, CountsTheStreak
<1>2. ASSUME NEW c \in Clients, Do(c) PROVE ClientInv' /\ OpensAfterAStreak
  BY <1>2, OutcomeKeeps DEF Do
<1>3. CASE UNCHANGED breaker
  BY <1>3 DEF breaker, ClientInv, ClientTypeOK, CountsTheStreak
<1>4. CASE CooldownElapses
  BY <1>4 DEF CooldownElapses, ClientInv, ClientTypeOK, CountsTheStreak
<1>5. ASSUME NEW c \in Clients, Exchange(c) \/ Cancel(c) PROVE UNCHANGED breaker
  BY <1>5 DEF Exchange, Cancel
<1>6. GoDown \/ ComeUp \/ UNCHANGED client => UNCHANGED breaker
  BY DEF GoDown, ComeUp, client
<1>7. QED
  BY <1>1, <1>2, <1>3, <1>4, <1>5, <1>6 DEF ClientNext, Lookup

(* The breaker: for any number of callers and any threshold, however late  *)
(* their outcomes are recorded, a closed circuit opens only after that     *)
(* many of them in a row without a success.                                *)
THEOREM CircuitOpensInTime == ClientSpec => OpensAfterConsecutiveFailures
<1>1. ClientSpec => []ClientInv
  BY ClientInitInv, ClientStep, PTL DEF ClientSpec
<1>2. ClientInv /\ [ClientNext]_client => [OpensAfterAStreak]_client
  BY ClientStep
<1>3. QED
  BY <1>1, <1>2, PTL DEF ClientSpec, OpensAfterConsecutiveFailures
=============================================================================
