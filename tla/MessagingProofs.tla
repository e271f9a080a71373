--------------------------- MODULE MessagingProofs ---------------------------
(***************************************************************************)
(* Theorems about the two ends of a message: the outbox it leaves through, *)
(* for any rows, relays, batches and faults; and the queue, the consumers  *)
(* and the inbox it reaches, for any messages, replicas, copies, attempts, *)
(* faults, shutdowns and expired records.                                  *)
(***************************************************************************)
EXTENDS Outbox, Consumer, SetLemmas, TLAPS

(***************************************************************************)
(* The outbox.                                                             *)
(***************************************************************************)

OutboxTypeOK ==
  /\ row \in [Rows -> {"absent", "pending", "published", "deleted"}]
  /\ due \in [Rows -> BOOLEAN]
  /\ batch \in [Relays -> SUBSET Rows]
  /\ reply \in [Relays -> {"none", "confirmed", "failed"}]
  /\ copies \in [Rows -> Nat]
  /\ relayFaults \in Nat

(* The broker's reply is about a row the relay holds, and a confirmation   *)
(* is of a message the broker has.                                         *)
RepliesAreOfTheBatch ==
  \A r \in Relays :
    /\ reply[r] # "none" => batch[r] # {}
    /\ reply[r] = "confirmed" => copies[Current(r)] > 0

(* A row nobody has committed yet was neither leased nor published. *)
Unwritten(m) == row[m] = "absent" => due[m] /\ copies[m] = 0 /\ Holders(m) = {}

(* Each relay that may still publish a row has a copy in hand. *)
InHand(m) == {r \in Holders(m) : ~ (Current(r) = m /\ reply[r] = "confirmed")}

(* So has a row that waits to be claimed. *)
Waiting(m) == row[m] \in {"absent", "pending"} /\ due[m]

(* The copies out, in hand and waiting are one and those the faults paid   *)
(* for; when a row is to become due again its own is among them.           *)
PaidFor(m) ==
  /\ copies[m] + Cardinality(InHand(m)) + (IF Waiting(m) THEN 1 ELSE 0) <= 1 + relayFaults
  /\ row[m] = "pending" /\ ~ due[m] /\ Holders(m) = {} => copies[m] <= relayFaults

OutboxInv ==
  /\ OutboxTypeOK
  /\ RepliesAreOfTheBatch
  /\ PublishedWasAccepted
  /\ \A m \in Rows : Unwritten(m) /\ PaidFor(m)

USE OutboxAssumption
-----------------------------------------------------------------------------
(* A set of row numbers has a smallest one. *)
LEMMA LeastIsIn ==
  ASSUME NEW S \in SUBSET Nat, S # {}
  PROVE  Min(S) \in S
BY LeastNumber DEF Min

(* The row a relay publishes is one of its batch. *)
LEMMA CurrentIsHeld ==
  ASSUME NEW r \in Relays, batch[r] \subseteq Rows, batch[r] # {}
  PROVE  Current(r) \in batch[r]
BY LeastIsIn DEF Current

(* The copies in hand are finitely many, one per relay. *)
LEMMA InHandIsFinite ==
  ASSUME NEW m
  PROVE  IsFiniteSet(InHand(m)) /\ Cardinality(InHand(m)) \in Nat
<1>1. InHand(m) \in SUBSET Relays
  BY DEF InHand, Holders
<1>2. QED
  BY <1>1, FS_Subset, FS_CardinalityType

LEMMA InHandIsFiniteNext ==
  ASSUME NEW m
  PROVE  IsFiniteSet(InHand(m)') /\ Cardinality(InHand(m)') \in Nat
<1>1. InHand(m)' \in SUBSET Relays
  BY DEF InHand, Holders
<1>2. QED
  BY <1>1, FS_Subset, FS_CardinalityType

(* A step of one relay moves no copy but those in its own hand. *)
LEMMA OnlyItsOwn ==
  ASSUME NEW r \in Relays, NEW m \in Rows,
         batch \in [Relays -> SUBSET Rows], batch' \in [Relays -> SUBSET Rows],
         \A s \in Relays \ {r} : batch'[s] = batch[s] /\ reply'[s] = reply[s]
  PROVE  /\ r \in InHand(m)' <=> m \in batch'[r] /\ ~ (Current(r)' = m /\ reply'[r] = "confirmed")
         /\ r \in InHand(m) <=> m \in batch[r] /\ ~ (Current(r) = m /\ reply[r] = "confirmed")
         /\ r \in InHand(m)' /\ r \in InHand(m) => InHand(m)' = InHand(m)
         /\ r \in InHand(m)' /\ r \notin InHand(m) => InHand(m)' = InHand(m) \union {r}
         /\ r \notin InHand(m)' /\ r \in InHand(m) => InHand(m)' = InHand(m) \ {r}
         /\ r \notin InHand(m)' /\ r \notin InHand(m) => InHand(m)' = InHand(m)
<1>1. \A s \in Relays \ {r} : s \in InHand(m)' <=> s \in InHand(m)
  BY DEF InHand, Holders, Current
<1>2. InHand(m) \subseteq Relays /\ InHand(m)' \subseteq Relays
  BY DEF InHand, Holders
<1>3. /\ r \in InHand(m)' <=> m \in batch'[r] /\ ~ (Current(r)' = m /\ reply'[r] = "confirmed")
      /\ r \in InHand(m) <=> m \in batch[r] /\ ~ (Current(r) = m /\ reply[r] = "confirmed")
  BY DEF InHand, Holders
<1>4. QED
  BY <1>1, <1>2, <1>3

(* So the number of copies in hand changes by what that relay does. *)
LEMMA OneCopyMore ==
  ASSUME NEW r \in Relays, NEW m \in Rows,
         batch \in [Relays -> SUBSET Rows], batch' \in [Relays -> SUBSET Rows],
         \A s \in Relays \ {r} : batch'[s] = batch[s] /\ reply'[s] = reply[s]
  PROVE  /\ Cardinality(InHand(m)) \in Nat
         /\ Cardinality(InHand(m)') =
              Cardinality(InHand(m)) + (IF r \in InHand(m)' THEN 1 ELSE 0)
                                     - (IF r \in InHand(m) THEN 1 ELSE 0)
<1>1. IsFiniteSet(InHand(m)) /\ Cardinality(InHand(m)) \in Nat
  BY InHandIsFinite
<1>2. Cardinality(InHand(m) \union {r}) =
        IF r \in InHand(m) THEN Cardinality(InHand(m)) ELSE Cardinality(InHand(m)) + 1
  BY <1>1, FS_AddElement
<1>3. Cardinality(InHand(m) \ {r}) =
        IF r \in InHand(m) THEN Cardinality(InHand(m)) - 1 ELSE Cardinality(InHand(m))
  BY <1>1, FS_RemoveElement
<1>4. CASE r \in InHand(m)' /\ r \in InHand(m)
  <2>1. InHand(m)' = InHand(m)
    BY <1>4, OnlyItsOwn
  <2>2. QED
    BY <1>1, <1>4, <2>1
<1>5. CASE r \in InHand(m)' /\ r \notin InHand(m)
  <2>1. InHand(m)' = InHand(m) \union {r}
    BY <1>5, OnlyItsOwn
  <2>2. QED
    BY <1>1, <1>2, <1>5, <2>1
<1>6. CASE r \notin InHand(m)' /\ r \in InHand(m)
  <2>1. InHand(m)' = InHand(m) \ {r}
    BY <1>6, OnlyItsOwn
  <2>2. QED
    BY <1>1, <1>3, <1>6, <2>1
<1>7. CASE r \notin InHand(m)' /\ r \notin InHand(m)
  <2>1. InHand(m)' = InHand(m)
    BY <1>7, OnlyItsOwn
  <2>2. QED
    BY <1>1, <1>7, <2>1
<1>8. QED
  BY <1>4, <1>5, <1>6, <1>7
-----------------------------------------------------------------------------
LEMMA OutboxInitInv == OutboxInit => OutboxInv
<1> SUFFICES ASSUME OutboxInit PROVE OutboxInv
  OBVIOUS
<1>1. OutboxTypeOK /\ RepliesAreOfTheBatch /\ PublishedWasAccepted
  BY DEF OutboxInit, OutboxTypeOK, RepliesAreOfTheBatch, PublishedWasAccepted
<1>2. ASSUME NEW m \in Rows PROVE Unwritten(m) /\ PaidFor(m)
  <2>1. Holders(m) = {} /\ InHand(m) = {}
    BY DEF OutboxInit, Holders, InHand
  <2>2. Cardinality(InHand(m)) = 0
    BY <2>1, FS_EmptySet
  <2>3. copies[m] = 0 /\ relayFaults = 0 /\ due[m] /\ row[m] = "absent"
    BY DEF OutboxInit
  <2>4. QED
    BY <2>1, <2>2, <2>3 DEF Unwritten, PaidFor
<1>3. QED
  BY <1>1, <1>2 DEF OutboxInv

LEMMA ClaimKeeps ==
  ASSUME OutboxInv, NEW r \in Relays, Claim(r)
  PROVE  OutboxInv'
<1> DEFINE S == Batch(Claimable)
<1> USE DEF OutboxInv
<1>1. S \subseteq Claimable /\ S \subseteq Rows
  BY DEF Batch, Claimable
<1> HIDE DEF S
<1>2. batch[r] = {} /\ Lease(S) /\ UNCHANGED <<row, reply, copies>>
  BY DEF Claim, S
<1>3. reply[r] = "none"
  BY <1>2 DEF RepliesAreOfTheBatch, OutboxTypeOK
<1>4. due' = [m \in Rows |-> due[m] /\ m \notin S]
  BY <1>2 DEF Lease
<1>5. CASE batch' = [batch EXCEPT ![r] = S] /\ UNCHANGED relayFaults
  <2>1. OutboxTypeOK'
    BY <1>1, <1>2, <1>4, <1>5 DEF OutboxTypeOK
  <2>2. \A s \in Relays \ {r} : batch'[s] = batch[s] /\ reply'[s] = reply[s]
    BY <1>2, <1>5 DEF OutboxTypeOK
  <2>3. batch'[r] = S /\ reply'[r] = "none"
    BY <1>2, <1>3, <1>5 DEF OutboxTypeOK
  <2>4. RepliesAreOfTheBatch'
    BY <1>2, <2>2, <2>3 DEF RepliesAreOfTheBatch, Current
  <2>5. PublishedWasAccepted'
    BY <1>2 DEF PublishedWasAccepted
  <2>6. ASSUME NEW m \in Rows PROVE Unwritten(m)' /\ PaidFor(m)'
    <3>1. Cardinality(InHand(m)) \in Nat /\ Cardinality(InHand(m)') =
              Cardinality(InHand(m)) + (IF r \in InHand(m)' THEN 1 ELSE 0)
                                     - (IF r \in InHand(m) THEN 1 ELSE 0)
      BY <2>1, <2>2, OneCopyMore DEF OutboxTypeOK
    <3>2. r \notin InHand(m) /\ (r \in InHand(m)' <=> m \in S)
      BY <1>2, <2>3 DEF InHand, Holders
    <3>3. CASE m \in S
      <4>1. row[m] = "pending" /\ due[m] /\ ~ due'[m] /\ row'[m] = row[m]
        BY <1>1, <1>2, <1>4, <3>3 DEF Claimable
      <4>2. r \in Holders(m)'
        BY <2>3, <3>3 DEF Holders
      <4>3. copies[m] \in Nat /\ relayFaults \in Nat /\ copies'[m] = copies[m] /\ relayFaults' = relayFaults
        BY <1>2, <1>5 DEF OutboxTypeOK
      <4>4. QED
        BY <3>1, <3>2, <3>3, <4>1, <4>2, <4>3 DEF Unwritten, PaidFor, Waiting
    <3>4. CASE m \notin S
      <4>1. row'[m] = row[m] /\ due'[m] = due[m]
        BY <1>2, <1>4, <3>4 DEF OutboxTypeOK
      <4>2. Holders(m)' = Holders(m)
        BY <1>2, <2>2, <2>3, <3>4 DEF Holders
      <4>3. copies[m] \in Nat /\ relayFaults \in Nat /\ copies'[m] = copies[m] /\ relayFaults' = relayFaults
        BY <1>2, <1>5 DEF OutboxTypeOK
      <4>4. QED
        BY <3>1, <3>2, <3>4, <4>1, <4>2, <4>3 DEF Unwritten, PaidFor, Waiting
    <3>5. QED
      BY <3>3, <3>4
  <2>7. QED
    BY <2>1, <2>4, <2>5, <2>6
<1>6. CASE UNCHANGED batch /\ RelayFault
  <2>1. OutboxTypeOK' /\ relayFaults' = relayFaults + 1
    BY <1>2, <1>4, <1>6 DEF OutboxTypeOK, RelayFault
  <2>2. RepliesAreOfTheBatch' /\ PublishedWasAccepted'
    BY <1>2, <1>6 DEF RepliesAreOfTheBatch, Current, PublishedWasAccepted
  <2>3. ASSUME NEW m \in Rows PROVE Unwritten(m)' /\ PaidFor(m)'
    <3>1. InHand(m)' = InHand(m) /\ Holders(m)' = Holders(m)
      BY <1>2, <1>6 DEF InHand, Holders, Current
    <3>2. Cardinality(InHand(m)) \in Nat /\ copies[m] \in Nat /\ relayFaults \in Nat
      BY InHandIsFinite DEF OutboxTypeOK
    <3>3. row'[m] = row[m] /\ copies'[m] = copies[m] /\ due'[m] = (due[m] /\ m \notin S)
      BY <1>2, <1>4
    <3>4. m \in S => row[m] = "pending" /\ due[m]
      BY <1>1 DEF Claimable
    <3>5. due[m] \in BOOLEAN /\ due'[m] \in BOOLEAN
      BY <2>1 DEF OutboxTypeOK
    <3>6. QED
      BY <2>1, <3>1, <3>2, <3>3, <3>4, <3>5 DEF Unwritten, PaidFor, Waiting
  <2>4. QED
    BY <2>1, <2>2, <2>3
<1>7. QED
  BY <1>5, <1>6 DEF Claim, S

LEMMA PublishKeeps ==
  ASSUME OutboxInv, NEW r \in Relays, Publish(r)
  PROVE  OutboxInv'
<1> USE DEF OutboxInv
<1>1. /\ batch[r] # {} /\ reply[r] = "none"
      /\ UNCHANGED <<row, due, attempts, batch>>
  BY DEF Publish
<1>2. Current(r) \in batch[r] /\ Current(r) \in Rows /\ Current(r)' = Current(r)
  BY <1>1, CurrentIsHeld DEF OutboxTypeOK, Current
<1>3. \A s \in Relays : Current(s)' = Current(s)
  BY <1>1 DEF Current
<1>4. \A m \in Rows : copies'[m] \in Nat /\ copies'[m] >= copies[m]
  BY DEF Publish, OutboxTypeOK
<1>5. \A s \in Relays \ {r} : batch'[s] = batch[s] /\ reply'[s] = reply[s]
  BY <1>1 DEF Publish, OutboxTypeOK
<1>6. OutboxTypeOK'
  BY <1>1, <1>2 DEF Publish, OutboxTypeOK, RelayFault
<1>7. PublishedWasAccepted'
  BY <1>1, <1>4 DEF PublishedWasAccepted, OutboxTypeOK
<1>8. RepliesAreOfTheBatch'
  <2>1. ASSUME NEW s \in Relays \ {r}
        PROVE  /\ reply'[s] # "none" => batch'[s] # {}
               /\ reply'[s] = "confirmed" => copies'[Current(s)'] > 0
    <3>1. batch'[s] = batch[s] /\ reply'[s] = reply[s] /\ Current(s)' = Current(s)
      BY <1>3, <1>5
    <3>2. reply[s] # "none" => batch[s] # {}
      BY DEF RepliesAreOfTheBatch
    <3>3. ASSUME reply[s] = "confirmed" PROVE copies'[Current(s)] > 0
      <4>1. Current(s) \in Rows
        BY <3>2, <3>3, CurrentIsHeld DEF OutboxTypeOK
      <4>2. copies[Current(s)] > 0
        BY <3>3 DEF RepliesAreOfTheBatch
      <4>3. copies[Current(s)] \in Nat
        BY <4>1 DEF OutboxTypeOK
      <4>4. copies'[Current(s)] \in Nat /\ copies'[Current(s)] >= copies[Current(s)]
        BY <1>4, <4>1
      <4>5. QED
        BY <4>2, <4>3, <4>4
    <3>4. QED
      BY <3>1, <3>2, <3>3
  <2>2. reply'[r] = "confirmed" => copies'[Current(r)'] > 0
    <3>1. reply'[r] = "confirmed" => copies' = [copies EXCEPT ![Current(r)] = @ + 1]
      BY DEF Publish, OutboxTypeOK
    <3>2. copies[Current(r)] \in Nat /\ Current(r)' = Current(r)
      BY <1>2 DEF OutboxTypeOK
    <3>3. copies' = [copies EXCEPT ![Current(r)] = @ + 1] => copies'[Current(r)] = copies[Current(r)] + 1
      BY <1>2 DEF OutboxTypeOK
    <3>4. QED
      BY <3>1, <3>2, <3>3
  <2>3. QED
    BY <1>1, <2>1, <2>2 DEF RepliesAreOfTheBatch
<1>9. ASSUME NEW m \in Rows PROVE Unwritten(m)' /\ PaidFor(m)'
  <2>1. Cardinality(InHand(m)) \in Nat /\ Cardinality(InHand(m)') =
            Cardinality(InHand(m)) + (IF r \in InHand(m)' THEN 1 ELSE 0)
                                   - (IF r \in InHand(m) THEN 1 ELSE 0)
    BY <1>5, <1>6, OneCopyMore DEF OutboxTypeOK
  <2>2. /\ r \in InHand(m) <=> m \in batch[r]
        /\ r \in InHand(m)' <=> m \in batch[r] /\ ~ (Current(r) = m /\ reply'[r] = "confirmed")
    BY <1>1, <1>2 DEF InHand, Holders
  <2>3. Holders(m)' = Holders(m)
    BY <1>1 DEF Holders
  <2>4. copies[m] \in Nat /\ relayFaults \in Nat /\ row'[m] = row[m] /\ due'[m] = due[m]
    BY <1>1 DEF OutboxTypeOK
  <2>5. CASE m = Current(r)
    <3>1. \/ copies'[m] = copies[m] + 1 /\ reply'[r] = "confirmed" /\ relayFaults' = relayFaults
          \/ copies'[m] = copies[m] + 1 /\ reply'[r] = "failed" /\ relayFaults' = relayFaults + 1
          \/ copies'[m] = copies[m] /\ reply'[r] = "failed" /\ relayFaults' = relayFaults + 1
      BY <2>5 DEF Publish, OutboxTypeOK, RelayFault
    <3>2. r \in Holders(m) /\ m \in batch[r]
      BY <1>2, <2>5 DEF Holders
    <3>3. Waiting(m)' = Waiting(m)
      BY <2>4 DEF Waiting
    <3>4. row[m] # "absent"
      BY <3>2 DEF Unwritten
    <3>5. PaidFor(m)'
      <4> DEFINE w == IF Waiting(m) THEN 1 ELSE 0
                 h == Cardinality(InHand(m))
      <4>1. copies'[m] + Cardinality(InHand(m)') + (IF Waiting(m)' THEN 1 ELSE 0) <= 1 + relayFaults'
        <5>1. copies[m] + h + w <= 1 + relayFaults /\ h \in Nat /\ w \in 0 .. 1
          BY <2>1 DEF PaidFor
        <5>2. Cardinality(InHand(m)') = IF reply'[r] = "confirmed" THEN h - 1 ELSE h
          BY <2>1, <2>2, <2>5, <3>2
        <5>3. (IF Waiting(m)' THEN 1 ELSE 0) = w
          BY <3>3
        <5> HIDE DEF w, h
        <5>4. copies'[m] + Cardinality(InHand(m)') + w <= 1 + relayFaults'
          BY <2>4, <3>1, <5>1, <5>2
        <5>5. QED
          BY <5>3, <5>4
      <4>2. QED
        BY <2>3, <3>2, <4>1 DEF PaidFor
    <3>6. QED
      BY <2>4, <3>4, <3>5 DEF Unwritten
  <2>6. CASE m # Current(r)
    <3>1. copies'[m] = copies[m] /\ relayFaults' \in {relayFaults, relayFaults + 1}
      BY <2>6 DEF Publish, OutboxTypeOK, RelayFault
    <3>2. Cardinality(InHand(m)') = Cardinality(InHand(m))
      BY <2>1, <2>2, <2>6
    <3>3. QED
      BY <2>1, <2>3, <2>4, <3>1, <3>2 DEF Unwritten, PaidFor, Waiting
  <2>7. QED
    BY <2>5, <2>6
<1>10. QED
  BY <1>6, <1>7, <1>8, <1>9

(* What the end of a row does to a relay's batch. *)
LEMMA NextRowDoes ==
  ASSUME OutboxTypeOK, RepliesAreOfTheBatch, NEW r \in Relays, reply[r] # "none", NextRow(r)
  PROVE  /\ Current(r) \in batch[r] /\ Current(r) \in Rows
         /\ batch' \in [Relays -> SUBSET Rows]
         /\ reply' \in [Relays -> {"none", "confirmed", "failed"}]
         /\ batch'[r] = batch[r] \ {Current(r)} /\ reply'[r] = "none"
         /\ \A s \in Relays \ {r} : batch'[s] = batch[s] /\ reply'[s] = reply[s]
         /\ \A s \in Relays : reply'[s] # "none" =>
              /\ s # r /\ reply'[s] = reply[s]
              /\ batch'[s] = batch[s] /\ Current(s)' = Current(s)
<1>1. batch[r] # {} /\ batch[r] \subseteq Rows
  BY DEF RepliesAreOfTheBatch, OutboxTypeOK
<1>2. Current(r) \in batch[r] /\ Current(r) \in Rows
  BY <1>1, CurrentIsHeld
<1>3. QED
  BY <1>2 DEF NextRow, OutboxTypeOK, Current

LEMMA MarkPublishedKeeps ==
  ASSUME OutboxInv, NEW r \in Relays, MarkPublished(r)
  PROVE  OutboxInv'
<1> USE DEF OutboxInv
<1>1. reply[r] = "confirmed" /\ NextRow(r) /\ UNCHANGED <<due, attempts, copies>>
  BY DEF MarkPublished
<1>2. /\ Current(r) \in batch[r] /\ Current(r) \in Rows
      /\ batch' \in [Relays -> SUBSET Rows]
      /\ reply' \in [Relays -> {"none", "confirmed", "failed"}]
      /\ batch'[r] = batch[r] \ {Current(r)} /\ reply'[r] = "none"
      /\ \A s \in Relays \ {r} : batch'[s] = batch[s] /\ reply'[s] = reply[s]
      /\ \A s \in Relays : reply'[s] # "none" =>
              /\ s # r /\ reply'[s] = reply[s]
              /\ batch'[s] = batch[s] /\ Current(s)' = Current(s)
  BY <1>1, NextRowDoes
<1>3. \/ /\ row' = [row EXCEPT ![Current(r)] = IF @ = "deleted" THEN @ ELSE "published"]
         /\ relayFaults' = relayFaults
      \/ row' = row /\ relayFaults' = relayFaults + 1
  BY DEF MarkPublished, RelayFault
<1>4. OutboxTypeOK'
  BY <1>1, <1>2, <1>3 DEF OutboxTypeOK
<1>5. RepliesAreOfTheBatch'
  BY <1>1, <1>2 DEF RepliesAreOfTheBatch
<1>6. copies[Current(r)] > 0
  BY <1>1 DEF RepliesAreOfTheBatch
<1>7. PublishedWasAccepted'
  <2> SUFFICES ASSUME NEW m \in Rows, row'[m] \in {"published", "deleted"}
               PROVE  copies[m] > 0
    BY <1>1 DEF PublishedWasAccepted
  <2>1. m = Current(r) \/ row'[m] = row[m]
    BY <1>3 DEF OutboxTypeOK
  <2>2. QED
    BY <1>6, <2>1 DEF PublishedWasAccepted
<1>8. ASSUME NEW m \in Rows PROVE Unwritten(m)' /\ PaidFor(m)'
  <2>1. Cardinality(InHand(m)) \in Nat /\ Cardinality(InHand(m)') =
            Cardinality(InHand(m)) + (IF r \in InHand(m)' THEN 1 ELSE 0)
                                   - (IF r \in InHand(m) THEN 1 ELSE 0)
    BY <1>2, OneCopyMore DEF OutboxTypeOK
  <2>2. r \in InHand(m)' <=> r \in InHand(m)
    BY <1>1, <1>2 DEF InHand, Holders
  <2>3. Cardinality(InHand(m)') = Cardinality(InHand(m))
    BY <2>1, <2>2
  <2>4. /\ copies[m] \in Nat /\ copies'[m] = copies[m] /\ due'[m] = due[m]
        /\ relayFaults \in Nat
    BY <1>1 DEF OutboxTypeOK
  <2>5. CASE m = Current(r)
    <3>1. row[m] # "absent"
      BY <1>2, <2>5 DEF Unwritten, Holders
    <3>2. row'[m] \in {"published", "deleted"} \/ (row'[m] = row[m] /\ relayFaults' = relayFaults + 1)
      BY <1>3, <2>5 DEF OutboxTypeOK
    <3>3. QED
      BY <2>1, <2>3, <2>4, <3>1, <3>2, <1>3 DEF Unwritten, PaidFor, Waiting
  <2>6. CASE m # Current(r)
    <3>1. row'[m] = row[m]
      BY <1>3, <2>6 DEF OutboxTypeOK
    <3>2. Holders(m)' = Holders(m)
      BY <1>2, <2>6 DEF Holders
    <3>3. QED
      BY <2>1, <2>3, <2>4, <3>1, <3>2, <1>3 DEF Unwritten, PaidFor, Waiting
  <2>7. QED
    BY <2>5, <2>6
<1>9. QED
  BY <1>4, <1>5, <1>7, <1>8

LEMMA MarkFailedKeeps ==
  ASSUME OutboxInv, NEW r \in Relays, MarkFailed(r)
  PROVE  OutboxInv'
<1> USE DEF OutboxInv
<1>1. reply[r] = "failed" /\ NextRow(r) /\ UNCHANGED <<row, attempts, copies, relayFaults>>
  BY DEF MarkFailed
<1>2. /\ Current(r) \in batch[r] /\ Current(r) \in Rows
      /\ batch' \in [Relays -> SUBSET Rows]
      /\ reply' \in [Relays -> {"none", "confirmed", "failed"}]
      /\ batch'[r] = batch[r] \ {Current(r)} /\ reply'[r] = "none"
      /\ \A s \in Relays \ {r} : batch'[s] = batch[s] /\ reply'[s] = reply[s]
      /\ \A s \in Relays : reply'[s] # "none" =>
              /\ s # r /\ reply'[s] = reply[s]
              /\ batch'[s] = batch[s] /\ Current(s)' = Current(s)
  BY <1>1, NextRowDoes
<1>3. due' = [due EXCEPT ![Current(r)] = FALSE] \/ due' = due
  BY DEF MarkFailed
<1>4. OutboxTypeOK'
  BY <1>1, <1>2, <1>3 DEF OutboxTypeOK
<1>5. RepliesAreOfTheBatch'
  BY <1>1, <1>2 DEF RepliesAreOfTheBatch
<1>6. PublishedWasAccepted'
  BY <1>1 DEF PublishedWasAccepted
<1>7. ASSUME NEW m \in Rows PROVE Unwritten(m)' /\ PaidFor(m)'
  <2>1. Cardinality(InHand(m)) \in Nat /\ Cardinality(InHand(m)') =
            Cardinality(InHand(m)) + (IF r \in InHand(m)' THEN 1 ELSE 0)
                                   - (IF r \in InHand(m) THEN 1 ELSE 0)
    BY <1>2, OneCopyMore DEF OutboxTypeOK
  <2>2. /\ copies[m] \in Nat /\ copies'[m] = copies[m] /\ row'[m] = row[m]
        /\ relayFaults \in Nat /\ relayFaults' = relayFaults
    BY <1>1 DEF OutboxTypeOK
  <2>3. CASE m = Current(r)
    <3>1. row[m] # "absent"
      BY <1>2, <2>3 DEF Unwritten, Holders
    <3>2. r \in InHand(m) /\ r \notin InHand(m)'
      BY <1>1, <1>2, <2>3 DEF InHand, Holders
    <3>3. due'[m] => due[m]
      BY <1>3, <2>3 DEF OutboxTypeOK
    <3>4. Waiting(m)' => Waiting(m)
      BY <2>2, <3>3 DEF Waiting
    <3>5. /\ copies[m] + Cardinality(InHand(m)) + (IF Waiting(m) THEN 1 ELSE 0) <= 1 + relayFaults
          /\ Cardinality(InHand(m)') = Cardinality(InHand(m)) - 1
          /\ Cardinality(InHand(m)') \in Nat
      BY <2>1, <3>2, InHandIsFiniteNext DEF PaidFor
    <3>6. /\ copies[m] + Cardinality(InHand(m)') + (IF Waiting(m)' THEN 1 ELSE 0) <= 1 + relayFaults
          /\ copies[m] <= relayFaults
      <4> DEFINE w == IF Waiting(m) THEN 1 ELSE 0
                 v == IF Waiting(m)' THEN 1 ELSE 0
      <4>1. w \in 0 .. 1 /\ v \in 0 .. 1 /\ v <= w
        BY <3>4
      <4>2. copies[m] + Cardinality(InHand(m)) + w <= 1 + relayFaults
        BY <3>5
      <4> HIDE DEF w, v
      <4>3. copies[m] + Cardinality(InHand(m)') + v <= 1 + relayFaults /\ copies[m] <= relayFaults
        BY <2>1, <2>2, <3>5, <4>1, <4>2
      <4>4. QED
        BY <4>3 DEF v
    <3>7. PaidFor(m)'
      BY <2>2, <3>6 DEF PaidFor
    <3>8. QED
      BY <2>2, <3>1, <3>7 DEF Unwritten
  <2>4. CASE m # Current(r)
    <3>1. due'[m] = due[m]
      BY <1>3, <2>4 DEF OutboxTypeOK
    <3>2. Holders(m)' = Holders(m)
      BY <1>2, <2>4 DEF Holders
    <3>3. r \in InHand(m)' <=> r \in InHand(m)
      BY <1>2, <2>4 DEF InHand, Holders
    <3>4. Cardinality(InHand(m)') = Cardinality(InHand(m))
      BY <2>1, <3>3
    <3>5. QED
      BY <2>2, <3>1, <3>2, <3>4 DEF Unwritten, PaidFor, Waiting
  <2>5. QED
    BY <2>3, <2>4
<1>8. QED
  BY <1>4, <1>5, <1>6, <1>7

LEMMA RelayCrashKeeps ==
  ASSUME OutboxInv, NEW r \in Relays, RelayCrash(r)
  PROVE  OutboxInv'
<1> USE DEF OutboxInv
<1>1. /\ batch' = [batch EXCEPT ![r] = {}] /\ reply' = [reply EXCEPT ![r] = "none"]
      /\ relayFaults' = relayFaults + 1 /\ UNCHANGED <<row, due, attempts, copies>>
  BY DEF RelayCrash, RelayFault
<1>2. OutboxTypeOK'
  BY <1>1 DEF OutboxTypeOK
<1>3. /\ batch'[r] = {} /\ reply'[r] = "none"
      /\ \A s \in Relays \ {r} : batch'[s] = batch[s] /\ reply'[s] = reply[s]
  BY <1>1 DEF OutboxTypeOK
<1>4. RepliesAreOfTheBatch' /\ PublishedWasAccepted'
  BY <1>1, <1>3 DEF RepliesAreOfTheBatch, Current, PublishedWasAccepted
<1>5. ASSUME NEW m \in Rows PROVE Unwritten(m)' /\ PaidFor(m)'
  <2>1. Cardinality(InHand(m)) \in Nat /\ Cardinality(InHand(m)') =
            Cardinality(InHand(m)) + (IF r \in InHand(m)' THEN 1 ELSE 0)
                                   - (IF r \in InHand(m) THEN 1 ELSE 0)
    BY <1>2, <1>3, OneCopyMore DEF OutboxTypeOK
  <2>2. r \notin InHand(m)' /\ Holders(m)' \subseteq Holders(m)
    BY <1>3 DEF InHand, Holders
  <2>3. /\ copies[m] \in Nat /\ copies'[m] = copies[m] /\ row'[m] = row[m]
        /\ relayFaults \in Nat /\ due'[m] = due[m] /\ relayFaults' = relayFaults + 1
    BY <1>1 DEF OutboxTypeOK
  <2>4. Cardinality(InHand(m)') <= Cardinality(InHand(m)) /\ Cardinality(InHand(m)') \in Nat
    BY <2>1, <2>2, InHandIsFiniteNext
  <2>5. Unwritten(m)'
    BY <2>2, <2>3 DEF Unwritten
  <2>6. Waiting(m)' = Waiting(m)
    BY <2>3 DEF Waiting
  <2>7. copies[m] + Cardinality(InHand(m)) + (IF Waiting(m) THEN 1 ELSE 0) <= 1 + relayFaults
    BY DEF PaidFor
  <2>8. /\ copies[m] + Cardinality(InHand(m)') + (IF Waiting(m)' THEN 1 ELSE 0) <= 1 + relayFaults'
        /\ copies[m] <= relayFaults'
    BY <2>1, <2>3, <2>4, <2>6, <2>7
  <2>9. PaidFor(m)'
    BY <2>3, <2>8 DEF PaidFor
  <2>10. QED
    BY <2>5, <2>9
<1>6. QED
  BY <1>2, <1>4, <1>5

(* Steps of the clock, of the writers and of the retention move no relay. *)
LEMMA RowStep ==
  ASSUME OutboxInv, NEW n \in Rows,
         \/ EnqueueTx(n) \/ BecomesDue(n) \/ LeaseOverrun(n) \/ DeletePublished(n)
  PROVE  OutboxInv'
<1> USE DEF OutboxInv
<1>1. UNCHANGED <<attempts, batch, reply, copies>>
  BY DEF EnqueueTx, BecomesDue, LeaseOverrun, DeletePublished
<1>2. OutboxTypeOK'
  <2>1. /\ \/ row' = row \/ row' = [row EXCEPT ![n] = "pending"] \/ row' = [row EXCEPT ![n] = "deleted"]
        /\ due' = due \/ due' = [due EXCEPT ![n] = TRUE]
        /\ relayFaults' \in {relayFaults, relayFaults + 1}
    BY DEF EnqueueTx, BecomesDue, LeaseOverrun, DeletePublished, RelayFault
  <2>2. row' \in [Rows -> {"absent", "pending", "published", "deleted"}]
    BY <2>1 DEF OutboxTypeOK
  <2>3. due' \in [Rows -> BOOLEAN]
    BY <2>1 DEF OutboxTypeOK
  <2>4. QED
    BY <1>1, <2>1, <2>2, <2>3 DEF OutboxTypeOK
<1>3. RepliesAreOfTheBatch'
  BY <1>1 DEF RepliesAreOfTheBatch, Current
<1>4. PublishedWasAccepted'
  BY <1>1 DEF PublishedWasAccepted, OutboxTypeOK, EnqueueTx, BecomesDue, LeaseOverrun, DeletePublished
<1>5. ASSUME NEW m \in Rows PROVE Unwritten(m)' /\ PaidFor(m)'
  <2>1. InHand(m)' = InHand(m) /\ Holders(m)' = Holders(m)
    BY <1>1 DEF InHand, Holders, Current
  <2>2. Cardinality(InHand(m)) \in Nat /\ copies[m] \in Nat /\ relayFaults \in Nat /\ copies'[m] = copies[m]
    BY <1>1, InHandIsFinite DEF OutboxTypeOK
  <2>3. CASE m # n
    <3>1. row'[m] = row[m] /\ due'[m] = due[m] /\ relayFaults' \in {relayFaults, relayFaults + 1}
      BY <2>3 DEF OutboxTypeOK, EnqueueTx, BecomesDue, LeaseOverrun, DeletePublished, RelayFault
    <3>2. QED
      BY <2>1, <2>2, <3>1 DEF Unwritten, PaidFor, Waiting
  <2>4. CASE m = n /\ EnqueueTx(n)
    <3>1. row[m] = "absent" /\ row'[m] = "pending" /\ due'[m] = due[m] /\ relayFaults' = relayFaults
      BY <2>4 DEF EnqueueTx, OutboxTypeOK
    <3>2. QED
      BY <2>1, <2>2, <3>1 DEF Unwritten, PaidFor, Waiting
  <2>5. CASE m = n /\ BecomesDue(n)
    <3>1. /\ row[m] = "pending" /\ row'[m] = "pending" /\ ~ due[m] /\ due'[m]
          /\ Holders(m) = {} /\ relayFaults' = relayFaults
      BY <2>5 DEF BecomesDue, OutboxTypeOK
    <3>2. InHand(m) = {}
      BY <3>1 DEF InHand
    <3>3. Cardinality(InHand(m)) = 0
      BY <3>2, FS_EmptySet
    <3>4. QED
      BY <2>1, <2>2, <3>1, <3>3 DEF Unwritten, PaidFor, Waiting
  <2>6. CASE m = n /\ LeaseOverrun(n)
    <3>1. /\ row[m] = "pending" /\ row'[m] = "pending" /\ ~ due[m] /\ due'[m]
          /\ relayFaults' = relayFaults + 1
      BY <2>6 DEF LeaseOverrun, OutboxTypeOK, RelayFault
    <3>2. QED
      BY <2>1, <2>2, <3>1 DEF Unwritten, PaidFor, Waiting
  <2>7. CASE m = n /\ DeletePublished(n)
    <3>1. row'[m] = "deleted" /\ row[m] = "published" /\ due'[m] = due[m] /\ relayFaults' = relayFaults
      BY <2>7 DEF DeletePublished, OutboxTypeOK
    <3>2. QED
      BY <2>1, <2>2, <3>1 DEF Unwritten, PaidFor, Waiting
  <2>8. QED
    BY <2>3, <2>4, <2>5, <2>6, <2>7
<1>6. QED
  BY <1>2, <1>3, <1>4, <1>5

LEMMA OutboxStutterKeeps == ASSUME OutboxInv, UNCHANGED outbox PROVE OutboxInv'
<1> USE DEF OutboxInv, outbox
<1>1. OutboxTypeOK' /\ RepliesAreOfTheBatch' /\ PublishedWasAccepted'
  BY DEF OutboxTypeOK, RepliesAreOfTheBatch, Current, PublishedWasAccepted
<1>2. ASSUME NEW m \in Rows PROVE Unwritten(m)' /\ PaidFor(m)'
  <2>1. InHand(m)' = InHand(m) /\ Holders(m)' = Holders(m)
    BY DEF InHand, Holders, Current
  <2>2. QED
    BY <2>1 DEF Unwritten, PaidFor, Waiting
<1>3. QED
  BY <1>1, <1>2

LEMMA OutboxStepKeeps == OutboxInv /\ [OutboxNext]_outbox => OutboxInv'
<1> SUFFICES ASSUME OutboxInv, [OutboxNext]_outbox PROVE OutboxInv'
  OBVIOUS
<1>1. ASSUME NEW r \in Relays, Round(r) \/ RelayCrash(r) PROVE OutboxInv'
  BY <1>1, ClaimKeeps, PublishKeeps, MarkPublishedKeeps, MarkFailedKeeps, RelayCrashKeeps DEF Round
<1>2. ASSUME NEW m \in Rows, EnqueueTx(m) \/ BecomesDue(m) \/ LeaseOverrun(m) \/ DeletePublished(m)
      PROVE  OutboxInv'
  BY <1>2, RowStep
<1>3. QED
  BY <1>1, <1>2, OutboxStutterKeeps DEF OutboxNext
-----------------------------------------------------------------------------
(* The invariant that the theorems below follow from. *)
THEOREM OutboxInvariant == OutboxSpec => []OutboxInv
<1>1. QED
  BY OutboxInitInv, OutboxStepKeeps, PTL DEF OutboxSpec

(* MarkPublished: whatever relays die or outlive their leases, a row is    *)
(* marked and deleted only when the broker has its message.                *)
THEOREM NothingIsMarkedUnsent == OutboxSpec => []PublishedWasAccepted
<1>1. OutboxInv => PublishedWasAccepted
  BY DEF OutboxInv
<1>2. QED
  BY <1>1, OutboxInvariant, PTL

(* Claim: the lease keeps any number of relays apart, so a message goes    *)
(* out once, and once more for each fault.                                 *)
THEOREM EveryCopyIsPaidFor == OutboxSpec => []CopiesArePaidFor
<1>1. OutboxInv => CopiesArePaidFor
  <2> SUFFICES ASSUME OutboxInv, NEW m \in Rows PROVE copies[m] <= 1 + relayFaults
    BY DEF CopiesArePaidFor
  <2>1. copies[m] + Cardinality(InHand(m)) + (IF Waiting(m) THEN 1 ELSE 0) <= 1 + relayFaults
    BY DEF OutboxInv, PaidFor
  <2>2. Cardinality(InHand(m)) \in Nat /\ copies[m] \in Nat /\ relayFaults \in Nat
    BY InHandIsFinite DEF OutboxInv, OutboxTypeOK
  <2>3. QED
    BY <2>1, <2>2
<1>2. QED
  BY <1>1, OutboxInvariant, PTL

HIDE OutboxAssumption

(***************************************************************************)
(* The queue and its consumers.                                            *)
(***************************************************************************)

Stages == {"idle", "begin", "inserted", "applied", "done", "failed"}

ConsumerTypeOK ==
  /\ held \in [Consumers -> Messages \union {NoMessage}]
  /\ lost \in [Consumers -> BOOLEAN]
  /\ stage \in [Consumers -> Stages]
  /\ attempt \in [Consumers -> Nat]
  /\ stopping \in [Consumers -> BOOLEAN]
  /\ \A c \in Consumers : stage[c] = "idle" <=> held[c] = NoMessage

BrokerTypeOK ==
  /\ arrived \in [Messages -> Nat] /\ queue \in [Messages -> Nat] /\ dlq \in [Messages -> Nat]
  /\ replaying \in Messages \union {NoMessage}
  /\ replayed \in BOOLEAN
  /\ replayed => replaying # NoMessage

DatabaseTypeOK ==
  /\ inbox \in SUBSET Messages
  /\ effects \in [Messages -> Nat]
  /\ faults \in Nat /\ stops \in Nat /\ purges \in Nat

TypeOK == ConsumerTypeOK /\ BrokerTypeOK /\ DatabaseTypeOK

AtWork(c) == stage[c] \in {"inserted", "applied"}

(* Who inserted the inbox row of a message is alone with it, and found it  *)
(* absent.                                                                 *)
InboxExcludes ==
  /\ \A c \in Consumers : AtWork(c) => held[c] \notin inbox
  /\ \A c, d \in Consumers : AtWork(c) /\ AtWork(d) /\ held[c] = held[d] => c = d

(* What was done beyond the record that is kept was done under records     *)
(* that expired.                                                           *)
EffectsAreRecorded ==
  /\ \A m \in Messages : effects[m] <= purges \/ (m \in inbox /\ effects[m] <= 1 + purges)
  /\ \A m \in inbox : effects[m] > 0
  /\ \A c \in Consumers : stage[c] = "done" => held[c] \in inbox

(* Where the broker itself still has a message: not with a consumer whose  *)
(* connection is gone, nor with a replay that has published it again.      *)
Kept(m) ==
  \/ queue[m] > 0 \/ dlq[m] > 0
  \/ replaying = m /\ ~ replayed
  \/ \E c \in Consumers : held[c] = m /\ ~ lost[c]

BrokerKeeps == \A m \in Messages \ Unreadable : arrived[m] > 0 => effects[m] > 0 \/ Kept(m)

(* Nobody works on a message that cannot be read, and of one that is in    *)
(* somebody's hands the broker has a copy, unless it is recorded.          *)
InGoodHands == {m \in Readable : Kept(m) \/ m \in inbox}

HandsAreGood ==
  /\ \A c \in Consumers : held[c] # NoMessage => held[c] \in InGoodHands
  /\ replaying # NoMessage => replaying \in InGoodHands

ConsumerInv == TypeOK /\ InboxExcludes /\ EffectsAreRecorded /\ BrokerKeeps /\ HandsAreGood

USE ConsumerAssumption
-----------------------------------------------------------------------------
LEMMA ConsumerInitInv == Init => ConsumerInv
<1> SUFFICES ASSUME Init PROVE ConsumerInv
  OBVIOUS
<1>1. TypeOK
  <2>1. ConsumerTypeOK
    BY DEF Init, ConsumerTypeOK, Stages
  <2>2. BrokerTypeOK
    BY DEF Init, BrokerTypeOK
  <2>3. DatabaseTypeOK
    BY DEF Init, DatabaseTypeOK
  <2>4. QED
    BY <2>1, <2>2, <2>3 DEF TypeOK
<1>2. InboxExcludes /\ BrokerKeeps /\ HandsAreGood
  BY DEF Init, InboxExcludes, AtWork, BrokerKeeps, HandsAreGood
<1>3. EffectsAreRecorded
  BY DEF Init, EffectsAreRecorded
<1>4. QED
  BY <1>1, <1>2, <1>3 DEF ConsumerInv

(* A copy more or less of one message. *)
LEMMA Bag ==
  ASSUME NEW bag \in [Messages -> Nat], NEW m \in Messages
  PROVE  /\ Add(bag, m) \in [Messages -> Nat]
         /\ Add(bag, m)[m] = bag[m] + 1
         /\ \A n \in Messages \ {m} : Add(bag, m)[n] = bag[n]
         /\ bag[m] > 0 => Remove(bag, m) \in [Messages -> Nat]
         /\ \A n \in Messages \ {m} : Remove(bag, m)[n] = bag[n]
BY DEF Add, Remove

LEMMA AddKeeps ==
  ASSUME NEW bag \in [Messages -> Nat], NEW m \in Messages
  PROVE  /\ Add(bag, m) \in [Messages -> Nat]
         /\ \A n \in Messages : bag[n] > 0 \/ n = m => Add(bag, m)[n] > 0
BY DEF Add

(* A step of the broker alone, by which every message stays that was there.*)
LEMMA BrokerStep ==
  ASSUME ConsumerInv, BrokerTypeOK', UNCHANGED <<consumer, database, purges>>,
         faults' \in Nat, stops' \in Nat,
         \A m \in Messages \ Unreadable : arrived'[m] > 0 => arrived[m] > 0 \/ Kept(m)',
         \A m \in Messages \ Unreadable : Kept(m) => Kept(m)',
         replaying' \in {replaying, NoMessage} \/ (replaying' \in Readable /\ Kept(replaying)')
  PROVE  ConsumerInv'
<1> USE DEF ConsumerInv
<1>1. TypeOK'
  BY DEF TypeOK, ConsumerTypeOK, DatabaseTypeOK, consumer, database
<1>2. InboxExcludes' /\ EffectsAreRecorded'
  BY DEF InboxExcludes, AtWork, EffectsAreRecorded, consumer, database
<1>3. BrokerKeeps'
  BY DEF BrokerKeeps, database
<1>4. InGoodHands \subseteq InGoodHands'
  BY DEF InGoodHands, Readable, database
<1>5. HandsAreGood'
  <2>1. \A c \in Consumers : held'[c] # NoMessage => held'[c] \in InGoodHands'
    BY <1>4 DEF HandsAreGood, consumer
  <2>2. replaying' # NoMessage => replaying' \in InGoodHands'
    <3>1. CASE replaying' = replaying
      BY <1>4, <3>1 DEF HandsAreGood
    <3>2. CASE replaying' \in Readable /\ Kept(replaying)'
      BY <3>2 DEF InGoodHands
    <3>3. QED
      BY <3>1, <3>2
  <2>3. QED
    BY <2>1, <2>2 DEF HandsAreGood
<1>6. QED
  BY <1>1, <1>2, <1>3, <1>5

LEMMA ArriveKeeps ==
  ASSUME ConsumerInv, NEW m \in Messages, Arrive(m)
  PROVE  ConsumerInv'
<1> USE DEF ConsumerInv, TypeOK
<1>1. BrokerTypeOK'
  BY Bag DEF Arrive, BrokerTypeOK, replay
<1>2. \A n \in Messages : queue'[n] >= queue[n] /\ (n # m => arrived'[n] = arrived[n]) /\ queue'[m] > 0
  BY Bag DEF Arrive, BrokerTypeOK
<1>3. UNCHANGED <<dlq, consumer, database, replay, bounds>>
  BY DEF Arrive
<1>4. \A n \in Messages : (Kept(n) => Kept(n)') /\ (n = m => Kept(n)')
  BY <1>1, <1>2, <1>3 DEF Kept, consumer, replay, BrokerTypeOK
<1>5. UNCHANGED <<consumer, database, purges, faults, stops>> /\ faults \in Nat /\ stops \in Nat
  BY <1>3 DEF bounds, DatabaseTypeOK
<1>6. \A n \in Messages \ Unreadable : arrived'[n] > 0 => arrived[n] > 0 \/ Kept(n)'
  BY <1>2, <1>4
<1>7. replaying' = replaying
  BY <1>3 DEF replay
<1>8. QED
  BY <1>1, <1>4, <1>5, <1>6, <1>7, BrokerStep

LEMMA ReplayGetKeeps ==
  ASSUME ConsumerInv, NEW m \in Messages, ReplayGet(m)
  PROVE  ConsumerInv'
<1> USE DEF ConsumerInv, TypeOK
<1>1. dlq[m] > 0 /\ dlq' = Remove(dlq, m) /\ ~ replayed /\ UNCHANGED <<replayed, arrived, queue, consumer, database, bounds>>
  BY DEF ReplayGet, BrokerTypeOK
<1>2. BrokerTypeOK'
  BY <1>1, Bag DEF ReplayGet, BrokerTypeOK
<1>3. \A n \in Messages \ Unreadable : Kept(n) => Kept(n)'
  <2>1. \A n \in Messages : n # m => dlq'[n] = dlq[n]
    BY <1>1, Bag DEF BrokerTypeOK
  <2>2. ASSUME NEW n \in Messages \ Unreadable, Kept(n) PROVE Kept(n)'
    <3>1. CASE n = m
      BY <1>1, <3>1 DEF ReplayGet, Kept
    <3>2. CASE n # m
      BY <1>1, <2>1, <2>2, <3>2 DEF ReplayGet, Kept, consumer
    <3>3. QED
      BY <3>1, <3>2
  <2>3. QED
    BY <2>2
<1>4. replaying' = replaying \/ (replaying' \in Readable /\ Kept(replaying)')
  BY <1>1 DEF ReplayGet, Readable, Kept
<1>5. QED
  BY <1>1, <1>2, <1>3, <1>4, BrokerStep DEF bounds, DatabaseTypeOK

LEMMA ReplayKeeps ==
  ASSUME ConsumerInv, Replay
  PROVE  ConsumerInv'
<1> USE DEF ConsumerInv, TypeOK
<1>1. UNCHANGED <<arrived, consumer, database, purges>> /\ faults' \in Nat /\ stops' \in Nat
  BY DEF Replay, ReplayPublish, ReplayAck, Fault, bounds, DatabaseTypeOK
<1>2. replaying \in Messages
  BY DEF Replay, ReplayPublish, ReplayAck, BrokerTypeOK
<1> DEFINE r == replaying
<1>3. CASE replayed' = TRUE /\ queue' = Add(queue, r) /\ UNCHANGED <<dlq, replaying>>
  <2>1. BrokerTypeOK'
    BY <1>1, <1>2, <1>3, Bag DEF BrokerTypeOK
  <2>2. \A n \in Messages : queue[n] > 0 \/ n = r => queue'[n] > 0
    BY <1>2, <1>3, Bag DEF BrokerTypeOK
  <2>3. \A n \in Messages : Kept(n) => Kept(n)'
    BY <1>1, <1>3, <2>2 DEF Kept, consumer
  <2>4. QED
    BY <1>1, <1>3, <2>1, <2>3, BrokerStep
<1>4. ASSUME replaying' = NoMessage, replayed' = FALSE,
             queue' = queue \/ queue' = Add(queue, r),
             dlq' = Add(dlq, r) \/ (dlq' = dlq /\ replayed)
      PROVE  ConsumerInv'
  <2>1. queue' \in [Messages -> Nat] /\ \A n \in Messages : queue[n] > 0 => queue'[n] > 0
    <3>1. queue \in [Messages -> Nat] /\ r \in Messages
      BY <1>2 DEF BrokerTypeOK
    <3>2. CASE queue' = Add(queue, r)
      BY <3>1, <3>2, Bag
    <3>3. CASE queue' = queue
      BY <3>1, <3>3
    <3>4. QED
      BY <1>4, <3>2, <3>3
  <2>2. dlq' \in [Messages -> Nat] /\ \A n \in Messages : dlq[n] > 0 \/ (n = r /\ ~ replayed) => dlq'[n] > 0
    BY <1>2, <1>4, Bag DEF BrokerTypeOK
  <2>3. BrokerTypeOK'
    BY <1>1, <1>4, <2>1, <2>2 DEF BrokerTypeOK
  <2>4. \A n \in Messages : Kept(n) => Kept(n)'
    BY <1>1, <2>1, <2>2 DEF Kept, consumer
  <2>5. QED
    BY <1>1, <1>4, <2>3, <2>4, BrokerStep
<1>5. CASE ReplayPublish
  BY <1>3, <1>4, <1>5 DEF ReplayPublish, BrokerTypeOK
<1>6. CASE ReplayAck
  BY <1>4, <1>6 DEF ReplayAck
<1>7. QED
  BY <1>5, <1>6 DEF Replay
-----------------------------------------------------------------------------
(* A consumer goes on with its delivery. *)
LEMMA StageStep ==
  ASSUME ConsumerInv, NEW c \in Consumers, NEW s \in Stages \ {"idle"},
         held[c] # NoMessage,
         stage' = [stage EXCEPT ![c] = s], attempt' \in [Consumers -> Nat],
         UNCHANGED <<held, lost, stopping, broker, database, replay, purges>>,
         faults' \in Nat, stops' \in Nat,
         s \in {"inserted", "applied"} =>
           held[c] \notin inbox /\ \A d \in Consumers \ {c} : AtWork(d) => held[d] # held[c],
         s = "done" => held[c] \in inbox
  PROVE  ConsumerInv'
<1> USE DEF ConsumerInv, TypeOK
<1>1. \A d \in Consumers : stage'[d] = IF d = c THEN s ELSE stage[d]
  BY DEF ConsumerTypeOK
<1>2. ConsumerTypeOK'
  BY <1>1 DEF ConsumerTypeOK
<1>3. BrokerTypeOK' /\ DatabaseTypeOK'
  BY DEF BrokerTypeOK, DatabaseTypeOK, broker, database, replay
<1>4. InboxExcludes'
  BY <1>1 DEF InboxExcludes, AtWork, database
<1>5. EffectsAreRecorded'
  BY <1>1 DEF EffectsAreRecorded, database
<1>6. BrokerKeeps' /\ HandsAreGood'
  BY DEF BrokerKeeps, HandsAreGood, InGoodHands, Kept, broker, database, replay
<1>7. QED
  BY <1>2, <1>3, <1>4, <1>5, <1>6

LEMMA TryAgainDoes ==
  ASSUME ConsumerTypeOK, NEW c \in Consumers, TryAgain(c)
  PROVE  /\ stage' = [stage EXCEPT ![c] = "begin"] \/ stage' = [stage EXCEPT ![c] = "failed"]
         /\ attempt' \in [Consumers -> Nat]
         /\ UNCHANGED <<held, lost, stopping>>
BY DEF TryAgain, ConsumerTypeOK

LEMMA FaultDoes ==
  ASSUME DatabaseTypeOK, NEW c \in Consumers, FaultOrCancelled(c) \/ Fault \/ UNCHANGED bounds
  PROVE  UNCHANGED purges /\ faults' \in Nat /\ stops' \in Nat
BY DEF FaultOrCancelled, Fault, bounds, DatabaseTypeOK

LEMMA MarkProcessedKeeps ==
  ASSUME ConsumerInv, NEW c \in Consumers, MarkProcessedTx(c)
  PROVE  ConsumerInv'
<1> USE DEF ConsumerInv, TypeOK
<1>1. held[c] # NoMessage /\ UNCHANGED <<held, lost, attempt, stopping, broker, database, replay, bounds>>
  BY DEF MarkProcessedTx, ConsumerTypeOK, GoTo
<1>2. CASE held[c] \in inbox /\ stage' = [stage EXCEPT ![c] = "done"]
  <2>1. QED
    BY <1>1, <1>2, StageStep DEF bounds, DatabaseTypeOK, ConsumerTypeOK, Stages
<1>3. CASE held[c] \notin inbox /\ Inserting(held[c]) = {} /\ stage' = [stage EXCEPT ![c] = "inserted"]
  <2>1. \A d \in Consumers : AtWork(d) => held[d] # held[c]
    BY <1>3 DEF Inserting, AtWork
  <2>2. QED
    BY <1>1, <1>3, <2>1, StageStep DEF bounds, DatabaseTypeOK, ConsumerTypeOK, Stages
<1>4. QED
  BY <1>2, <1>3 DEF MarkProcessedTx, GoTo

LEMMA ApplyKeeps ==
  ASSUME ConsumerInv, NEW c \in Consumers, Apply(c)
  PROVE  ConsumerInv'
<1> USE DEF ConsumerInv, TypeOK
<1>1. /\ held[c] # NoMessage /\ UNCHANGED <<held, lost, attempt, stopping, broker, database, replay, bounds>>
      /\ stage' = [stage EXCEPT ![c] = "applied"] /\ AtWork(c)
  BY DEF Apply, ConsumerTypeOK, GoTo, AtWork
<1>2. held[c] \notin inbox /\ \A d \in Consumers \ {c} : AtWork(d) => held[d] # held[c]
  BY <1>1 DEF InboxExcludes
<1>3. QED
  BY <1>1, <1>2, StageStep DEF bounds, DatabaseTypeOK, ConsumerTypeOK, Stages

LEMMA FailKeeps ==
  ASSUME ConsumerInv, NEW c \in Consumers, Fail(c)
  PROVE  ConsumerInv'
<1> USE DEF ConsumerInv, TypeOK
<1>1. held[c] # NoMessage /\ UNCHANGED <<broker, database, replay>>
  BY DEF Fail, ConsumerTypeOK
<1>2. UNCHANGED purges /\ faults' \in Nat /\ stops' \in Nat
  BY FaultDoes DEF Fail
<1>3. /\ stage' = [stage EXCEPT ![c] = "begin"] \/ stage' = [stage EXCEPT ![c] = "failed"]
      /\ attempt' \in [Consumers -> Nat]
      /\ UNCHANGED <<held, lost, stopping>>
  BY TryAgainDoes DEF Fail
<1>4. QED
  BY <1>1, <1>2, <1>3, StageStep DEF Stages

(* The one step that does the work: it finds no record, and leaves one. *)
LEMMA CommitKeeps ==
  ASSUME ConsumerInv, NEW c \in Consumers, Commit(c)
  PROVE  ConsumerInv'
<1> USE DEF ConsumerInv, TypeOK
<1> DEFINE m == held[c]
<1>1. AtWork(c) /\ m \in Messages /\ m \notin inbox /\ stage[c] = "applied"
  BY DEF Commit, AtWork, ConsumerTypeOK, InboxExcludes
<1>2. UNCHANGED <<held, lost, stopping, broker, replay, purges>> /\ faults' \in Nat /\ stops' \in Nat /\ attempt' \in [Consumers -> Nat]
  BY FaultDoes, TryAgainDoes DEF Commit, GoTo, ConsumerTypeOK
<1>3. PICK s \in {"done", "begin", "failed"} : stage' = [stage EXCEPT ![c] = s]
  BY TryAgainDoes DEF Commit, GoTo
<1>4. \A d \in Consumers : stage'[d] = IF d = c THEN s ELSE stage[d]
  BY <1>3 DEF ConsumerTypeOK
<1>5. /\ inbox' = inbox \union {m}
      /\ effects' \in [Messages -> Nat] /\ effects'[m] = effects[m] + 1
      /\ \A n \in Messages \ {m} : effects'[n] = effects[n]
  BY <1>1, Bag DEF Commit, CommitEffect, DatabaseTypeOK
<1>6. ConsumerTypeOK'
  BY <1>2, <1>3, <1>4, <1>1 DEF ConsumerTypeOK, Stages
<1>7. BrokerTypeOK' /\ DatabaseTypeOK'
  BY <1>1, <1>2, <1>5 DEF BrokerTypeOK, DatabaseTypeOK, broker, replay
<1>8. InboxExcludes'
  BY <1>1, <1>2, <1>4, <1>5 DEF InboxExcludes, AtWork
<1>9. EffectsAreRecorded'
  <2>1. \A n \in Messages : effects'[n] <= purges' \/ (n \in inbox' /\ effects'[n] <= 1 + purges')
    BY <1>1, <1>2, <1>5 DEF EffectsAreRecorded, DatabaseTypeOK
  <2>2. \A n \in inbox' : effects'[n] > 0
    BY <1>1, <1>5 DEF EffectsAreRecorded, DatabaseTypeOK
  <2>3. \A d \in Consumers : stage'[d] = "done" => held'[d] \in inbox'
    BY <1>2, <1>4, <1>5 DEF EffectsAreRecorded
  <2>4. QED
    BY <2>1, <2>2, <2>3 DEF EffectsAreRecorded
<1>10. BrokerKeeps'
  <2>1. \A n \in Messages : (Kept(n) => Kept(n)') /\ arrived'[n] = arrived[n]
    BY <1>2 DEF Kept, broker, replay
  <2>2. \A n \in Messages : effects[n] > 0 => effects'[n] > 0
    BY <1>1, <1>5 DEF DatabaseTypeOK
  <2>3. QED
    BY <2>1, <2>2 DEF BrokerKeeps
<1>11. HandsAreGood'
  BY <1>2, <1>5 DEF HandsAreGood, InGoodHands, Kept, broker, replay
<1>12. QED
  BY <1>6, <1>7, <1>8, <1>9, <1>10, <1>11

(* A consumer lets go of its delivery, which is done with or back in the   *)
(* broker.                                                                 *)
LEMMA IdleStep ==
  ASSUME ConsumerInv, NEW c \in Consumers, Idle(c), held[c] # NoMessage, BrokerTypeOK',
         UNCHANGED <<arrived, database, replay, purges>>, faults' \in Nat, stops' \in Nat,
         \A m \in Messages : (queue[m] > 0 => queue'[m] > 0) /\ (dlq[m] > 0 => dlq'[m] > 0),
         held[c] \in inbox \/ lost[c] \/ queue'[held[c]] > 0 \/ dlq'[held[c]] > 0
  PROVE  ConsumerInv'
<1> USE DEF ConsumerInv, TypeOK
<1>1. \A d \in Consumers : /\ stage'[d] = IF d = c THEN "idle" ELSE stage[d]
                           /\ held'[d] = IF d = c THEN NoMessage ELSE held[d]
  BY DEF Idle, ConsumerTypeOK
<1>2. ConsumerTypeOK' /\ DatabaseTypeOK' /\ UNCHANGED lost
  BY <1>1 DEF Idle, ConsumerTypeOK, Stages, DatabaseTypeOK, database
<1>3. InboxExcludes'
  BY <1>1 DEF InboxExcludes, AtWork, database
<1>4. EffectsAreRecorded'
  BY <1>1 DEF EffectsAreRecorded, database
<1>5. \A m \in Messages : Kept(m) => Kept(m)' \/ m \in inbox
  <2>1. ASSUME NEW m \in Messages, Kept(m), m \notin inbox PROVE Kept(m)'
    <3>1. CASE m = held[c] /\ ~ lost[c]
      BY <2>1, <3>1 DEF Kept
    <3>2. CASE \E d \in Consumers : held[d] = m /\ ~ lost[d] /\ d # c
      BY <1>1, <1>2, <3>2 DEF Kept
    <3>3. CASE queue[m] > 0 \/ dlq[m] > 0 \/ (replaying = m /\ ~ replayed)
      BY <3>3 DEF Kept, replay
    <3>4. QED
      BY <2>1, <3>1, <3>2, <3>3 DEF Kept
  <2>2. QED
    BY <2>1
<1>6. BrokerKeeps'
  BY <1>5 DEF BrokerKeeps, EffectsAreRecorded, database
<1>7. HandsAreGood'
  <2>1. InGoodHands \subseteq InGoodHands'
    BY <1>5 DEF InGoodHands, Readable, database
  <2>2. QED
    BY <1>1, <2>1 DEF HandsAreGood, replay
<1>8. QED
  BY <1>2, <1>3, <1>4, <1>6, <1>7

LEMMA AckKeeps ==
  ASSUME ConsumerInv, NEW c \in Consumers, Ack(c)
  PROVE  ConsumerInv'
<1> USE DEF ConsumerInv, TypeOK
<1>1. held[c] # NoMessage /\ held[c] \in inbox
  BY DEF Ack, ConsumerTypeOK, EffectsAreRecorded
<1>2. Idle(c) /\ UNCHANGED <<broker, database, replay, bounds>>
  BY DEF Ack
<1>3. BrokerTypeOK'
  BY <1>2 DEF BrokerTypeOK, broker, replay
<1>4. QED
  BY <1>1, <1>2, <1>3, IdleStep DEF broker, bounds, DatabaseTypeOK

LEMMA NackKeeps ==
  ASSUME ConsumerInv, NEW c \in Consumers, Nack(c)
  PROVE  ConsumerInv'
<1> USE DEF ConsumerInv, TypeOK
<1>1. held[c] \in Messages
  BY DEF Nack, ConsumerTypeOK
<1>2. Idle(c) /\ UNCHANGED <<arrived, queue, database, replay, bounds>> /\ dlq' = IF lost[c] THEN dlq ELSE Add(dlq, held[c])
  BY DEF Nack
<1>3. /\ dlq' \in [Messages -> Nat]
      /\ \A m \in Messages : dlq[m] > 0 => dlq'[m] > 0
      /\ lost[c] \/ dlq'[held[c]] > 0
  <2>1. CASE lost[c]
    BY <1>2, <2>1 DEF BrokerTypeOK
  <2>2. CASE ~ lost[c]
    BY <1>1, <1>2, <2>2, AddKeeps DEF BrokerTypeOK
  <2>3. QED
    BY <2>1, <2>2
<1>4. BrokerTypeOK'
  BY <1>2, <1>3 DEF BrokerTypeOK, replay
<1>5. held[c] # NoMessage /\ UNCHANGED purges /\ faults' \in Nat /\ stops' \in Nat
  BY <1>1, <1>2 DEF bounds, DatabaseTypeOK
<1>6. QED
  BY <1>2, <1>3, <1>4, <1>5, IdleStep

LEMMA CrashKeeps ==
  ASSUME ConsumerInv, NEW c \in Consumers, Crash(c)
  PROVE  ConsumerInv'
<1> USE DEF ConsumerInv, TypeOK
<1>1. held[c] \in Messages
  BY DEF Crash, ConsumerTypeOK
<1>2. Idle(c) /\ UNCHANGED <<arrived, dlq, database, replay>> /\ queue' = IF lost[c] THEN queue ELSE Add(queue, held[c])
  BY DEF Crash
<1>3. /\ queue' \in [Messages -> Nat]
      /\ \A m \in Messages : queue[m] > 0 => queue'[m] > 0
      /\ lost[c] \/ queue'[held[c]] > 0
  <2>1. CASE lost[c]
    BY <1>2, <2>1 DEF BrokerTypeOK
  <2>2. CASE ~ lost[c]
    BY <1>1, <1>2, <2>2, AddKeeps DEF BrokerTypeOK
  <2>3. QED
    BY <2>1, <2>2
<1>4. BrokerTypeOK'
  BY <1>2, <1>3 DEF BrokerTypeOK, replay
<1>5. held[c] # NoMessage /\ UNCHANGED purges /\ faults' \in Nat /\ stops' \in Nat
  BY <1>1, FaultDoes DEF Crash
<1>6. QED
  BY <1>2, <1>3, <1>4, <1>5, IdleStep

LEMMA DeliverKeeps ==
  ASSUME ConsumerInv, NEW c \in Consumers, NEW m \in Messages, Deliver(c, m)
  PROVE  ConsumerInv'
<1> USE DEF ConsumerInv, TypeOK
<1>1. /\ stage[c] = "idle" /\ held[c] = NoMessage /\ queue[m] > 0
      /\ queue' \in [Messages -> Nat] /\ \A n \in Messages \ {m} : queue'[n] = queue[n]
      /\ UNCHANGED <<arrived, database, replay, bounds>>
  BY Bag DEF Deliver, ConsumerTypeOK, BrokerTypeOK
<1>2. CASE m \in Unreadable
  <2>1. dlq' \in [Messages -> Nat] /\ (\A n \in Messages \ {m} : dlq'[n] = dlq[n]) /\ UNCHANGED consumer
    BY <1>1, <1>2, Bag DEF Deliver, BrokerTypeOK
  <2>2. BrokerTypeOK'
    BY <1>1, <2>1 DEF BrokerTypeOK, replay
  <2>3. \A n \in Messages \ Unreadable : Kept(n) => Kept(n)'
    BY <1>1, <1>2, <2>1 DEF Kept, consumer, replay
  <2>4. faults' \in Nat /\ stops' \in Nat /\ UNCHANGED <<purges, replaying>>
    BY <1>1 DEF bounds, DatabaseTypeOK, replay
  <2>5. QED
    BY <1>1, <2>1, <2>2, <2>3, <2>4, BrokerStep
<1>3. CASE m \notin Unreadable
  <2>1. /\ UNCHANGED <<stopping, dlq>>
        /\ held' = [held EXCEPT ![c] = m] /\ lost' = [lost EXCEPT ![c] = FALSE]
    BY <1>3 DEF Deliver
  <2>2. PICK s \in {"begin", "failed"} : stage' = [stage EXCEPT ![c] = s]
    BY <1>3 DEF Deliver
  <2>3. attempt' \in [Consumers -> Nat]
    BY <1>3 DEF Deliver, ConsumerTypeOK
  <2>4. \A d \in Consumers : /\ stage'[d] = IF d = c THEN s ELSE stage[d]
                             /\ held'[d] = IF d = c THEN m ELSE held[d]
                             /\ lost'[d] = IF d = c THEN FALSE ELSE lost[d]
    BY <2>1, <2>2 DEF ConsumerTypeOK
  <2>5. ConsumerTypeOK'
    BY <2>1, <2>2, <2>3, <2>4 DEF ConsumerTypeOK, Stages
  <2>6. BrokerTypeOK' /\ DatabaseTypeOK'
    BY <1>1, <2>1 DEF BrokerTypeOK, DatabaseTypeOK, database, replay, bounds
  <2>7. InboxExcludes' /\ EffectsAreRecorded'
    <3>1. inbox' = inbox /\ effects' = effects /\ purges' = purges
      BY <1>1 DEF database, bounds
    <3>2. \A d \in Consumers : /\ AtWork(d)' <=> AtWork(d) /\ d # c
                               /\ stage'[d] = "done" <=> stage[d] = "done" /\ d # c
                               /\ d # c => held'[d] = held[d]
      BY <1>1, <2>4 DEF AtWork
    <3>3. InboxExcludes'
      BY <3>1, <3>2 DEF InboxExcludes
    <3>4. EffectsAreRecorded'
      BY <3>1, <3>2 DEF EffectsAreRecorded
    <3>5. QED
      BY <3>3, <3>4
  <2>8. \A n \in Messages : Kept(n) => Kept(n)'
    BY <1>1, <2>1, <2>4 DEF Kept, replay
  <2>9. BrokerKeeps'
    BY <1>1, <2>8 DEF BrokerKeeps, database
  <2>10. HandsAreGood'
    <3>1. InGoodHands \subseteq InGoodHands'
      BY <1>1, <2>8 DEF InGoodHands, Readable, database
    <3>2. m \in InGoodHands'
      BY <1>3, <2>4 DEF InGoodHands, Kept, Readable
    <3>3. \A d \in Consumers : held'[d] # NoMessage => held'[d] \in InGoodHands'
      BY <2>4, <3>1, <3>2 DEF HandsAreGood
    <3>4. replaying' # NoMessage => replaying' \in InGoodHands'
      BY <1>1, <3>1 DEF HandsAreGood, replay
    <3>5. QED
      BY <3>3, <3>4 DEF HandsAreGood
  <2>11. QED
    BY <2>5, <2>6, <2>7, <2>9, <2>10
<1>4. QED
  BY <1>2, <1>3

LEMMA DisconnectKeeps ==
  ASSUME ConsumerInv, NEW c \in Consumers, Disconnect(c)
  PROVE  ConsumerInv'
<1> USE DEF ConsumerInv, TypeOK
<1>1. /\ held[c] \in Messages /\ UNCHANGED <<held, stage, attempt, stopping, arrived, dlq, database, replay>>
      /\ queue' = Add(queue, held[c]) /\ lost' = [lost EXCEPT ![c] = TRUE]
  BY DEF Disconnect, ConsumerTypeOK
<1>2. UNCHANGED purges /\ faults' \in Nat /\ stops' \in Nat
  BY FaultDoes DEF Disconnect
<1>3. queue' \in [Messages -> Nat] /\ \A n \in Messages : queue[n] > 0 \/ n = held[c] => queue'[n] > 0
  BY <1>1, AddKeeps DEF BrokerTypeOK
<1>4. ConsumerTypeOK' /\ BrokerTypeOK' /\ DatabaseTypeOK'
  BY <1>1, <1>2, <1>3 DEF ConsumerTypeOK, BrokerTypeOK, DatabaseTypeOK, database, replay
<1>5. InboxExcludes' /\ EffectsAreRecorded'
  BY <1>1, <1>2 DEF InboxExcludes, AtWork, EffectsAreRecorded, database
<1>6. \A n \in Messages : Kept(n) => Kept(n)'
  <2>1. \A d \in Consumers : d # c => lost'[d] = lost[d]
    BY <1>1 DEF ConsumerTypeOK
  <2>2. QED
    BY <1>1, <1>3, <2>1 DEF Kept, replay
<1>7. BrokerKeeps'
  BY <1>1, <1>6 DEF BrokerKeeps, database
<1>8. HandsAreGood'
  <2>1. InGoodHands \subseteq InGoodHands'
    BY <1>1, <1>6 DEF InGoodHands, Readable, database
  <2>2. QED
    BY <1>1, <2>1 DEF HandsAreGood, replay
<1>9. QED
  BY <1>4, <1>5, <1>7, <1>8

LEMMA StopKeeps ==
  ASSUME ConsumerInv, NEW c \in Consumers, Stop(c) \/ Restart(c)
  PROVE  ConsumerInv'
<1> USE DEF ConsumerInv, TypeOK
<1>1. UNCHANGED <<held, lost, stage, attempt, broker, database, replay, purges>> /\ faults' \in Nat /\ stops' \in Nat
  BY DEF Stop, Restart, bounds, DatabaseTypeOK
<1>2. ConsumerTypeOK'
  BY <1>1 DEF Stop, Restart, ConsumerTypeOK
<1>3. BrokerTypeOK' /\ DatabaseTypeOK'
  BY <1>1 DEF BrokerTypeOK, DatabaseTypeOK, broker, database, replay
<1>4. InboxExcludes' /\ EffectsAreRecorded'
  BY <1>1 DEF InboxExcludes, AtWork, EffectsAreRecorded, database
<1>5. BrokerKeeps' /\ HandsAreGood'
  BY <1>1 DEF BrokerKeeps, HandsAreGood, InGoodHands, Kept, broker, database, replay
<1>6. QED
  BY <1>2, <1>3, <1>4, <1>5

(* A record expires only when nobody is at work on its message. *)
LEMMA DeleteProcessedKeeps ==
  ASSUME ConsumerInv, NEW m \in Messages, DeleteProcessed(m)
  PROVE  ConsumerInv'
<1> USE DEF ConsumerInv, TypeOK
<1>1. /\ m \in inbox /\ inbox' = inbox \ {m} /\ purges' = purges + 1
      /\ UNCHANGED <<effects, consumer, broker, replay, faults, stops>>
  BY DEF DeleteProcessed
<1>2. ConsumerTypeOK' /\ BrokerTypeOK' /\ DatabaseTypeOK'
  BY <1>1 DEF ConsumerTypeOK, BrokerTypeOK, DatabaseTypeOK, consumer, broker, replay
<1>3. InboxExcludes'
  BY <1>1 DEF InboxExcludes, AtWork, consumer
<1>4. EffectsAreRecorded'
  <2>1. \A c \in Consumers : stage'[c] = "done" => held'[c] \in inbox'
    BY <1>1 DEF DeleteProcessed, EffectsAreRecorded, consumer
  <2>2. QED
    BY <1>1, <2>1 DEF EffectsAreRecorded, DatabaseTypeOK
<1>5. BrokerKeeps'
  BY <1>1 DEF BrokerKeeps, Kept, consumer, broker, replay
<1>6. HandsAreGood'
  BY <1>1 DEF HandsAreGood, InGoodHands, Kept, DeleteProcessed, consumer, broker, replay
<1>7. QED
  BY <1>2, <1>3, <1>4, <1>5, <1>6
-----------------------------------------------------------------------------
LEMMA ConsumerStepKeeps == ConsumerInv /\ [Next]_vars => ConsumerInv'
<1> SUFFICES ASSUME ConsumerInv, [Next]_vars PROVE ConsumerInv'
  OBVIOUS
<1>1. CASE UNCHANGED vars
  BY <1>1, BrokerStep DEF vars, replay, broker, bounds, ConsumerInv, TypeOK, BrokerTypeOK, DatabaseTypeOK, Kept, consumer
<1>2. CASE Next
  BY <1>2, ArriveKeeps, ReplayGetKeeps, DeleteProcessedKeeps, DeliverKeeps, MarkProcessedKeeps, ApplyKeeps,
     CommitKeeps, FailKeeps, AckKeeps, NackKeeps, DisconnectKeeps, CrashKeeps, StopKeeps, ReplayKeeps
     DEF Next, Handle
<1>3. QED
  BY <1>1, <1>2

THEOREM ConsumerInvariant == Spec => []ConsumerInv
<1>1. QED
  BY ConsumerInitInv, ConsumerStepKeeps, PTL DEF Spec

(* handleOnce does the work of a message once for each time its record in  *)
(* the inbox expired, and once more: whatever is delivered twice, retried  *)
(* after a commit that was taken for a failure, or replayed.               *)
THEOREM OnceWhileRemembered == Spec => []EffectAtMostOncePerRecord
<1>1. ConsumerInv => EffectAtMostOncePerRecord
  BY DEF ConsumerInv, TypeOK, DatabaseTypeOK, EffectsAreRecorded, EffectAtMostOncePerRecord
<1>2. QED
  BY ConsumerInvariant, <1>1, PTL

(* No acknowledgement, dead letter, broken connection, shutdown or replay  *)
(* takes a message from the broker before its work is committed.           *)
THEOREM LeavesOnlyForTheDatabase == Spec => []NothingIsDropped
<1>1. ConsumerInv => NothingIsDropped
  BY DEF ConsumerInv, BrokerKeeps, Kept, NothingIsDropped, InBroker
<1>2. QED
  BY ConsumerInvariant, <1>1, PTL
-----------------------------------------------------------------------------
(* The consumers implement Delivery: every step is one of its steps, or    *)
(* none that Delivery can see.                                             *)

Promised == [Channel!Next]_(Channel!dvars)

(* The database and the dead letters stay, and the queue as it is seen. *)
LEMMA Unseen ==
  ASSUME UNCHANGED <<database, Queued, DeadLettered>>
  PROVE  Promised
BY DEF Promised, Channel!dvars, database

LEMMA StepOfTheChannel ==
  ASSUME NEW m \in Readable,
         \/ Channel!Publish(m) \/ Channel!Process(m) \/ Channel!Settle(m) \/ Channel!DeadLetter(m)
         \/ Channel!Replay(m) \/ Channel!Discard(m) \/ Channel!Forget(m)
  PROVE  Promised
BY DEF Promised, Channel!Next

LEMMA InitIsPromised == Init => Channel!Init
<1> SUFFICES ASSUME Init PROVE Channel!Init
  OBVIOUS
<1>1. Queued = {} /\ DeadLettered = {} /\ inbox \intersect Readable = {}
  BY DEF Init, Queued, DeadLettered, Readable
<1>2. [m \in Readable |-> effects[m]] = [m \in Readable |-> 0]
  BY DEF Init, Readable
<1>3. QED
  BY <1>1, <1>2 DEF Channel!Init

LEMMA ArriveIsPromised ==
  ASSUME ConsumerInv, NEW m \in Messages, Arrive(m)
  PROVE  Promised
<1>1. /\ queue'[m] > 0 /\ \A n \in Messages \ {m} : queue'[n] = queue[n]
      /\ UNCHANGED <<dlq, held, replaying, database>>
  BY Bag DEF Arrive, ConsumerInv, TypeOK, BrokerTypeOK, consumer, replay
<1>2. UNCHANGED DeadLettered
  BY <1>1 DEF DeadLettered
<1>3. CASE m \in Readable
  <2>1. Queued' = Queued \union {m}
    BY <1>1, <1>3 DEF Queued, Readable
  <2>2. Channel!Publish(m)
    BY <1>1, <1>2, <2>1 DEF Channel!Publish, database
  <2>3. QED
    BY <1>3, <2>2, StepOfTheChannel
<1>4. CASE m \notin Readable
  <2>1. UNCHANGED Queued
    BY <1>1, <1>4 DEF Queued, Readable
  <2>2. QED
    BY <1>1, <1>2, <2>1, Unseen
<1>5. QED
  BY <1>3, <1>4

(* A consumer that takes a delivery keeps it in sight. *)
LEMMA DeliverIsPromised ==
  ASSUME ConsumerInv, NEW c \in Consumers, NEW m \in Messages, Deliver(c, m)
  PROVE  Promised
<1>1. /\ queue[m] > 0 /\ \A n \in Messages \ {m} : queue'[n] = queue[n]
      /\ held[c] = NoMessage /\ UNCHANGED <<replaying, database>>
  BY Bag DEF Deliver, ConsumerInv, TypeOK, BrokerTypeOK, ConsumerTypeOK, replay
<1>2. CASE m \in Unreadable
  <2>1. (\A n \in Messages \ {m} : dlq'[n] = dlq[n]) /\ UNCHANGED held
    BY <1>2, Bag DEF Deliver, consumer, ConsumerInv, TypeOK, BrokerTypeOK
  <2>2. UNCHANGED <<Queued, DeadLettered>>
    BY <1>1, <1>2, <2>1 DEF Queued, DeadLettered, Readable
  <2>3. QED
    BY <1>1, <2>2, Unseen
<1>3. CASE m \notin Unreadable
  <2>1. UNCHANGED dlq /\ \A d \in Consumers : held'[d] = IF d = c THEN m ELSE held[d]
    BY <1>3 DEF Deliver, ConsumerInv, TypeOK, ConsumerTypeOK
  <2>2. \A n \in Readable : n \in Queued' <=> n \in Queued
    <3>1. ASSUME NEW n \in Readable, n # m PROVE n \in Queued' <=> n \in Queued
      <4>1. n # NoMessage /\ queue'[n] = queue[n]
        BY <1>1, <3>1 DEF Readable
      <4>2. QED
        BY <1>1, <2>1, <3>1, <4>1 DEF Queued
    <3>2. m \in Queued' /\ m \in Queued
      BY <1>1, <1>3, <2>1 DEF Queued, Readable
    <3>3. QED
      BY <3>1, <3>2
  <2>3. UNCHANGED Queued
    BY <2>2 DEF Queued
  <2>4. UNCHANGED DeadLettered
    BY <1>1, <2>1 DEF DeadLettered
  <2>5. QED
    BY <1>1, <2>3, <2>4, Unseen
<1>4. QED
  BY <1>2, <1>3

(* The commit of a transaction is the processing of its message. *)
LEMMA CommitIsPromised ==
  ASSUME ConsumerInv, NEW c \in Consumers, Commit(c)
  PROVE  Promised
<1>1. PICK m \in Readable : m = held[c] /\ m \in Messages /\ m \notin inbox
  BY DEF Commit, ConsumerInv, TypeOK, ConsumerTypeOK, InboxExcludes, AtWork, HandsAreGood, InGoodHands
<1>2. UNCHANGED <<held, broker, replay>> /\ CommitEffect(c)
  BY TryAgainDoes DEF Commit, GoTo, ConsumerInv, TypeOK
<1>3. UNCHANGED <<Queued, DeadLettered>>
  BY <1>2 DEF Queued, DeadLettered, broker, replay
<1>4. m \in Queued /\ m \notin inbox \intersect Readable
  BY <1>1 DEF Queued
<1>5. (inbox \intersect Readable)' = (inbox \intersect Readable) \union {m}
  BY <1>1, <1>2 DEF CommitEffect, Readable
<1>6. [n \in Readable |-> effects[n]]' = [[n \in Readable |-> effects[n]] EXCEPT ![m] = @ + 1]
  <2>1. effects' = [effects EXCEPT ![m] = @ + 1] /\ effects \in [Messages -> Nat]
    BY <1>1, <1>2 DEF CommitEffect, Add, ConsumerInv, TypeOK, DatabaseTypeOK
  <2>2. \A n \in Readable : effects'[n] = IF n = m THEN effects[m] + 1 ELSE effects[n]
    BY <2>1 DEF Readable
  <2>3. QED
    BY <1>1, <2>2 DEF Readable
<1>7. Channel!Process(m)
  BY <1>3, <1>4, <1>5, <1>6 DEF Channel!Process
<1>8. QED
  BY <1>1, <1>7, StepOfTheChannel

(* A consumer lets go of its delivery, which is recorded, dead lettered,   *)
(* or not the only copy.                                                   *)
LEMMA LettingGoIsPromised ==
  ASSUME ConsumerInv, NEW c \in Consumers, Idle(c), held[c] # NoMessage,
         UNCHANGED <<database, replaying>>,
         \A n \in Messages : /\ queue[n] > 0 => queue'[n] > 0
                             /\ queue'[n] > 0 => queue[n] > 0 \/ n = held[c],
         \/ dlq' = Add(dlq, held[c])
         \/ dlq' = dlq /\ (held[c] \in inbox \/ lost[c] \/ queue'[held[c]] > 0)
  PROVE  Promised
<1> DEFINE m == held[c]
<1>1. m \in Readable /\ m \in Messages /\ (Kept(m) \/ m \in inbox)
  BY DEF ConsumerInv, HandsAreGood, InGoodHands, Readable
<1>2. \A d \in Consumers : held'[d] = IF d = c THEN NoMessage ELSE held[d]
  BY DEF Idle, ConsumerInv, TypeOK, ConsumerTypeOK
<1>3. m \in Queued
  BY <1>1 DEF Queued
<1>4. Queued' \in {Queued, Queued \ {m}}
  <2>1. \A n \in Readable : n # m => (n \in Queued' <=> n \in Queued)
    BY <1>2 DEF Queued, Readable
  <2>2. Queued \subseteq Readable /\ Queued' \subseteq Readable
    BY DEF Queued
  <2>3. QED
    BY <1>1, <1>3, <2>1, <2>2
<1>5. CASE dlq' = Add(dlq, m)
  <2>1. dlq'[m] > 0 /\ \A n \in Messages \ {m} : dlq'[n] = dlq[n]
    BY <1>1, <1>5, Bag DEF ConsumerInv, TypeOK, BrokerTypeOK
  <2>2. DeadLettered' = DeadLettered \union {m}
    BY <1>1, <2>1 DEF DeadLettered, Readable
  <2>3. Channel!DeadLetter(m)
    BY <1>3, <1>4, <2>2 DEF Channel!DeadLetter, database
  <2>4. QED
    BY <1>1, <2>3, StepOfTheChannel
<1>6. CASE dlq' = dlq /\ (m \in inbox \/ lost[c] \/ queue'[m] > 0)
  <2>1. UNCHANGED DeadLettered
    BY <1>6 DEF DeadLettered
  <2>2. CASE m \in Queued'
    <3>1. UNCHANGED Queued
      BY <1>4, <2>2
    <3>2. QED
      BY <2>1, <3>1, Unseen
  <2>3. CASE m \notin Queued' /\ m \in inbox
    <3>1. Channel!Settle(m)
      BY <1>1, <1>3, <1>4, <2>1, <2>3 DEF Channel!Settle, database
    <3>2. QED
      BY <1>1, <3>1, StepOfTheChannel
  <2>4. CASE m \notin Queued' /\ m \notin inbox
    <3>1. lost[c] /\ Kept(m) /\ ~ (queue[m] > 0)
      BY <1>1, <1>6, <2>4 DEF Queued
    <3>2. \A d \in Consumers : ~ (held[d] = m /\ ~ lost[d])
      BY <1>1, <1>2, <2>4, <3>1 DEF Queued
    <3>3. m \in DeadLettered
      BY <1>1, <3>1, <3>2 DEF Kept, DeadLettered
    <3>4. Channel!DeadLetter(m)
      BY <1>3, <1>4, <2>1, <3>3 DEF Channel!DeadLetter, database
    <3>5. QED
      BY <1>1, <3>4, StepOfTheChannel
  <2>5. QED
    BY <2>2, <2>3, <2>4
<1>7. QED
  BY <1>5, <1>6

LEMMA HandsOffIsPromised ==
  ASSUME ConsumerInv, NEW c \in Consumers, Ack(c) \/ Nack(c) \/ Crash(c)
  PROVE  Promised
<1>1. Idle(c) /\ held[c] # NoMessage /\ held[c] \in Messages /\ UNCHANGED <<database, replaying>>
  BY DEF Ack, Nack, Crash, replay, ConsumerInv, TypeOK, ConsumerTypeOK
<1>2. CASE Ack(c)
  <2>1. held[c] \in inbox
    BY <1>2 DEF Ack, ConsumerInv, EffectsAreRecorded
  <2>2. QED
    BY <1>1, <1>2, <2>1, LettingGoIsPromised DEF Ack, broker
<1>3. CASE Nack(c)
  BY <1>1, <1>3, LettingGoIsPromised DEF Nack
<1>4. CASE Crash(c)
  <2>1. CASE lost[c]
    BY <1>1, <1>4, <2>1, LettingGoIsPromised DEF Crash
  <2>2. CASE ~ lost[c]
    <3>1. queue'[held[c]] > 0 /\ \A n \in Messages \ {held[c]} : queue'[n] = queue[n]
      BY <1>1, <1>4, <2>2, Bag DEF Crash, ConsumerInv, TypeOK, BrokerTypeOK
    <3>2. QED
      BY <1>1, <1>4, <3>1, LettingGoIsPromised DEF Crash
  <2>3. QED
    BY <2>1, <2>2
<1>5. QED
  BY <1>2, <1>3, <1>4

(* What goes on inside a consumer, or inside its transaction, or between   *)
(* it and the broker, is not seen.                                         *)
LEMMA InsideIsPromised ==
  ASSUME ConsumerInv, NEW c \in Consumers,
         MarkProcessedTx(c) \/ Apply(c) \/ Fail(c) \/ Stop(c) \/ Restart(c) \/ Disconnect(c)
  PROVE  Promised
<1>1. UNCHANGED <<held, dlq, replaying, database>>
  BY TryAgainDoes DEF MarkProcessedTx, Apply, Fail, Stop, Restart, Disconnect, GoTo, TryAgain, broker, replay
<1>2. UNCHANGED DeadLettered
  BY <1>1 DEF DeadLettered
<1>3. CASE ~ Disconnect(c)
  <2>1. UNCHANGED queue
    BY <1>3 DEF MarkProcessedTx, Apply, Fail, Stop, Restart, broker
  <2>2. QED
    BY <1>1, <1>2, <2>1, Unseen DEF Queued
<1>4. CASE Disconnect(c)
  <2>1. held[c] \in Messages /\ queue' = Add(queue, held[c])
    BY <1>4 DEF Disconnect, ConsumerInv, TypeOK, ConsumerTypeOK
  <2>2. /\ queue'[held[c]] > 0
        /\ \A n \in Messages \ {held[c]} : queue'[n] = queue[n]
    BY <2>1, Bag DEF ConsumerInv, TypeOK, BrokerTypeOK
  <2>3. UNCHANGED Queued
    BY <1>1, <2>2 DEF Queued, Readable
  <2>4. QED
    BY <1>1, <1>2, <2>3, Unseen
<1>5. QED
  BY <1>3, <1>4

(* A dead letter the replay takes stays a dead letter.                     *)
LEMMA ReplayGetIsPromised ==
  ASSUME ConsumerInv, NEW m \in Messages, ReplayGet(m)
  PROVE  Promised
<1>1. /\ dlq[m] > 0 /\ \A n \in Messages \ {m} : dlq'[n] = dlq[n]
      /\ replaying = NoMessage /\ (m \notin Unreadable => replaying' = m)
      /\ (m \in Unreadable => replaying' = NoMessage)
      /\ UNCHANGED <<queue, held, database>>
  BY Bag DEF ReplayGet, ConsumerInv, TypeOK, BrokerTypeOK, consumer
<1>2. UNCHANGED Queued
  BY <1>1 DEF Queued
<1>3. UNCHANGED DeadLettered
  BY <1>1 DEF DeadLettered, Readable
<1>4. QED
  BY <1>1, <1>2, <1>3, Unseen

(* It is a dead letter until it is queued again, and whatever acknowledges *)
(* it comes after that.                                                    *)
LEMMA ReplayIsPromised ==
  ASSUME ConsumerInv, Replay
  PROVE  Promised
<1> DEFINE r == replaying
<1>1. r \in Messages /\ r \in Readable /\ r \in InGoodHands
  BY DEF Replay, ReplayPublish, ReplayAck, ConsumerInv, TypeOK, BrokerTypeOK, HandsAreGood, InGoodHands
<1>2. r \in DeadLettered
  BY <1>1 DEF DeadLettered
<1>3. UNCHANGED <<held, database>>
  BY DEF Replay, ReplayPublish, ReplayAck, consumer
<1>4. CASE ReplayPublish
  <2>1. UNCHANGED queue \/ queue' = Add(queue, r)
    BY <1>4 DEF ReplayPublish
  <2>2. UNCHANGED <<dlq, replaying>> \/ (dlq' = Add(dlq, r) /\ replaying' = NoMessage)
    BY <1>4 DEF ReplayPublish
  <2>3. UNCHANGED DeadLettered
    <3>1. CASE UNCHANGED <<dlq, replaying>>
      BY <3>1 DEF DeadLettered
    <3>2. CASE dlq' = Add(dlq, r) /\ replaying' = NoMessage
      <4>1. dlq'[r] > 0 /\ \A n \in Messages \ {r} : dlq'[n] = dlq[n]
        BY <1>1, <3>2, Bag DEF ConsumerInv, TypeOK, BrokerTypeOK
      <4>2. QED
        BY <1>1, <3>2, <4>1 DEF DeadLettered, Readable
    <3>3. QED
      BY <2>2, <3>1, <3>2
  <2>4. CASE UNCHANGED queue
    BY <1>3, <2>3, <2>4, Unseen DEF Queued
  <2>5. CASE queue' = Add(queue, r)
    <3>1. queue'[r] > 0 /\ \A n \in Messages \ {r} : queue'[n] = queue[n]
      BY <1>1, <2>5, Bag DEF ConsumerInv, TypeOK, BrokerTypeOK
    <3>2. Queued' = Queued \union {r}
      BY <1>1, <1>3, <3>1 DEF Queued, Readable
    <3>3. Channel!Replay(r)
      BY <1>2, <1>3, <2>3, <3>2 DEF Channel!Replay, database
    <3>4. QED
      BY <1>1, <3>3, StepOfTheChannel
  <2>6. QED
    BY <2>1, <2>4, <2>5
<1>5. CASE ReplayAck
  <2>1. replayed /\ replaying' = NoMessage /\ UNCHANGED queue
    BY <1>5 DEF ReplayAck
  <2>2. UNCHANGED Queued
    BY <1>3, <2>1 DEF Queued
  <2>3. dlq'[r] >= dlq[r] /\ \A n \in Messages \ {r} : dlq'[n] = dlq[n]
    BY <1>1, <1>5, Bag DEF ReplayAck, ConsumerInv, TypeOK, BrokerTypeOK
  <2>4. dlq[r] \in Nat /\ dlq'[r] \in Int
    BY <1>1, <1>5, Bag DEF ReplayAck, ConsumerInv, TypeOK, BrokerTypeOK
  <2>5. CASE dlq'[r] > 0
    <3>1. UNCHANGED DeadLettered
      BY <1>1, <2>1, <2>3, <2>5 DEF DeadLettered, Readable
    <3>2. QED
      BY <1>3, <2>2, <3>1, Unseen
  <2>6. CASE ~ (dlq'[r] > 0)
    <3>1. DeadLettered' = DeadLettered \ {r}
      BY <1>1, <2>1, <2>3, <2>6 DEF DeadLettered, Readable
    <3>2. r \in Queued \union (inbox \intersect Readable)
      BY <1>1, <2>1, <2>3, <2>4, <2>6 DEF InGoodHands, Kept, Queued
    <3>3. Channel!Discard(r)
      BY <1>2, <1>3, <2>2, <3>1, <3>2 DEF Channel!Discard, database
    <3>4. QED
      BY <1>1, <3>3, StepOfTheChannel
  <2>7. QED
    BY <2>5, <2>6
<1>6. QED
  BY <1>4, <1>5 DEF Replay

LEMMA DeleteProcessedIsPromised ==
  ASSUME ConsumerInv, NEW m \in Messages, DeleteProcessed(m)
  PROVE  Promised
<1>1. /\ m \in inbox /\ queue[m] = 0 /\ (\A c \in Consumers : held[c] # m)
      /\ inbox' = inbox \ {m} /\ UNCHANGED <<effects, held, queue, dlq, replaying>>
  BY DEF DeleteProcessed, consumer, broker, replay
<1>2. UNCHANGED <<Queued, DeadLettered>>
  BY <1>1 DEF Queued, DeadLettered
<1>3. CASE m \in Readable
  <2>1. Channel!Forget(m)
    BY <1>1, <1>2, <1>3 DEF Channel!Forget, Queued
  <2>2. QED
    BY <1>3, <2>1, StepOfTheChannel
<1>4. CASE m \notin Readable
  BY <1>1, <1>2, <1>4 DEF Promised, Channel!dvars
<1>5. QED
  BY <1>3, <1>4

LEMMA StepIsPromised == ConsumerInv /\ [Next]_vars => Promised
<1> SUFFICES ASSUME ConsumerInv, [Next]_vars PROVE Promised
  OBVIOUS
<1>1. CASE UNCHANGED vars
  <2>1. UNCHANGED <<database, held, queue, dlq, replaying>>
    BY <1>1 DEF vars, consumer, broker, replay
  <2>2. QED
    BY <2>1, Unseen DEF Queued, DeadLettered
<1>2. CASE Next
  BY <1>2, ArriveIsPromised, ReplayGetIsPromised, DeleteProcessedIsPromised, DeliverIsPromised,
     CommitIsPromised, HandsOffIsPromised, InsideIsPromised, ReplayIsPromised DEF Next, Handle
<1>3. QED
  BY <1>1, <1>2

(* Whatever copies, replicas, broken connections, shutdowns and replays    *)
(* do, a message leaves the queue processed or as a dead letter, a dead    *)
(* letter goes when its message is queued again or processed, and the      *)
(* work of a message is done with its record in the inbox and only then.   *)
THEOREM ImplementsDelivery == Spec => DeliverySpec
<1>1. Spec => Channel!Init
  BY InitIsPromised DEF Spec
<1>2. Spec => [][Channel!Next]_(Channel!dvars)
  BY ConsumerInvariant, StepIsPromised, PTL DEF Spec, Promised
<1>3. QED
  BY <1>1, <1>2, PTL DEF DeliverySpec, Channel!Spec
=============================================================================
