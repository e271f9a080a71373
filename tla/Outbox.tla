------------------------------- MODULE Outbox -------------------------------
(***************************************************************************)
(* The outbox of a service and the relays that empty it.  A row is written *)
(* with the change it announces; a relay leases the rows that are due,     *)
(* publishes them one by one and marks each; a lease that runs out, or a   *)
(* backoff that has passed, makes a row due again.                         *)
(*                                                                         *)
(* Every statement on the database and every exchange with the broker is   *)
(* a step of its own, so relays of several replicas interleave, crash and  *)
(* outlive their leases between any two of them.                           *)
(***************************************************************************)
EXTENDS Integers, FiniteSets, FiniteSetsExt

CONSTANTS
  Rows,          \* outbox rows, named by their sequence number
  Relays,        \* one relay per replica of the service
  BatchSize,     \* rows claimed per round
  StalledAfter,  \* attempts after which a row is reported as stalled
  MaxRelayFaults \* bound: refusals, lost replies, crashes, overrun leases

ASSUME OutboxAssumption ==
  /\ Rows \subseteq Nat
  /\ IsFiniteSet(Relays)
  /\ BatchSize \in Nat \ {0}
  /\ StalledAfter \in Nat \ {0}
  /\ MaxRelayFaults \in Nat

VARIABLES
  row,       \* absent, pending, published (published_at set) or deleted
  due,       \* next_attempt_at <= now()
  attempts,  \* outbox_messages.attempts, counted up to StalledAfter
  batch,     \* rows a relay claimed and has not dealt with yet
  reply,     \* what the broker said of the relay's current row
  copies,    \* copies of the row's message the broker accepted
  relayFaults

outbox == <<row, due, attempts, batch, reply, copies, relayFaults>>

RelayFault == relayFaults < MaxRelayFaults /\ relayFaults' = relayFaults + 1

Holders(m) == {r \in Relays : m \in batch[r]}

(* Claimed rows are published in the order they were written. *)
Current(r) == Min(batch[r])

(* The relay is done with its current row, one way or the other. *)
NextRow(r) ==
  /\ batch' = [batch EXCEPT ![r] = @ \ {Current(r)}]
  /\ reply' = [reply EXCEPT ![r] = "none"]

OutboxInit ==
  /\ row = [m \in Rows |-> "absent"]
  /\ due = [m \in Rows |-> TRUE]
  /\ attempts = [m \in Rows |-> 0]
  /\ batch = [r \in Relays |-> {}]
  /\ reply = [r \in Relays |-> "none"]
  /\ copies = [m \in Rows |-> 0]
  /\ relayFaults = 0

(* The transaction that wrote the row commits; sequence numbers are handed *)
(* out before that, so rows can appear out of order.                       *)
EnqueueTx(m) ==
  /\ row[m] = "absent"
  /\ row' = [row EXCEPT ![m] = "pending"]
  /\ UNCHANGED <<due, attempts, batch, reply, copies, relayFaults>>

Claimable == {m \in Rows : row[m] = "pending" /\ due[m]}

(* ORDER BY sequence LIMIT BatchSize. *)
Batch(S) == {m \in S : Cardinality({n \in S : n < m}) < BatchSize}

Lease(S) ==
  /\ due' = [m \in Rows |-> due[m] /\ m \notin S]
  /\ attempts' = [m \in Rows |-> IF m \in S THEN Min({attempts[m] + 1, StalledAfter})
                                 ELSE attempts[m]]

(* Mutants: rows that failed for long are given up on; a claim does not     *)
(* push the next attempt into the future.                                  *)
ClaimWithoutLease(r) ==
  LET S == Batch(Claimable)
  IN /\ batch[r] = {} /\ S # {}
     /\ batch' = [batch EXCEPT ![r] = S]
     /\ UNCHANGED <<row, due, attempts, reply, copies, relayFaults>>

ClaimGivesUp(r) ==
  LET S == Batch({m \in Claimable : attempts[m] < StalledAfter})
  IN /\ batch[r] = {} /\ S # {}
     /\ Lease(S)
     /\ batch' = [batch EXCEPT ![r] = S]
     /\ UNCHANGED <<row, reply, copies, relayFaults>>

(* One UPDATE leases a batch; the relay may never see what it returned. *)
Claim(r) ==
  LET S == Batch(Claimable)
  IN /\ batch[r] = {} /\ S # {}
     /\ Lease(S)
     /\ \/ batch' = [batch EXCEPT ![r] = S] /\ UNCHANGED relayFaults
        \/ UNCHANGED batch /\ RelayFault
     /\ UNCHANGED <<row, reply, copies>>

(* The broker takes the message and confirms it, refuses it, or takes it   *)
(* and the confirmation is lost.                                           *)
Publish(r) ==
  /\ batch[r] # {} /\ reply[r] = "none"
  /\ \/ /\ copies' = [copies EXCEPT ![Current(r)] = @ + 1]
        /\ \/ reply' = [reply EXCEPT ![r] = "confirmed"] /\ UNCHANGED relayFaults
           \/ reply' = [reply EXCEPT ![r] = "failed"] /\ RelayFault
     \/ UNCHANGED copies /\ reply' = [reply EXCEPT ![r] = "failed"] /\ RelayFault
  /\ UNCHANGED <<row, due, attempts, batch>>

(* The row is marked if it is still there, whoever holds its lease by now; *)
(* or the mark is lost and the row will be published again.                *)
MarkPublished(r) ==
  /\ reply[r] = "confirmed"
  /\ NextRow(r)
  /\ \/ /\ row' = [row EXCEPT ![Current(r)] = IF @ = "deleted" THEN @ ELSE "published"]
        /\ UNCHANGED relayFaults
     \/ UNCHANGED row /\ RelayFault
  /\ UNCHANGED <<due, attempts, copies>>

(* Mutant: a row that failed is closed like one that went out. *)
MarkFailedForGood(r) ==
  /\ reply[r] = "failed"
  /\ NextRow(r)
  /\ row' = [row EXCEPT ![Current(r)] = IF @ = "deleted" THEN @ ELSE "published"]
  /\ UNCHANGED <<due, attempts, copies, relayFaults>>

(* A backoff starts, on the row as it is now; or recording it fails and    *)
(* the lease has to run out.                                               *)
MarkFailed(r) ==
  /\ reply[r] = "failed"
  /\ NextRow(r)
  /\ \/ due' = [due EXCEPT ![Current(r)] = FALSE]
     \/ UNCHANGED due
  /\ UNCHANGED <<row, attempts, copies, relayFaults>>

(* The replica dies, or is stopped between two rows. *)
RelayCrash(r) ==
  /\ batch[r] # {}
  /\ RelayFault
  /\ batch' = [batch EXCEPT ![r] = {}]
  /\ reply' = [reply EXCEPT ![r] = "none"]
  /\ UNCHANGED <<row, due, attempts, copies>>

(* The lease or the backoff of a row nobody holds runs out. *)
BecomesDue(m) ==
  /\ row[m] = "pending" /\ ~ due[m]
  /\ Holders(m) = {}
  /\ due' = [due EXCEPT ![m] = TRUE]
  /\ UNCHANGED <<row, attempts, batch, reply, copies, relayFaults>>

(* A relay is slower than its lease: its row is due under its feet. *)
LeaseOverrun(m) ==
  /\ row[m] = "pending" /\ ~ due[m]
  /\ Holders(m) # {}
  /\ RelayFault
  /\ due' = [due EXCEPT ![m] = TRUE]
  /\ UNCHANGED <<row, attempts, batch, reply, copies>>

(* The retention task removes a published row. *)
DeletePublished(m) ==
  /\ row[m] = "published"
  /\ row' = [row EXCEPT ![m] = "deleted"]
  /\ UNCHANGED <<due, attempts, batch, reply, copies, relayFaults>>

Round(r) == Claim(r) \/ Publish(r) \/ MarkPublished(r) \/ MarkFailed(r)

OutboxNext ==
  \/ \E r \in Relays : Round(r) \/ RelayCrash(r)
  \/ \E m \in Rows : EnqueueTx(m) \/ BecomesDue(m) \/ LeaseOverrun(m) \/ DeletePublished(m)

OutboxSpec == OutboxInit /\ [][OutboxNext]_outbox

(* Relays loop until the service stops, and start again with it; the clock *)
(* moves.  That faults are bounded says that an outage ends.               *)
OutboxFairSpec ==
  /\ OutboxSpec
  /\ \A r \in Relays : WF_outbox(Round(r))
  /\ \A m \in Rows : WF_outbox(BecomesDue(m))
-----------------------------------------------------------------------------
(* A row stops being pending only after the broker took its message, even  *)
(* when the relay that marks it is not the one holding its lease.          *)
PublishedWasAccepted ==
  \A m \in Rows : row[m] \in {"published", "deleted"} => copies[m] > 0

(* Leases keep relays apart: a message goes out again only on account of a *)
(* fault, at most once for each.                                           *)
CopiesArePaidFor == \A m \in Rows : copies[m] <= 1 + relayFaults

(* An outage delays a committed event and never loses it. *)
PendingIsEventuallyPublished ==
  \A m \in Rows : row[m] = "pending" ~> row[m] \in {"published", "deleted"}
=============================================================================
