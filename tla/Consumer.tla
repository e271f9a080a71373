------------------------------ MODULE Consumer ------------------------------
(***************************************************************************)
(* From the queue to an effect in the database: the consumers of a queue,  *)
(* one per replica, each handling one delivery at a time with bounded      *)
(* retries; the inbox that recognises what was applied before; the dead    *)
(* letter queue; and the operator who replays it.                          *)
(*                                                                         *)
(* The statements of a consumer's transaction are separate steps, so two   *)
(* copies of a message can be in two replicas at once, a connection can    *)
(* break under a transaction, a commit can succeed and be reported as      *)
(* failed, and the process can be stopped or die anywhere.                 *)
(***************************************************************************)
EXTENDS Integers, FiniteSets

CONSTANTS
  Messages,    \* messages of one queue
  Unreadable,  \* those whose id is not a uuid, published by something else
  Consumers,   \* replicas of the service
  Attempts,    \* attempts of the retry policy
  NoMessage,   \* stands for nothing held
  Copies,      \* bound: copies of each message that are published
  MaxFaults,   \* bound: failed statements, lost connections, crashes
  MaxStops,    \* bound: orderly shutdowns
  MaxPurges    \* bound: expired inbox records

ASSUME ConsumerAssumption ==
  /\ Unreadable \subseteq Messages
  /\ NoMessage \notin Messages
  /\ Attempts \in Nat \ {0}
  /\ Copies \in [Messages -> Nat]
  /\ MaxFaults \in Nat /\ MaxStops \in Nat /\ MaxPurges \in Nat

VARIABLES
  arrived,    \* copies of each message that reached the queue from a relay
  queue,      \* copies ready in the queue
  dlq,        \* copies in the dead letter queue
  held,       \* the delivery a consumer is working on
  lost,       \* the connection that delivery came from is gone
  stage,      \* where the consumer is in handleOnce
  attempt,    \* attempts of Retry made at this delivery
  stopping,   \* the consumer's context is cancelled
  inbox,      \* processed_messages, committed
  effects,    \* how many times the message's work was committed
  replaying,  \* the dead letter the operator's replay took
  replayed,   \* that dead letter has been published again
  faults, stops, purges

consumer == <<held, lost, stage, attempt, stopping>>
broker == <<arrived, queue, dlq>>
database == <<inbox, effects>>
replay == <<replaying, replayed>>
bounds == <<faults, stops, purges>>
vars == <<consumer, broker, database, replay, bounds>>

Fault == faults < MaxFaults /\ faults' = faults + 1 /\ UNCHANGED <<stops, purges>>

Add(bag, m) == [bag EXCEPT ![m] = @ + 1]
Remove(bag, m) == [bag EXCEPT ![m] = @ - 1]

Init ==
  /\ arrived = [m \in Messages |-> 0]
  /\ queue = [m \in Messages |-> 0]
  /\ dlq = [m \in Messages |-> 0]
  /\ held = [c \in Consumers |-> NoMessage]
  /\ lost = [c \in Consumers |-> FALSE]
  /\ stage = [c \in Consumers |-> "idle"]
  /\ attempt = [c \in Consumers |-> 0]
  /\ stopping = [c \in Consumers |-> FALSE]
  /\ inbox = {}
  /\ effects = [m \in Messages |-> 0]
  /\ replaying = NoMessage /\ replayed = FALSE
  /\ faults = 0 /\ stops = 0 /\ purges = 0

(* A relay, or for an unreadable message somebody else, publishes a copy. *)
Arrive(m) ==
  /\ arrived[m] < Copies[m]
  /\ arrived' = Add(arrived, m)
  /\ queue' = Add(queue, m)
  /\ UNCHANGED <<dlq, consumer, database, replay, bounds>>
-----------------------------------------------------------------------------
(* The consumer. *)

GoTo(c, s) == stage' = [stage EXCEPT ![c] = s] /\ UNCHANGED <<held, lost, attempt, stopping>>

(* The loop waits for a delivery and for its context at once, so it can    *)
(* still take a delivery after the context was cancelled: the first check  *)
(* of Retry fails such a delivery without trying.                          *)
Deliver(c, m) ==
  /\ stage[c] = "idle" /\ queue[m] > 0
  /\ queue' = Remove(queue, m)
  /\ IF m \in Unreadable
     THEN dlq' = Add(dlq, m) /\ UNCHANGED consumer
     ELSE /\ held' = [held EXCEPT ![c] = m]
          /\ lost' = [lost EXCEPT ![c] = FALSE]
          /\ stage' = [stage EXCEPT ![c] = IF stopping[c] THEN "failed" ELSE "begin"]
          /\ attempt' = [attempt EXCEPT ![c] = IF stopping[c] THEN 0 ELSE 1]
          /\ UNCHANGED <<stopping, dlq>>
  /\ UNCHANGED <<arrived, database, replay, bounds>>

(* A transaction that inserted the inbox row holds it until it ends. *)
Inserting(m) == {c \in Consumers : held[c] = m /\ stage[c] \in {"inserted", "applied"}}

(* Mutant: the inbox row is looked up and not inserted. *)
MarkProcessedUnlocked(c) ==
  /\ stage[c] = "begin" /\ ~ stopping[c]
  /\ IF held[c] \in inbox THEN GoTo(c, "done") ELSE GoTo(c, "inserted")
  /\ UNCHANGED <<broker, database, replay, bounds>>

(* INSERT ... ON CONFLICT DO NOTHING: waits for another transaction that   *)
(* is inserting the same row, and finds the message new or processed.      *)
MarkProcessedTx(c) ==
  /\ stage[c] = "begin" /\ ~ stopping[c]
  /\ \/ held[c] \in inbox /\ GoTo(c, "done")
     \/ held[c] \notin inbox /\ Inserting(held[c]) = {} /\ GoTo(c, "inserted")
  /\ UNCHANGED <<broker, database, replay, bounds>>

(* The handler does its work inside the transaction. *)
Apply(c) ==
  /\ stage[c] = "inserted" /\ ~ stopping[c]
  /\ GoTo(c, "applied")
  /\ UNCHANGED <<broker, database, replay, bounds>>

(* Retry: another attempt, or the delivery has failed for good. *)
TryAgain(c) ==
  /\ IF attempt[c] < Attempts /\ ~ stopping[c]
     THEN /\ stage' = [stage EXCEPT ![c] = "begin"]
          /\ attempt' = [attempt EXCEPT ![c] = @ + 1]
     ELSE stage' = [stage EXCEPT ![c] = "failed"] /\ UNCHANGED attempt
  /\ UNCHANGED <<held, lost, stopping>>

(* The statement failed, or was cancelled with the context. *)
FaultOrCancelled(c) == IF stopping[c] THEN UNCHANGED bounds ELSE Fault

CommitEffect(c) ==
  /\ inbox' = inbox \union {held[c]}
  /\ effects' = Add(effects, held[c])

(* Mutant: the inbox row is committed by itself, before the work. *)
CommitInboxOnly(c) ==
  /\ stage[c] = "applied"
  /\ \/ ~ stopping[c] /\ GoTo(c, "done") /\ CommitEffect(c) /\ UNCHANGED bounds
     \/ TryAgain(c) /\ inbox' = inbox \union {held[c]} /\ UNCHANGED effects /\ FaultOrCancelled(c)
  /\ UNCHANGED <<broker, replay>>

(* The commit succeeds, or it succeeds and is reported as an error. *)
Commit(c) ==
  /\ stage[c] = "applied"
  /\ CommitEffect(c)
  /\ \/ ~ stopping[c] /\ GoTo(c, "done") /\ UNCHANGED bounds
     \/ TryAgain(c) /\ FaultOrCancelled(c)
  /\ UNCHANGED <<broker, replay>>

(* A statement fails and the transaction is rolled back. *)
Fail(c) ==
  /\ stage[c] \in {"begin", "inserted", "applied"}
  /\ TryAgain(c)
  /\ FaultOrCancelled(c)
  /\ UNCHANGED <<broker, database, replay>>

Idle(c) ==
  /\ held' = [held EXCEPT ![c] = NoMessage]
  /\ stage' = [stage EXCEPT ![c] = "idle"]
  /\ UNCHANGED <<lost, attempt, stopping>>

(* An acknowledgement over a connection that is gone reaches nobody, and   *)
(* its error is ignored.                                                   *)
Ack(c) ==
  /\ stage[c] = "done"
  /\ Idle(c)
  /\ UNCHANGED <<broker, database, replay, bounds>>

Nack(c) ==
  /\ stage[c] = "failed"
  /\ Idle(c)
  /\ dlq' = IF lost[c] THEN dlq ELSE Add(dlq, held[c])
  /\ UNCHANGED <<arrived, queue, database, replay, bounds>>

(* The broker takes back what was delivered over a broken connection; the  *)
(* handler does not notice and carries on.                                 *)
Disconnect(c) ==
  /\ held[c] # NoMessage /\ ~ lost[c]
  /\ Fault
  /\ lost' = [lost EXCEPT ![c] = TRUE]
  /\ queue' = Add(queue, held[c])
  /\ UNCHANGED <<held, stage, attempt, stopping, arrived, dlq, database, replay>>

(* The process dies: its transaction rolls back, its delivery goes back. *)
Crash(c) ==
  /\ held[c] # NoMessage
  /\ Fault
  /\ queue' = IF lost[c] THEN queue ELSE Add(queue, held[c])
  /\ Idle(c)
  /\ UNCHANGED <<arrived, dlq, database, replay>>

(* The service is told to stop, and is started again when it has. *)
Stop(c) ==
  /\ ~ stopping[c] /\ stops < MaxStops
  /\ stopping' = [stopping EXCEPT ![c] = TRUE]
  /\ stops' = stops + 1
  /\ UNCHANGED <<held, lost, stage, attempt, faults, purges, broker, database, replay>>

Restart(c) ==
  /\ stopping[c] /\ stage[c] = "idle"
  /\ stopping' = [stopping EXCEPT ![c] = FALSE]
  /\ UNCHANGED <<held, lost, stage, attempt, broker, database, replay, bounds>>
-----------------------------------------------------------------------------
(* The operator's replay and the retention task. *)

(* A dead letter is taken; one that cannot be read is rejected, and a dead *)
(* letter queue has no dead letter exchange of its own.                    *)
ReplayGet(m) ==
  /\ replaying = NoMessage /\ dlq[m] > 0
  /\ dlq' = Remove(dlq, m)
  /\ IF m \in Unreadable THEN UNCHANGED replaying ELSE replaying' = m
  /\ UNCHANGED <<replayed, arrived, queue, consumer, database, bounds>>

(* Mutant: the dead letter is acknowledged before it is published. *)
ReplayAcksFirst ==
  /\ replaying # NoMessage /\ ~ replayed
  /\ replaying' = NoMessage
  /\ \/ queue' = Add(queue, replaying) /\ UNCHANGED bounds
     \/ UNCHANGED queue /\ Fault
  /\ UNCHANGED <<replayed, arrived, dlq, consumer, database>>

(* It is published again; a failure, real or apparent, puts it back. *)
ReplayPublish ==
  /\ replaying # NoMessage /\ ~ replayed
  /\ \/ /\ queue' = Add(queue, replaying)
        /\ replayed' = TRUE
        /\ UNCHANGED <<dlq, replaying, bounds>>
     \/ /\ queue' \in {queue, Add(queue, replaying)}
        /\ dlq' = Add(dlq, replaying)
        /\ replaying' = NoMessage
        /\ Fault
        /\ UNCHANGED replayed
  /\ UNCHANGED <<arrived, consumer, database>>

ReplayAck ==
  /\ replayed
  /\ replaying' = NoMessage /\ replayed' = FALSE
  /\ \/ UNCHANGED <<dlq, bounds>>
     \/ dlq' = Add(dlq, replaying) /\ Fault
  /\ UNCHANGED <<arrived, queue, consumer, database>>

(* Records are kept longer than relays publish copies and the broker       *)
(* redelivers them: none is deleted while a copy is to come, queued or     *)
(* held.  Dead letters wait without limit.                                 *)
DeleteProcessed(m) ==
  /\ m \in inbox /\ purges < MaxPurges
  /\ arrived[m] = Copies[m]
  /\ queue[m] = 0 /\ replaying # m /\ \A c \in Consumers : held[c] # m
  /\ inbox' = inbox \ {m}
  /\ purges' = purges + 1
  /\ UNCHANGED <<effects, consumer, broker, replay, faults, stops>>
-----------------------------------------------------------------------------
Handle(c) == MarkProcessedTx(c) \/ Apply(c) \/ Commit(c) \/ Fail(c) \/ Ack(c) \/ Nack(c)

Replay == ReplayPublish \/ ReplayAck

Next ==
  \/ \E m \in Messages : Arrive(m) \/ ReplayGet(m) \/ DeleteProcessed(m)
  \/ \E c \in Consumers, m \in Messages : Deliver(c, m)
  \/ \E c \in Consumers : Handle(c) \/ Disconnect(c) \/ Crash(c) \/ Stop(c) \/ Restart(c)
  \/ Replay

Spec == Init /\ [][Next]_vars

(* Consumers loop, and restart when stopped, a loop that is idle again and *)
(* again noticing in the end that its context is cancelled; queues are     *)
(* first in first out, so a copy that keeps being ready is delivered; an   *)
(* operator replays what stays dead lettered.                              *)
FairSpec ==
  /\ Spec
  /\ \A c \in Consumers : WF_vars(Handle(c)) /\ SF_vars(Restart(c))
  /\ \A m \in Messages \ Unreadable :
       SF_vars(\E c \in Consumers : Deliver(c, m)) /\ SF_vars(ReplayGet(m))
  /\ WF_vars(Replay)
-----------------------------------------------------------------------------
(* Delivery is at least once, the effect is exactly once as long as it is  *)
(* remembered: no number of copies, replicas, broken connections and       *)
(* replays does the work again, but for a record that expired.             *)
EffectAtMostOncePerRecord == \A m \in Messages : effects[m] <= 1 + purges

(* Where a message can still be acted on, or looked at. *)
InBroker(m) ==
  \/ queue[m] > 0 \/ dlq[m] > 0 \/ replaying = m
  \/ \E c \in Consumers : held[c] = m

(* A message leaves the broker only once its effect is in the database. *)
NothingIsDropped ==
  \A m \in Messages \ Unreadable : arrived[m] > 0 => effects[m] > 0 \/ InBroker(m)

(* Once a message arrived its effect happens, whatever the replicas and    *)
(* the connections went through on the way.                                *)
ArrivedIsEventuallyApplied ==
  \A m \in Messages \ Unreadable : arrived[m] > 0 ~> effects[m] > 0

(* A delivery whose connection broke is still in somebody's hands, and a   *)
(* dead letter the operator's replay took is with the dead letters until   *)
(* it is acknowledged.                                                     *)
Readable == Messages \ Unreadable
Queued == {m \in Readable : queue[m] > 0 \/ \E c \in Consumers : held[c] = m}
DeadLettered == {m \in Readable : dlq[m] > 0 \/ replaying = m}

(* The consumers implement what is promised of a queue: whatever copies,   *)
(* replicas and connections do, a message leaves it processed or as a dead *)
(* letter, and a dead letter is gone only when it is queued or processed.  *)
Channel == INSTANCE Delivery WITH
  Messages <- Readable, queue <- Queued, dlq <- DeadLettered,
  inbox <- inbox \intersect Readable, effects <- [m \in Readable |-> effects[m]]
DeliverySpec == Channel!Spec
=============================================================================
