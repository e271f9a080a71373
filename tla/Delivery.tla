------------------------------ MODULE Delivery ------------------------------
(***************************************************************************)
(* What consumers promise about the messages of a queue, with no copy,     *)
(* replica, connection, transaction or retry in sight.  A message leaves   *)
(* the queue for the inbox or for the dead letters and for nowhere else,   *)
(* it leaves the dead letters only for the queue, and its work is done     *)
(* together with its record in the inbox, when there is none.              *)
(* Consumer.tla is shown to implement this module.                         *)
(***************************************************************************)
EXTENDS Integers

CONSTANT Messages   \* those a consumer can read

VARIABLES
  queue,    \* messages of which a copy is queued or with a consumer
  dlq,      \* messages of which a copy is with the dead letters
  inbox,    \* messages recorded as processed
  effects   \* how many times the work of a message was done

dvars == <<queue, dlq, inbox, effects>>

Init ==
  /\ queue = {} /\ dlq = {} /\ inbox = {}
  /\ effects = [m \in Messages |-> 0]

Publish(m) == queue' = queue \union {m} /\ UNCHANGED <<dlq, inbox, effects>>

(* The work and its record are one. *)
Process(m) ==
  /\ m \in queue /\ m \notin inbox
  /\ inbox' = inbox \union {m}
  /\ effects' = [effects EXCEPT ![m] = @ + 1]
  /\ UNCHANGED <<queue, dlq>>

(* The last copy of a message that was processed leaves the queue. *)
Settle(m) ==
  /\ m \in queue /\ m \in inbox
  /\ queue' = queue \ {m}
  /\ UNCHANGED <<dlq, inbox, effects>>

(* A copy is given up on; another one may be left. *)
DeadLetter(m) ==
  /\ m \in queue
  /\ queue' \in {queue, queue \ {m}}
  /\ dlq' = dlq \union {m}
  /\ UNCHANGED <<inbox, effects>>

Replay(m) ==
  /\ m \in dlq
  /\ queue' = queue \union {m}
  /\ UNCHANGED <<dlq, inbox, effects>>

(* A dead letter is taken away once it is queued again, or processed. *)
Discard(m) ==
  /\ m \in dlq /\ m \in queue \union inbox
  /\ dlq' = dlq \ {m}
  /\ UNCHANGED <<queue, inbox, effects>>

(* A record expires after every copy that was queued is gone. *)
Forget(m) ==
  /\ m \in inbox /\ m \notin queue
  /\ inbox' = inbox \ {m}
  /\ UNCHANGED <<queue, dlq, effects>>

Next ==
  \E m \in Messages :
    \/ Publish(m) \/ Process(m) \/ Settle(m) \/ DeadLetter(m)
    \/ Replay(m) \/ Discard(m) \/ Forget(m)

Spec == Init /\ [][Next]_dvars
=============================================================================
