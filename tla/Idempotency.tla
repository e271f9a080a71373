---------------------------- MODULE Idempotency ----------------------------
(***************************************************************************)
(* One Idempotency-Key of one endpoint, and the requests that carry it:    *)
(* the operator's, the retries of a client that got no answer, the replay  *)
(* of the application after it renewed its session, and a request with     *)
(* another payload that reuses the key by mistake.                         *)
(*                                                                         *)
(* The reservation, the work and the stored answer are three transactions, *)
(* so a request can die between any two of them.                           *)
(***************************************************************************)
EXTENDS Integers, FiniteSets

CONSTANTS
  Requests,     \* requests carrying the key
  Payload,      \* Payload[r]: what request r asks for
  Expired,      \* requests whose access token has expired
  Faults,       \* the kinds of fault that happen
  MaxFaults     \* bound: how many of them

FaultKinds == {"crash",              \* the process dies with the request
               "server_error",       \* the handler fails before it commits anything
               "lost_completion",    \* the answer could not be stored or dropped
               "doubtful_failure",   \* a server error after the work was committed
               "late_retry"}         \* a client retries after the answer expired

ASSUME IdempotencyAssumption ==
  /\ Expired \subseteq Requests
  /\ \A r \in Requests : Payload[r] # "none"
  /\ Faults \subseteq FaultKinds
  /\ MaxFaults \in Nat

VARIABLES
  row,      \* the row of idempotency_keys
  pc,       \* where each request is in the middleware
  answer,   \* the answer of each request
  work,     \* how often the work of each payload was committed
  faults

idempotency == <<row, pc, answer, work, faults>>

Payloads == {Payload[r] : r \in Requests}

(* What a handler answers: success, a refusal of the request (4xx), a      *)
(* refusal of its token (401), or a server error (5xx).                    *)
Outcomes == {"ok", "refused", "unauthorized", "failed"}
NoRow == [hash |-> "none", stale |-> FALSE, stored |-> "none"]

Reserved(p) == [hash |-> p, stale |-> FALSE, stored |-> "none"]

Completed == row.stored # "none"

Fault(kind) == kind \in Faults /\ faults < MaxFaults /\ faults' = faults + 1

(* The request that reserved the key and has not let go of it. *)
Live == {r \in Requests : pc[r] \in {"running", "finished"}}

IdempotencyInit ==
  /\ row = NoRow
  /\ pc = [r \in Requests |-> "new"]
  /\ answer = [r \in Requests |-> "none"]
  /\ work = [p \in Payloads |-> 0]
  /\ faults = 0

Goes(r, where) == pc' = [pc EXCEPT ![r] = where]

Answers(r, a) == Goes(r, "closed") /\ answer' = [answer EXCEPT ![r] = a]

(* Reserve reads the row under a lock.  There is none yet. *)
Unknown(r) == row = NoRow /\ Goes(r, "inserting") /\ UNCHANGED <<answer, row>>

(* It belongs to another payload. *)
Foreign(r) == row # NoRow /\ row.hash # Payload[r] /\ Answers(r, "key_reuse") /\ UNCHANGED row

(* It holds an answer to replay. *)
Replay(r) == Completed /\ Answers(r, row.stored) /\ UNCHANGED row

(* Its owner is still running, as far as anybody can tell. *)
Wait(r) == row # NoRow /\ ~ Completed /\ ~ row.stale /\ Answers(r, "in_progress") /\ UNCHANGED row

(* Its owner is gone and the reservation is taken over. *)
TakeOver(r) ==
  /\ row # NoRow /\ ~ Completed
  /\ row' = Reserved(row.hash)
  /\ Goes(r, "running")
  /\ UNCHANGED answer

(* Mutants: the payload is not compared; a reservation in progress is      *)
(* taken over without waiting for it to go stale; a stale one never is.    *)
ReserveIgnoresPayload(r) ==
  /\ pc[r] = "new"
  /\ Unknown(r) \/ Replay(r) \/ Wait(r) \/ (row.stale /\ TakeOver(r))
  /\ UNCHANGED <<work, faults>>

ReserveTakesOver(r) ==
  /\ pc[r] = "new"
  /\ \/ Unknown(r) \/ Foreign(r)
     \/ row.hash = Payload[r] /\ (Replay(r) \/ TakeOver(r))
  /\ UNCHANGED <<work, faults>>

ReserveBlocks(r) ==
  /\ pc[r] = "new"
  /\ \/ Unknown(r) \/ Foreign(r)
     \/ row.hash = Payload[r] /\ (Replay(r) \/ (~ Completed /\ Answers(r, "in_progress") /\ UNCHANGED row))
  /\ UNCHANGED <<work, faults>>

Reserve(r) ==
  /\ pc[r] = "new"
  /\ \/ Unknown(r) \/ Foreign(r)
     \/ row.hash = Payload[r] /\ (Replay(r) \/ Wait(r) \/ (row.stale /\ TakeOver(r)))
  /\ UNCHANGED <<work, faults>>

InsertOverwrites(r) ==
  /\ pc[r] = "inserting"
  /\ row' = Reserved(Payload[r])
  /\ Goes(r, "running")
  /\ UNCHANGED <<answer, work, faults>>

(* A missing row could not be locked: the insert may find it taken.        *)
Insert(r) ==
  /\ pc[r] = "inserting"
  /\ \/ row = NoRow /\ row' = Reserved(Payload[r]) /\ Goes(r, "running") /\ UNCHANGED answer
     \/ row # NoRow /\ Answers(r, "in_progress") /\ UNCHANGED row
  /\ UNCHANGED <<work, faults>>

(* The rest of the chain, authentication included, and the handler run.    *)
Serve(r) ==
  /\ pc[r] = "running"
  /\ Goes(r, "finished")
  /\ \E o \in Outcomes :
       /\ r \in Expired <=> o = "unauthorized"
       /\ answer' = [answer EXCEPT ![r] = o]
       /\ \/ o = "ok" /\ work' = [work EXCEPT ![Payload[r]] = @ + 1] /\ UNCHANGED faults
          \/ o \in {"refused", "unauthorized"} /\ UNCHANGED <<work, faults>>
          \/ o = "failed" /\ Fault("server_error") /\ UNCHANGED work
          \/ /\ o = "failed" /\ Fault("doubtful_failure")
             /\ work' = [work EXCEPT ![Payload[r]] = @ + 1]
  /\ UNCHANGED row

(* Every answer below 500 is stored, on whatever row the key has now; a    *)
(* server error drops a reservation that was not completed.                *)
Settle(r) ==
  /\ pc[r] = "finished"
  /\ Goes(r, "closed")
  /\ \/ /\ answer[r] # "failed"
        /\ row' = IF row = NoRow THEN NoRow ELSE [row EXCEPT !.stored = answer[r]]
        /\ UNCHANGED faults
     \/ /\ answer[r] = "failed"
        /\ row' = IF Completed THEN row ELSE NoRow
        /\ UNCHANGED faults
     \/ UNCHANGED row /\ Fault("lost_completion")
  /\ UNCHANGED <<answer, work>>

(* The process dies; its client never hears back. *)
Crash(r) ==
  /\ r \in Live
  /\ Fault("crash")
  /\ Goes(r, "closed")
  /\ answer' = [answer EXCEPT ![r] = "none"]
  /\ UNCHANGED <<row, work>>

(* A client that has no answer, or one that asks it to, tries again. *)
Retry(r) ==
  /\ pc[r] = "closed" /\ answer[r] \in {"none", "in_progress", "failed"}
  /\ Goes(r, "new")
  /\ answer' = [answer EXCEPT ![r] = "none"]
  /\ UNCHANGED <<row, work, faults>>

(* StaleReservationAge passes.  It is longer than RequestTimeout, so no    *)
(* live request is that old.                                               *)
GoesStale ==
  /\ row # NoRow /\ ~ Completed /\ ~ row.stale
  /\ Live = {}
  /\ row' = [row EXCEPT !.stale = TRUE]
  /\ UNCHANGED <<pc, answer, work, faults>>

(* The retention task deletes a stored answer. *)
DeleteCompleted ==
  /\ Completed
  /\ Fault("late_retry")
  /\ row' = NoRow
  /\ UNCHANGED <<pc, answer, work>>

Step(r) == Reserve(r) \/ Insert(r) \/ Serve(r) \/ Settle(r)

IdempotencyNext ==
  \/ \E r \in Requests : Step(r) \/ Crash(r) \/ Retry(r)
  \/ GoesStale
  \/ DeleteCompleted

IdempotencySpec == IdempotencyInit /\ [][IdempotencyNext]_idempotency

(* Handlers run to their end, clients without an answer try again, and the *)
(* clock moves.                                                            *)
IdempotencyFairSpec ==
  /\ IdempotencySpec
  /\ \A r \in Requests : WF_idempotency(Step(r)) /\ WF_idempotency(Retry(r))
  /\ WF_idempotency(GoesStale)
-----------------------------------------------------------------------------
(* Two requests with the same key are never both at work, duplicates sent  *)
(* at once and reservations taken over included.                           *)
OneOwner == Cardinality(Live) <= 1

(* The work is repeated only on account of a fault, once for each. *)
RepeatsArePaidFor == \A p \in Payloads : work[p] <= 1 + faults

(* Told that it succeeded, a client can count on its own payload having    *)
(* been worked, by this request or by the one whose answer is replayed.    *)
OkMeansDone == \A r \in Requests : answer[r] = "ok" => work[Payload[r]] > 0

(* A request with a valid token is not refused for the token of another.   *)
ValidTokenIsServed == \A r \in Requests \ Expired : answer[r] # "unauthorized"

(* A crashed request never blocks a key: every client that keeps trying is *)
(* told an outcome in the end.                                             *)
EveryClientIsAnswered ==
  \A r \in Requests :
    pc[r] = "new" ~> pc[r] = "closed" /\ answer[r] \in {"ok", "refused", "unauthorized", "key_reuse"}
=============================================================================
