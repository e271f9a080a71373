--------------------------- MODULE PrintingProofs ---------------------------
(***************************************************************************)
(* Proofs about the print saga, for any invoices, products, quantities and *)
(* bounds.                                                                 *)
(***************************************************************************)
EXTENDS Printing, SetLemmas, TLAPS

USE ConstantsAssumption

(* A request and an answer are messages of the saga. *)
LEMMA RequestIsMessage ==
  ASSUME NEW i \in Invoices, NEW a \in 1 .. MaxAttempts
  PROVE  Request(i, a) \in Messages
BY DEF Request, Messages, PrintRequested

LEMMA AnswerIsMessage ==
  ASSUME TypeOK, NEW m \in Messages, m.type = "print_requested",
         NEW kind \in {"debited", "rejected"}
  PROVE  Answer(kind, m) \in Messages
BY DEF Answer, Messages, PrintRequested, StockAnswer, TypeOK

(* Acknowledged or not, a delivery adds nothing to the queue. *)
LEMMA SettleShrinks ==
  ASSUME TypeOK, NEW m, Settle(m)
  PROVE  queue' \subseteq queue /\ faults' \in 0 .. MaxFaults
BY DEF Settle, Fault, TypeOK

LEMMA TypeInit == Init => TypeOK
BY DEF Init, TypeOK, Statuses, Clocks, Failures

LEMMA TypeNext == TypeOK /\ [Next]_vars => TypeOK'
<1> SUFFICES ASSUME TypeOK, [Next]_vars
             PROVE  TypeOK'
  OBVIOUS
<1> USE DEF TypeOK, Statuses, Failures, Clocks, billing, stock, broker
<1>1. ASSUME NEW i \in Invoices, StartPrinting(i)
      PROVE  TypeOK'
  <2>1. attempt[i] + 1 \in 1 .. MaxAttempts
    BY <1>1 DEF StartPrinting
  <2>2. outbox' \subseteq Messages
    BY <1>1, <2>1, RequestIsMessage DEF StartPrinting
  <2>3. QED
    BY <1>1, <2>1, <2>2 DEF StartPrinting
<1>2. ASSUME NEW i \in Invoices, TimePasses(i)
      PROVE  TypeOK'
  BY <1>2 DEF TimePasses
<1>3. CASE ReopenStalePrintings
  BY <1>3 DEF ReopenStalePrintings
<1>4. ASSUME NEW m \in outbox, RelayPublish(m)
      PROVE  TypeOK'
  BY <1>4 DEF RelayPublish, Routed, Fault
<1>5. ASSUME NEW m \in queue, PrintRequestHandler(m)
      PROVE  TypeOK'
  <2>1. queue' \subseteq Messages /\ faults' \in 0 .. MaxFaults
    BY <1>5, SettleShrinks DEF PrintRequestHandler
  <2>2. inbox' \subseteq Messages
    BY <1>5 DEF PrintRequestHandler
  <2>3. m \in Messages /\ m.inv \in Invoices
    BY DEF Messages, PrintRequested, StockAnswer
  <2>4. Answer("debited", m) \in Messages /\ Answer("rejected", m) \in Messages
    BY <1>5, <2>3, AnswerIsMessage DEF PrintRequestHandler
  <2>5. outbox' \subseteq Messages
    BY <1>5, <2>4 DEF PrintRequestHandler, DebitAndAnswer
  <2>6. /\ balance' \in [Products -> Nat]
        /\ supplied' \in [Products -> Int]
        /\ debited' \subseteq Invoices
    BY <1>5, <2>3 DEF PrintRequestHandler, DebitAndAnswer, TakeLines, Enough
  <2>7. QED
    BY <1>5, <2>1, <2>2, <2>5, <2>6 DEF PrintRequestHandler
<1>6. ASSUME NEW m \in queue, StockResultHandler(m)
      PROVE  TypeOK'
  <2>1. queue' \subseteq Messages /\ faults' \in 0 .. MaxFaults
    BY <1>6, SettleShrinks DEF StockResultHandler
  <2>2. inbox' \subseteq Messages
    BY <1>6 DEF StockResultHandler
  <2>3. /\ status' \in [Invoices -> Statuses]
        /\ attempt' \in [Invoices -> 0 .. MaxAttempts]
        /\ printingSince' \in [Invoices -> Clocks]
        /\ failure' \in [Invoices -> Failures]
    BY <1>6 DEF StockResultHandler, CloseTx, ReopenTx
  <2>4. QED
    BY <1>6, <2>1, <2>2, <2>3 DEF StockResultHandler
<1>7. ASSUME NEW m \in dlq, Replay(m)
      PROVE  TypeOK'
  BY <1>7 DEF Replay, Routed, Fault
<1>8. ASSUME NEW q \in Queues, DeclareQueue(q)
      PROVE  TypeOK'
  BY <1>8 DEF DeclareQueue
<1>9. ASSUME NEW p \in Products, AdjustBalance(p)
      PROVE  TypeOK'
  <2>1. PICK delta \in {-1, 1} :
          /\ balance[p] + delta \in 0 .. MaxBalance
          /\ balance' = [balance EXCEPT ![p] = @ + delta]
          /\ supplied' = [supplied EXCEPT ![p] = @ + delta]
    BY <1>9 DEF AdjustBalance
  <2>2. balance' \in [Products -> Nat] /\ supplied' \in [Products -> Int]
    BY <2>1
  <2>3. QED
    BY <1>9, <2>2 DEF AdjustBalance
<1>10. ASSUME NEW m \in queue, DeadLetter(m)
       PROVE  TypeOK'
  BY <1>10 DEF DeadLetter, Fault
<1>11. ASSUME NEW m \in inbox, DeleteProcessed(m)
       PROVE  TypeOK'
  BY <1>11 DEF DeleteProcessed
<1>12. CASE UNCHANGED vars
  BY <1>12 DEF vars
<1>13. QED
  BY <1>1, <1>2, <1>3, <1>4, <1>5, <1>6, <1>7, <1>8, <1>9, <1>10, <1>11, <1>12
     DEF Next, Relay, StockConsumer, BillingConsumer, Operator

(* Every variable keeps its type; in particular no balance goes below zero *)
(* however many invoices are debited at once.                              *)
THEOREM TypeCorrect == Spec => []TypeOK
BY TypeInit, TypeNext, PTL DEF Spec
-----------------------------------------------------------------------------
(* Messages the system still knows of, and what is true of each of them:   *)
(* it names an attempt that was made, a confirmation names an invoice      *)
(* whose units were taken, and a rejection echoes the attempt it answers   *)
(* if the stock service numbers attempts.                                  *)
Known == Pending \union inbox

MessageOK(m) ==
  /\ AttemptOf(m) <= attempt[m.inv]
  /\ m.type = "debited" => m.inv \in debited
  /\ m.type = "rejected" => m.att = IF EchoesAttempt THEN m.req ELSE 0

KnownOK == \A m \in Known : MessageOK(m)

SafetyInv == TypeOK /\ KnownOK /\ ClosedOnlyIfDebited

(* What moves messages and touches neither database's invoices nor stock. *)
Transport ==
  \/ \E m \in outbox : RelayPublish(m)
  \/ \E m \in dlq : Replay(m)
  \/ \E m \in queue : DeadLetter(m)
  \/ \E m \in inbox : DeleteProcessed(m)
  \/ \E q \in Queues : DeclareQueue(q)

(* Moving messages invents none. *)
LEMMA TransportInventsNothing ==
  ASSUME Transport
  PROVE  Known' \subseteq Known /\ UNCHANGED <<billing, stock>>
<1>1. ASSUME NEW m \in outbox, RelayPublish(m)
      PROVE  Known' \subseteq Known /\ UNCHANGED <<billing, stock>>
  BY <1>1 DEF RelayPublish, Routed, Known, Pending
<1>2. ASSUME NEW m \in dlq, Replay(m)
      PROVE  Known' \subseteq Known /\ UNCHANGED <<billing, stock>>
  BY <1>2 DEF Replay, Routed, Known, Pending
<1>3. ASSUME NEW m \in queue, DeadLetter(m)
      PROVE  Known' \subseteq Known /\ UNCHANGED <<billing, stock>>
  BY <1>3 DEF DeadLetter, Known, Pending
<1>4. ASSUME NEW m \in inbox, DeleteProcessed(m)
      PROVE  Known' \subseteq Known /\ UNCHANGED <<billing, stock>>
  BY <1>4 DEF DeleteProcessed, Known, Pending, broker
<1>5. ASSUME NEW q \in Queues, DeclareQueue(q)
      PROVE  Known' \subseteq Known /\ UNCHANGED <<billing, stock>>
  BY <1>5 DEF DeclareQueue, Known, Pending
<1>6. QED
  BY <1>1, <1>2, <1>3, <1>4, <1>5 DEF Transport

(* What one delivery to the stock service does. *)
LEMMA StockDelivery ==
  ASSUME TypeOK, NEW m \in queue, PrintRequestHandler(m)
  PROVE  /\ m \in PrintRequested
         /\ UNCHANGED billing
         /\ \E kind \in {"debited", "rejected"} :
              /\ Known' \subseteq Known \union {Answer(kind, m)}
              /\ kind = "debited" => debited' = debited \union {m.inv}
              /\ kind = "rejected" => debited' = debited
<1>1. m \in PrintRequested
  BY DEF TypeOK, Messages, PrintRequested, StockAnswer, PrintRequestHandler
<1>2. queue' \subseteq queue /\ UNCHANGED <<billing, dlq>>
  BY SettleShrinks DEF PrintRequestHandler
<1>3. CASE m \in inbox
  <2>1. /\ Known' \subseteq Known
        /\ debited' = debited
    BY <1>2, <1>3 DEF PrintRequestHandler, Known, Pending, stock
  <2>2. QED
    BY <1>1, <1>2, <2>1
<1>4. CASE m \notin inbox
  <2>1. m \in Known /\ inbox' = inbox \union {m} /\ DebitAndAnswer(m)
    BY <1>4 DEF PrintRequestHandler, Known, Pending
  <2>2. CASE m.inv \in debited \/ Enough(m.inv)
    <3>1. /\ outbox' = outbox \union {Answer("debited", m)}
          /\ debited' = debited \union {m.inv}
      BY <2>1, <2>2 DEF DebitAndAnswer, TakeLines, stock
    <3>2. Known' \subseteq Known \union {Answer("debited", m)}
      BY <1>2, <2>1, <3>1 DEF Known, Pending
    <3>3. QED
      BY <1>1, <1>2, <3>1, <3>2
  <2>3. CASE m.inv \notin debited /\ ~ Enough(m.inv)
    <3>1. /\ outbox' = outbox \union {Answer("rejected", m)}
          /\ debited' = debited
      BY <2>1, <2>3 DEF DebitAndAnswer, stock
    <3>2. Known' \subseteq Known \union {Answer("rejected", m)}
      BY <1>2, <2>1, <3>1 DEF Known, Pending
    <3>3. QED
      BY <1>1, <1>2, <3>1, <3>2
  <2>4. QED
    BY <2>2, <2>3
<1>5. QED
  BY <1>3, <1>4

(* What one delivery to billing does. *)
LEMMA BillingDelivery ==
  ASSUME TypeOK, NEW m \in queue, StockResultHandler(m)
  PROVE  /\ m \in StockAnswer
         /\ Known' \subseteq Known
         /\ UNCHANGED <<attempt, stock>>
<1>1. m \in StockAnswer
  BY DEF TypeOK, Messages, PrintRequested, StockAnswer, StockResultHandler
<1>2. queue' \subseteq queue /\ UNCHANGED <<outbox, dlq>>
  BY SettleShrinks DEF StockResultHandler
<1>3. Known' \subseteq Known
  BY <1>2 DEF StockResultHandler, Known, Pending
<1>4. UNCHANGED <<attempt, stock>>
  BY DEF StockResultHandler, CloseTx, ReopenTx, billing
<1>5. QED
  BY <1>1, <1>3, <1>4

LEMMA SafetyInit == Init => SafetyInv
BY TypeInit DEF Init, SafetyInv, KnownOK, Known, Pending, ClosedOnlyIfDebited

(* A message stays true as attempts are made and invoices debited. *)
LEMMA MessageStaysOK ==
  ASSUME TypeOK, TypeOK', NEW m \in Messages, MessageOK(m),
         \A i \in Invoices : attempt[i] <= attempt'[i],
         debited \subseteq debited'
  PROVE  MessageOK(m)'
BY DEF TypeOK, Messages, PrintRequested, StockAnswer, MessageOK, AttemptOf

LEMMA SafetyNext == SafetyInv /\ [Next]_vars => SafetyInv'
<1> SUFFICES ASSUME SafetyInv, [Next]_vars
             PROVE  SafetyInv'
  OBVIOUS
<1> USE DEF SafetyInv
<1>0. TypeOK /\ TypeOK' /\ Known \subseteq Messages
  BY TypeNext DEF Known, Pending, TypeOK
<1>1. ASSUME Known' \subseteq Known, UNCHANGED <<billing, stock>>
      PROVE  SafetyInv'
  <2>1. \A i \in Invoices : attempt[i] <= attempt'[i]
    BY <1>0, <1>1 DEF TypeOK, billing
  <2>2. KnownOK'
    BY <1>0, <1>1, <2>1, MessageStaysOK DEF KnownOK, stock
  <2>3. QED
    BY <1>0, <1>1, <2>2 DEF ClosedOnlyIfDebited, billing, stock
<1>2. ASSUME NEW i \in Invoices, StartPrinting(i)
      PROVE  SafetyInv'
  <2>1. /\ Known' = Known \union {Request(i, attempt[i] + 1)}
        /\ attempt' = [attempt EXCEPT ![i] = @ + 1]
        /\ debited' = debited
    BY <1>2 DEF StartPrinting, Known, Pending, stock, broker
  <2>2. \A j \in Invoices : attempt[j] <= attempt'[j]
    BY <1>0, <2>1 DEF TypeOK
  <2>3. ASSUME NEW r, r = Request(i, attempt[i] + 1)
        PROVE  MessageOK(r)'
    BY <1>0, <2>1, <2>3 DEF MessageOK, Request, AttemptOf, TypeOK
  <2>4. KnownOK'
    BY <1>0, <2>1, <2>2, <2>3, MessageStaysOK DEF KnownOK
  <2>5. ClosedOnlyIfDebited'
    BY <1>0, <1>2, <2>1 DEF ClosedOnlyIfDebited, StartPrinting, TypeOK
  <2>6. QED
    BY <1>0, <2>4, <2>5
<1>3. ASSUME UNCHANGED <<attempt, stock, outbox, inbox, broker>>,
             \A i \in Invoices : status'[i] = "CLOSED" => status[i] = "CLOSED"
      PROVE  SafetyInv'
  <2>1. Known' = Known /\ debited' = debited
    BY <1>3 DEF Known, Pending, stock, broker
  <2>2. KnownOK'
    BY <1>3, <2>1 DEF KnownOK, MessageOK
  <2>3. QED
    BY <1>0, <1>3, <2>1, <2>2 DEF ClosedOnlyIfDebited
<1>4. ASSUME NEW i \in Invoices, TimePasses(i)
      PROVE  SafetyInv'
  BY <1>3, <1>4 DEF TimePasses
<1>5. CASE ReopenStalePrintings
  BY <1>3, <1>5 DEF ReopenStalePrintings
<1>6. ASSUME NEW m \in queue, PrintRequestHandler(m)
      PROVE  SafetyInv'
  <2>1. PICK kind \in {"debited", "rejected"} :
          /\ Known' \subseteq Known \union {Answer(kind, m)}
          /\ kind = "debited" => debited' = debited \union {m.inv}
          /\ kind = "rejected" => debited' = debited
    BY <1>0, <1>6, StockDelivery
  <2>2. m \in PrintRequested /\ UNCHANGED billing
    BY <1>0, <1>6, StockDelivery
  <2>3. debited \subseteq debited' /\ \A i \in Invoices : attempt[i] <= attempt'[i]
    BY <1>0, <2>1, <2>2 DEF TypeOK, billing
  <2>4. m.att <= attempt[m.inv]
    BY <2>2 DEF KnownOK, MessageOK, AttemptOf, PrintRequested, Known, Pending
  <2>5. ASSUME NEW r, r = Answer(kind, m)
        PROVE  MessageOK(r)'
    BY <1>0, <2>1, <2>2, <2>4, <2>5 DEF MessageOK, Answer, AttemptOf, billing, PrintRequested
  <2>6. KnownOK'
    BY <1>0, <2>1, <2>3, <2>5, MessageStaysOK DEF KnownOK
  <2>7. ClosedOnlyIfDebited'
    BY <2>2, <2>3 DEF ClosedOnlyIfDebited, billing
  <2>8. QED
    BY <1>0, <2>6, <2>7
<1>7. ASSUME NEW m \in queue, StockResultHandler(m)
      PROVE  SafetyInv'
  <2>1. m \in StockAnswer /\ Known' \subseteq Known /\ UNCHANGED <<attempt, stock>>
    BY <1>0, <1>7, BillingDelivery
  <2>2. KnownOK'
    BY <2>1 DEF KnownOK, MessageOK, stock
  <2>3. m.type = "debited" => m.inv \in debited
    BY DEF KnownOK, MessageOK, Known, Pending
  <2>4. ClosedOnlyIfDebited'
    BY <1>0, <1>7, <2>1, <2>3
       DEF ClosedOnlyIfDebited, StockResultHandler, CloseTx, ReopenTx, billing, stock, TypeOK, StockAnswer
  <2>5. QED
    BY <1>0, <2>2, <2>4
<1>8. ASSUME NEW p \in Products, AdjustBalance(p)
      PROVE  SafetyInv'
  <2>1. Known' = Known /\ UNCHANGED <<billing, debited>>
    BY <1>8 DEF AdjustBalance, Known, Pending, broker
  <2>2. QED
    BY <1>0, <2>1 DEF KnownOK, MessageOK, ClosedOnlyIfDebited, billing
<1>9. CASE Transport
  BY <1>1, <1>9, TransportInventsNothing
<1>10. CASE UNCHANGED vars
  BY <1>1, <1>10 DEF vars, Known, Pending, broker
<1>11. QED
  BY <1>2, <1>4, <1>5, <1>6, <1>7, <1>8, <1>9, <1>10
     DEF Next, Transport, Relay, StockConsumer, BillingConsumer, Operator

(* An invoice is closed only when its units were taken.  The invariant     *)
(* alone is not inductive: a confirmation could close an invoice nobody    *)
(* debited, so every confirmation that exists is carried along with it.    *)
THEOREM ClosedImpliesDebited == Spec => []ClosedOnlyIfDebited
<1>1. SafetyInv => ClosedOnlyIfDebited
  BY DEF SafetyInv
<1>2. QED
  BY <1>1, SafetyInit, SafetyNext, PTL DEF Spec
-----------------------------------------------------------------------------
(* A rejection is never applied to an attempt other than the one it        *)
(* answers, once the stock service numbers its answers.                    *)
THEOREM RejectionsReachTheirAttempt ==
  ASSUME EchoesAttempt PROVE Spec => RejectionIsOfThisAttempt
<1>1. SafetyInv /\ [Next]_vars => [ReopenedByItsOwnRejection]_vars
  <2> SUFFICES ASSUME SafetyInv, [Next]_vars, NEW i \in Invoices,
                      status[i] = "PRINTING", status'[i] = "OPEN", failure'[i] = "rejected"
               PROVE  \E m \in queue : m.type = "rejected" /\ m.inv = i /\ m.req = attempt[i]
    BY DEF ReopenedByItsOwnRejection
  <2>0. TypeOK /\ KnownOK
    BY DEF SafetyInv
  <2>1. ASSUME NEW j \in Invoices, StartPrinting(j)
        PROVE  FALSE
    BY <2>0, <2>1 DEF StartPrinting, CanPrint, TypeOK
  <2>2. CASE ReopenStalePrintings
    BY <2>2 DEF ReopenStalePrintings
  <2>3. ASSUME NEW m \in queue, StockResultHandler(m)
        PROVE  m.type = "rejected" /\ m.inv = i /\ m.req = attempt[i]
    <3>1. m \in StockAnswer /\ MessageOK(m)
      BY <2>0, <2>3, BillingDelivery DEF KnownOK, Known, Pending
    <3>2. m.type = "rejected" /\ ReopenTx(m.inv, m.att)
      BY <2>0, <2>3 DEF StockResultHandler, CloseTx, billing, TypeOK
    <3>3. m.inv = i /\ (m.att = 0 \/ m.att = attempt[i])
      BY <2>0, <3>1, <3>2 DEF ReopenTx, billing, TypeOK, StockAnswer
    <3>4. m.att = m.req /\ m.req \in 1 .. MaxAttempts
      BY <3>1, <3>2 DEF MessageOK, StockAnswer
    <3>5. QED
      BY <3>2, <3>3, <3>4
  <2>4. ASSUME UNCHANGED status
        PROVE  FALSE
    BY <2>4
  <2>5. QED
    BY <2>1, <2>2, <2>3, <2>4
       DEF Next, Relay, StockConsumer, BillingConsumer, Operator, TimePasses, RelayPublish,
           PrintRequestHandler, Replay, DeclareQueue, AdjustBalance, DeadLetter,
           DeleteProcessed, vars, billing
<1>2. QED
  BY <1>1, SafetyInit, SafetyNext, PTL DEF Spec, RejectionIsOfThisAttempt
-----------------------------------------------------------------------------
(* Every step of the saga is a step of the invoice's life cycle, or none.  *)
LEMMA LifecycleStep ==
  SafetyInv /\ [Next]_vars => [Lifecycle!Next]_Lifecycle!avars
<1> SUFFICES ASSUME SafetyInv, [Next]_vars
             PROVE  [Lifecycle!Next]_Lifecycle!avars
  OBVIOUS
<1> DEFINE requested == {i \in Invoices : attempt[i] > 0}
<1>0. TypeOK /\ KnownOK
  BY DEF SafetyInv
<1>1. ASSUME UNCHANGED <<status, attempt, debited, balance>>
      PROVE  UNCHANGED Lifecycle!avars
  BY <1>1 DEF Lifecycle!avars
<1>2. ASSUME NEW i \in Invoices, StartPrinting(i)
      PROVE  Lifecycle!Request(i)
  <2>1. requested' = requested \union {i}
    BY <1>0, <1>2 DEF StartPrinting, TypeOK
  <2>2. QED
    BY <1>2, <2>1 DEF Lifecycle!Request, StartPrinting, CanPrint, stock
<1>3. CASE ReopenStalePrintings
  <2>1. Lifecycle!GiveUp({i \in Invoices : Stale(i)})
    BY <1>3 DEF Lifecycle!GiveUp, ReopenStalePrintings, Stale, stock
  <2>2. QED
    BY <2>1 DEF Lifecycle!Next
<1>4. ASSUME NEW m \in queue, PrintRequestHandler(m)
      PROVE  Lifecycle!Take(m.inv) \/ UNCHANGED Lifecycle!avars
  <2>1. m \in PrintRequested /\ UNCHANGED billing /\ MessageOK(m)
    BY <1>0, <1>4, StockDelivery DEF KnownOK, Known, Pending
  <2>2. m.inv \in requested /\ UNCHANGED <<status, attempt>>
    BY <1>0, <2>1 DEF MessageOK, AttemptOf, PrintRequested, TypeOK, billing
  <2>3. CASE UNCHANGED stock
    BY <2>2, <2>3, <1>1 DEF stock
  <2>4. CASE m.inv \notin debited /\ Enough(m.inv) /\ TakeLines(m.inv)
    BY <2>2, <2>4 DEF Lifecycle!Take, Enough, TakeLines
  <2>5. QED
    BY <1>4, <2>3, <2>4 DEF PrintRequestHandler, DebitAndAnswer
<1>5. ASSUME NEW m \in queue, StockResultHandler(m)
      PROVE  \/ Lifecycle!Close(m.inv)
             \/ Lifecycle!GiveUp({m.inv})
             \/ UNCHANGED Lifecycle!avars
  <2>1. m \in StockAnswer /\ UNCHANGED <<attempt, stock>> /\ MessageOK(m)
    BY <1>0, <1>5, BillingDelivery DEF KnownOK, Known, Pending
  <2>2. CASE UNCHANGED billing
    BY <2>1, <2>2, <1>1 DEF billing, stock
  <2>3. CASE m.type = "debited" /\ CloseTx(m.inv) /\ status[m.inv] # "CLOSED"
    BY <2>1, <2>3 DEF Lifecycle!Close, CloseTx, MessageOK, stock
  <2>4. CASE /\ status[m.inv] = "PRINTING"
             /\ status' = [status EXCEPT ![m.inv] = "OPEN"]
    BY <1>0, <2>1, <2>4 DEF Lifecycle!GiveUp, stock, TypeOK
  <2>5. QED
    BY <1>5, <2>2, <2>3, <2>4 DEF StockResultHandler, CloseTx, ReopenTx
<1>6. ASSUME NEW p \in Products, AdjustBalance(p)
      PROVE  Lifecycle!Supply(p)
  BY <1>6 DEF Lifecycle!Supply, AdjustBalance, billing
<1>7. CASE Transport
  BY <1>1, <1>7, TransportInventsNothing DEF billing, stock
<1>8. ASSUME NEW i \in Invoices, TimePasses(i)
      PROVE  UNCHANGED Lifecycle!avars
  BY <1>1, <1>8 DEF TimePasses, stock
<1>9. CASE UNCHANGED vars
  BY <1>1, <1>9 DEF vars, billing, stock
<1>10. ASSUME NEW m \in queue, m.type \in {"print_requested", "debited", "rejected"}
       PROVE  m.inv \in Invoices
  BY <1>0 DEF TypeOK, Messages, PrintRequested, StockAnswer
<1>11. CASE StockConsumer \/ BillingConsumer
  <2>1. PICK m \in queue : PrintRequestHandler(m) \/ StockResultHandler(m)
    BY <1>11 DEF StockConsumer, BillingConsumer
  <2>2. m.inv \in Invoices
    BY <1>10, <2>1 DEF PrintRequestHandler, StockResultHandler
  <2>3. QED
    BY <1>4, <1>5, <2>1, <2>2 DEF Lifecycle!Next
<1>12. QED
  BY <1>2, <1>3, <1>6, <1>7, <1>8, <1>9, <1>11
     DEF Next, Transport, Relay, Operator, Lifecycle!Next

(* The saga, with all its messages, timeouts and retries, implements the   *)
(* life cycle that knows of none of them.                                  *)
THEOREM ImplementsLifecycle == Spec => LifecycleSpec
<1>1. Init => Lifecycle!Init
  BY DEF Init, Lifecycle!Init
<1>2. QED
  BY <1>1, SafetyInit, SafetyNext, LifecycleStep, PTL
     DEF Spec, LifecycleSpec, Lifecycle!Spec
-----------------------------------------------------------------------------
(* Nothing is lost.  What a message already processed has brought about    *)
(* cannot be undone: a confirmation closed its invoice, a rejection        *)
(* reopened it, and a request left an answer.                              *)
Answers(m, i) == m.type # "print_requested" /\ m.inv = i /\ AttemptOf(m) = attempt[i]

ProcessedOK ==
  \A m \in inbox :
    /\ m.type = "debited" => status[m.inv] = "CLOSED"
    /\ status[m.inv] = "PRINTING" /\ AttemptOf(m) = attempt[m.inv] =>
         /\ m.type = "print_requested"
         /\ \E w \in Pending : Answers(w, m.inv)

Delivery == bound = Queues /\ ProcessedOK /\ DebitIsAnnounced /\ PrintingIsBackedByAMessage

(* A step that loses no message and starts or closes no print keeps it. *)
LEMMA QuietStep ==
  ASSUME SafetyInv, Delivery,
         Pending \subseteq Pending', inbox' \subseteq inbox, bound' = bound,
         debited' = debited, attempt' = attempt,
         \A i \in Invoices : status[i] = "CLOSED" => status'[i] = "CLOSED",
         \A i \in Invoices : status'[i] = "PRINTING" => status[i] = "PRINTING"
  PROVE  Delivery'
<1>1. debited \subseteq Invoices /\ \A m \in inbox : m.inv \in Invoices
  BY DEF SafetyInv, TypeOK, Messages, PrintRequested, StockAnswer
<1>2. ProcessedOK'
  BY <1>1 DEF Delivery, ProcessedOK, Answers, AttemptOf
<1>3. DebitIsAnnounced'
  BY <1>1 DEF Delivery, DebitIsAnnounced
<1>4. PrintingIsBackedByAMessage'
  BY DEF Delivery, PrintingIsBackedByAMessage, AttemptOf
<1>5. QED
  BY <1>2, <1>3, <1>4 DEF Delivery

(* With both queues bound, moving messages loses none. *)
LEMMA TransportLosesNothing ==
  ASSUME SafetyInv, Delivery, Transport
  PROVE  Pending \subseteq Pending' /\ inbox' \subseteq inbox /\ bound' = bound
<1>1. \A m \in Messages : Routed(m) = {m}
  BY DEF Delivery, Routed, QueueOf, Queues
<1>2. outbox \subseteq Messages /\ dlq \subseteq Messages
  BY DEF SafetyInv, TypeOK
<1>3. ASSUME NEW m \in outbox, RelayPublish(m)
      PROVE  Pending \subseteq Pending' /\ inbox' \subseteq inbox /\ bound' = bound
  BY <1>1, <1>2, <1>3 DEF RelayPublish, Pending
<1>4. ASSUME NEW m \in dlq, Replay(m)
      PROVE  Pending \subseteq Pending' /\ inbox' \subseteq inbox /\ bound' = bound
  BY <1>1, <1>2, <1>4 DEF Replay, Pending
<1>5. ASSUME NEW m \in queue, DeadLetter(m)
      PROVE  Pending \subseteq Pending' /\ inbox' \subseteq inbox /\ bound' = bound
  BY <1>5 DEF DeadLetter, Pending
<1>6. ASSUME NEW m \in inbox, DeleteProcessed(m)
      PROVE  Pending \subseteq Pending' /\ inbox' \subseteq inbox /\ bound' = bound
  BY <1>6 DEF DeleteProcessed, Pending, broker
<1>7. ASSUME NEW q \in Queues, DeclareQueue(q)
      PROVE  Pending \subseteq Pending' /\ inbox' \subseteq inbox /\ bound' = bound
  BY <1>7 DEF DeclareQueue, Delivery
<1>8. QED
  BY <1>3, <1>4, <1>5, <1>6, <1>7 DEF Transport

(* A delivery takes no message away but the one delivered. *)
LEMMA DeliveryTakesOne ==
  ASSUME TypeOK, NEW m \in queue, PrintRequestHandler(m) \/ StockResultHandler(m)
  PROVE  /\ Pending \ {m} \subseteq Pending'
         /\ inbox' \subseteq inbox \union {m}
         /\ bound' = bound
<1>1. CASE PrintRequestHandler(m)
  BY <1>1 DEF PrintRequestHandler, Settle, Pending, DebitAndAnswer
<1>2. CASE StockResultHandler(m)
  BY <1>2 DEF StockResultHandler, Settle, Pending
<1>3. QED
  BY <1>1, <1>2

LEMMA StockKeepsDelivery ==
  ASSUME SafetyInv, Delivery, NEW m \in queue, PrintRequestHandler(m)
  PROVE  Delivery'
<1>0. /\ TypeOK /\ KnownOK /\ m \in PrintRequested /\ UNCHANGED <<status, attempt>>
      /\ Pending \ {m} \subseteq Pending' /\ inbox' \subseteq inbox \union {m} /\ bound' = bound
  BY StockDelivery, DeliveryTakesOne DEF SafetyInv, billing
<1>1. m.type = "print_requested" /\ m.inv \in Invoices
  BY <1>0 DEF PrintRequested
(* Whatever else was pending still is; only a backing by m needs a         *)
(* successor.                                                              *)
<1>2. ASSUME debited' \subseteq debited \union {m.inv},
             m.inv \in debited' /\ m.inv \notin debited =>
               \E w \in Pending' : w.type = "debited" /\ w.inv = m.inv,
             status[m.inv] = "PRINTING" /\ m.att = attempt[m.inv] =>
               \E w \in Pending' : w.type # "print_requested" /\ w.inv = m.inv
                                   /\ AttemptOf(w) = attempt[m.inv]
      PROVE  Delivery'
  <2>1. ASSUME NEW i, NEW w \in Pending, Answers(w, i)
        PROVE  \E v \in Pending' : Answers(v, i)'
    <3>1. w \in Pending'
      BY <1>0, <1>1, <2>1 DEF Answers
    <3>2. Answers(w, i)'
      BY <1>0, <2>1 DEF Answers, AttemptOf
    <3>3. QED
      BY <3>1, <3>2
  <2>2. ASSUME NEW i \in Invoices, status[i] = "PRINTING", i = m.inv, m.att = attempt[i]
        PROVE  \E v \in Pending' : Answers(v, i)'
    BY <1>0, <1>2, <2>2 DEF Answers, AttemptOf
  <2>3. ProcessedOK'
    <3> SUFFICES ASSUME NEW n \in inbox'
                 PROVE  /\ n.type = "debited" => status'[n.inv] = "CLOSED"
                        /\ status'[n.inv] = "PRINTING" /\ AttemptOf(n) = attempt'[n.inv] =>
                             /\ n.type = "print_requested"
                             /\ \E w \in Pending' : Answers(w, n.inv)'
      BY <1>0 DEF ProcessedOK, AttemptOf
    <3>1. CASE n \in inbox
      BY <1>0, <2>1, <3>1 DEF Delivery, ProcessedOK
    <3>2. CASE n = m
      BY <1>0, <1>1, <2>2, <3>2 DEF AttemptOf
    <3>3. QED
      BY <1>0, <3>1, <3>2
  <2>4. DebitIsAnnounced'
    <3> SUFFICES ASSUME NEW i \in debited', status'[i] # "CLOSED"
                 PROVE  \E w \in Pending' : w.type = "debited" /\ w.inv = i
      BY DEF DebitIsAnnounced
    <3>1. CASE i \in debited
      <4>1. PICK w \in Pending : w.type = "debited" /\ w.inv = i
        BY <1>0, <3>1 DEF Delivery, DebitIsAnnounced
      <4>2. w \in Pending'
        BY <1>0, <1>1, <4>1
      <4>3. QED
        BY <4>1, <4>2
    <3>2. CASE i \notin debited
      BY <1>2, <3>2
    <3>3. QED
      BY <3>1, <3>2
  <2>5. PrintingIsBackedByAMessage'
    <3> SUFFICES ASSUME NEW i \in Invoices, status'[i] = "PRINTING"
                 PROVE  \E w \in Pending' : w.inv = i /\ AttemptOf(w) = attempt'[i]
      BY <1>0 DEF PrintingIsBackedByAMessage, AttemptOf
    <3>1. PICK w \in Pending : w.inv = i /\ AttemptOf(w) = attempt[i]
      BY <1>0 DEF Delivery, PrintingIsBackedByAMessage
    <3>2. CASE w = m
      <4>1. PICK v \in Pending' : Answers(v, i)'
        BY <1>0, <1>1, <2>2, <3>1, <3>2 DEF AttemptOf
      <4>2. QED
        BY <4>1 DEF Answers, AttemptOf
    <3>3. CASE w # m
      BY <1>0, <3>1, <3>3
    <3>4. QED
      BY <3>2, <3>3
  <2>6. QED
    BY <1>0, <2>3, <2>4, <2>5 DEF Delivery
<1>3. CASE m \in inbox
  <2>1. debited' = debited
    BY <1>3 DEF PrintRequestHandler, stock
  <2>2. ASSUME status[m.inv] = "PRINTING", m.att = attempt[m.inv]
        PROVE  \E w \in Pending' : w.type # "print_requested" /\ w.inv = m.inv
                                   /\ AttemptOf(w) = attempt[m.inv]
    <3>1. PICK w \in Pending : Answers(w, m.inv)
      BY <1>1, <1>3, <2>2 DEF Delivery, ProcessedOK, AttemptOf
    <3>2. w \in Pending'
      BY <1>0, <1>1, <3>1 DEF Answers
    <3>3. QED
      BY <3>1, <3>2 DEF Answers
  <2>3. QED
    BY <1>2, <2>1, <2>2
<1>4. CASE m \notin inbox
  <2>1. PICK kind \in {"debited", "rejected"} :
          /\ outbox' = outbox \union {Answer(kind, m)}
          /\ debited' \subseteq debited \union {m.inv}
          /\ m.inv \in debited' => kind = "debited"
    BY <1>4 DEF PrintRequestHandler, DebitAndAnswer, TakeLines, stock
  <2>2. Answer(kind, m) \in outbox'
    BY <2>1
  <2>3. ASSUME NEW w, w = Answer(kind, m)
        PROVE  w \in Pending' /\ w.type = kind /\ w.inv = m.inv /\ AttemptOf(w) = m.att
    BY <2>2, <2>3 DEF Answer, AttemptOf, Pending
  <2>4. QED
    BY <1>2, <2>1, <2>3
<1>5. QED
  BY <1>3, <1>4

LEMMA BillingKeepsDelivery ==
  ASSUME SafetyInv, Delivery, NEW m \in queue, StockResultHandler(m)
  PROVE  Delivery'
<1>0. /\ TypeOK /\ KnownOK /\ m \in StockAnswer /\ UNCHANGED <<attempt, debited>>
      /\ Pending \ {m} \subseteq Pending' /\ inbox' \subseteq inbox \union {m} /\ bound' = bound
  BY BillingDelivery, DeliveryTakesOne DEF SafetyInv, stock
<1>1. /\ m.type \in {"debited", "rejected"} /\ m.inv \in Invoices
      /\ AttemptOf(m) = m.req /\ MessageOK(m)
  BY <1>0 DEF StockAnswer, AttemptOf, KnownOK, Known, Pending
(* Once delivered, m backs no print any more, and a confirmation has       *)
(* closed its invoice.                                                     *)
<1>2. /\ m.type = "debited" => status'[m.inv] = "CLOSED"
      /\ ~ (status'[m.inv] = "PRINTING" /\ AttemptOf(m) = attempt'[m.inv])
  <2>1. CASE m \in inbox
    BY <1>0, <1>1, <2>1 DEF Delivery, ProcessedOK, StockResultHandler, billing
  <2>2. CASE m \notin inbox /\ m.type = "debited"
    BY <1>0, <1>1, <2>2 DEF StockResultHandler, CloseTx, billing, TypeOK
  <2>3. CASE m \notin inbox /\ m.type = "rejected"
    BY <1>0, <1>1, <2>3 DEF StockResultHandler, ReopenTx, billing, TypeOK, MessageOK
  <2>4. QED
    BY <1>1, <2>1, <2>2, <2>3
<1>3. /\ \A i \in Invoices : status[i] = "CLOSED" => status'[i] = "CLOSED"
      /\ \A i \in Invoices : status'[i] = "PRINTING" => status[i] = "PRINTING"
  BY <1>0, <1>1 DEF StockResultHandler, CloseTx, ReopenTx, billing, TypeOK
<1>4. \A n \in inbox : n.inv \in Invoices
  BY <1>0 DEF TypeOK, Messages, PrintRequested, StockAnswer
<1>5. ProcessedOK'
  <2> SUFFICES ASSUME NEW n \in inbox'
               PROVE  /\ n.type = "debited" => status'[n.inv] = "CLOSED"
                      /\ status'[n.inv] = "PRINTING" /\ AttemptOf(n) = attempt'[n.inv] =>
                           /\ n.type = "print_requested"
                           /\ \E w \in Pending' : Answers(w, n.inv)'
    BY DEF ProcessedOK, AttemptOf
  <2>1. CASE n = m
    BY <1>2, <2>1
  <2>2. CASE n \in inbox
    <3>1. n.type = "debited" => status'[n.inv] = "CLOSED"
      BY <1>3, <1>4, <2>2 DEF Delivery, ProcessedOK
    <3>2. ASSUME status'[n.inv] = "PRINTING", AttemptOf(n) = attempt'[n.inv]
          PROVE  n.type = "print_requested" /\ \E w \in Pending' : Answers(w, n.inv)'
      <4>1. n.type = "print_requested" /\ \E w \in Pending : Answers(w, n.inv)
        BY <1>0, <1>3, <1>4, <2>2, <3>2 DEF Delivery, ProcessedOK
      <4>2. PICK w \in Pending : Answers(w, n.inv)
        BY <4>1
      <4>3. w # m
        BY <1>0, <1>2, <3>2, <4>2 DEF Answers
      <4>4. w \in Pending' /\ Answers(w, n.inv)'
        BY <1>0, <4>2, <4>3 DEF Answers, AttemptOf
      <4>5. QED
        BY <4>1, <4>4
    <3>3. QED
      BY <3>1, <3>2
  <2>3. QED
    BY <1>0, <2>1, <2>2
<1>6. DebitIsAnnounced'
  <2> SUFFICES ASSUME NEW i \in debited', status'[i] # "CLOSED"
               PROVE  \E w \in Pending' : w.type = "debited" /\ w.inv = i
    BY DEF DebitIsAnnounced
  <2>1. i \in debited /\ i \in Invoices /\ status[i] # "CLOSED"
    BY <1>0, <1>3 DEF TypeOK
  <2>2. PICK w \in Pending : w.type = "debited" /\ w.inv = i
    BY <2>1 DEF Delivery, DebitIsAnnounced
  <2>3. w # m
    BY <1>2, <2>2
  <2>4. QED
    BY <1>0, <2>2, <2>3
<1>7. PrintingIsBackedByAMessage'
  <2> SUFFICES ASSUME NEW i \in Invoices, status'[i] = "PRINTING"
               PROVE  \E w \in Pending' : w.inv = i /\ AttemptOf(w) = attempt'[i]
    BY DEF PrintingIsBackedByAMessage, AttemptOf
  <2>1. PICK w \in Pending : w.inv = i /\ AttemptOf(w) = attempt[i]
    BY <1>3 DEF Delivery, PrintingIsBackedByAMessage
  <2>2. w # m
    BY <1>0, <1>2, <2>1
  <2>3. QED
    BY <1>0, <2>1, <2>2
<1>8. QED
  BY <1>0, <1>5, <1>6, <1>7 DEF Delivery

LEMMA StartKeepsDelivery ==
  ASSUME SafetyInv, Delivery, NEW i \in Invoices, StartPrinting(i)
  PROVE  Delivery'
<1>0. TypeOK /\ KnownOK
  BY DEF SafetyInv
<1>1. /\ UNCHANGED <<inbox, bound, debited>>
      /\ Pending' = Pending \union {Request(i, attempt[i] + 1)}
      /\ attempt' = [attempt EXCEPT ![i] = @ + 1]
      /\ status' = [status EXCEPT ![i] = "PRINTING"]
      /\ status[i] = "OPEN"
  BY DEF StartPrinting, CanPrint, Pending, broker, stock
<1>2. ProcessedOK'
  <2> SUFFICES ASSUME NEW n \in inbox
               PROVE  /\ n.type = "debited" => status'[n.inv] = "CLOSED"
                      /\ status'[n.inv] = "PRINTING" /\ AttemptOf(n) = attempt'[n.inv] =>
                           /\ n.type = "print_requested"
                           /\ \E w \in Pending' : Answers(w, n.inv)'
    BY <1>1 DEF ProcessedOK, AttemptOf
  <2>1. n \in Messages /\ n.inv \in Invoices /\ AttemptOf(n) <= attempt[n.inv] /\ AttemptOf(n) \in Nat
    BY <1>0 DEF TypeOK, KnownOK, Known, MessageOK, Messages, PrintRequested, StockAnswer, AttemptOf
  <2>2. CASE n.inv = i
    BY <1>0, <1>1, <2>1, <2>2 DEF TypeOK, Delivery, ProcessedOK
  <2>3. CASE n.inv # i
    <3>1. status'[n.inv] = status[n.inv] /\ attempt'[n.inv] = attempt[n.inv]
      BY <1>0, <1>1, <2>1, <2>3 DEF TypeOK
    <3>2. \A w \in Pending : Answers(w, n.inv) => Answers(w, n.inv)'
      BY <3>1 DEF Answers, AttemptOf
    <3>3. QED
      BY <1>1, <3>1, <3>2 DEF Delivery, ProcessedOK
  <2>4. QED
    BY <2>2, <2>3
<1>3. DebitIsAnnounced'
  BY <1>0, <1>1 DEF TypeOK, Delivery, DebitIsAnnounced
<1>4. PrintingIsBackedByAMessage'
  <2> SUFFICES ASSUME NEW j \in Invoices, status'[j] = "PRINTING"
               PROVE  \E w \in Pending' : w.inv = j /\ AttemptOf(w) = attempt'[j]
    BY DEF PrintingIsBackedByAMessage, AttemptOf
  <2>1. CASE j = i
    <3>1. ASSUME NEW r, r = Request(i, attempt[i] + 1)
          PROVE  r.inv = i /\ AttemptOf(r) = attempt'[i] /\ r \in Pending'
      BY <1>0, <1>1, <3>1 DEF Request, AttemptOf, TypeOK
    <3>2. QED
      BY <2>1, <3>1
  <2>2. CASE j # i
    BY <1>0, <1>1, <2>2 DEF Delivery, PrintingIsBackedByAMessage, TypeOK
  <2>3. QED
    BY <2>1, <2>2
<1>5. QED
  BY <1>1, <1>2, <1>3, <1>4 DEF Delivery

LEMMA DeliveryNext == SafetyInv /\ Delivery /\ [Next]_vars => Delivery'
<1> SUFFICES ASSUME SafetyInv, Delivery, [Next]_vars
             PROVE  Delivery'
  OBVIOUS
<1>1. CASE Transport
  BY <1>1, QuietStep, TransportLosesNothing, TransportInventsNothing DEF billing, stock
<1>2. ASSUME UNCHANGED <<debited, attempt, outbox, inbox, broker>>,
             \A i \in Invoices : status[i] = "CLOSED" => status'[i] = "CLOSED",
             \A i \in Invoices : status'[i] = "PRINTING" => status[i] = "PRINTING"
      PROVE  Delivery'
  BY <1>2, QuietStep DEF Pending, broker
<1>3. ASSUME NEW i \in Invoices, TimePasses(i)
      PROVE  Delivery'
  BY <1>2, <1>3 DEF TimePasses, stock
<1>4. CASE ReopenStalePrintings
  BY <1>2, <1>4 DEF ReopenStalePrintings, Stale, stock
<1>5. ASSUME NEW p \in Products, AdjustBalance(p)
      PROVE  Delivery'
  BY <1>2, <1>5 DEF AdjustBalance, billing
<1>6. CASE UNCHANGED vars
  BY <1>2, <1>6 DEF vars, billing, stock
<1>7. QED
  BY <1>1, <1>3, <1>4, <1>5, <1>6, StartKeepsDelivery, StockKeepsDelivery, BillingKeepsDelivery
     DEF Next, Transport, Relay, StockConsumer, BillingConsumer, Operator

LEMMA DeliveryInit ==
  ASSUME QueuesDeclared = Queues PROVE Init => Delivery
BY DEF Init, Delivery, ProcessedOK, DebitIsAnnounced, PrintingIsBackedByAMessage

(* When both queues exist before the services start, units are never taken *)
(* without billing being told.                                             *)
THEOREM DebitsAreAnnounced ==
  ASSUME QueuesDeclared = Queues PROVE Spec => []DebitIsAnnounced
<1>1. Delivery => DebitIsAnnounced
  BY DEF Delivery
<1>2. QED
  BY <1>1, SafetyInit, SafetyNext, DeliveryInit, DeliveryNext, PTL DEF Spec

(* ... and a print being waited for always has its request or an answer to *)
(* it on the way.                                                          *)
THEOREM PrintsAreBacked ==
  ASSUME QueuesDeclared = Queues PROVE Spec => []PrintingIsBackedByAMessage
<1>1. Delivery => PrintingIsBackedByAMessage
  BY DEF Delivery
<1>2. QED
  BY <1>1, SafetyInit, SafetyNext, DeliveryInit, DeliveryNext, PTL DEF Spec
-----------------------------------------------------------------------------
(* The units of a product on each invoice, and on a set of them. *)
UnitsOf(p) == [i \in Invoices |-> Quantity[i][p]]

(* Finitely many invoices are debited at any time, whatever invoices there *)
(* are, so that their units have a sum.                                    *)
Conservation == TypeOK /\ IsFiniteSet(debited) /\ StockConserved

LEMMA UnitsAdd ==
  ASSUME NEW p \in Products, NEW S \in SUBSET Invoices, IsFiniteSet(S), NEW i \in Invoices \ S
  PROVE  /\ SumFunctionOnSet(UnitsOf(p), {}) = 0
         /\ SumFunctionOnSet(UnitsOf(p), S) \in Int
         /\ SumFunctionOnSet(UnitsOf(p), S \union {i}) =
              Quantity[i][p] + SumFunctionOnSet(UnitsOf(p), S)
<1> DEFINE U == S \union {i}
<1>1. IsFiniteSet(U)
  BY FS_AddElement
<1>2. \A j \in U : UnitsOf(p)[j] \in Int
  BY DEF UnitsOf
<1>3. S \in SUBSET U /\ U \in SUBSET U /\ i \in U /\ U \ {i} = S
  OBVIOUS
<1>4. UnitsOf(p)[i] = Quantity[i][p]
  BY DEF UnitsOf
<1> HIDE DEF U
<1>5. /\ SumFunctionOnSet(UnitsOf(p), {}) = 0
      /\ \A T \in SUBSET U :
           /\ SumFunctionOnSet(UnitsOf(p), T) \in Int
           /\ \A x \in T : SumFunctionOnSet(UnitsOf(p), T) =
                           UnitsOf(p)[x] + SumFunctionOnSet(UnitsOf(p), T \ {x})
  BY <1>1, <1>2, SumAdds
<1>6. SumFunctionOnSet(UnitsOf(p), U) = UnitsOf(p)[i] + SumFunctionOnSet(UnitsOf(p), S)
  BY <1>3, <1>5
<1>7. QED
  BY <1>3, <1>4, <1>5, <1>6 DEF U

LEMMA InitConserves == Init => Conservation
<1> SUFFICES ASSUME Init PROVE Conservation
  OBVIOUS
<1>1. TypeOK /\ debited = {} /\ balance = supplied
  BY TypeInit DEF Init
<1>2. IsFiniteSet({})
  BY FS_EmptySet
<1>3. ASSUME NEW p \in Products PROVE balance[p] = supplied[p] - SumFunctionOnSet(UnitsOf(p), {})
  <2>1. \A x \in {} : UnitsOf(p)[x] \in Int
    OBVIOUS
  <2>2. SumFunctionOnSet(UnitsOf(p), {}) = 0
    BY <1>2, <2>1, SumAdds
  <2>3. supplied[p] \in Int
    BY <1>1 DEF TypeOK
  <2>4. QED
    BY <1>1, <2>2, <2>3
<1>4. QED
  BY <1>1, <1>2, <1>3 DEF Conservation, StockConserved, UnitsOf

(* A first debit takes the units of an invoice that was not in the sum.    *)
LEMMA TakeConserves ==
  ASSUME Conservation, NEW i \in Invoices \ debited, TakeLines(i)
  PROVE  IsFiniteSet(debited') /\ StockConserved'
<1>1. PICK S : S = debited
  OBVIOUS
<1>2. S \in SUBSET Invoices /\ IsFiniteSet(S) /\ i \in Invoices \ S
  BY <1>1 DEF Conservation, TypeOK
<1>3. debited' = S \union {i}
  BY <1>1 DEF TakeLines
<1>4. IsFiniteSet(debited')
  BY <1>2, <1>3, FS_AddElement
<1>5. ASSUME NEW p \in Products
      PROVE  balance'[p] = supplied'[p] - SumFunctionOnSet(UnitsOf(p), debited')
  <2>1. balance[p] = supplied[p] - SumFunctionOnSet(UnitsOf(p), S)
    BY <1>1 DEF Conservation, StockConserved, UnitsOf
  <2>2. balance'[p] = balance[p] - Quantity[i][p] /\ supplied'[p] = supplied[p]
    BY DEF TakeLines
  <2>3. supplied[p] \in Int /\ Quantity[i][p] \in Int
    BY DEF Conservation, TypeOK
  <2>4. /\ SumFunctionOnSet(UnitsOf(p), S) \in Int
        /\ SumFunctionOnSet(UnitsOf(p), debited') = Quantity[i][p] + SumFunctionOnSet(UnitsOf(p), S)
    BY <1>2, <1>3, UnitsAdd
  <2>5. QED
    BY <2>1, <2>2, <2>3, <2>4
<1>6. QED
  BY <1>4, <1>5 DEF StockConserved, UnitsOf

LEMMA AdjustConserves ==
  ASSUME Conservation, NEW p \in Products, AdjustBalance(p)
  PROVE  IsFiniteSet(debited') /\ StockConserved'
<1>1. PICK delta \in {-1, 1} :
        /\ balance' = [balance EXCEPT ![p] = @ + delta]
        /\ supplied' = [supplied EXCEPT ![p] = @ + delta]
  BY DEF AdjustBalance
<1>2. PICK S : S = debited /\ debited' = S
  BY DEF AdjustBalance
<1>3. S \in SUBSET Invoices /\ IsFiniteSet(S)
  BY <1>2 DEF Conservation, TypeOK
<1>4. ASSUME NEW q \in Products
      PROVE  balance'[q] = supplied'[q] - SumFunctionOnSet(UnitsOf(q), S)
  <2>1. balance[q] = supplied[q] - SumFunctionOnSet(UnitsOf(q), S)
    BY <1>2 DEF Conservation, StockConserved, UnitsOf
  <2>2. \A j \in S : UnitsOf(q)[j] \in Int
    BY <1>3 DEF UnitsOf
  <2>3. S \in SUBSET S
    OBVIOUS
  <2>4. SumFunctionOnSet(UnitsOf(q), S) \in Int
    BY <1>3, <2>2, <2>3, SumAdds
  <2>5. balance[q] \in Int /\ supplied[q] \in Int
    BY DEF Conservation, TypeOK
  <2>6. \/ balance'[q] = balance[q] /\ supplied'[q] = supplied[q]
        \/ balance'[q] = balance[q] + delta /\ supplied'[q] = supplied[q] + delta
    BY <1>1 DEF Conservation, TypeOK
  <2>7. QED
    BY <2>1, <2>4, <2>5, <2>6
<1>5. QED
  BY <1>2, <1>3, <1>4 DEF StockConserved, UnitsOf

(* Nothing but a debit and an adjustment touches the stock. *)
LEMMA StepConserves == Conservation /\ [Next]_vars => Conservation'
<1> SUFFICES ASSUME Conservation, [Next]_vars PROVE Conservation'
  OBVIOUS
<1>1. TypeOK'
  BY TypeNext DEF Conservation
<1>2. ASSUME UNCHANGED stock PROVE IsFiniteSet(debited') /\ StockConserved'
  BY <1>2 DEF stock, Conservation, StockConserved
<1>3. ASSUME NEW m \in queue, PrintRequestHandler(m) PROVE IsFiniteSet(debited') /\ StockConserved'
  <2>1. CASE UNCHANGED stock
    BY <2>1, <1>2
  <2>2. CASE m.inv \notin debited /\ TakeLines(m.inv)
    <3>1. m \in Messages
      BY DEF Conservation, TypeOK
    <3>2. m.inv \in Invoices \ debited
      BY <2>2, <3>1 DEF Messages, PrintRequested, StockAnswer
    <3>3. QED
      BY <2>2, <3>2, TakeConserves
  <2>3. QED
    BY <1>3, <2>1, <2>2 DEF PrintRequestHandler, DebitAndAnswer
<1>4. ASSUME NEW p \in Products, AdjustBalance(p) PROVE IsFiniteSet(debited') /\ StockConserved'
  BY <1>4, AdjustConserves
<1>5. CASE UNCHANGED vars
  <2>1. UNCHANGED stock
    BY <1>5 DEF vars, stock
  <2>2. QED
    BY <1>1, <1>2, <2>1 DEF Conservation
<1>6. ASSUME Next,
             \A m \in queue : ~ PrintRequestHandler(m), \A p \in Products : ~ AdjustBalance(p)
      PROVE  UNCHANGED stock
  BY <1>6 DEF Next, Relay, StockConsumer, BillingConsumer, Operator, StartPrinting, TimePasses,
     ReopenStalePrintings, RelayPublish, StockResultHandler, Replay, DeclareQueue, DeadLetter,
     DeleteProcessed
<1>7. QED
  BY <1>1, <1>2, <1>3, <1>4, <1>5, <1>6 DEF Conservation

(* DebitTx: of each product exactly the units of the debited invoices have *)
(* left, each invoice counted once however often its request is delivered, *)
(* replayed or answered.                                                   *)
THEOREM UnitsAreConserved == Spec => []StockConserved
<1>1. Conservation => StockConserved
  BY DEF Conservation
<1>2. QED
  BY <1>1, InitConserves, StepConserves, PTL DEF Spec
=============================================================================
