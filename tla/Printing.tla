------------------------------ MODULE Printing ------------------------------
(***************************************************************************)
(* The print saga: the billing service moves an invoice to PRINTING and    *)
(* asks the stock service, through an outbox and a broker, to take the     *)
(* units of the invoice; the stock service takes them and answers the same *)
(* way; the answer closes or reopens the invoice; a reconciler reopens the *)
(* invoices nobody answered.                                               *)
(*                                                                         *)
(* One step is one database transaction, or one exchange with the broker.  *)
(* Messages can be published twice, delivered twice, reordered, dead       *)
(* lettered and replayed, and the record that one was processed expires.   *)
(***************************************************************************)
EXTENDS Integers, FiniteSets, FiniteSetsExt

CONSTANTS
  Invoices,        \* invoices of the billing service, all issued
  Products,        \* products of the stock service
  Quantity,        \* Quantity[i][p]: units of p on invoice i, 0 for no line
  OpeningBalance,  \* registered balance of each product
  QueuesDeclared,  \* queues the broker already knows when the services start
  EchoesAttempt,   \* FALSE: a stock service that does not number attempts
  MaxBalance,      \* bound: largest balance an adjustment may reach
  MaxAttempts,     \* bound: prints asked for per invoice
  MaxFaults,       \* bound: lost acknowledgements and dead letterings
  MaxRetentions    \* bound: expired records of processed messages

Queues == {"stock.print_requests", "billing.stock_results"}

ASSUME ConstantsAssumption ==
  /\ Quantity \in [Invoices -> [Products -> Nat]]
  /\ OpeningBalance \in [Products -> Nat]
  /\ QueuesDeclared \subseteq Queues
  /\ EchoesAttempt \in BOOLEAN
  /\ MaxBalance \in Nat /\ MaxAttempts \in Nat
  /\ MaxFaults \in Nat /\ MaxRetentions \in Nat

VARIABLES
  \* billing database
  status,         \* invoices.status
  attempt,        \* invoices.print_attempt
  printingSince,  \* invoices.printing_since: NULL, recent, or past the timeout
  failure,        \* invoices.failure_code, as what it blames
  \* stock database
  balance,        \* products.balance
  supplied,       \* sum of the manual rows of stock_movements, per product
  debited,        \* stock_debits
  \* both databases; the type of a message tells whose row it is
  outbox,         \* outbox_messages not yet marked as published
  inbox,          \* processed_messages
  \* broker
  queue,          \* messages waiting in, or delivered from, the two queues
  dlq,            \* messages in the two dead letter queues
  bound,          \* queues declared and bound to the exchange
  \* bounds of the model
  faults, retentions

billing == <<status, attempt, printingSince, failure>>
stock == <<balance, supplied, debited>>
broker == <<queue, dlq, bound>>
vars == <<billing, stock, outbox, inbox, broker, faults, retentions>>

Statuses == {"OPEN", "PRINTING", "CLOSED"}
Failures == {"none", "timeout", "rejected"}
Clocks == {"null", "recent", "expired"}
-----------------------------------------------------------------------------
(* Messages.  A request is identified by its invoice and attempt, an answer *)
(* by the request it answers and by how many times records of processed     *)
(* messages had expired when it was written: only after that can the same   *)
(* request be answered again, by a message with an id of its own.           *)
PrintRequested == [type: {"print_requested"}, inv: Invoices, att: 1 .. MaxAttempts]

StockAnswer == [type: {"debited", "rejected"}, inv: Invoices, req: 1 .. MaxAttempts,
                att: 0 .. MaxAttempts, pass: 0 .. MaxRetentions]

Messages == PrintRequested \union StockAnswer

Request(i, a) == [type |-> "print_requested", inv |-> i, att |-> a]

(* buildAnswer echoes the attempt; zero is the number a service that does  *)
(* not know about attempts leaves in its answers.                          *)
Answer(kind, m) ==
  [type |-> kind, inv |-> m.inv, req |-> m.att,
   att |-> IF EchoesAttempt THEN m.att ELSE 0, pass |-> retentions]

(* The attempt a request asks for, or the one an answer answers. *)
AttemptOf(m) == IF m.type = "print_requested" THEN m.att ELSE m.req

QueueOf(m) == IF m.type = "print_requested" THEN "stock.print_requests"
              ELSE "billing.stock_results"

(* A message whose routing key is bound to no queue is dropped by the      *)
(* broker, which still confirms it to the publisher.                       *)
Routed(m) == IF QueueOf(m) \in bound THEN {m} ELSE {}

Fault == faults < MaxFaults /\ faults' = faults + 1

(* The delivery is acknowledged, or the acknowledgement is lost and the    *)
(* broker will deliver the message again.                                  *)
Settle(m) ==
  \/ queue' = queue \ {m} /\ UNCHANGED faults
  \/ UNCHANGED queue /\ Fault
-----------------------------------------------------------------------------
Init ==
  /\ status = [i \in Invoices |-> "OPEN"]
  /\ attempt = [i \in Invoices |-> 0]
  /\ printingSince = [i \in Invoices |-> "null"]
  /\ failure = [i \in Invoices |-> "none"]
  /\ balance = OpeningBalance
  /\ supplied = OpeningBalance
  /\ debited = {}
  /\ outbox = {} /\ inbox = {}
  /\ queue = {} /\ dlq = {} /\ bound = QueuesDeclared
  /\ faults = 0 /\ retentions = 0
-----------------------------------------------------------------------------
(* Billing. *)

HasItems(i) == \E p \in Products : Quantity[i][p] > 0

CanPrint(i) == status[i] = "OPEN"

(* Mutant: the moment the attempt started is not stamped. *)
StartPrintingUnstamped(i) ==
  /\ attempt[i] < MaxAttempts
  /\ HasItems(i)
  /\ CanPrint(i)
  /\ status' = [status EXCEPT ![i] = "PRINTING"]
  /\ attempt' = [attempt EXCEPT ![i] = @ + 1]
  /\ failure' = [failure EXCEPT ![i] = "none"]
  /\ outbox' = outbox \union {Request(i, attempt[i] + 1)}
  /\ UNCHANGED <<printingSince, stock, inbox, broker, faults, retentions>>

(* The status change, the attempt number, the database clock and the       *)
(* outbox row are one transaction.                                         *)
StartPrinting(i) ==
  /\ attempt[i] < MaxAttempts
  /\ HasItems(i)
  /\ CanPrint(i)
  /\ status' = [status EXCEPT ![i] = "PRINTING"]
  /\ attempt' = [attempt EXCEPT ![i] = @ + 1]
  /\ printingSince' = [printingSince EXCEPT ![i] = "recent"]
  /\ failure' = [failure EXCEPT ![i] = "none"]
  /\ outbox' = outbox \union {Request(i, attempt[i] + 1)}
  /\ UNCHANGED <<stock, inbox, broker, faults, retentions>>

(* PrintTimeout passes on the clock of the billing database. *)
TimePasses(i) ==
  /\ printingSince[i] = "recent"
  /\ printingSince' = [printingSince EXCEPT ![i] = "expired"]
  /\ UNCHANGED <<status, attempt, failure, stock, outbox, inbox, broker, faults, retentions>>

Stale(i) == status[i] = "PRINTING" /\ printingSince[i] = "expired"

(* The reconciler reopens every stale invoice with one UPDATE. *)
ReopenStalePrintings ==
  /\ \E i \in Invoices : Stale(i)
  /\ status' = [i \in Invoices |-> IF Stale(i) THEN "OPEN" ELSE status[i]]
  /\ printingSince' = [i \in Invoices |-> IF Stale(i) THEN "null" ELSE printingSince[i]]
  /\ failure' = [i \in Invoices |-> IF Stale(i) THEN "timeout" ELSE failure[i]]
  /\ UNCHANGED <<attempt, stock, outbox, inbox, broker, faults, retentions>>

(* Mutant: a confirmation closes only an invoice still being printed. *)
CloseTxIfPrinting(i) ==
  IF status[i] # "PRINTING" THEN UNCHANGED billing
  ELSE /\ status' = [status EXCEPT ![i] = "CLOSED"]
       /\ printingSince' = [printingSince EXCEPT ![i] = "null"]
       /\ failure' = [failure EXCEPT ![i] = "none"]
       /\ UNCHANGED attempt

(* A confirmation closes the invoice, whatever attempt it came from and    *)
(* even if the invoice was reopened meanwhile.                             *)
CloseTx(i) ==
  IF status[i] = "CLOSED" THEN UNCHANGED billing
  ELSE /\ status' = [status EXCEPT ![i] = "CLOSED"]
       /\ printingSince' = [printingSince EXCEPT ![i] = "null"]
       /\ failure' = [failure EXCEPT ![i] = "none"]
       /\ UNCHANGED attempt

(* Mutants: the rejection is applied whatever attempt it answers, or       *)
(* whatever became of the invoice.                                         *)
ReopenTxAnyAttempt(i, a) ==
  IF status[i] = "PRINTING"
  THEN /\ status' = [status EXCEPT ![i] = "OPEN"]
       /\ printingSince' = [printingSince EXCEPT ![i] = "null"]
       /\ failure' = [failure EXCEPT ![i] = "rejected"]
       /\ UNCHANGED attempt
  ELSE UNCHANGED billing

ReopenTxAnyStatus(i, a) ==
  IF a = 0 \/ a = attempt[i]
  THEN /\ status' = [status EXCEPT ![i] = "OPEN"]
       /\ printingSince' = [printingSince EXCEPT ![i] = "null"]
       /\ failure' = [failure EXCEPT ![i] = "rejected"]
       /\ UNCHANGED attempt
  ELSE UNCHANGED billing

(* A rejection reopens the invoice only if it is still waiting for the     *)
(* attempt that was rejected; attempt zero falls back to the status alone. *)
ReopenTx(i, a) ==
  IF status[i] = "PRINTING" /\ (a = 0 \/ a = attempt[i])
  THEN /\ status' = [status EXCEPT ![i] = "OPEN"]
       /\ printingSince' = [printingSince EXCEPT ![i] = "null"]
       /\ failure' = [failure EXCEPT ![i] = "rejected"]
       /\ UNCHANGED attempt
  ELSE UNCHANGED billing

(* One delivery to billing: the inbox row and the change to the invoice    *)
(* are one transaction; a message already processed is acknowledged only.  *)
StockResultHandler(m) ==
  /\ m \in queue /\ m.type \in {"debited", "rejected"}
  /\ Settle(m)
  /\ \/ m \in inbox /\ UNCHANGED <<billing, inbox>>
     \/ /\ m \notin inbox
        /\ inbox' = inbox \union {m}
        /\ \/ m.type = "debited" /\ CloseTx(m.inv)
           \/ m.type = "rejected" /\ ReopenTx(m.inv, m.att)
  /\ UNCHANGED <<stock, outbox, dlq, bound, retentions>>
-----------------------------------------------------------------------------
(* Stock. *)

Enough(i) == \A p \in Products : Quantity[i][p] <= balance[p]

(* Every line of an invoice is taken, with the row that says so. *)
TakeLines(i) ==
  /\ debited' = debited \union {i}
  /\ balance' = [p \in Products |-> balance[p] - Quantity[i][p]]
  /\ UNCHANGED supplied

(* Mutants: a rejection keeps the lines that were in stock; a rejection is *)
(* answered as a debit.                                                    *)
DebitWithoutSavepoint(m) ==
  IF m.inv \in debited \/ Enough(m.inv)
  THEN /\ IF m.inv \in debited THEN UNCHANGED stock ELSE TakeLines(m.inv)
       /\ outbox' = outbox \union {Answer("debited", m)}
  ELSE /\ balance' = [p \in Products |->
                        IF Quantity[m.inv][p] <= balance[p] THEN balance[p] - Quantity[m.inv][p]
                        ELSE balance[p]]
       /\ UNCHANGED <<supplied, debited>>
       /\ outbox' = outbox \union {Answer("rejected", m)}

DebitAnswersBlindly(m) ==
  /\ IF m.inv \notin debited /\ Enough(m.inv) THEN TakeLines(m.inv) ELSE UNCHANGED stock
  /\ outbox' = outbox \union {Answer("debited", m)}

(* DebitTx under its savepoint, together with the answer it produces: an   *)
(* invoice debited before is confirmed again and nothing is taken; one     *)
(* short of a product is rejected and every line rolled back.              *)
DebitAndAnswer(m) ==
  \/ /\ m.inv \in debited
     /\ UNCHANGED stock
     /\ outbox' = outbox \union {Answer("debited", m)}
  \/ /\ m.inv \notin debited
     /\ Enough(m.inv)
     /\ TakeLines(m.inv)
     /\ outbox' = outbox \union {Answer("debited", m)}
  \/ /\ m.inv \notin debited
     /\ ~ Enough(m.inv)
     /\ UNCHANGED stock
     /\ outbox' = outbox \union {Answer("rejected", m)}

(* One delivery to the stock service: the inbox row, the debit and the     *)
(* answer in the outbox are one transaction.                               *)
PrintRequestHandler(m) ==
  /\ m \in queue /\ m.type = "print_requested"
  /\ Settle(m)
  /\ \/ m \in inbox /\ UNCHANGED <<stock, outbox, inbox>>
     \/ /\ m \notin inbox
        /\ inbox' = inbox \union {m}
        /\ DebitAndAnswer(m)
  /\ UNCHANGED <<billing, dlq, bound, retentions>>

(* A delivery, a count or an edit by hand moves one balance by one unit,   *)
(* and is recorded as a movement.                                          *)
AdjustBalance(p) ==
  /\ \E delta \in {-1, 1} :
       /\ balance[p] + delta \in 0 .. MaxBalance
       /\ balance' = [balance EXCEPT ![p] = @ + delta]
       /\ supplied' = [supplied EXCEPT ![p] = @ + delta]
  /\ UNCHANGED <<debited, billing, outbox, inbox, broker, faults, retentions>>
-----------------------------------------------------------------------------
(* Messaging, the same code in both services. *)

(* A consumer declares and binds its own queue whenever it (re)connects. *)
DeclareQueue(q) ==
  /\ q \notin bound
  /\ bound' = bound \union {q}
  /\ UNCHANGED <<billing, stock, outbox, inbox, queue, dlq, faults, retentions>>

(* Mutant: the row is marked before the broker has the message. *)
RelayMarksFirst(m) ==
  /\ m \in outbox
  /\ outbox' = outbox \ {m}
  /\ \/ queue' = queue \union Routed(m) /\ UNCHANGED faults
     \/ UNCHANGED queue /\ Fault
  /\ UNCHANGED <<billing, stock, inbox, dlq, bound, retentions>>

(* The relay publishes a row and marks it; when the mark is lost the row   *)
(* will be published again.                                                *)
RelayPublish(m) ==
  /\ m \in outbox
  /\ queue' = queue \union Routed(m)
  /\ \/ outbox' = outbox \ {m} /\ UNCHANGED faults
     \/ UNCHANGED outbox /\ Fault
  /\ UNCHANGED <<billing, stock, inbox, dlq, bound, retentions>>

(* The handler failed every attempt, the failure switch is on, or the      *)
(* service is shutting down: the delivery is rejected and dead lettered.   *)
(* The message may already be processed, its commit being reported as an   *)
(* error or the delivery being a second copy; another copy may be waiting  *)
(* behind it.                                                              *)
DeadLetter(m) ==
  /\ m \in queue
  /\ Fault
  /\ queue' \in {queue, queue \ {m}}
  /\ dlq' = dlq \union {m}
  /\ UNCHANGED <<billing, stock, outbox, inbox, bound, retentions>>

(* An operator replays a dead letter: it is published again and then       *)
(* acknowledged, or the acknowledgement is lost and it stays as well.      *)
Replay(m) ==
  /\ m \in dlq
  /\ queue' = queue \union Routed(m)
  /\ \/ dlq' = dlq \ {m} /\ UNCHANGED faults
     \/ UNCHANGED dlq /\ Fault
  /\ UNCHANGED <<billing, stock, outbox, inbox, bound, retentions>>

(* The retention task deletes an old record of a processed message. *)
DeleteProcessed(m) ==
  /\ m \in inbox
  /\ retentions < MaxRetentions
  /\ retentions' = retentions + 1
  /\ inbox' = inbox \ {m}
  /\ UNCHANGED <<billing, stock, outbox, broker, faults>>
-----------------------------------------------------------------------------
Relay == \E m \in outbox : RelayPublish(m)
StockConsumer == \E m \in queue : PrintRequestHandler(m)
BillingConsumer == \E m \in queue : StockResultHandler(m)
Operator == \E m \in dlq : Replay(m)

Next ==
  \/ \E i \in Invoices : StartPrinting(i) \/ TimePasses(i)
  \/ ReopenStalePrintings
  \/ Relay \/ StockConsumer \/ BillingConsumer \/ Operator
  \/ \E q \in Queues : DeclareQueue(q)
  \/ \E p \in Products : AdjustBalance(p)
  \/ \E m \in queue : DeadLetter(m)
  \/ \E m \in inbox : DeleteProcessed(m)

Spec == Init /\ [][Next]_vars

(* The clock advances and the reconciler's ticker fires. *)
ReconcilerFairness ==
  /\ \A i \in Invoices : WF_vars(TimePasses(i))
  /\ WF_vars(ReopenStalePrintings)

(* The relays and the consumers loop until the service stops, and start    *)
(* again with it.                                                          *)
PipelineFairness ==
  /\ WF_vars(Relay) /\ WF_vars(StockConsumer) /\ WF_vars(BillingConsumer)
  /\ \A q \in Queues : WF_vars(DeclareQueue(q))

(* Somebody watches dead_letter_messages and replays what is there. *)
OperatorFairness == WF_vars(Operator)

ReconcilerSpec == Spec /\ ReconcilerFairness
-----------------------------------------------------------------------------
(* Properties. *)

(* The type invariant; that a balance is a natural number is the promise   *)
(* of the condition in the debit's UPDATE.                                 *)
TypeOK ==
  /\ status \in [Invoices -> Statuses]
  /\ attempt \in [Invoices -> 0 .. MaxAttempts]
  /\ printingSince \in [Invoices -> Clocks]
  /\ failure \in [Invoices -> Failures]
  /\ balance \in [Products -> Nat]
  /\ supplied \in [Products -> Int]
  /\ debited \subseteq Invoices
  /\ outbox \subseteq Messages /\ inbox \subseteq Messages
  /\ queue \subseteq Messages /\ dlq \subseteq Messages
  /\ bound \subseteq Queues
  /\ faults \in 0 .. MaxFaults /\ retentions \in 0 .. MaxRetentions

(* A message that something will still act on. *)
Pending == outbox \union queue \union dlq

(* An invoice is closed only after the stock service took its units, no    *)
(* matter which answers were late, repeated, replayed or processed twice.  *)
ClosedOnlyIfDebited == \A i \in Invoices : status[i] = "CLOSED" => i \in debited

(* The stock service never takes units without telling billing: until the  *)
(* invoice is closed, a confirmation is in the outbox, in the queue or     *)
(* with the dead letters.                                                  *)
DebitIsAnnounced ==
  \A i \in debited : status[i] # "CLOSED" =>
    \E m \in Pending : m.type = "debited" /\ m.inv = i

(* An invoice being printed is never orphaned: the request of its current  *)
(* attempt, or an answer to that very request, is still on its way.        *)
PrintingIsBackedByAMessage ==
  \A i \in Invoices : status[i] = "PRINTING" =>
    \E m \in Pending : m.inv = i /\ AttemptOf(m) = attempt[i]

(* The units that left a product are those of the debited invoices, each   *)
(* counted once, and a rejected invoice left nothing behind.               *)
StockConserved ==
  \A p \in Products :
    balance[p] = supplied[p] - SumFunctionOnSet([i \in Invoices |-> Quantity[i][p]], debited)

(* A rejection reopens an invoice only on account of the attempt being     *)
(* waited for: a late one never cancels the print that came after it.      *)
ReopenedByItsOwnRejection ==
  \A i \in Invoices :
    (status[i] = "PRINTING" /\ status'[i] = "OPEN" /\ failure'[i] = "rejected")
      => \E m \in queue : m.type = "rejected" /\ m.inv = i /\ m.req = attempt[i]
RejectionIsOfThisAttempt == [][ReopenedByItsOwnRejection]_vars

(* However the broker and the stock service misbehave, the operator hears  *)
(* back: a print ends closed, or open again with a reason.  The reconciler *)
(* alone sees to it.                                                       *)
EveryPrintIsResolved ==
  \A i \in Invoices :
    status[i] = "PRINTING" ~> (status[i] = "CLOSED" \/ (status[i] = "OPEN" /\ failure[i] # "none"))

(* Once the units were taken the invoice ends up closed, even when billing *)
(* had stopped waiting for the answer, as long as the messages move and    *)
(* somebody looks after the dead letters.                                  *)
DebitedIsEventuallyClosed ==
  PipelineFairness /\ OperatorFairness =>
    \A i \in Invoices : i \in debited ~> status[i] = "CLOSED"

(* The saga implements the invoice's life cycle. *)
Lifecycle == INSTANCE InvoiceLifecycle WITH requested <- {i \in Invoices : attempt[i] > 0}
LifecycleSpec == Lifecycle!Spec
=============================================================================
