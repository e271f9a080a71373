-------------------------- MODULE InvoiceLifecycle --------------------------
(***************************************************************************)
(* What printing an invoice promises, with no message, outbox, broker or   *)
(* retry in sight.  An invoice is requested, its stock is taken once and   *)
(* all of it or none of it, and only then is the invoice closed, for good. *)
(* Printing.tla is shown to implement this module.                         *)
(***************************************************************************)
EXTENDS Integers

CONSTANTS
  Invoices,        \* invoices known to the billing service
  Products,        \* products known to the stock service
  Quantity,        \* Quantity[i][p]: units of p on invoice i, 0 for no line
  OpeningBalance,  \* balance of each product at the start
  MaxBalance       \* bound: largest balance a replenishment may reach

VARIABLES
  status,     \* OPEN, PRINTING or CLOSED, per invoice
  requested,  \* invoices whose print was asked for at least once
  debited,    \* invoices whose stock was taken
  balance     \* units left of each product

avars == <<status, requested, debited, balance>>

Statuses == {"OPEN", "PRINTING", "CLOSED"}

Init ==
  /\ status = [i \in Invoices |-> "OPEN"]
  /\ requested = {}
  /\ debited = {}
  /\ balance = OpeningBalance

(* The operator asks for an open invoice to be printed. *)
Request(i) ==
  /\ status[i] = "OPEN"
  /\ status' = [status EXCEPT ![i] = "PRINTING"]
  /\ requested' = requested \union {i}
  /\ UNCHANGED <<debited, balance>>

(* Every line of a requested invoice is taken at once, and only once. *)
Take(i) ==
  /\ i \in requested
  /\ i \notin debited
  /\ \A p \in Products : Quantity[i][p] <= balance[p]
  /\ debited' = debited \union {i}
  /\ balance' = [p \in Products |-> balance[p] - Quantity[i][p]]
  /\ UNCHANGED <<status, requested>>

(* An invoice whose stock was taken is closed, whether or not billing had  *)
(* already stopped waiting for it.                                         *)
Close(i) ==
  /\ i \in debited
  /\ status[i] # "CLOSED"
  /\ status' = [status EXCEPT ![i] = "CLOSED"]
  /\ UNCHANGED <<requested, debited, balance>>

(* Billing stops waiting for some of the invoices being printed. *)
GiveUp(S) ==
  /\ \A i \in S : status[i] = "PRINTING"
  /\ status' = [i \in Invoices |-> IF i \in S THEN "OPEN" ELSE status[i]]
  /\ UNCHANGED <<requested, debited, balance>>

(* Someone counts or delivers stock: the balance moves, never below zero. *)
Supply(p) ==
  /\ \E b \in 0 .. MaxBalance : balance' = [balance EXCEPT ![p] = b]
  /\ UNCHANGED <<status, requested, debited>>

Next ==
  \/ \E i \in Invoices : Request(i) \/ Take(i) \/ Close(i)
  \/ \E S \in SUBSET Invoices : GiveUp(S)
  \/ \E p \in Products : Supply(p)

Spec == Init /\ [][Next]_avars
=============================================================================
