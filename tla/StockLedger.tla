---------------------------- MODULE StockLedger ----------------------------
(***************************************************************************)
(* The balances of the stock service under concurrent transactions: the    *)
(* debit of an invoice, the adjustment of a delivery note and the edit of  *)
(* one product, each a series of UPDATEs at READ COMMITTED.                *)
(*                                                                         *)
(* A statement reads a snapshot, waits for the row lock and tests its      *)
(* condition again on the row it finds, so transactions interleave between *)
(* any two statements and while one of them waits.  A lock is held until   *)
(* its transaction ends; a cycle of waits is broken by the database, which *)
(* rolls one of the transactions back.                                     *)
(***************************************************************************)
EXTENDS Integers, Sequences, FiniteSetsExt

CONSTANTS
  Products,        \* products, named by the order of their ids
  CodeRank,        \* the order of their codes
  Documents,       \* debits, adjustments and edits sent to the service
  Doc,             \* what each of them says
  OpeningBalance,  \* registered balance of each product
  IntegerMax,      \* largest value of an INTEGER column
  MaxAborts        \* bound: transactions rolled back by a failure

ASSUME LedgerAssumption ==
  /\ Products \subseteq Nat
  /\ CodeRank \in [Products -> Nat]
  /\ \A p, q \in Products : CodeRank[p] = CodeRank[q] => p = q
  /\ IntegerMax \in Nat
  /\ IsFiniteSet(Documents)
  /\ OpeningBalance \in [Products -> 0 .. IntegerMax]
  /\ \A d \in Documents :
       /\ IsFiniteSet(Doc[d].lines)
       /\ Doc[d].kind \in {"debit", "adjust", "edit"}
       /\ Doc[d].target \in 0 .. IntegerMax
       /\ \A l \in Doc[d].lines :
            l.product \in Products /\ l.delta \in Int /\ l.by \in {"id", "code"} /\ l.text \in Nat
       /\ \A k, l \in Doc[d].lines :
            k.by = l.by /\ k.product = l.product /\ k.text = l.text => k = l
       /\ \A l \in Doc[d].lines : l.by = "code" => l.text = CodeRank[l.product]
  /\ \A d \in Documents : Doc[d].kind = "edit" => \E l \in Doc[d].lines : Doc[d].lines = {l}
  /\ MaxAborts \in Nat

VARIABLES
  \* committed
  row,        \* products: balance and version
  debits,     \* stock_debits
  history,    \* stock_movements, in the order their transactions committed
  \* the transaction of each document
  stage,      \* where it is
  todo,       \* lines whose statement has not run
  snapshot,   \* the row as the current statement first saw it
  draft,      \* row versions written and not committed; they hold the lock
  moves,      \* movements written and not committed
  seen,       \* the row an edit's author had on the screen
  aborts

committed == <<row, debits, history>>
transaction == <<stage, todo, snapshot, draft, moves, seen>>
vars == <<committed, transaction, aborts>>

NoRow == [balance |-> 0, version |-> 0]

Settled == {"committed", "repeated", "rejected", "overflow", "failed"}

Init ==
  /\ row = [p \in Products |-> [balance |-> OpeningBalance[p], version |-> 1]]
  /\ debits = {}
  /\ history = << >>
  /\ stage = [d \in Documents |-> "idle"]
  /\ todo = [d \in Documents |-> {}]
  /\ snapshot = [d \in Documents |-> NoRow]
  /\ draft = [d \in Documents |-> [p \in Products |-> NoRow]]
  /\ moves = [d \in Documents |-> << >>]
  /\ seen = [d \in Documents |-> NoRow]
  /\ aborts = 0
-----------------------------------------------------------------------------
(* Mutant: lines in the order they were sent. *)
BeforeAsSent(k, l) == k.sent < l.sent

(* Debit and Adjust sort their lines by the text of the id followed by the *)
(* code.  A line that gives only a code has the nil id, so it sorts before *)
(* those with an id.  One that gives an id may give any code with it, or   *)
(* none, so that a product can be there twice.                             *)
Before(k, l) ==
  \/ k.by = "code" /\ l.by = "id"
  \/ k.by = "code" /\ l.by = "code" /\ k.text < l.text
  \/ k.by = "id" /\ l.by = "id" /\ k.product < l.product
  \/ k.by = "id" /\ l.by = "id" /\ k.product = l.product /\ k.text < l.text

Current(d) == CHOOSE l \in todo[d] : \A k \in todo[d] \ {l} : Before(l, k)

Holds(d, p) == draft[d][p] # NoRow

(* A transaction sees its own writes and what others committed. *)
Visible(d, p) == IF Holds(d, p) THEN draft[d][p] ELSE row[p]

(* Mutant: the version is not part of the condition. *)
AcceptsAnyVersion(d, r) ==
  IF Doc[d].kind = "edit" THEN TRUE ELSE r.balance + Current(d).delta >= 0

(* The condition of the UPDATE, evaluated on a version of the row. *)
Accepts(d, r) ==
  IF Doc[d].kind = "edit" THEN r.version = seen[d].version
  ELSE r.balance + Current(d).delta >= 0

(* The transaction ends: its locks are gone, and its writes with them. *)
End(d, how) ==
  /\ stage' = [stage EXCEPT ![d] = how]
  /\ todo' = [todo EXCEPT ![d] = {}]
  /\ snapshot' = [snapshot EXCEPT ![d] = NoRow]
  /\ draft' = [draft EXCEPT ![d] = [p \in Products |-> NoRow]]
  /\ moves' = [moves EXCEPT ![d] = << >>]
  /\ UNCHANGED seen

(* The author of an edit opens the form. *)
Look(d) ==
  /\ stage[d] = "idle" /\ Doc[d].kind = "edit"
  /\ seen' = [seen EXCEPT ![d] = row[(CHOOSE l \in Doc[d].lines : TRUE).product]]
  /\ seen' # seen
  /\ UNCHANGED <<stage, todo, snapshot, draft, moves, committed, aborts>>

Begin(d) ==
  /\ stage[d] = "idle"
  /\ Doc[d].kind = "edit" => seen[d] # NoRow
  /\ stage' = [stage EXCEPT ![d] = IF Doc[d].kind = "debit" THEN "claiming" ELSE "ready"]
  /\ todo' = [todo EXCEPT ![d] = Doc[d].lines]
  /\ UNCHANGED <<snapshot, draft, moves, seen, committed, aborts>>

(* Transactions that inserted the row of an invoice and have not ended. *)
Claimants(i) ==
  {d \in Documents : /\ Doc[d].kind = "debit" /\ Doc[d].invoice = i
                     /\ stage[d] \in {"ready", "waiting"}}

(* Mutant: the conflict with a committed debit is an error every time. *)
ClaimInvoiceOrFail(d) ==
  /\ stage[d] = "claiming" /\ Claimants(Doc[d].invoice) = {}
  /\ IF Doc[d].invoice \in debits THEN End(d, "idle")
     ELSE /\ stage' = [stage EXCEPT ![d] = "ready"]
          /\ UNCHANGED <<todo, snapshot, draft, moves, seen>>
  /\ UNCHANGED <<committed, aborts>>

(* INSERT INTO stock_debits ... ON CONFLICT DO NOTHING waits for another   *)
(* transaction inserting the same invoice; an invoice that was debited is  *)
(* confirmed again and nothing is taken.                                   *)
ClaimInvoice(d) ==
  /\ stage[d] = "claiming"
  /\ \/ Doc[d].invoice \in debits /\ End(d, "repeated")
     \/ /\ Doc[d].invoice \notin debits /\ Claimants(Doc[d].invoice) = {}
        /\ stage' = [stage EXCEPT ![d] = "ready"]
        /\ UNCHANGED <<todo, snapshot, draft, moves, seen>>
  /\ UNCHANGED <<committed, aborts>>

(* The UPDATE of a line starts.  A row that does not meet the condition is *)
(* not waited for: the document is rejected and everything rolled back.    *)
Issue(d) ==
  /\ stage[d] = "ready" /\ todo[d] # {}
  /\ LET r == Visible(d, Current(d).product)
     IN \/ ~ Accepts(d, r) /\ End(d, "rejected")
        \/ /\ Accepts(d, r)
           /\ stage' = [stage EXCEPT ![d] = "waiting"]
           /\ snapshot' = [snapshot EXCEPT ![d] = r]
           /\ UNCHANGED <<todo, draft, moves, seen>>
  /\ UNCHANGED <<committed, aborts>>

Free(d, p) == \A e \in Documents \ {d} : ~ Holds(e, p)

NewBalance(d, r) ==
  IF Doc[d].kind = "edit" THEN Doc[d].target ELSE r.balance + Current(d).delta

(* An edit measures its movement from the balance in its snapshot. *)
DeltaOf(d, r) == NewBalance(d, r) - IF Doc[d].kind = "edit" THEN snapshot[d].balance ELSE r.balance

Movement(d, r) ==
  IF DeltaOf(d, r) = 0 THEN << >>
  ELSE << [product |-> Current(d).product, delta |-> DeltaOf(d, r),
           after |-> NewBalance(d, r)] >>

(* The row is free and tested again: it is written with its movement, or   *)
(* it no longer meets the condition, or the sum does not fit the column.   *)
Execute(d) ==
  /\ stage[d] = "waiting"
  /\ Free(d, Current(d).product)
  /\ LET p == Current(d).product
         r == Visible(d, p)
     IN \/ ~ Accepts(d, r) /\ End(d, "rejected")
        \/ Accepts(d, r) /\ NewBalance(d, r) > IntegerMax /\ End(d, "overflow")
        \/ /\ Accepts(d, r) /\ NewBalance(d, r) <= IntegerMax
           /\ stage' = [stage EXCEPT ![d] = "ready"]
           /\ todo' = [todo EXCEPT ![d] = @ \ {Current(d)}]
           /\ snapshot' = [snapshot EXCEPT ![d] = NoRow]
           /\ draft' = [draft EXCEPT ![d][p] = [balance |-> NewBalance(d, r), version |-> r.version + 1]]
           /\ moves' = [moves EXCEPT ![d] = @ \o Movement(d, r)]
           /\ UNCHANGED seen
  /\ UNCHANGED <<committed, aborts>>

Publish(d) ==
  /\ row' = [p \in Products |-> IF Holds(d, p) THEN draft[d][p] ELSE row[p]]
  /\ history' = history \o moves[d]
  /\ debits' = IF Doc[d].kind = "debit" THEN debits \union {Doc[d].invoice} ELSE debits

(* Mutant: every line is a transaction of its own. *)
CommitEachLine(d) ==
  /\ stage[d] = "ready" /\ todo[d] # Doc[d].lines
  /\ Publish(d)
  /\ IF todo[d] = {} THEN End(d, "committed")
     ELSE /\ draft' = [draft EXCEPT ![d] = [p \in Products |-> NoRow]]
          /\ moves' = [moves EXCEPT ![d] = << >>]
          /\ UNCHANGED <<stage, todo, snapshot, seen>>
  /\ UNCHANGED aborts

Commit(d) ==
  /\ stage[d] = "ready" /\ todo[d] = {}
  /\ Publish(d)
  /\ End(d, "committed")
  /\ UNCHANGED aborts

(* Some statement fails; the document is sent again by whoever sent it.    *)
Abort(d) ==
  /\ stage[d] \in {"claiming", "ready", "waiting"}
  /\ aborts < MaxAborts
  /\ aborts' = aborts + 1
  /\ End(d, "idle")
  /\ UNCHANGED committed

WaitsFor(d, e) ==
  /\ d # e
  /\ \/ stage[d] = "claiming" /\ Doc[d].invoice \notin debits /\ e \in Claimants(Doc[d].invoice)
     \/ stage[d] = "waiting" /\ Holds(e, Current(d).product)

Blocked == {d \in Documents : \E e \in Documents : WaitsFor(d, e)}

Deadlocks == {S \in SUBSET Blocked : S # {} /\ \A d \in S : \E e \in S : WaitsFor(d, e)}

(* The database finds a cycle of waits and fails one of the statements.    *)
DeadlockVictim(d) ==
  /\ d \in Blocked /\ d \in UNION Deadlocks
  /\ End(d, "failed")
  /\ UNCHANGED <<committed, aborts>>

Run(d) ==
  Look(d) \/ Begin(d) \/ ClaimInvoice(d) \/ Issue(d) \/ Execute(d) \/ Commit(d) \/ DeadlockVictim(d)

Next == \E d \in Documents : Run(d) \/ Abort(d)

Spec == Init /\ [][Next]_vars

(* The service and the database keep working while there is a document to  *)
(* work on, and the database looks for cycles of waits.                    *)
FairSpec == Spec /\ WF_vars(\E d \in Documents : Run(d))
-----------------------------------------------------------------------------
(* The balance of a product after the first k movements of a list.         *)
BalanceAfter(h, opening, p, k) ==
  LET Of == {j \in 1 .. k : h[j].product = p}
  IN IF Of = {} THEN opening ELSE h[Max(Of)].after

(* Every movement of a product starts where the one before it ended.       *)
Chained(h, opening, p) ==
  \A k \in DOMAIN h :
    h[k].product = p => h[k].after = BalanceAfter(h, opening, p, k - 1) + h[k].delta

(* The history can never disagree with the balance it explains: from the   *)
(* opening balance every movement starts where the one before it ended,    *)
(* and the last one ends at the balance of the product.                    *)
HistoryExplainsBalance ==
  \A p \in Products :
    /\ Chained(history, OpeningBalance[p], p)
    /\ BalanceAfter(history, OpeningBalance[p], p, Len(history)) = row[p].balance

(* Given by their ids, products are locked in one order by everybody: only *)
(* an adjustment that gives codes can be part of a deadlock.               *)
OnlyCodesDeadlock ==
  \A S \in Deadlocks : \E d \in S : \E l \in Doc[d].lines : l.by = "code"

(* Every document is settled, however the others hold it up. *)
EveryDocumentIsSettled == <>(\A d \in Documents : stage[d] \in Settled)

(* The transactions implement the book. *)
Book == INSTANCE StockBook WITH
  balance <- [p \in Products |-> row[p].balance],
  booked <- {d \in Documents : stage[d] = "committed"},
  seen <- [d \in Documents |-> IF seen[d] = NoRow THEN -1 ELSE seen[d].balance]
BookSpec == Book!Spec
=============================================================================
