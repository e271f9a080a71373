----------------------------- MODULE StockBook -----------------------------
(***************************************************************************)
(* What the stock service promises about its balances, with no row lock,   *)
(* transaction, version or movement in sight: a document is booked all at  *)
(* once or not at all, an invoice is debited once, and an edit replaces    *)
(* the balance its author was looking at and no other.  StockLedger.tla is *)
(* shown to implement this module.                                         *)
(***************************************************************************)
EXTENDS Integers, FiniteSetsExt

CONSTANTS
  Products,        \* products of the catalogue
  Documents,       \* debits, adjustments and edits
  Doc,             \* what each of them says
  OpeningBalance   \* registered balance of each product

VARIABLES
  balance,  \* units left of each product
  booked,   \* documents that moved a balance
  seen      \* the balance an edit's author last saw

bvars == <<balance, booked, seen>>

Lines(d, p) == {l \in Doc[d].lines : l.product = p}

Total(lines) == SumFunctionOnSet([l \in lines |-> l.delta], lines)

(* What a document makes of the balance of a product. *)
After(d, p) ==
  IF Doc[d].kind = "edit" /\ Lines(d, p) # {} THEN Doc[d].target
  ELSE balance[p] + Total(Lines(d, p))

Init ==
  /\ balance = OpeningBalance
  /\ booked = {}
  /\ seen = [d \in Documents |-> -1]

Look(d) ==
  /\ \E p \in Products : Lines(d, p) # {} /\ seen' = [seen EXCEPT ![d] = balance[p]]
  /\ UNCHANGED <<balance, booked>>

Book(d) ==
  /\ d \notin booked
  /\ Doc[d].kind = "edit" => \A p \in Products : Lines(d, p) # {} => seen[d] = balance[p]
  /\ Doc[d].kind = "debit" =>
       \A e \in booked : Doc[e].kind = "debit" => Doc[e].invoice # Doc[d].invoice
  /\ \A p \in Products : After(d, p) >= 0
  /\ balance' = [p \in Products |-> After(d, p)]
  /\ booked' = booked \union {d}
  /\ UNCHANGED seen

Next == \E d \in Documents : Look(d) \/ Book(d)

Spec == Init /\ [][Next]_bvars
=============================================================================
