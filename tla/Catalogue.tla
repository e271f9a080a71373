------------------------------ MODULE Catalogue ------------------------------
(***************************************************************************)
(* The products of the stock service as its screens write them: imports    *)
(* that register products one transaction each, edits of a description,    *)
(* and documents that move balances and leave a history.  How concurrent   *)
(* writes to one product are kept apart is in StockLedger; here a movement *)
(* has the time its transaction began, which is what the history is        *)
(* ordered by.                                                             *)
(***************************************************************************)
EXTENDS Listing

CONSTANTS
  Products,     \* ids of products
  InitProducts, \* what is registered at first: [code, description, balance]
  Imports,      \* requests to register products
  ImportItems,  \* the items of each: [id, code, balance, valid]
  Documents,    \* requests to adjust balances
  Adjustments,  \* the lines of each, as Adjust sorts them: [product, byCode, delta]
  MovementId,   \* the id a line's movement is given
  MaxEdits      \* bound: edits of a description

NoProduct == [code |-> 0, description |-> 0, balance |-> 0]

(* A product has a code, which no other has, and the database gives each   *)
(* product it inserts an id that none had.                                 *)
ASSUME CatalogueAssumption ==
  /\ IsFiniteSet(Products) /\ MaxEdits \in Nat
  /\ InitProducts \in [Products -> [code : Nat, description : Nat, balance : Nat]]
  /\ \A p \in Products : InitProducts[p] # NoProduct =>
       /\ InitProducts[p].code # 0
       /\ \A q \in Products : InitProducts[q].code = InitProducts[p].code => q = p
  /\ ImportItems \in [Imports -> Seq([id : Products, code : Nat, balance : Nat, valid : BOOLEAN])]
  /\ \A r \in Imports : \A i \in DOMAIN ImportItems[r] :
       /\ ImportItems[r][i].valid => ImportItems[r][i].code # 0
       /\ InitProducts[ImportItems[r][i].id] = NoProduct
       /\ \A s \in Imports : \A j \in DOMAIN ImportItems[s] :
            ImportItems[s][j].id = ImportItems[r][i].id => s = r /\ j = i
  /\ Adjustments \in [Documents -> Seq([product : Products, byCode : BOOLEAN, delta : Int])]
  /\ \A d \in Documents : MovementId[d] \in [DOMAIN Adjustments[d] -> Nat]

VARIABLES
  products,   \* the table
  movements,  \* stock_movements: the product, the time and the id of each
  clock,      \* now() of the transaction that began last
  inserted,   \* when an import began the transaction it is in
  results,    \* what each import has answered for its items so far
  begun,      \* when each document began its transaction
  settled,    \* documents that were applied or refused
  edits

stock == <<products, movements, clock, inserted, results, begun, settled, edits>>

Registered == {p \in Products : products[p] # NoProduct}
Opening(p) == [product |-> p, at |-> 0, id |-> 0]

CatalogueInit ==
  /\ products = InitProducts
  /\ movements = {Opening(p) : p \in {q \in Products : InitProducts[q].balance # 0}}
  /\ clock = 0
  /\ inserted = [r \in Imports |-> -1]
  /\ results = [r \in Imports |-> << >>]
  /\ begun = [d \in Documents |-> -1]
  /\ settled = {}
  /\ edits = 0
-----------------------------------------------------------------------------
(* Registering products. *)

Position(r) == Len(results[r]) + 1
Item(r) == ImportItems[r][Position(r)]
Working(r) == Position(r) <= Len(ImportItems[r])

Answer(r, result) == results' = [results EXCEPT ![r] = Append(@, result)]

(* The code was in an earlier item of the request, whatever became of it.  *)
Repeated(r) == \E i \in 1 .. Position(r) - 1 : ImportItems[r][i].code = Item(r).code

(* An item that is refused before the database is asked. *)
RefuseItem(r) ==
  /\ Working(r) /\ inserted[r] = -1
  /\ \/ Repeated(r) /\ Answer(r, "repeated")
     \/ ~ Repeated(r) /\ ~ Item(r).valid /\ Answer(r, "invalid")
  /\ UNCHANGED <<products, movements, clock, inserted, begun, settled, edits>>

Taken(code) == \E p \in Registered : products[p].code = code

(* Mutant: an INSERT looks only at what is committed. *)
InsertUnchecked(r) ==
  /\ Working(r) /\ inserted[r] = -1 /\ Item(r).valid /\ ~ Repeated(r)
  /\ \/ Taken(Item(r).code) /\ Answer(r, "exists") /\ UNCHANGED inserted
     \/ ~ Taken(Item(r).code) /\ inserted' = [inserted EXCEPT ![r] = clock] /\ UNCHANGED results
  /\ UNCHANGED <<products, movements, clock, begun, settled, edits>>

(* The INSERT, which waits for one of the same code that is not committed. *)
Insert(r) ==
  /\ Working(r) /\ inserted[r] = -1 /\ Item(r).valid /\ ~ Repeated(r)
  /\ \A s \in Imports : inserted[s] # -1 => Item(s).code # Item(r).code
  /\ \/ Taken(Item(r).code) /\ Answer(r, "exists") /\ UNCHANGED inserted
     \/ ~ Taken(Item(r).code) /\ inserted' = [inserted EXCEPT ![r] = clock] /\ UNCHANGED results
  /\ UNCHANGED <<products, movements, clock, begun, settled, edits>>

(* The COMMIT, of the product and of the movement that opens its history,  *)
(* or the end of the transaction without one.  The reply may be lost.      *)
Create(r) ==
  /\ inserted[r] # -1
  /\ LET item == Item(r)
     IN \/ /\ products' = [products EXCEPT ![item.id] =
                [code |-> item.code, description |-> 0, balance |-> item.balance]]
           /\ movements' = movements \union
                {m \in {[product |-> item.id, at |-> inserted[r], id |-> 0]} : item.balance # 0}
           /\ Answer(r, "ok") \/ Answer(r, "error")
        \/ Answer(r, "error") /\ UNCHANGED <<products, movements>>
  /\ inserted' = [inserted EXCEPT ![r] = -1]
  /\ UNCHANGED <<clock, begun, settled, edits>>
-----------------------------------------------------------------------------
(* Moving balances. *)

(* One product may be in a document twice, once by its id and once by its  *)
(* code: the check for duplicates compares what was sent.                  *)
ValidateAdjustments(lines) ==
  /\ \A i \in DOMAIN lines : lines[i].delta # 0
  /\ \A i, j \in DOMAIN lines :
       lines[i].product = lines[j].product /\ lines[i].byCode = lines[j].byCode => i = j

BeginAdjust(d) ==
  /\ begun[d] = -1
  /\ ValidateAdjustments(Adjustments[d])
  /\ clock' = clock + 1
  /\ begun' = [begun EXCEPT ![d] = clock']
  /\ UNCHANGED <<products, movements, inserted, results, settled, edits>>

(* What the lines, one after another, add to a balance. *)
DeltaTo(p, lines) ==
  LET sum[i \in 0 .. Len(lines)] ==
        IF i = 0 THEN 0
        ELSE sum[i - 1] + (IF lines[i].product = p THEN lines[i].delta ELSE 0)
  IN sum[Len(lines)]

(* Every line is applied, or none because a balance would not allow it. *)
Adjust(d) ==
  /\ begun[d] # -1 /\ d \notin settled
  /\ settled' = settled \union {d}
  /\ LET lines == Adjustments[d]
         fits == \A i \in DOMAIN lines :
                   LET p == lines[i].product
                   IN p \in Registered /\ products[p].balance + DeltaTo(p, SubSeq(lines, 1, i)) >= 0
     IN \/ /\ fits
           /\ products' = [p \in Products |-> [products[p] EXCEPT !.balance = @ + DeltaTo(p, lines)]]
           /\ movements' = movements \union
                {[product |-> lines[i].product, at |-> begun[d], id |-> MovementId[d][i]] : i \in DOMAIN lines}
        \/ ~ fits /\ UNCHANGED <<products, movements>>
  /\ UNCHANGED <<clock, inserted, results, begun, edits>>

(* An edit of a description, the version of the product being current. *)
UpdateProduct(p) ==
  /\ p \in Registered
  /\ edits < MaxEdits
  /\ products' = [products EXCEPT ![p].description = @ + 1]
  /\ edits' = edits + 1
  /\ UNCHANGED <<movements, clock, inserted, results, begun, settled>>

CatalogueNext ==
  \/ \E r \in Imports : RefuseItem(r) \/ Insert(r) \/ Create(r)
  \/ \E d \in Documents : BeginAdjust(d) \/ Adjust(d)
  \/ \E p \in Products : UpdateProduct(p)
=============================================================================
