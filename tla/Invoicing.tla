------------------------------ MODULE Invoicing ------------------------------
(***************************************************************************)
(* The invoices of the billing service over the catalogue of the stock     *)
(* service: an invoice is issued by asking the other service for its       *)
(* products, then taking a number from a sequence and storing the lines    *)
(* in one transaction.  A reader pages through one of the listings while   *)
(* all of this goes on; the assistant reads the catalogue that way before  *)
(* it drafts the lines an operator may confirm.                            *)
(***************************************************************************)
EXTENDS Catalogue

CONSTANTS
  Requests,         \* requests to issue an invoice
  Orders,           \* the lines an operator may type
  ModelAnswers,     \* what the model may answer: items of a code and a quantity
  MaxItemQuantity,
  MaxItems,         \* maxItemsPerInvoice
  MaxCatalogue,     \* maxCatalogueProducts
  Queries           \* the listings that may be read: [listing, order, limit, most, product]

Listings == {"code", "balance", "history", "invoices"}

ASSUME InvoicingAssumption ==
  /\ {MaxItemQuantity, MaxItems, MaxCatalogue} \subseteq Nat \ {0}
  /\ IsFiniteSet(Requests)
  /\ Orders \subseteq Seq([product : Products, quantity : Int])
  /\ ModelAnswers \subseteq Seq([code : Nat, quantity : Int])
  /\ Queries \subseteq [listing : Listings, order : {"asc", "desc"}, limit : Int, most : Int,
                        product : Products \union {"none"}]

VARIABLES
  stage,     \* where each request is
  lines,     \* its merged lines, then its items
  number,    \* invoice_number_seq, as it was taken
  sequence,  \* the last number taken
  reading,   \* the query, its cursor and the rows shown so far
  draft,     \* the lines the assistant suggests
  \* history
  after,     \* the largest number answered when a request began
  moments,   \* the descriptions at each moment of a request until its lookup
  stayed     \* rows of the listing being read that did not change since its first page

billing == <<stage, lines, number, sequence, after, moments>>
vars == <<stock, billing, reading, draft, stayed>>

Descriptions == [p \in Products |-> products[p].description]
NotReading == [state |-> "idle"]

Init ==
  /\ CatalogueInit
  /\ stage = [q \in Requests |-> "new"]
  /\ lines = [q \in Requests |-> << >>]
  /\ number = [q \in Requests |-> 0]
  /\ sequence = 0
  /\ reading = NotReading
  /\ draft = << >>
  /\ after = [q \in Requests |-> 0]
  /\ moments = [q \in Requests |-> {}]
  /\ stayed = {}

Goto(q, s) == stage' = [stage EXCEPT ![q] = s]
-----------------------------------------------------------------------------
(* Issuing an invoice. *)

(* A line of a product that has one already is added to it. *)
AddLine(merged, line) ==
  IF \E i \in DOMAIN merged : merged[i].product = line.product
  THEN [i \in DOMAIN merged |-> IF merged[i].product = line.product
                                THEN [merged[i] EXCEPT !.quantity = @ + line.quantity]
                                ELSE merged[i]]
  ELSE Append(merged, line)

(* The lines of one product become one line, where the first of them is. *)
Merge(inputs) == FoldLeft(AddLine, << >>, inputs)

Usable(quantity) == quantity \in 1 .. MaxItemQuantity

NewItemInputs(inputs) ==
  /\ inputs # << >>
  /\ \A i \in DOMAIN inputs : Usable(inputs[i].quantity)
  /\ \A i \in DOMAIN Merge(inputs) : Usable(Merge(inputs)[i].quantity)
  /\ Len(Merge(inputs)) <= MaxItems

Stored == {q \in Requests : stage[q] \in {"issued", "unanswered"}}
Answered == {number[q] : q \in {r \in Requests : stage[r] = "issued"}}

CreateInvoice(q) ==
  /\ stage[q] = "new"
  /\ \E inputs \in Orders \union ({draft} \ {<< >>}) :
       \/ /\ NewItemInputs(inputs)
          /\ lines' = [lines EXCEPT ![q] = Merge(inputs)]
          /\ Goto(q, "lookup")
       \/ ~ NewItemInputs(inputs) /\ Goto(q, "refused") /\ UNCHANGED lines
  /\ after' = [after EXCEPT ![q] = Max(Answered \union {0})]
  /\ moments' = [moments EXCEPT ![q] = {Descriptions}]
  /\ UNCHANGED <<number, sequence>>

(* An item keeps a product's description as the answer had it. *)
Snapshot(q, described) ==
  [i \in DOMAIN lines[q] |->
     [product |-> lines[q][i].product, quantity |-> lines[q][i].quantity,
      description |-> described[lines[q][i].product]]]

(* Mutant: products are looked up in what was read once. *)
LookupCached(q) ==
  /\ stage[q] = "lookup"
  /\ \/ Goto(q, "refused") /\ UNCHANGED lines
     \/ /\ \A i \in DOMAIN lines[q] : lines[q][i].product \in Registered
        /\ lines' = [lines EXCEPT ![q] = Snapshot(q, [p \in Products |-> InitProducts[p].description])]
        /\ Goto(q, "resolved")
  /\ UNCHANGED <<number, sequence, after, moments>>

(* One SELECT finds the products, all of them or the request is refused. *)
FindProducts(ids) == ids \subseteq Registered

(* The stock service may not answer. *)
Lookup(q) ==
  /\ stage[q] = "lookup"
  /\ \/ Goto(q, "refused") /\ UNCHANGED lines
     \/ /\ FindProducts({lines[q][i].product : i \in DOMAIN lines[q]})
        /\ lines' = [lines EXCEPT ![q] = Snapshot(q, Descriptions)]
        /\ Goto(q, "resolved")
  /\ UNCHANGED <<number, sequence, after, moments>>

(* Mutant: one more than the largest number that is stored. *)
NextNumberByCount == Max({number[q] : q \in Stored} \union {0}) + 1

(* A number, once taken, is never given back. *)
NextNumber == sequence + 1

InsertInvoice(q) ==
  /\ stage[q] = "resolved"
  /\ number' = [number EXCEPT ![q] = NextNumber]
  /\ sequence' = sequence + 1
  /\ Goto(q, "inserted")
  /\ UNCHANGED <<lines, after, moments>>

(* The COMMIT of the invoice and its items, whose reply may be lost, or    *)
(* the end of the transaction without one.                                 *)
CommitInvoice(q) ==
  /\ stage[q] = "inserted"
  /\ Goto(q, "issued") \/ Goto(q, "unanswered") \/ Goto(q, "refused")
  /\ UNCHANGED <<lines, number, sequence, after, moments>>

Issue(q) == CreateInvoice(q) \/ Lookup(q) \/ InsertInvoice(q) \/ CommitInvoice(q)
-----------------------------------------------------------------------------
(* Reading a listing. *)

(* The filters of a query: on the balance of a product, and on a product   *)
(* an invoice has in its items.                                            *)
Kept(query, p) == query.most = -1 \/ products[p].balance <= query.most
Uses(query, q) ==
  query.product = "none" \/ \E i \in DOMAIN lines[q] : lines[q][i].product = query.product

(* The catalogue, by the code of the products or by their balances, which  *)
(* repeat: the code breaks the tie.                                        *)
ListProducts(query) ==
  {[id |-> p, key |-> IF query.listing = "balance" THEN <<products[p].balance, products[p].code>>
                      ELSE <<products[p].code>>] : p \in {p \in Registered : Kept(query, p)}}

ListMovements(query) ==
  {[id |-> m, key |-> <<m.at, m.id>>] : m \in {m \in movements : m.product = query.product}}

ListInvoices(query) ==
  {[id |-> q, key |-> <<number[q]>>] : q \in {q \in Stored : Uses(query, q)}}

(* The rows of a listing that match its filters, with their keys. *)
Rows(query) ==
  CASE query.listing \in {"code", "balance"} -> ListProducts(query)
    [] query.listing = "history" -> ListMovements(query)
    [] query.listing = "invoices" -> ListInvoices(query)

ReadPage(query, cursor, shown) ==
  LET page == List(Rows(query), query.order, cursor, query.limit)
  IN reading' = [state |-> IF page.next = NoCursor THEN "done" ELSE "paging",
                 query |-> query, cursor |-> page.next, shown |-> shown \o page.items]

FirstPage(query) ==
  /\ reading.state = "idle"
  /\ ReadPage(query, NoCursor, << >>)
  /\ UNCHANGED draft

NextPage ==
  /\ reading.state = "paging"
  /\ ReadPage(reading.query, reading.cursor, reading.shown)
  /\ UNCHANGED draft

(* What the assistant asks of the catalogue, page by page, and when it has *)
(* read enough of it.                                                      *)
CataloguePage == [listing |-> "code", order |-> "asc", limit |-> MaxLimit, most |-> -1, product |-> "none"]

ListedAll ==
  /\ reading.state \in {"paging", "done"} /\ reading.query = CataloguePage
  /\ reading.state = "done" \/ Len(reading.shown) >= MaxCatalogue

(* The products that were read and have a code. *)
Named(shown, code) == {r.id : r \in {s \in ToSet(shown) : s.key = <<code>>}}

(* Of what the model answers a code that was not read and a quantity out   *)
(* of range are left out; the rest is merged, and the lines are cut.       *)
Suggest(shown, drafted, item) ==
  IF Named(shown, item.code) # {} /\ Usable(item.quantity)
  THEN AddLine(drafted, [product |-> CHOOSE p \in Named(shown, item.code) : TRUE, quantity |-> item.quantity])
  ELSE drafted

Resolve(answer, shown) ==
  LET drafted == FoldLeft(LAMBDA d, item : Suggest(shown, d, item), << >>, answer)
  IN SubSeq(drafted, 1, Min({Len(drafted), MaxItems}))

Draft ==
  /\ ListedAll /\ draft = << >>
  /\ \E answer \in ModelAnswers : draft' = Resolve(answer, reading.shown)
  /\ reading' = [reading EXCEPT !.state = "done"]

Read == NextPage \/ Draft \/ \E query \in Queries : FirstPage(query)

(* What is watched: the descriptions while a request looks up its products *)
(* and the rows of the listing being read.                                 *)
Watch ==
  /\ stayed' = IF reading.state = "idle" /\ reading'.state # "idle" THEN Rows(reading'.query)
               ELSE IF reading.state = "paging" THEN stayed \intersect Rows(reading.query)'
               ELSE stayed

Next ==
  /\ \/ /\ CatalogueNext
        /\ moments' = [q \in Requests |-> IF stage[q] = "lookup" THEN moments[q] \union {Descriptions'}
                                          ELSE moments[q]]
        /\ UNCHANGED <<stage, lines, number, sequence, after, reading, draft>>
     \/ (\E q \in Requests : Issue(q)) /\ UNCHANGED <<stock, reading, draft>>
     \/ Read /\ UNCHANGED <<stock, billing>>
  /\ Watch

Spec == Init /\ [][Next]_vars
-----------------------------------------------------------------------------
(* Two products never share a code, and an import is answered truthfully:  *)
(* a product it was told was created is there, and a code it was told is   *)
(* in use is.                                                              *)
CatalogueIsTruthful ==
  /\ \A p, q \in Registered : products[p].code = products[q].code => p = q
  /\ \A r \in Imports : \A i \in DOMAIN results[r] :
       /\ results[r][i] = "ok" => ImportItems[r][i].id \in Registered
       /\ results[r][i] = "exists" => Taken(ImportItems[r][i].code)

(* Invoices have numbers of their own, and an invoice whose number was     *)
(* answered before another was asked for has the smaller number, although  *)
(* numbers are taken before the transactions that use them commit.         *)
NumbersFollowTheClock ==
  /\ \A q, r \in Stored : number[q] = number[r] => q = r
  /\ \A q \in Stored : number[q] > after[q]

(* The items of an invoice describe its products as the catalogue did at   *)
(* one moment of the request, and are never touched by an edit that        *)
(* follows.                                                                *)
ItemsAreASnapshot ==
  \A q \in Stored : \E described \in moments[q] :
    \A i \in DOMAIN lines[q] : lines[q][i].description = described[lines[q][i].product]

(* One item for each product of an order, with the units of all its lines. *)
IsTotalOf(items, inputs) ==
  /\ {items[i].product : i \in DOMAIN items} = {inputs[j].product : j \in DOMAIN inputs}
  /\ \A i, k \in DOMAIN items : items[i].product = items[k].product => i = k
  /\ \A i \in DOMAIN items :
       items[i].quantity = SumFunctionOnSet([j \in DOMAIN inputs |-> inputs[j].quantity],
                                            {j \in DOMAIN inputs : inputs[j].product = items[i].product})

(* What an operator typed, or was drafted, and NewItemInputs lets through. *)
HoldAnOrder(items) ==
  /\ \E inputs \in Orders \union ({draft} \ {<< >>}) : IsTotalOf(items, inputs)
  /\ Len(items) \in 1 .. MaxItems
  /\ \A i \in DOMAIN items : Usable(items[i].quantity)

(* The items of an invoice are those of one order, merged: nothing between *)
(* the request and the commit adds one, drops one, repeats a product or    *)
(* loses units, and the limits still hold of the merged lines.             *)
InvoicesHoldTheirOrders == \A q \in Stored : HoldAnOrder(lines[q])

(* Whatever the model answers, and whatever changes in the catalogue after *)
(* it was read, the lines suggested are of registered products, one line   *)
(* for each, and no more than an invoice may have.                         *)
DraftsAreOfTheCatalogue ==
  /\ \A i \in DOMAIN draft : draft[i].product \in Registered /\ draft[i].quantity > 0
  /\ \A i, k \in DOMAIN draft : draft[i].product = draft[k].product => i = k
  /\ Len(draft) <= MaxItems

Times(id) == Cardinality({i \in DOMAIN reading.shown : reading.shown[i].id = id})

(* Whatever is registered, moved or issued between two pages, a row that   *)
(* kept its place since the first page is shown once when the last is      *)
(* read; and where keys never change no row is shown twice.                *)
PagesAreExact ==
  reading.state = "done" /\ reading.cursor = NoCursor =>
    /\ \A row \in stayed : Times(row.id) = 1
    /\ reading.query.listing # "balance" =>
         \A i \in DOMAIN reading.shown : Times(reading.shown[i].id) = 1
=============================================================================
