-------------------------- MODULE StockLedgerProofs --------------------------
(***************************************************************************)
(* Theorems about the transactions of the stock service, for any products, *)
(* documents and balances.                                                 *)
(***************************************************************************)
EXTENDS StockLedger, SetLemmas, TLAPS

Stages == Settled \union {"idle", "claiming", "ready", "waiting"}

AllLines == UNION {Doc[d].lines : d \in Documents}

Version == [balance : 0 .. IntegerMax, version : Nat]

TypeOK ==
  /\ row \in [Products -> Version]
  /\ stage \in [Documents -> Stages]
  /\ todo \in [Documents -> SUBSET AllLines]
  /\ \A d \in Documents : todo[d] \subseteq Doc[d].lines
  /\ draft \in [Documents -> [Products -> Version]]

AtWork(d) == stage[d] \in {"ready", "waiting"}

(* Locks are held by transactions at work, and one that waits has a line   *)
(* to wait with.                                                           *)
LocksAreOfWork ==
  \A d \in Documents :
    /\ \A p \in Products : Holds(d, p) => AtWork(d)
    /\ stage[d] = "waiting" => todo[d] # {}

ById(d) == \A l \in Doc[d].lines : l.by = "id"

(* A row has one lock. *)
LocksExclude ==
  \A d, e \in Documents : \A p \in Products : Holds(d, p) /\ Holds(e, p) => d = e

(* A document that gives ids locks its products in their order. *)
LockOrder ==
  \A d \in Documents : ById(d) =>
    \A p \in Products : Holds(d, p) => \A l \in todo[d] : p <= l.product

Debits(i) == {d \in Documents : Doc[d].kind = "debit" /\ Doc[d].invoice = i}

(* One transaction at a time has claimed an invoice, and only while nobody *)
(* debited it.                                                             *)
ClaimsExclude ==
  \A i : \A d, e \in Debits(i) :
    /\ AtWork(d) => i \notin debits /\ (AtWork(e) => d = e)
    /\ stage[d] = "committed" => i \in debits /\ (stage[e] = "committed" => d = e)

IInv == TypeOK /\ LocksAreOfWork /\ LocksExclude /\ LockOrder /\ ClaimsExclude

-----------------------------------------------------------------------------
USE LedgerAssumption

(* A document that has lines to run has a first one among them. *)
LEMMA CurrentIsFirst ==
  ASSUME NEW d \in Documents, todo[d] \subseteq Doc[d].lines, todo[d] # {}
  PROVE  /\ Current(d) \in todo[d]
         /\ \A k \in todo[d] \ {Current(d)} : Before(Current(d), k)
<1> DEFINE Coded == {l \in todo[d] : l.by = "code"}
<1>1. \A l \in todo[d] : l.product \in Products /\ l.by \in {"id", "code"} /\ l.product \in Nat /\ l.text \in Nat
  OBVIOUS
<1>2. \A k, l \in todo[d] : k.by = l.by /\ k.product = l.product /\ k.text = l.text => k = l
  OBVIOUS
<1>3. \A k, l \in Coded : k.text = l.text => k.product = l.product
  <2>1. \A l \in Coded : l.text = CodeRank[l.product] /\ l.product \in Products
    OBVIOUS
  <2>2. ASSUME NEW k \in Coded, NEW l \in Coded, k.text = l.text
        PROVE  k.product = l.product
    <3>1. CodeRank[k.product] = CodeRank[l.product]
      BY <2>1, <2>2
    <3>2. k.product \in Products /\ l.product \in Products
      BY <2>1
    <3> HIDE DEF Coded
    <3>3. QED
      BY <3>1, <3>2
  <2>3. QED
    BY <2>2
<1>4. \E l \in todo[d] : \A k \in todo[d] \ {l} : Before(l, k)
  <2>1. CASE Coded = {}
    <3>1. PICK m \in todo[d] : \A k \in todo[d] : m.product <= k.product
      <4> DEFINE T == {l.product : l \in todo[d]}
      <4>1. T \in SUBSET Nat /\ T # {}
        BY <1>1
      <4>2. \A k \in todo[d] : k.product \in T
        OBVIOUS
      <4>3. \A x \in T : \E l \in todo[d] : x = l.product
        OBVIOUS
      <4> HIDE DEF T
      <4>4. PICK x \in T : \A y \in T : x <= y
        BY <4>1, LeastNumber
      <4>5. QED
        BY <4>2, <4>3, <4>4
    <3> DEFINE Same == {l \in todo[d] : l.product = m.product}
    <3>2. PICK l \in Same : \A k \in Same : l.text <= k.text
      <4> DEFINE T == {k.text : k \in Same}
      <4>1. T \in SUBSET Nat /\ T # {}
        BY <1>1
      <4>2. \A k \in Same : k.text \in T
        OBVIOUS
      <4>3. \A x \in T : \E k \in Same : x = k.text
        OBVIOUS
      <4> HIDE DEF T
      <4>4. PICK x \in T : \A y \in T : x <= y
        BY <4>1, LeastNumber
      <4>5. QED
        BY <4>2, <4>3, <4>4
    <3>3. ASSUME NEW k \in todo[d] \ {l} PROVE Before(l, k)
      <4>1. l.by = "id" /\ k.by = "id" /\ l.product = m.product
        BY <1>1, <2>1
      <4>2. CASE k.product = m.product
        <5>1. l.text # k.text
          BY <1>2, <4>1, <4>2
        <5>2. l.text < k.text
          BY <1>1, <3>2, <4>2, <5>1
        <5>3. QED
          BY <4>1, <4>2, <5>2 DEF Before
      <4>3. CASE k.product # m.product
        <5>1. l.product < k.product
          BY <1>1, <3>1, <4>1, <4>3
        <5>2. QED
          BY <4>1, <5>1 DEF Before
      <4>4. QED
        BY <4>2, <4>3
    <3>4. QED
      BY <3>3
  <2>2. CASE Coded # {}
    <3> DEFINE T == {l.text : l \in Coded}
    <3>1. T \in SUBSET Nat /\ T # {}
      BY <1>1, <2>2
    <3>2. PICK l \in Coded : \A k \in Coded : l.text <= k.text
      <4>1. \A k \in Coded : k.text \in T
        OBVIOUS
      <4>2. \A x \in T : \E l \in Coded : x = l.text
        OBVIOUS
      <4> HIDE DEF T
      <4>3. PICK x \in T : \A y \in T : x <= y
        BY <3>1, LeastNumber
      <4>4. QED
        BY <4>1, <4>2, <4>3
    <3>3. ASSUME NEW k \in todo[d] \ {l} PROVE Before(l, k)
      <4>1. CASE k.by = "id"
        BY <4>1 DEF Before
      <4>2. CASE k.by = "code"
        <5>1. l.text = k.text => l.product = k.product
          BY <1>3, <4>2
        <5>2. l.text # k.text
          BY <1>2, <4>2, <5>1
        <5>3. l.text < k.text
          BY <1>1, <3>2, <4>2, <5>2
        <5>4. QED
          BY <4>2, <5>3 DEF Before
      <4>3. QED
        BY <1>1, <4>1, <4>2
    <3>4. QED
      BY <3>3
  <2>3. QED
    BY <2>1, <2>2
<1>5. QED
  BY <1>4 DEF Current

(* The end of a transaction leaves none of its locks. *)
LEMMA EndDoes ==
  ASSUME IInv, NEW d \in Documents, NEW how \in Settled \union {"idle"}, End(d, how),
         row' \in [Products -> Version]
  PROVE  /\ TypeOK' /\ LocksAreOfWork' /\ LocksExclude' /\ LockOrder'
         /\ stage'[d] = how /\ ~ AtWork(d)'
         /\ \A e \in Documents \ {d} : stage'[e] = stage[e]
<1>1. TypeOK
  BY DEF IInv
<1>2. NoRow \in Version
  BY DEF NoRow, Version
<1>3. TypeOK'
  BY <1>1, <1>2 DEF End, TypeOK, Stages, Settled
<1>4. /\ stage'[d] = how /\ todo'[d] = {}
      /\ \A e \in Documents \ {d} : stage'[e] = stage[e] /\ todo'[e] = todo[e] /\ draft'[e] = draft[e]
      /\ \A p \in Products : draft'[d][p] = NoRow
  BY <1>1 DEF End, TypeOK
<1>5. how \notin {"ready", "waiting"}
  BY DEF Settled
<1>6. LocksAreOfWork'
  BY <1>4, <1>5 DEF IInv, LocksAreOfWork, Holds, AtWork
<1>7. LockOrder'
  BY <1>4 DEF IInv, LockOrder, Holds, ById
<1>8. LocksExclude'
  BY <1>4 DEF IInv, LocksExclude, Holds
<1>9. QED
  BY <1>3, <1>4, <1>5, <1>6, <1>7, <1>8 DEF AtWork

(* Every end but a commit. *)
LEMMA EndKeeps ==
  ASSUME IInv, NEW d \in Documents, NEW how \in (Settled \union {"idle"}) \ {"committed"},
         End(d, how), UNCHANGED <<row, debits>>
  PROVE  IInv'
<1>1. row' \in [Products -> Version]
  BY DEF IInv, TypeOK
<1>2. /\ TypeOK' /\ LocksAreOfWork' /\ LocksExclude' /\ LockOrder'
      /\ stage'[d] = how /\ ~ AtWork(d)'
      /\ \A e \in Documents \ {d} : stage'[e] = stage[e]
  BY <1>1, EndDoes
<1>3. ClaimsExclude'
  BY <1>2 DEF IInv, ClaimsExclude, AtWork, Debits
<1>4. QED
  BY <1>2, <1>3 DEF IInv
-----------------------------------------------------------------------------
LEMMA InitInv == Init => IInv
<1> SUFFICES ASSUME Init PROVE IInv
  OBVIOUS
<1>1. NoRow \in Version
  BY DEF NoRow, Version
<1>2. \A p \in Products : [balance |-> OpeningBalance[p], version |-> 1] \in Version
  BY DEF Version
<1>3. TypeOK
  BY <1>1, <1>2 DEF Init, TypeOK, Stages
<1>4. LocksAreOfWork /\ LocksExclude /\ LockOrder /\ ClaimsExclude
  BY DEF Init, LocksAreOfWork, LocksExclude, LockOrder, ClaimsExclude, Holds, AtWork, Debits
<1>5. QED
  BY <1>3, <1>4 DEF IInv

LEMMA BeginKeeps ==
  ASSUME IInv, NEW d \in Documents, Begin(d)
  PROVE  IInv'
<1>1. /\ stage[d] = "idle" /\ UNCHANGED <<draft, row, debits>>
      /\ \E s \in {"claiming", "ready"} :
           /\ stage' = [stage EXCEPT ![d] = s]
           /\ s = "ready" => Doc[d].kind # "debit"
      /\ todo' = [todo EXCEPT ![d] = Doc[d].lines]
  BY DEF Begin, committed
<1>2. TypeOK
  BY DEF IInv
<1>3. Doc[d].lines \subseteq AllLines
  BY DEF AllLines
<1>4. TypeOK'
  BY <1>1, <1>2, <1>3 DEF TypeOK, Stages
<1>5. \A p \in Products : ~ Holds(d, p)
  BY <1>1 DEF IInv, LocksAreOfWork, AtWork
<1>6. LocksAreOfWork'
  BY <1>1, <1>2, <1>5 DEF IInv, LocksAreOfWork, AtWork, Holds, TypeOK
<1>7. LockOrder'
  BY <1>1, <1>2, <1>5 DEF IInv, LockOrder, ById, Holds, TypeOK
<1>8. ClaimsExclude'
  <2>1. \A i : \A e \in Debits(i) : AtWork(e)' => AtWork(e)
    BY <1>1, <1>2 DEF TypeOK, AtWork, Debits
  <2>2. \A e \in Documents : stage'[e] = "committed" <=> stage[e] = "committed"
    BY <1>1, <1>2 DEF TypeOK
  <2>3. debits' = debits /\ ClaimsExclude
    BY <1>1 DEF IInv
  <2> SUFFICES ASSUME NEW i, NEW e \in Debits(i), NEW f \in Debits(i)
               PROVE  /\ AtWork(e)' => i \notin debits' /\ (AtWork(f)' => e = f)
                      /\ stage'[e] = "committed" => i \in debits' /\ (stage'[f] = "committed" => e = f)
    BY DEF ClaimsExclude, Debits
  <2>4. e \in Documents /\ f \in Documents
    BY DEF Debits
  <2>5. /\ AtWork(e) => i \notin debits /\ (AtWork(f) => e = f)
        /\ stage[e] = "committed" => i \in debits /\ (stage[f] = "committed" => e = f)
    BY <2>3 DEF ClaimsExclude
  <2>6. QED
    BY <2>1, <2>2, <2>3, <2>4, <2>5
<1>9. LocksExclude'
  <2>1. draft' = draft
    BY <1>1
  <2>2. QED
    BY <2>1 DEF IInv, LocksExclude, Holds
<1>10. QED
  BY <1>4, <1>6, <1>7, <1>8, <1>9 DEF IInv

LEMMA ClaimKeeps ==
  ASSUME IInv, NEW d \in Documents, ClaimInvoice(d)
  PROVE  IInv'
<1>1. stage[d] = "claiming" /\ UNCHANGED <<row, debits>>
  BY DEF ClaimInvoice, committed
<1>2. CASE End(d, "repeated")
  BY <1>1, <1>2, EndKeeps DEF Settled
<1>3. CASE /\ Doc[d].invoice \notin debits /\ Claimants(Doc[d].invoice) = {}
           /\ stage' = [stage EXCEPT ![d] = "ready"]
           /\ UNCHANGED <<todo, draft>>
  <2>1. TypeOK' /\ LocksAreOfWork' /\ LocksExclude' /\ LockOrder'
    BY <1>1, <1>3 DEF IInv, TypeOK, LocksAreOfWork, LocksExclude, LockOrder, AtWork, Holds, ById, Stages
  <2>2. stage'[d] = "ready" /\ \A e \in Documents \ {d} : stage'[e] = stage[e]
    BY <1>3 DEF IInv, TypeOK
  <2>3. \A e \in Debits(Doc[d].invoice) : ~ AtWork(e)
    BY <1>3 DEF Claimants, Debits, AtWork
  <2>4. ClaimsExclude'
    BY <1>1, <1>3, <2>2, <2>3 DEF IInv, ClaimsExclude, AtWork, Debits
  <2>5. QED
    BY <2>1, <2>4 DEF IInv
<1>4. QED
  BY <1>2, <1>3 DEF ClaimInvoice

LEMMA IssueKeeps ==
  ASSUME IInv, NEW d \in Documents, Issue(d)
  PROVE  IInv'
<1>1. stage[d] = "ready" /\ todo[d] # {} /\ UNCHANGED <<row, debits>>
  BY DEF Issue, committed
<1>2. CASE End(d, "rejected")
  BY <1>1, <1>2, EndKeeps DEF Settled
<1>3. CASE stage' = [stage EXCEPT ![d] = "waiting"] /\ UNCHANGED <<todo, draft>>
  <2>1. TypeOK' /\ LocksAreOfWork' /\ LocksExclude' /\ LockOrder'
    BY <1>1, <1>3 DEF IInv, TypeOK, LocksAreOfWork, LocksExclude, LockOrder, AtWork, Holds, ById, Stages
  <2>2. \A e \in Documents : AtWork(e)' = AtWork(e) /\ (stage'[e] = "committed" <=> stage[e] = "committed")
    BY <1>1, <1>3 DEF IInv, TypeOK, AtWork
  <2>3. ClaimsExclude'
    BY <1>1, <2>2 DEF IInv, ClaimsExclude, Debits
  <2>4. QED
    BY <2>1, <2>3 DEF IInv
<1>4. QED
  BY <1>2, <1>3 DEF Issue

LEMMA ExecuteKeeps ==
  ASSUME IInv, NEW d \in Documents, Execute(d)
  PROVE  IInv'
<1> DEFINE l == Current(d)
           r == Visible(d, l.product)
<1>1. stage[d] = "waiting" /\ UNCHANGED <<row, debits>> /\ todo[d] # {} /\ Free(d, l.product)
  BY DEF Execute, committed, IInv, LocksAreOfWork
<1>2. TypeOK
  BY DEF IInv
<1>3. l \in todo[d] /\ \A k \in todo[d] \ {l} : Before(l, k)
  BY <1>1, <1>2, CurrentIsFirst DEF TypeOK
<1>4. l.product \in Products /\ l.delta \in Int /\ l \in Doc[d].lines
  BY <1>2, <1>3 DEF TypeOK
<1>5. CASE End(d, "rejected") \/ End(d, "overflow")
  BY <1>1, <1>5, EndKeeps DEF Settled
<1>6. CASE /\ Accepts(d, r) /\ NewBalance(d, r) <= IntegerMax
           /\ stage' = [stage EXCEPT ![d] = "ready"]
           /\ todo' = [todo EXCEPT ![d] = @ \ {l}]
           /\ draft' = [draft EXCEPT ![d][l.product] =
                          [balance |-> NewBalance(d, r), version |-> r.version + 1]]
  <2>1. r \in Version /\ r.balance \in Nat /\ r.version \in Nat
    <3>1. \A p \in Products : draft[d][p] \in Version /\ row[p] \in Version
      <4>1. draft[d] \in [Products -> Version]
        BY <1>2 DEF TypeOK
      <4>2. QED
        BY <1>2, <4>1 DEF TypeOK
    <3>2. \A p \in Products : Visible(d, p) \in Version
      BY <3>1 DEF Visible
    <3>3. r \in Version
      BY <1>4, <3>2
    <3>4. QED
      BY <3>3 DEF Version
  <2> DEFINE new == [balance |-> NewBalance(d, r), version |-> r.version + 1]
  <2>2. NewBalance(d, r) \in 0 .. IntegerMax
    <3>1. CASE Doc[d].kind = "edit"
      BY <3>1 DEF NewBalance
    <3>2. CASE Doc[d].kind # "edit"
      BY <1>4, <1>6, <2>1, <3>2 DEF NewBalance, Accepts
    <3>3. QED
      BY <3>1, <3>2
  <2>3. new \in Version
    BY <2>1, <2>2 DEF Version
  <2> HIDE DEF new, l, r
  <2>4. draft' = [draft EXCEPT ![d] = [draft[d] EXCEPT ![l.product] = new]]
    BY <1>6 DEF new
  <2>5. TypeOK'
    <3>1. draft' \in [Documents -> [Products -> Version]]
      BY <1>2, <1>4, <2>3, <2>4 DEF TypeOK
    <3>2. stage' \in [Documents -> Stages] /\ todo' \in [Documents -> SUBSET AllLines]
          /\ \A e \in Documents : todo'[e] \subseteq Doc[e].lines
      BY <1>2, <1>6 DEF TypeOK, Stages
    <3>3. QED
      BY <1>1, <1>2, <3>1, <3>2 DEF TypeOK
  <2>6. /\ stage'[d] = "ready" /\ todo'[d] = todo[d] \ {l}
        /\ \A p \in Products : Holds(d, p)' => Holds(d, p) \/ p = l.product
        /\ \A e \in Documents \ {d} : stage'[e] = stage[e] /\ todo'[e] = todo[e] /\ draft'[e] = draft[e]
    BY <1>2, <1>4, <1>6, <2>4 DEF TypeOK, Holds
  <2>7. LocksAreOfWork'
    BY <2>6 DEF IInv, LocksAreOfWork, AtWork, Holds
  <2>8. LockOrder'
    <3> SUFFICES ASSUME NEW e \in Documents, ById(e), NEW p \in Products, Holds(e, p)',
                        NEW k \in todo'[e]
                 PROVE  p <= k.product
      BY DEF LockOrder, ById
    <3>1. CASE e # d
      <4>1. Holds(e, p) /\ k \in todo[e]
        BY <2>6, <3>1 DEF Holds
      <4>2. QED
        BY <4>1 DEF IInv, LockOrder
    <3>2. CASE e = d /\ Holds(d, p)
      <4>1. k \in todo[d]
        BY <2>6, <3>2
      <4>2. QED
        BY <3>2, <4>1 DEF IInv, LockOrder
    <3>3. CASE e = d /\ p = l.product
      <4>1. k \in todo[d] \ {l} /\ Before(l, k)
        BY <1>3, <2>6, <3>3
      <4>2. l.by = "id" /\ k.by = "id"
        BY <1>2, <1>4, <3>3, <4>1 DEF ById, TypeOK
      <4>3. k.product \in Nat /\ p \in Nat
        BY <1>2, <4>1 DEF TypeOK
      <4>4. QED
        BY <3>3, <4>1, <4>2, <4>3 DEF Before
    <3>4. QED
      BY <2>6, <3>1, <3>2, <3>3
  <2>9. \A e \in Documents : AtWork(e)' = AtWork(e) /\ (stage'[e] = "committed" <=> stage[e] = "committed")
    BY <1>1, <2>6 DEF AtWork
  <2>10. ClaimsExclude'
    BY <1>1, <2>9 DEF IInv, ClaimsExclude, Debits
  <2>11. LocksExclude'
    <3>1. \A e \in Documents \ {d} : ~ Holds(e, l.product)
      BY <1>1 DEF Free
    <3>2. \A e \in Documents : \A p \in Products : Holds(e, p)' => Holds(e, p) \/ (e = d /\ p = l.product)
      BY <2>6 DEF Holds
    <3>3. ASSUME NEW e \in Documents, NEW f \in Documents, NEW p \in Products, Holds(e, p)', Holds(f, p)'
          PROVE  e = f
      <4>1. CASE p = l.product
        BY <3>1, <3>2, <3>3, <4>1
      <4>2. CASE p # l.product
        <5>1. Holds(e, p) /\ Holds(f, p)
          BY <3>2, <3>3, <4>2
        <5>2. QED
          BY <5>1 DEF IInv, LocksExclude
      <4>3. QED
        BY <4>1, <4>2
    <3>4. QED
      BY <3>3 DEF LocksExclude
  <2>12. QED
    BY <2>5, <2>7, <2>8, <2>10, <2>11 DEF IInv
<1>7. QED
  BY <1>5, <1>6 DEF Execute

LEMMA CommitKeeps ==
  ASSUME IInv, NEW d \in Documents, Commit(d)
  PROVE  IInv'
<1>1. /\ stage[d] = "ready" /\ End(d, "committed")
      /\ row' = [p \in Products |-> IF Holds(d, p) THEN draft[d][p] ELSE row[p]]
      /\ debits' = IF Doc[d].kind = "debit" THEN debits \union {Doc[d].invoice} ELSE debits
  BY DEF Commit, Publish
<1>2. row' \in [Products -> Version]
  BY <1>1 DEF IInv, TypeOK
<1>3. /\ TypeOK' /\ LocksAreOfWork' /\ LocksExclude' /\ LockOrder'
      /\ stage'[d] = "committed" /\ ~ AtWork(d)'
      /\ \A e \in Documents \ {d} : stage'[e] = stage[e]
  BY <1>1, <1>2, EndDoes DEF Settled
<1>4. ClaimsExclude'
  <2> SUFFICES ASSUME NEW i, NEW e \in Debits(i), NEW f \in Debits(i)
               PROVE  /\ AtWork(e)' => i \notin debits' /\ (AtWork(f)' => e = f)
                      /\ stage'[e] = "committed" => i \in debits' /\ (stage'[f] = "committed" => e = f)
    BY DEF ClaimsExclude, Debits
  <2>1. /\ AtWork(e) => i \notin debits /\ (AtWork(f) => e = f)
        /\ stage[e] = "committed" => i \in debits /\ (stage[f] = "committed" => e = f)
        /\ stage[f] = "committed" => i \in debits
    BY DEF IInv, ClaimsExclude
  <2>2. e = d \/ (e # d /\ stage'[e] = stage[e])
    BY <1>3 DEF Debits
  <2>3. f = d \/ (f # d /\ stage'[f] = stage[f])
    BY <1>3 DEF Debits
  <2>4. CASE d \notin Debits(i)
    <3>1. i \in debits' <=> i \in debits
      BY <1>1, <2>4 DEF Debits
    <3>2. e # d /\ f # d
      BY <2>4
    <3>3. QED
      BY <2>1, <2>2, <2>3, <3>1, <3>2 DEF AtWork
  <2>5. CASE d \in Debits(i)
    <3>1. i \in debits' /\ i \notin debits
      BY <1>1, <2>5 DEF Debits, IInv, ClaimsExclude, AtWork
    <3>2. \A g \in Debits(i) : AtWork(g) => g = d
      BY <1>1, <2>5 DEF IInv, ClaimsExclude, AtWork
    <3>3. \A g \in Debits(i) : stage[g] # "committed"
      BY <3>1 DEF IInv, ClaimsExclude
    <3>4. QED
      BY <1>3, <2>2, <2>3, <3>1, <3>2, <3>3 DEF AtWork
  <2>6. QED
    BY <2>4, <2>5
<1>5. QED
  BY <1>3, <1>4 DEF IInv

(* Look and a stutter leave everything the invariant speaks of alone. *)
LEMMA QuietKeeps ==
  ASSUME IInv, UNCHANGED <<row, debits, stage, todo, draft>>
  PROVE  IInv'
BY DEF IInv, TypeOK, LocksAreOfWork, LocksExclude, LockOrder, ClaimsExclude, Holds, AtWork, ById, Debits

LEMMA StepKeeps == IInv /\ [Next]_vars => IInv'
<1> SUFFICES ASSUME IInv, [Next]_vars PROVE IInv'
  OBVIOUS
<1>1. ASSUME NEW d \in Documents, Run(d) \/ Abort(d) PROVE IInv'
  <2>1. CASE Look(d)
    BY <2>1, QuietKeeps DEF Look, committed
  <2>2. CASE DeadlockVictim(d)
    BY <2>2, EndKeeps DEF DeadlockVictim, committed, Settled
  <2>3. CASE Abort(d)
    BY <2>3, EndKeeps DEF Abort, committed
  <2>4. QED
    BY <1>1, <2>1, <2>2, <2>3, BeginKeeps, ClaimKeeps, IssueKeeps, ExecuteKeeps, CommitKeeps DEF Run
<1>2. CASE UNCHANGED vars
  BY <1>2, QuietKeeps DEF vars, committed, transaction
<1>3. QED
  BY <1>1, <1>2 DEF Next
-----------------------------------------------------------------------------
(* The invariant that the theorems below follow from. *)
THEOREM Invariant == Spec => []IInv
<1>1. QED
  BY InitInv, StepKeeps, PTL DEF Spec

(* The CHECK and the INTEGER of the column: no committed balance is        *)
(* negative or out of range, whatever documents overlap.                   *)
THEOREM BalancesFit == Spec => [](\A p \in Products : row[p].balance \in 0 .. IntegerMax)
<1>1. IInv => \A p \in Products : row[p].balance \in 0 .. IntegerMax
  BY DEF IInv, TypeOK, Version
<1>2. QED
  BY <1>1, Invariant, PTL

(* Debit: of all the requests that carry an invoice one takes its stock.   *)
THEOREM InvoicesAreDebitedOnce ==
  Spec => [](\A i : \A d, e \in Debits(i) :
               stage[d] = "committed" /\ stage[e] = "committed" => d = e)
<1>1. IInv => \A i : \A d, e \in Debits(i) :
                stage[d] = "committed" /\ stage[e] = "committed" => d = e
  BY DEF IInv, ClaimsExclude
<1>2. QED
  BY <1>1, Invariant, PTL

(* In a cycle of waits somebody waits with a line of its own for a product *)
(* past all it holds, and whoever holds that one waits for a later one.    *)
LEMMA WaitsClimb ==
  ASSUME IInv, NEW S \in Deadlocks, \A d \in S : ById(d),
         NEW d \in S, stage[d] = "waiting"
  PROVE  \E e \in S : /\ stage[e] = "waiting"
                      /\ Current(d).product \in Nat /\ Current(e).product \in Nat
                      /\ Current(d).product < Current(e).product
<1>1. S \subseteq Documents /\ \A f \in S : \E e \in S : WaitsFor(f, e)
  BY DEF Deadlocks, Blocked
<1>2. PICK e \in S : Holds(e, Current(d).product)
  BY <1>1 DEF WaitsFor
<1>3. todo[d] # {} /\ todo[d] \subseteq Doc[d].lines
  BY <1>1 DEF IInv, LocksAreOfWork, TypeOK
<1>4. Current(d) \in Doc[d].lines
  BY <1>1, <1>3, CurrentIsFirst
<1>5. Current(d).product \in Products /\ Current(d).product \in Nat
  BY <1>1, <1>4
<1>6. AtWork(e)
  BY <1>1, <1>2, <1>5 DEF IInv, LocksAreOfWork
<1>7. stage[e] = "waiting"
  BY <1>1, <1>6 DEF WaitsFor, AtWork
<1>8. todo[e] # {} /\ todo[e] \subseteq Doc[e].lines
  BY <1>1, <1>7 DEF IInv, LocksAreOfWork, TypeOK
<1>9. Current(e) \in todo[e] /\ Current(e) \in Doc[e].lines
  BY <1>1, <1>8, CurrentIsFirst
<1>10. Current(e).product \in Nat
  BY <1>1, <1>9
<1>11. Current(d).product <= Current(e).product
  BY <1>1, <1>2, <1>5, <1>9 DEF IInv, LockOrder
<1>12. Current(d).product # Current(e).product
  <2>1. PICK f \in S : WaitsFor(e, f)
    BY <1>1
  <2>2. f # e /\ Holds(f, Current(e).product)
    BY <1>7, <2>1 DEF WaitsFor
  <2>3. QED
    BY <1>1, <1>2, <1>5, <2>2 DEF IInv, LocksExclude
<1>13. QED
  BY <1>5, <1>7, <1>10, <1>11, <1>12

(* The sort in Debit and Adjust: for any number of documents and products, *)
(* a deadlock takes an adjustment that gives codes.                        *)
THEOREM IdsDoNotDeadlock == Spec => []OnlyCodesDeadlock
<1>1. IInv => OnlyCodesDeadlock
  <2> SUFFICES ASSUME IInv, NEW S \in Deadlocks, \A d \in S : \A l \in Doc[d].lines : l.by # "code"
               PROVE  FALSE
    BY DEF OnlyCodesDeadlock
  <2>1. S \subseteq Documents /\ S # {} /\ \A d \in S : \E e \in S : WaitsFor(d, e)
    BY DEF Deadlocks, Blocked
  <2>2. \A d \in S : ById(d)
    BY <2>1 DEF ById
  <2> DEFINE W == {d \in S : stage[d] = "waiting"}
             Above(d) == {e \in W : Current(d).product <= Current(e).product}
             Sets == {Above(d) : d \in W}
  <2>3. W # {}
    <3>1. PICK d \in S : TRUE
      BY <2>1
    <3>2. PICK e \in S : WaitsFor(d, e)
      BY <2>1, <3>1
    <3>3. CASE stage[d] = "waiting"
      BY <3>3
    <3>4. CASE e \in Claimants(Doc[d].invoice)
      <4>1. stage[e] \in {"ready", "waiting"}
        BY <3>4 DEF Claimants
      <4>2. stage[e] = "waiting"
        BY <2>1, <4>1 DEF WaitsFor
      <4>3. QED
        BY <4>2
    <3>5. QED
      BY <3>2, <3>3, <3>4 DEF WaitsFor
  <2>4. Sets \subseteq FiniteSubsetsOf(Documents) /\ Sets # {}
    <3>1. ASSUME NEW d \in W PROVE Above(d) \in FiniteSubsetsOf(Documents)
      <4>1. Above(d) \in SUBSET Documents
        BY <2>1
      <4>2. IsFiniteSet(Above(d))
        BY <4>1, FS_Subset
      <4>3. QED
        BY <4>1, <4>2 DEF FiniteSubsetsOf
    <3>2. PICK d \in W : TRUE
      BY <2>3
    <3> HIDE DEF Above, W
    <3>3. Above(d) \in Sets
      BY <3>2
    <3>4. \A B \in Sets : B \in FiniteSubsetsOf(Documents)
      BY <3>1
    <3>5. QED
      BY <3>3, <3>4
  <2>5. PICK A \in Sets : \A B \in Sets : <<B, A>> \notin StrictSubsetOrdering(Documents)
    <3>1. IsWellFoundedOn(StrictSubsetOrdering(Documents), FiniteSubsetsOf(Documents))
      BY FS_StrictSubsetOrderingWellFounded
    <3> HIDE DEF Sets
    <3>2. QED
      BY <2>4, <3>1, WFMin
  <2>6. PICK d \in W : A = Above(d)
    BY <2>5
  <2>7. PICK e \in W : /\ Current(d).product \in Nat /\ Current(e).product \in Nat
                       /\ Current(d).product < Current(e).product
    BY <2>2, WaitsClimb
  <2>8. \A f \in W : Current(f).product \in Nat
    BY <2>2, WaitsClimb
  <2>9. Above(e) \subseteq Above(d) /\ d \in Above(d) /\ d \notin Above(e)
    BY <2>7, <2>8
  <2>10. <<Above(e), Above(d)>> \in StrictSubsetOrdering(Documents)
    BY <2>1, <2>9 DEF StrictSubsetOrdering
  <2>11. QED
    BY <2>5, <2>6, <2>10
<1>2. QED
  BY <1>1, Invariant, PTL

(* A document has a next statement and need not wait for it, or is one the *)
(* database may pick to break a circle of waits: Run(d) is enabled.        *)
CanGoOn(d) ==
  \/ stage[d] \in {"idle", "ready"}
  \/ stage[d] = "claiming" /\ (Doc[d].invoice \in debits \/ Claimants(Doc[d].invoice) = {})
  \/ stage[d] = "waiting" /\ Free(d, Current(d).product)
  \/ d \in UNION Deadlocks

Unsettled == {d \in Documents : stage[d] \notin Settled}

(* Who cannot go on waits for somebody who is at work.                     *)
LEMMA WaitsForSomebody ==
  ASSUME IInv, NEW d \in Unsettled, ~ CanGoOn(d)
  PROVE  \E e \in Unsettled : WaitsFor(d, e)
<1>1. d \in Documents /\ stage[d] \in {"claiming", "waiting"}
  BY DEF Unsettled, CanGoOn, IInv, TypeOK, Stages, Settled
<1>2. CASE stage[d] = "claiming"
  <2>1. PICK e \in Claimants(Doc[d].invoice) : TRUE
    BY <1>2 DEF CanGoOn
  <2>2. e \in Unsettled /\ e # d
    BY <1>2, <2>1 DEF Claimants, Unsettled, Settled
  <2>3. QED
    BY <1>2, <2>1, <2>2 DEF WaitsFor, CanGoOn
<1>3. CASE stage[d] = "waiting"
  <2>1. todo[d] # {} /\ todo[d] \subseteq Doc[d].lines
    BY <1>1, <1>3 DEF IInv, LocksAreOfWork, TypeOK
  <2>2. Current(d) \in Doc[d].lines
    BY <1>1, <2>1, CurrentIsFirst
  <2>3. Current(d).product \in Products
    BY <1>1, <2>2
  <2>4. PICK e \in Documents \ {d} : Holds(e, Current(d).product)
    BY <1>3 DEF CanGoOn, Free
  <2>5. AtWork(e)
    BY <2>3, <2>4 DEF IInv, LocksAreOfWork
  <2>6. e \in Unsettled
    BY <2>4, <2>5 DEF AtWork, Unsettled, Settled
  <2>7. QED
    BY <1>3, <2>4, <2>6 DEF WaitsFor
<1>4. QED
  BY <1>1, <1>2, <1>3

(* A document that runs could go on.                                       *)
LEMMA RunsIfItCan == ASSUME NEW d \in Documents, Run(d) PROVE CanGoOn(d)
BY DEF Run, Look, Begin, ClaimInvoice, Issue, Execute, Commit, DeadlockVictim, CanGoOn

(* As long as a document is not settled some document can go on: whoever   *)
(* waits does so for one at work, and when all wait the database finds a   *)
(* circle and ends it (DebitTx, AdjustBalances).  When all of them give    *)
(* ids there is no circle, by IdsDoNotDeadlock, and one goes on by itself. *)
THEOREM SomebodyCanGoOn == Spec => [](Unsettled # {} => \E d \in Unsettled : CanGoOn(d))
<1>1. IInv => (Unsettled # {} => \E d \in Unsettled : CanGoOn(d))
  <2> SUFFICES ASSUME IInv, Unsettled # {}, \A d \in Unsettled : ~ CanGoOn(d)
               PROVE  FALSE
    OBVIOUS
  <2>1. Unsettled \subseteq Documents
    BY DEF Unsettled
  <2>2. \A d \in Unsettled : \E e \in Unsettled : WaitsFor(d, e)
    BY WaitsForSomebody
  <2>3. Unsettled \in Deadlocks
    BY <2>1, <2>2 DEF Deadlocks, Blocked
  <2>4. QED
    BY <2>3 DEF CanGoOn
<1>2. QED
  BY <1>1, Invariant, PTL
-----------------------------------------------------------------------------
HIDE LedgerAssumption

LEMMA NoRowTyped == NoRow \in Version
BY LedgerAssumption DEF NoRow, Version

(* What the movements of a transaction and the history are made of.        *)
Movements == [product : Products, delta : Int, after : 0 .. IntegerMax]

(* The last number of a list of places. *)
LEMMA MaxIsLast ==
  ASSUME NEW n \in Nat, NEW S \in SUBSET (1 .. n), S # {}
  PROVE  Max(S) \in S /\ \A j \in S : j <= Max(S)
<1>1. S \in SUBSET (0 .. n)
  OBVIOUS
<1>2. QED
  BY <1>1, LargestNumber

(* The balance b is where the last of the first k movements left p. *)
LeavesAt(h, opening, p, k, b) ==
  \/ b = opening /\ \A j \in 1 .. k : h[j].product # p
  \/ \E m \in 1 .. k : /\ h[m].product = p /\ b = h[m].after
                       /\ \A j \in (m + 1) .. k : h[j].product # p

(* BalanceAfter is that balance, and there is no other. *)
LEMMA BalanceIs ==
  ASSUME NEW h, NEW opening, NEW p, NEW k \in Nat, NEW b
  PROVE  LeavesAt(h, opening, p, k, b) <=> b = BalanceAfter(h, opening, p, k)
<1> DEFINE Places == {j \in 1 .. k : h[j].product = p}
<1>1. CASE Places = {}
  BY <1>1 DEF LeavesAt, BalanceAfter
<1>2. CASE Places # {}
  <2>1. Max(Places) \in Places /\ \A j \in Places : j <= Max(Places)
    BY <1>2, MaxIsLast
  <2>2. BalanceAfter(h, opening, p, k) = h[Max(Places)].after
    BY <1>2 DEF BalanceAfter
  <2> DEFINE m == Max(Places)
  <2>3. m \in 1 .. k /\ h[m].product = p /\ \A j \in 1 .. k : h[j].product = p => j <= m
    BY <2>1
  <2> HIDE DEF m
  <2>4. ASSUME NEW n \in 1 .. k, h[n].product = p, \A j \in (n + 1) .. k : h[j].product # p
        PROVE  n = m
    BY <2>3, <2>4
  <2>5. \A j \in (m + 1) .. k : h[j].product # p
    BY <2>3
  <2>6. BalanceAfter(h, opening, p, k) = h[m].after
    BY <2>2 DEF m
  <2>7. QED
    BY <2>3, <2>4, <2>5, <2>6 DEF LeavesAt
<1>3. QED
  BY <1>1, <1>2

(* Two lists one after the other: the second starts where the first ended. *)
LEMMA BalanceOfBoth ==
  ASSUME NEW h \in Seq(Movements), NEW m \in Seq(Movements), NEW opening, NEW p
  PROVE  /\ \A k \in 0 .. Len(h) : BalanceAfter(h \o m, opening, p, k) = BalanceAfter(h, opening, p, k)
         /\ \A k \in 0 .. Len(m) :
              BalanceAfter(h \o m, opening, p, Len(h) + k)
                = BalanceAfter(m, BalanceAfter(h, opening, p, Len(h)), p, k)
<1> DEFINE both == h \o m
           middle == BalanceAfter(h, opening, p, Len(h))
<1>1. /\ Len(h) \in Nat /\ Len(m) \in Nat
      /\ \A j \in 1 .. Len(h) : both[j] = h[j]
      /\ \A j \in 1 .. Len(m) : both[Len(h) + j] = m[j]
  OBVIOUS
<1> HIDE DEF both
<1>2. ASSUME NEW k \in 0 .. Len(h)
      PROVE  BalanceAfter(both, opening, p, k) = BalanceAfter(h, opening, p, k)
  <2>1. PICK b : b = BalanceAfter(h, opening, p, k)
    OBVIOUS
  <2>2. LeavesAt(h, opening, p, k, b) /\ \A j \in 1 .. k : both[j] = h[j]
    BY <1>1, <2>1, BalanceIs
  <2>3. LeavesAt(both, opening, p, k, b)
    <3>1. CASE b = opening /\ \A j \in 1 .. k : h[j].product # p
      BY <2>2, <3>1 DEF LeavesAt
    <3>2. CASE \E n \in 1 .. k : /\ h[n].product = p /\ b = h[n].after
                                   /\ \A j \in (n + 1) .. k : h[j].product # p
      <4>1. PICK n \in 1 .. k : /\ h[n].product = p /\ b = h[n].after
                                /\ \A j \in (n + 1) .. k : h[j].product # p
        BY <3>2
      <4>2. \A j \in (n + 1) .. k : j \in 1 .. k
        BY <4>1
      <4>3. /\ both[n].product = p /\ b = both[n].after
            /\ \A j \in (n + 1) .. k : both[j].product # p
        BY <2>2, <4>1, <4>2
      <4>4. QED
        BY <4>3 DEF LeavesAt
    <3>3. QED
      BY <2>2, <3>1, <3>2 DEF LeavesAt
  <2>4. QED
    BY <2>1, <2>3, BalanceIs
<1>3. ASSUME NEW k \in 0 .. Len(m)
      PROVE  BalanceAfter(both, opening, p, Len(h) + k) = BalanceAfter(m, middle, p, k)
  <2> DEFINE b == BalanceAfter(m, middle, p, k)
  <2>1. LeavesAt(h, opening, p, Len(h), middle) /\ LeavesAt(m, middle, p, k, b)
    BY <1>1, BalanceIs
  <2> HIDE DEF b, middle
  <2>2. LeavesAt(both, opening, p, Len(h) + k, b)
    <3>1. CASE \E n \in 1 .. k : /\ m[n].product = p /\ b = m[n].after
                                 /\ \A j \in (n + 1) .. k : m[j].product # p
      <4>1. PICK n \in 1 .. k : /\ m[n].product = p /\ b = m[n].after
                                /\ \A j \in (n + 1) .. k : m[j].product # p
        BY <3>1
      <4>2. both[Len(h) + n].product = p /\ b = both[Len(h) + n].after
        BY <1>1, <4>1
      <4>3. ASSUME NEW j \in (Len(h) + n + 1) .. (Len(h) + k) PROVE both[j].product # p
        <5>1. PICK i \in (n + 1) .. k : i \in 1 .. Len(m) /\ j = Len(h) + i
          <6>1. j - Len(h) \in (n + 1) .. k /\ j - Len(h) \in 1 .. Len(m) /\ j = Len(h) + (j - Len(h))
            BY <1>1
          <6>2. QED
            BY <6>1
        <5>2. both[j] = m[i] /\ m[i].product # p
          BY <1>1, <4>1, <5>1
        <5>3. QED
          BY <5>2
      <4>4. Len(h) + n \in 1 .. (Len(h) + k)
        BY <1>1
      <4>5. QED
        BY <4>2, <4>3, <4>4 DEF LeavesAt
    <3>2. CASE b = middle /\ \A j \in 1 .. k : m[j].product # p
      <4>1. ASSUME NEW j \in (Len(h) + 1) .. (Len(h) + k) PROVE both[j].product # p
        <5>1. j - Len(h) \in 1 .. k /\ j - Len(h) \in 1 .. Len(m) /\ j = Len(h) + (j - Len(h))
          BY <1>1
        <5>2. QED
          BY <1>1, <3>2, <5>1
      <4>2. CASE middle = opening /\ \A j \in 1 .. Len(h) : h[j].product # p
        BY <1>1, <3>2, <4>1, <4>2 DEF LeavesAt
      <4>3. CASE \E n \in 1 .. Len(h) : /\ h[n].product = p /\ middle = h[n].after
                                        /\ \A j \in (n + 1) .. Len(h) : h[j].product # p
        <5>1. PICK n \in 1 .. Len(h) : /\ h[n].product = p /\ middle = h[n].after
                                       /\ \A j \in (n + 1) .. Len(h) : h[j].product # p
          BY <4>3
        <5>2. n \in 1 .. (Len(h) + k) /\ both[n].product = p /\ b = both[n].after
          BY <1>1, <3>2, <5>1
        <5>3. ASSUME NEW j \in (n + 1) .. (Len(h) + k) PROVE both[j].product # p
          <6>1. CASE j \in 1 .. Len(h)
            <7>1. j \in (n + 1) .. Len(h) /\ both[j] = h[j]
              BY <1>1, <6>1
            <7>2. QED
              BY <5>1, <7>1
          <6>2. CASE j \notin 1 .. Len(h)
            BY <1>1, <4>1, <6>2
          <6>3. QED
            BY <6>1, <6>2
        <5>4. QED
          BY <5>2, <5>3 DEF LeavesAt
      <4>4. QED
        BY <2>1, <4>2, <4>3 DEF LeavesAt
    <3>3. QED
      BY <2>1, <3>1, <3>2 DEF LeavesAt
  <2>3. Len(h) + k \in Nat
    BY <1>1
  <2>4. b = BalanceAfter(both, opening, p, Len(h) + k)
    BY <2>2, <2>3, BalanceIs
  <2>5. QED
    BY <2>4 DEF b
<1>4. QED
  BY <1>2, <1>3 DEF both

LEMMA ChainOfBoth ==
  ASSUME NEW h \in Seq(Movements), NEW m \in Seq(Movements), NEW opening, NEW p,
         Chained(h, opening, p), Chained(m, BalanceAfter(h, opening, p, Len(h)), p)
  PROVE  /\ Chained(h \o m, opening, p)
         /\ BalanceAfter(h \o m, opening, p, Len(h \o m))
              = BalanceAfter(m, BalanceAfter(h, opening, p, Len(h)), p, Len(m))
<1> DEFINE both == h \o m
           middle == BalanceAfter(h, opening, p, Len(h))
<1>1. /\ Len(h) \in Nat /\ Len(m) \in Nat /\ Len(both) = Len(h) + Len(m)
      /\ DOMAIN h = 1 .. Len(h) /\ DOMAIN m = 1 .. Len(m) /\ DOMAIN both = 1 .. Len(both)
      /\ \A j \in 1 .. Len(h) : both[j] = h[j]
      /\ \A j \in 1 .. Len(m) : both[Len(h) + j] = m[j]
  OBVIOUS
<1>2. /\ \A k \in 0 .. Len(h) : BalanceAfter(both, opening, p, k) = BalanceAfter(h, opening, p, k)
      /\ \A k \in 0 .. Len(m) :
              BalanceAfter(both, opening, p, Len(h) + k) = BalanceAfter(m, middle, p, k)
  BY BalanceOfBoth
<1> HIDE DEF both, middle
<1>3. ASSUME NEW k \in DOMAIN both, both[k].product = p
      PROVE  both[k].after = BalanceAfter(both, opening, p, k - 1) + both[k].delta
  <2>1. CASE k \in 1 .. Len(h)
    <3>1. h[k].after = BalanceAfter(h, opening, p, k - 1) + h[k].delta
      BY <1>1, <1>3, <2>1 DEF Chained
    <3>2. BalanceAfter(both, opening, p, k - 1) = BalanceAfter(h, opening, p, k - 1)
      <4>1. k - 1 \in 0 .. Len(h)
        BY <1>1, <2>1
      <4>2. QED
        BY <1>2, <4>1
    <3>3. QED
      BY <1>1, <2>1, <3>1, <3>2
  <2>2. CASE k \notin 1 .. Len(h)
    <3>1. PICK n \in 1 .. Len(m) : k = Len(h) + n
      <4>1. k - Len(h) \in 1 .. Len(m) /\ k = Len(h) + (k - Len(h))
        BY <1>1, <2>2
      <4>2. QED
        BY <4>1
    <3>2. m[n].after = BalanceAfter(m, middle, p, n - 1) + m[n].delta
      BY <1>1, <1>3, <3>1 DEF Chained, middle
    <3>3. BalanceAfter(both, opening, p, k - 1) = BalanceAfter(m, middle, p, n - 1)
      <4>1. n - 1 \in 0 .. Len(m) /\ k - 1 = Len(h) + (n - 1)
        BY <1>1, <3>1
      <4>2. QED
        BY <1>2, <4>1
    <3>4. QED
      BY <1>1, <3>1, <3>2, <3>3
  <2>3. QED
    BY <2>1, <2>2
<1>4. BalanceAfter(both, opening, p, Len(both)) = BalanceAfter(m, middle, p, Len(m))
  <2>1. Len(m) \in 0 .. Len(m)
    BY <1>1
  <2>2. QED
    BY <1>1, <1>2, <2>1
<1>5. QED
  BY <1>3, <1>4 DEF Chained, both, middle

LEMMA NoMovements ==
  ASSUME NEW opening, NEW p
  PROVE  Chained(<< >>, opening, p) /\ BalanceAfter(<< >>, opening, p, 0) = opening
<1>1. LeavesAt(<< >>, opening, p, 0, opening)
  BY DEF LeavesAt
<1>2. QED
  BY <1>1, BalanceIs DEF Chained

(* A list without movements of p leaves p where it was. *)
LEMMA NothingOf ==
  ASSUME NEW m \in Seq(Movements), NEW opening, NEW p, \A k \in DOMAIN m : m[k].product # p
  PROVE  Chained(m, opening, p) /\ BalanceAfter(m, opening, p, Len(m)) = opening
<1>1. Len(m) \in Nat /\ DOMAIN m = 1 .. Len(m)
  OBVIOUS
<1>2. LeavesAt(m, opening, p, Len(m), opening)
  BY <1>1 DEF LeavesAt
<1>3. QED
  BY <1>1, <1>2, BalanceIs DEF Chained
-----------------------------------------------------------------------------
MovesTypeOK ==
  /\ history \in Seq(Movements)
  /\ moves \in [Documents -> Seq(Movements)]
  /\ snapshot \in [Documents -> Version]
  /\ seen \in [Documents -> Version]

(* A transaction has movements only of the rows it locked. *)
MovesAreOfLocked ==
  \A d \in Documents : \A k \in DOMAIN moves[d] : Holds(d, moves[d][k].product)

DraftsAreNewer ==
  \A d \in Documents : \A p \in Products : Holds(d, p) => draft[d][p].version > row[p].version

(* The row a waiting statement first saw is the row it will find, or an    *)
(* older version of it: with the same version it has the same balance.     *)
(* That of an edit has the version its author saw.                         *)
SnapshotsAreOfRows ==
  \A d \in Documents : stage[d] = "waiting" =>
    /\ snapshot[d].version <= Visible(d, Current(d).product).version
    /\ snapshot[d].version = Visible(d, Current(d).product).version
         => snapshot[d] = Visible(d, Current(d).product)
    /\ Doc[d].kind = "edit" => snapshot[d].version = seen[d].version

(* The movements of a transaction lead from the committed balance, which   *)
(* nobody changes while the row is locked, to the one it will commit.      *)
MovesExplainDrafts ==
  \A d \in Documents : \A p \in Products :
    /\ Chained(moves[d], row[p].balance, p)
    /\ BalanceAfter(moves[d], row[p].balance, p, Len(moves[d])) = Visible(d, p).balance

HistoryInv ==
  MovesTypeOK /\ MovesAreOfLocked /\ DraftsAreNewer /\ SnapshotsAreOfRows /\ MovesExplainDrafts
    /\ HistoryExplainsBalance

LEMMA CurrentStays ==
  ASSUME NEW d \in Documents, todo'[d] = todo[d]
  PROVE  Current(d)' = Current(d)
BY DEF Current

LEMMA VisibleTyped ==
  ASSUME TypeOK, NEW d \in Documents, NEW p \in Products
  PROVE  Visible(d, p) \in Version /\ row[p] \in Version /\ draft[d][p] \in Version
<1>1. draft[d] \in [Products -> Version] /\ row \in [Products -> Version]
  BY DEF TypeOK
<1>2. QED
  BY <1>1 DEF Visible

LEMMA InitHistory == Init => HistoryInv
<1> SUFFICES ASSUME Init PROVE HistoryInv
  OBVIOUS
<1>1. MovesTypeOK
  <2>1. NoRow \in Version
    BY NoRowTyped
  <2>2. << >> \in Seq(Movements)
    OBVIOUS
  <2>3. QED
    BY <2>1, <2>2 DEF Init, MovesTypeOK
<1>2. MovesAreOfLocked /\ DraftsAreNewer /\ SnapshotsAreOfRows
  BY DEF Init, MovesAreOfLocked, DraftsAreNewer, SnapshotsAreOfRows, Holds
<1>3. MovesExplainDrafts
  <2> SUFFICES ASSUME NEW d \in Documents, NEW p \in Products
               PROVE  /\ Chained(moves[d], row[p].balance, p)
                      /\ BalanceAfter(moves[d], row[p].balance, p, Len(moves[d])) = Visible(d, p).balance
    BY DEF MovesExplainDrafts
  <2>1. moves[d] = << >> /\ Len(moves[d]) = 0 /\ Visible(d, p) = row[p]
    BY DEF Init, Visible, Holds
  <2>2. QED
    BY <2>1, NoMovements
<1>4. HistoryExplainsBalance
  <2>1. ASSUME NEW p \in Products
        PROVE  /\ Chained(history, OpeningBalance[p], p)
               /\ BalanceAfter(history, OpeningBalance[p], p, Len(history)) = row[p].balance
    <3>1. history = << >> /\ Len(history) = 0 /\ row[p].balance = OpeningBalance[p]
      BY DEF Init
    <3>2. QED
      BY <3>1, NoMovements
  <2>2. QED
    BY <2>1 DEF HistoryExplainsBalance
<1>5. QED
  BY <1>1, <1>2, <1>3, <1>4 DEF HistoryInv

(* The history is about the rows and itself. *)
LEMMA HistoryStays ==
  ASSUME HistoryExplainsBalance, UNCHANGED <<row, history>>
  PROVE  HistoryExplainsBalance'
<1> SUFFICES ASSUME NEW p \in Products
             PROVE  /\ Chained(history', OpeningBalance[p], p)
                    /\ BalanceAfter(history', OpeningBalance[p], p, Len(history')) = row'[p].balance
  BY DEF HistoryExplainsBalance, Chained, BalanceAfter
<1>1. QED
  BY DEF HistoryExplainsBalance

(* A step that writes no row and no movement. *)
LEMMA QuietExplains ==
  ASSUME HistoryInv, UNCHANGED <<row, history, draft, moves>>,
         snapshot' \in [Documents -> Version], seen' \in [Documents -> Version], SnapshotsAreOfRows'
  PROVE  HistoryInv'
<1>1. MovesTypeOK' /\ MovesAreOfLocked' /\ DraftsAreNewer'
  BY DEF HistoryInv, MovesTypeOK, MovesAreOfLocked, DraftsAreNewer, Holds
<1>2. \A d \in Documents, p \in Products : Visible(d, p)' = Visible(d, p)
  BY DEF Visible, Holds
<1>3. MovesExplainDrafts'
  <2> SUFFICES ASSUME NEW d \in Documents, NEW p \in Products
               PROVE  /\ Chained(moves'[d], row'[p].balance, p)
                      /\ BalanceAfter(moves'[d], row'[p].balance, p, Len(moves'[d])) = Visible(d, p)'.balance
    BY DEF MovesExplainDrafts, Chained, BalanceAfter
  <2>1. Visible(d, p)' = Visible(d, p) /\ moves' = moves /\ row' = row
    BY <1>2
  <2>2. QED
    BY <2>1 DEF HistoryInv, MovesExplainDrafts
<1>4. HistoryExplainsBalance'
  BY HistoryStays DEF HistoryInv
<1>5. QED
  BY <1>1, <1>3, <1>4 DEF HistoryInv

(* What the end of a transaction does to the movements of all of them,     *)
(* whatever it does to the rows.                                           *)
LEMMA EndClears ==
  ASSUME IInv, HistoryInv, NEW d \in Documents, NEW how \in Settled \union {"idle"}, End(d, how)
  PROVE  /\ snapshot' \in [Documents -> Version] /\ moves' \in [Documents -> Seq(Movements)]
         /\ moves'[d] = << >> /\ stage'[d] # "waiting"
         /\ \A p \in Products : draft'[d][p] = NoRow
         /\ \A e \in Documents \ {d} : /\ stage'[e] = stage[e] /\ draft'[e] = draft[e]
                                       /\ moves'[e] = moves[e] /\ snapshot'[e] = snapshot[e]
                                       /\ Current(e)' = Current(e)
         /\ seen' = seen
<1>1. TypeOK /\ MovesTypeOK
  BY DEF IInv, HistoryInv
<1>2. NoRow \in Version
  BY NoRowTyped
<1>3. snapshot' \in [Documents -> Version] /\ moves' \in [Documents -> Seq(Movements)]
  BY <1>1, <1>2 DEF End, MovesTypeOK
<1>4. /\ moves'[d] = << >> /\ stage'[d] = how /\ \A p \in Products : draft'[d][p] = NoRow
      /\ \A e \in Documents \ {d} : /\ stage'[e] = stage[e] /\ draft'[e] = draft[e] /\ todo'[e] = todo[e]
                                    /\ moves'[e] = moves[e] /\ snapshot'[e] = snapshot[e]
  BY <1>1 DEF End, TypeOK, MovesTypeOK
<1>5. how # "waiting"
  BY DEF Settled
<1>6. \A e \in Documents \ {d} : Current(e)' = Current(e)
  BY <1>4, CurrentStays
<1>7. seen' = seen
  BY DEF End
<1>8. QED
  BY <1>3, <1>4, <1>5, <1>6, <1>7

(* Every end but a commit. *)
LEMMA EndExplains ==
  ASSUME IInv, HistoryInv, NEW d \in Documents, NEW how \in Settled \union {"idle"}, End(d, how),
         UNCHANGED <<row, history>>
  PROVE  HistoryInv'
<1>1. /\ snapshot' \in [Documents -> Version] /\ moves' \in [Documents -> Seq(Movements)]
      /\ moves'[d] = << >> /\ stage'[d] # "waiting"
      /\ \A p \in Products : draft'[d][p] = NoRow
      /\ \A e \in Documents \ {d} : /\ stage'[e] = stage[e] /\ draft'[e] = draft[e]
                                    /\ moves'[e] = moves[e] /\ snapshot'[e] = snapshot[e]
                                    /\ Current(e)' = Current(e)
      /\ seen' = seen
  BY EndClears
<1>2. MovesTypeOK'
  BY <1>1 DEF HistoryInv, MovesTypeOK
<1>3. MovesAreOfLocked' /\ DraftsAreNewer'
  <2>1. ASSUME NEW e \in Documents, NEW k \in DOMAIN moves'[e]
        PROVE  draft'[e][moves'[e][k].product] # NoRow
    <3>1. e # d
      BY <1>1
    <3>2. moves'[e] = moves[e] /\ draft'[e] = draft[e]
      BY <1>1, <3>1
    <3>3. QED
      BY <3>2 DEF HistoryInv, MovesAreOfLocked, Holds
  <2>2. ASSUME NEW e \in Documents, NEW p \in Products, Holds(e, p)'
        PROVE  draft'[e][p].version > row'[p].version
    BY <1>1, <2>2 DEF HistoryInv, DraftsAreNewer, Holds
  <2>3. QED
    BY <2>1, <2>2 DEF MovesAreOfLocked, DraftsAreNewer, Holds
<1>4. \A e \in Documents \ {d} : \A p : Visible(e, p)' = Visible(e, p)
  BY <1>1 DEF Visible, Holds
<1>5. SnapshotsAreOfRows'
  <2> SUFFICES ASSUME NEW e \in Documents, stage'[e] = "waiting"
               PROVE  /\ snapshot'[e].version <= Visible(e, Current(e).product)'.version
                      /\ snapshot'[e].version = Visible(e, Current(e).product)'.version
                           => snapshot'[e] = Visible(e, Current(e).product)'
                      /\ Doc[e].kind = "edit" => snapshot'[e].version = seen'[e].version
    BY DEF SnapshotsAreOfRows
  <2>1. e # d /\ Visible(e, Current(e).product)' = Visible(e, Current(e).product)
    BY <1>1 DEF Visible, Holds
  <2>2. QED
    BY <1>1, <2>1 DEF HistoryInv, SnapshotsAreOfRows
<1>6. MovesExplainDrafts'
  <2> SUFFICES ASSUME NEW e \in Documents, NEW p \in Products
               PROVE  /\ Chained(moves'[e], row'[p].balance, p)
                      /\ BalanceAfter(moves'[e], row'[p].balance, p, Len(moves'[e])) = Visible(e, p)'.balance
    BY DEF MovesExplainDrafts, Chained, BalanceAfter
  <2>1. CASE e = d
    <3>1. moves'[e] = << >> /\ Len(moves'[e]) = 0 /\ Visible(e, p)' = row'[p]
      BY <1>1, <2>1 DEF Visible, Holds
    <3>2. QED
      BY <3>1, NoMovements
  <2>2. CASE e # d
    BY <1>1, <1>4, <2>2 DEF HistoryInv, MovesExplainDrafts
  <2>3. QED
    BY <2>1, <2>2
<1>7. HistoryExplainsBalance'
  BY HistoryStays DEF HistoryInv
<1>8. QED
  BY <1>2, <1>3, <1>5, <1>6, <1>7 DEF HistoryInv

LEMMA IssueExplains ==
  ASSUME IInv, HistoryInv, NEW d \in Documents, Issue(d)
  PROVE  HistoryInv'
<1> DEFINE r == Visible(d, Current(d).product)
<1>1. todo[d] # {} /\ UNCHANGED <<row, history>>
  BY DEF Issue, committed
<1>2. CASE End(d, "rejected")
  BY <1>1, <1>2, EndExplains DEF Settled
<1>3. CASE /\ stage' = [stage EXCEPT ![d] = "waiting"]
           /\ snapshot' = [snapshot EXCEPT ![d] = r]
           /\ UNCHANGED <<todo, draft, moves, seen>>
           /\ Accepts(d, r)
  <2>1. TypeOK /\ MovesTypeOK
    BY DEF IInv, HistoryInv
  <2>2. r \in Version
    <3>1. Current(d) \in Doc[d].lines
      BY <1>1, <2>1, CurrentIsFirst DEF TypeOK
    <3>2. Current(d).product \in Products
      BY <3>1, LedgerAssumption
    <3>3. QED
      BY <2>1, <3>2, VisibleTyped
  <2>3. snapshot' \in [Documents -> Version]
    BY <1>3, <2>1, <2>2 DEF MovesTypeOK
  <2>4. /\ \A e \in Documents : Current(e)' = Current(e)
        /\ \A e \in Documents : \A p : Visible(e, p)' = Visible(e, p)
    <3>1. \A e \in Documents : Current(e)' = Current(e)
      BY <1>3, CurrentStays
    <3>2. \A e \in Documents : \A p : Visible(e, p)' = Visible(e, p)
      BY <1>1, <1>3 DEF Visible, Holds
    <3>3. QED
      BY <3>1, <3>2
  <2>5. snapshot'[d] = r /\ r.version \in Nat
    BY <1>3, <2>1, <2>2 DEF MovesTypeOK, Version
  <2>6. SnapshotsAreOfRows'
    <3> SUFFICES ASSUME NEW e \in Documents, stage'[e] = "waiting"
                 PROVE  /\ snapshot'[e].version <= Visible(e, Current(e).product)'.version
                        /\ snapshot'[e].version = Visible(e, Current(e).product)'.version
                             => snapshot'[e] = Visible(e, Current(e).product)'
                        /\ Doc[e].kind = "edit" => snapshot'[e].version = seen'[e].version
      BY DEF SnapshotsAreOfRows
    <3>1. Visible(e, Current(e).product)' = Visible(e, Current(e).product)
      BY <1>1, <1>3, <2>4 DEF Visible, Holds
    <3>2. CASE e = d
      BY <1>3, <2>5, <3>1, <3>2 DEF Accepts
    <3>3. CASE e # d
      <4>1. stage[e] = "waiting" /\ snapshot'[e] = snapshot[e] /\ seen' = seen
        BY <1>3, <2>1, <3>3 DEF TypeOK, MovesTypeOK
      <4>2. QED
        BY <3>1, <4>1 DEF HistoryInv, SnapshotsAreOfRows
    <3>4. QED
      BY <3>2, <3>3
  <2>7. seen' \in [Documents -> Version]
    BY <1>3, <2>1 DEF MovesTypeOK
  <2>8. QED
    BY <1>1, <1>3, <2>3, <2>6, <2>7, QuietExplains
<1>4. QED
  BY <1>1, <1>2, <1>3 DEF Issue, committed

(* Steps that move no snapshot, row or movement. *)
LEMMA StillExplains ==
  ASSUME HistoryInv, UNCHANGED <<row, history, draft, moves, snapshot>>,
         seen' \in [Documents -> Version],
         \A e \in Documents : stage'[e] = "waiting" => 
           stage[e] = "waiting" /\ todo'[e] = todo[e] /\ seen'[e] = seen[e]
  PROVE  HistoryInv'
<1>1. SnapshotsAreOfRows'
  <2> SUFFICES ASSUME NEW e \in Documents, stage'[e] = "waiting"
               PROVE  /\ snapshot'[e].version <= Visible(e, Current(e).product)'.version
                      /\ snapshot'[e].version = Visible(e, Current(e).product)'.version
                           => snapshot'[e] = Visible(e, Current(e).product)'
                      /\ Doc[e].kind = "edit" => snapshot'[e].version = seen'[e].version
    BY DEF SnapshotsAreOfRows
  <2>1. Current(e)' = Current(e)
    BY CurrentStays
  <2>2. Visible(e, Current(e).product)' = Visible(e, Current(e).product)
    BY <2>1 DEF Visible, Holds
  <2>3. QED
    BY <2>2 DEF HistoryInv, SnapshotsAreOfRows
<1>2. snapshot' \in [Documents -> Version]
  BY DEF HistoryInv, MovesTypeOK
<1>3. QED
  BY <1>1, <1>2, QuietExplains

(* The movement of a statement leads from the version it found to the one  *)
(* it wrote; an edit measures it from its snapshot, which is that version. *)
LEMMA MovementExplains ==
  ASSUME IInv, HistoryInv, NEW d \in Documents, stage[d] = "waiting",
         NEW p, p = Current(d).product, NEW r, r = Visible(d, p),
         Accepts(d, r), NewBalance(d, r) <= IntegerMax
  PROVE  /\ p \in Products /\ r \in Version /\ NewBalance(d, r) \in 0 .. IntegerMax
         /\ Movement(d, r) \in Seq(Movements)
         /\ \A k \in DOMAIN Movement(d, r) : Movement(d, r)[k].product = p
         /\ Chained(Movement(d, r), r.balance, p)
         /\ BalanceAfter(Movement(d, r), r.balance, p, Len(Movement(d, r))) = NewBalance(d, r)
<1>1. TypeOK /\ MovesTypeOK /\ todo[d] # {}
  BY DEF IInv, HistoryInv, LocksAreOfWork
<1>2. Current(d) \in Doc[d].lines
  BY <1>1, CurrentIsFirst DEF TypeOK
<1>3. p \in Products /\ Current(d).delta \in Int
  BY <1>2, LedgerAssumption
<1>4. r \in Version /\ r.balance \in Nat
  <2>1. r \in Version
    BY <1>1, <1>3, VisibleTyped
  <2>2. QED
    BY <2>1 DEF Version
<1>5. NewBalance(d, r) \in 0 .. IntegerMax
  <2>1. CASE Doc[d].kind = "edit"
    BY <2>1, LedgerAssumption DEF NewBalance
  <2>2. CASE Doc[d].kind # "edit"
    BY <1>3, <1>4, <2>2 DEF NewBalance, Accepts
  <2>3. QED
    BY <2>1, <2>2
<1>6. NewBalance(d, r) = r.balance + DeltaOf(d, r) /\ DeltaOf(d, r) \in Int
  <2>1. CASE Doc[d].kind = "edit"
    <3>1. snapshot[d].version = r.version => snapshot[d] = r
      BY DEF HistoryInv, SnapshotsAreOfRows
    <3>2. snapshot[d].version = seen[d].version /\ r.version = seen[d].version
      BY <2>1 DEF HistoryInv, SnapshotsAreOfRows, Accepts
    <3>3. QED
      BY <1>4, <1>5, <2>1, <3>1, <3>2 DEF DeltaOf
  <2>2. CASE Doc[d].kind # "edit"
    BY <1>4, <1>5, <2>2 DEF DeltaOf
  <2>3. QED
    BY <2>1, <2>2
<1> DEFINE delta == DeltaOf(d, r)
           after == NewBalance(d, r)
           m == Movement(d, r)
           one == [product |-> p, delta |-> delta, after |-> after]
<1>7. m = IF delta = 0 THEN << >> ELSE <<one>>
  BY DEF Movement
<1>8. one \in Movements
  BY <1>3, <1>5, <1>6 DEF Movements
<1>9. CASE delta = 0
  <2>1. m = << >> /\ Len(m) = 0 /\ after = r.balance
    BY <1>4, <1>6, <1>7, <1>9
  <2> HIDE DEF m, after
  <2>2. /\ m \in Seq(Movements) /\ \A k \in DOMAIN m : m[k].product = p
        /\ Chained(m, r.balance, p) /\ BalanceAfter(m, r.balance, p, Len(m)) = after
    BY <2>1, NoMovements
  <2>3. QED
    BY <1>3, <1>4, <1>5, <2>2 DEF m, after
<1>10. CASE delta # 0
  <2> HIDE DEF m, one
  <2>1. m = <<one>> /\ m \in Seq(Movements) /\ Len(m) = 1 /\ DOMAIN m = {1} /\ m[1] = one
    BY <1>7, <1>8, <1>10
  <2>2. LeavesAt(m, r.balance, p, 0, r.balance) /\ LeavesAt(m, r.balance, p, 1, after)
    BY <2>1 DEF LeavesAt, one
  <2>3. BalanceAfter(m, r.balance, p, 0) = r.balance /\ BalanceAfter(m, r.balance, p, 1) = after
    BY <2>2, BalanceIs
  <2>4. Chained(m, r.balance, p)
    <3>1. one.after = r.balance + one.delta
      BY <1>6 DEF one
    <3>2. 1 - 1 = 0
      OBVIOUS
    <3>3. QED
      BY <2>1, <2>3, <3>1, <3>2 DEF Chained
  <2>5. \A k \in DOMAIN m : m[k].product = p
    BY <2>1 DEF one
  <2>6. QED
    BY <1>3, <1>4, <1>5, <2>1, <2>3, <2>4, <2>5 DEF m
<1>11. QED
  BY <1>9, <1>10

LEMMA ExecuteExplains ==
  ASSUME IInv, HistoryInv, NEW d \in Documents, Execute(d)
  PROVE  HistoryInv'
<1>0. PICK p : p = Current(d).product
  OBVIOUS
<1> DEFINE r == Visible(d, p)
           new == [balance |-> NewBalance(d, r), version |-> r.version + 1]
           m == Movement(d, r)
<1>1. stage[d] = "waiting" /\ UNCHANGED <<row, history>>
  BY DEF Execute, committed
<1> HIDE DEF r
<1>2. CASE End(d, "rejected") \/ End(d, "overflow")
  BY <1>1, <1>2, EndExplains DEF Settled
<1>3. CASE /\ Accepts(d, r) /\ NewBalance(d, r) <= IntegerMax
           /\ stage' = [stage EXCEPT ![d] = "ready"]
           /\ todo' = [todo EXCEPT ![d] = @ \ {Current(d)}]
           /\ snapshot' = [snapshot EXCEPT ![d] = NoRow]
           /\ draft' = [draft EXCEPT ![d][p] = new]
           /\ moves' = [moves EXCEPT ![d] = @ \o m]
           /\ UNCHANGED seen
  <2>1. TypeOK /\ MovesTypeOK
    BY DEF IInv, HistoryInv
  <2>2. /\ p \in Products /\ r \in Version /\ NewBalance(d, r) \in 0 .. IntegerMax
        /\ m \in Seq(Movements) /\ \A k \in DOMAIN m : m[k].product = p
        /\ Chained(m, r.balance, p)
        /\ BalanceAfter(m, r.balance, p, Len(m)) = new.balance
    <3>1. r = Visible(d, p)
      BY DEF r
    <3>2. QED
      BY <1>0, <1>1, <1>3, <3>1, MovementExplains
  <2>3. new # NoRow /\ new.version = r.version + 1 /\ r.version \in Nat /\ r = Visible(d, p)
    BY <2>2 DEF NoRow, Version, r
  <2> HIDE DEF new, m
  <2>4. NoRow \in Version
    BY NoRowTyped
  <2>5. draft' = [draft EXCEPT ![d] = [draft[d] EXCEPT ![p] = new]]
    BY <1>3 DEF new
  <2>6. /\ stage'[d] = "ready" /\ moves'[d] = moves[d] \o m
        /\ draft'[d][p] = new /\ \A q \in Products \ {p} : draft'[d][q] = draft[d][q]
        /\ \A e \in Documents \ {d} :
             /\ stage'[e] = stage[e] /\ todo'[e] = todo[e] /\ snapshot'[e] = snapshot[e]
             /\ draft'[e] = draft[e] /\ moves'[e] = moves[e] /\ Current(e)' = Current(e)
    <3>1. /\ stage'[d] = "ready" /\ moves'[d] = moves[d] \o m
          /\ draft'[d][p] = new /\ \A q \in Products \ {p} : draft'[d][q] = draft[d][q]
          /\ \A e \in Documents \ {d} :
               /\ stage'[e] = stage[e] /\ todo'[e] = todo[e] /\ snapshot'[e] = snapshot[e]
               /\ draft'[e] = draft[e] /\ moves'[e] = moves[e]
      BY <1>3, <2>1, <2>2, <2>5 DEF TypeOK, MovesTypeOK
    <3>2. QED
      BY <3>1, CurrentStays
  <2>7. MovesTypeOK'
    <3>1. moves' \in [Documents -> Seq(Movements)]
      BY <1>3, <2>1, <2>2 DEF MovesTypeOK
    <3>2. QED
      BY <1>1, <1>3, <2>1, <2>4, <3>1 DEF MovesTypeOK
  <2>8. /\ Visible(d, p)' = new /\ \A q \in Products \ {p} : Visible(d, q)' = Visible(d, q)
        /\ \A e \in Documents \ {d} : \A q \in Products : Visible(e, q)' = Visible(e, q)
    BY <1>1, <2>2, <2>3, <2>6 DEF Visible, Holds
  <2>9. moves[d] \in Seq(Movements) /\ Len(moves[d]) \in Nat /\ DOMAIN moves[d] = 1 .. Len(moves[d])
    BY <2>1 DEF MovesTypeOK
  <2>10. MovesAreOfLocked'
    <3> SUFFICES ASSUME NEW e \in Documents, NEW k \in DOMAIN moves'[e]
                 PROVE  draft'[e][moves'[e][k].product] # NoRow
      BY DEF MovesAreOfLocked, Holds
    <3>1. CASE e # d
      BY <2>6, <3>1 DEF HistoryInv, MovesAreOfLocked, Holds
    <3>2. CASE e = d /\ k \in DOMAIN moves[d]
      <4>1. moves'[d][k] = moves[d][k]
        BY <2>2, <2>6, <2>9, <3>2
      <4>2. moves[d][k] \in Movements
        BY <2>9, <3>2
      <4>3. moves[d][k].product \in Products
        BY <4>2 DEF Movements
      <4>4. draft[d][moves[d][k].product] # NoRow
        BY <3>2 DEF HistoryInv, MovesAreOfLocked, Holds
      <4>5. QED
        BY <2>3, <2>6, <3>2, <4>1, <4>3, <4>4
    <3>3. CASE e = d /\ k \notin DOMAIN moves[d]
      <4>1. k - Len(moves[d]) \in DOMAIN m /\ moves'[d][k] = m[k - Len(moves[d])]
        BY <2>2, <2>6, <2>9, <3>3
      <4>2. QED
        BY <2>2, <2>3, <2>6, <3>3, <4>1
    <3>4. QED
      BY <3>1, <3>2, <3>3
  <2>11. DraftsAreNewer'
    <3> SUFFICES ASSUME NEW e \in Documents, NEW q \in Products, draft'[e][q] # NoRow
                 PROVE  draft'[e][q].version > row[q].version
      BY <1>1 DEF DraftsAreNewer, Holds
    <3>1. CASE e = d /\ q = p
      <4>1. r.version >= row[p].version
        <5>1. row[p].version \in Nat /\ draft[d][p].version \in Nat
          BY <2>1, <2>2, VisibleTyped DEF Version
        <5>2. QED
          BY <2>2, <2>3, <5>1 DEF HistoryInv, DraftsAreNewer, Visible
      <4>2. row[p].version \in Nat
        BY <2>1, <2>2, VisibleTyped DEF Version
      <4>3. QED
        BY <2>3, <2>6, <3>1, <4>1, <4>2
    <3>2. CASE ~ (e = d /\ q = p)
      <4>1. draft'[e][q] = draft[e][q]
        BY <2>6, <3>2
      <4>2. QED
        BY <4>1 DEF HistoryInv, DraftsAreNewer, Holds
    <3>3. QED
      BY <3>1, <3>2
  <2>12. SnapshotsAreOfRows'
    <3> SUFFICES ASSUME NEW e \in Documents, stage'[e] = "waiting"
                 PROVE  /\ snapshot'[e].version <= Visible(e, Current(e).product)'.version
                        /\ snapshot'[e].version = Visible(e, Current(e).product)'.version
                             => snapshot'[e] = Visible(e, Current(e).product)'
                        /\ Doc[e].kind = "edit" => snapshot'[e].version = seen'[e].version
      BY DEF SnapshotsAreOfRows
    <3>1. e # d
      BY <2>6
    <3>2. Visible(e, Current(e).product)' = Visible(e, Current(e).product)
      BY <1>1, <2>6, <3>1 DEF Visible, Holds
    <3>3. QED
      BY <1>3, <2>6, <3>1, <3>2 DEF HistoryInv, SnapshotsAreOfRows
  <2>13. MovesExplainDrafts'
    <3> SUFFICES ASSUME NEW e \in Documents, NEW q \in Products
                 PROVE  /\ Chained(moves'[e], row'[q].balance, q)
                        /\ BalanceAfter(moves'[e], row'[q].balance, q, Len(moves'[e])) = Visible(e, q)'.balance
      BY DEF MovesExplainDrafts, Chained, BalanceAfter
    <3>1. /\ Chained(moves[e], row[q].balance, q)
          /\ BalanceAfter(moves[e], row[q].balance, q, Len(moves[e])) = Visible(e, q).balance
      BY DEF HistoryInv, MovesExplainDrafts
    <3>2. CASE e # d
      BY <1>1, <2>6, <2>8, <3>1, <3>2
    <3>3. CASE e = d /\ q = p
      <4>1. Chained(m, BalanceAfter(moves[d], row[p].balance, p, Len(moves[d])), p)
        BY <2>2, <2>3, <3>1, <3>3
      <4>2. /\ Chained(moves[d] \o m, row[p].balance, p)
            /\ BalanceAfter(moves[d] \o m, row[p].balance, p, Len(moves[d] \o m))
                 = BalanceAfter(m, BalanceAfter(moves[d], row[p].balance, p, Len(moves[d])), p, Len(m))
        BY <2>2, <2>9, <3>1, <3>3, <4>1, ChainOfBoth
      <4>3. QED
        BY <1>1, <2>2, <2>3, <2>6, <2>8, <3>1, <3>3, <4>2
    <3>4. CASE e = d /\ q # p
      <4> DEFINE b == BalanceAfter(moves[d], row[q].balance, q, Len(moves[d]))
      <4>1. \A k \in DOMAIN m : m[k].product # q
        BY <2>2, <3>4
      <4>2. Chained(m, b, q) /\ BalanceAfter(m, b, q, Len(m)) = b
        BY <2>2, <4>1, NothingOf
      <4>3. /\ Chained(moves[d] \o m, row[q].balance, q)
            /\ BalanceAfter(moves[d] \o m, row[q].balance, q, Len(moves[d] \o m)) = b
        BY <2>2, <2>9, <3>1, <3>4, <4>2, ChainOfBoth
      <4>4. QED
        BY <1>1, <2>6, <2>8, <3>1, <3>4, <4>3
    <3>5. QED
      BY <3>2, <3>3, <3>4
  <2>14. QED
    BY <1>1, <2>7, <2>10, <2>11, <2>12, <2>13, HistoryStays DEF HistoryInv
<1>4. QED
  BY <1>0, <1>2, <1>3 DEF Execute, r

LEMMA CommitExplains ==
  ASSUME IInv, HistoryInv, NEW d \in Documents, Commit(d)
  PROVE  HistoryInv'
<1>1. /\ End(d, "committed") /\ history' = history \o moves[d]
      /\ row' = [p \in Products |-> IF Holds(d, p) THEN draft[d][p] ELSE row[p]]
  BY DEF Commit, Publish
<1>2. TypeOK /\ MovesTypeOK
  BY DEF IInv, HistoryInv
<1>3. /\ snapshot' \in [Documents -> Version] /\ moves' \in [Documents -> Seq(Movements)]
      /\ moves'[d] = << >> /\ stage'[d] # "waiting"
      /\ \A p \in Products : draft'[d][p] = NoRow
      /\ \A e \in Documents \ {d} : /\ stage'[e] = stage[e] /\ draft'[e] = draft[e]
                                    /\ moves'[e] = moves[e] /\ snapshot'[e] = snapshot[e]
                                    /\ Current(e)' = Current(e)
      /\ seen' = seen
  BY <1>1, EndClears DEF Settled
<1>4. /\ moves[d] \in Seq(Movements) /\ history \in Seq(Movements)
      /\ \A e \in Documents : moves[e] \in Seq(Movements)
  BY <1>2 DEF MovesTypeOK
<1>5. MovesTypeOK'
  <2>1. history \o moves[d] \in Seq(Movements)
    BY <1>4
  <2>2. QED
    BY <1>1, <1>2, <1>3, <2>1 DEF MovesTypeOK
<1>6. \A p \in Products : row'[p] = Visible(d, p)
  BY <1>1 DEF Visible
<1>7. \A e \in Documents \ {d}, p \in Products : Holds(e, p) => row'[p] = row[p]
  BY <1>1 DEF IInv, LocksExclude
<1>8. MovesAreOfLocked'
  <2> SUFFICES ASSUME NEW e \in Documents, NEW k \in DOMAIN moves'[e]
               PROVE  draft'[e][moves'[e][k].product] # NoRow
    BY DEF MovesAreOfLocked, Holds
  <2>1. e # d
    BY <1>3
  <2>2. moves'[e] = moves[e] /\ draft'[e] = draft[e]
    BY <1>3, <2>1
  <2>3. QED
    BY <2>2 DEF HistoryInv, MovesAreOfLocked, Holds
<1>9. DraftsAreNewer'
  <2> SUFFICES ASSUME NEW e \in Documents, NEW p \in Products, draft'[e][p] # NoRow
               PROVE  draft'[e][p].version > row'[p].version
    BY DEF DraftsAreNewer, Holds
  <2>1. e # d /\ draft'[e] = draft[e] /\ Holds(e, p)
    BY <1>3 DEF Holds
  <2>2. QED
    BY <1>7, <2>1 DEF HistoryInv, DraftsAreNewer
<1>10. SnapshotsAreOfRows'
  <2> SUFFICES ASSUME NEW e \in Documents, stage'[e] = "waiting"
               PROVE  /\ snapshot'[e].version <= Visible(e, Current(e).product)'.version
                      /\ snapshot'[e].version = Visible(e, Current(e).product)'.version
                           => snapshot'[e] = Visible(e, Current(e).product)'
                      /\ Doc[e].kind = "edit" => snapshot'[e].version = seen'[e].version
    BY DEF SnapshotsAreOfRows
  <2>1. /\ e \in Documents \ {d} /\ stage[e] = "waiting" /\ draft'[e] = draft[e]
        /\ snapshot'[e] = snapshot[e] /\ Current(e)' = Current(e)
    BY <1>3
  <2>2. PICK p : p = Current(e).product
    OBVIOUS
  <2>3. p \in Products
    <3>1. todo[e] # {} /\ todo[e] \subseteq Doc[e].lines
      BY <1>2, <2>1 DEF IInv, LocksAreOfWork, TypeOK
    <3>2. Current(e) \in Doc[e].lines
      BY <2>1, <3>1, CurrentIsFirst
    <3>3. QED
      BY <2>2, <3>2, LedgerAssumption
  <2>4. Current(e)'.product = p
    BY <2>1, <2>2
  <2>5. /\ snapshot[e].version <= Visible(e, p).version
        /\ snapshot[e].version = Visible(e, p).version => snapshot[e] = Visible(e, p)
        /\ Doc[e].kind = "edit" => snapshot[e].version = seen[e].version
    BY <2>1, <2>2 DEF HistoryInv, SnapshotsAreOfRows
  <2>6. Visible(e, Current(e).product)' = IF draft[e][p] # NoRow THEN draft[e][p] ELSE row'[p]
    BY <2>1, <2>4 DEF Visible, Holds
  <2>7. CASE Holds(e, p) \/ ~ Holds(d, p)
    <3>1. Visible(e, Current(e).product)' = Visible(e, p)
      BY <1>1, <2>3, <2>6, <2>7 DEF Visible, Holds
    <3>2. QED
      BY <1>3, <2>1, <2>5, <3>1
  <2>8. CASE ~ Holds(e, p) /\ Holds(d, p)
    <3>1. Visible(e, Current(e).product)' = draft[d][p] /\ Visible(e, p) = row[p]
      BY <1>1, <2>3, <2>6, <2>8 DEF Visible, Holds
    <3>2. draft[d][p].version > row[p].version
      BY <2>3, <2>8 DEF HistoryInv, DraftsAreNewer
    <3>3. snapshot[e].version \in Nat /\ row[p].version \in Nat /\ draft[d][p].version \in Nat
      <4>1. snapshot[e] \in Version /\ row[p] \in Version /\ draft[d][p] \in Version
        BY <1>2, <2>3, VisibleTyped DEF MovesTypeOK
      <4>2. QED
        BY <4>1 DEF Version
    <3>4. snapshot[e].version < draft[d][p].version
      BY <2>5, <3>1, <3>2, <3>3
    <3>5. QED
      BY <1>3, <2>1, <2>5, <3>1, <3>3, <3>4
  <2>9. QED
    BY <2>7, <2>8
<1>11. MovesExplainDrafts'
  <2> SUFFICES ASSUME NEW e \in Documents, NEW p \in Products
               PROVE  /\ Chained(moves'[e], row'[p].balance, p)
                      /\ BalanceAfter(moves'[e], row'[p].balance, p, Len(moves'[e])) = Visible(e, p)'.balance
    BY DEF MovesExplainDrafts, Chained, BalanceAfter
  <2>1. CASE e = d
    <3>1. moves'[e] = << >> /\ Len(moves'[e]) = 0 /\ Visible(e, p)' = row'[p]
      BY <1>3, <2>1 DEF Visible, Holds
    <3>2. QED
      BY <3>1, NoMovements
  <2>2. CASE e # d /\ Holds(e, p)
    <3>1. moves'[e] = moves[e] /\ row'[p] = row[p] /\ Visible(e, p)' = Visible(e, p)
      BY <1>3, <1>7, <2>2 DEF Visible, Holds
    <3>2. QED
      BY <3>1 DEF HistoryInv, MovesExplainDrafts
  <2>3. CASE e # d /\ ~ Holds(e, p)
    <3>1. moves'[e] = moves[e] /\ Visible(e, p)' = row'[p]
      BY <1>3, <2>3 DEF Visible, Holds
    <3>2. \A k \in DOMAIN moves[e] : moves[e][k].product # p
      BY <2>3 DEF HistoryInv, MovesAreOfLocked
    <3>3. moves[e] \in Seq(Movements)
      BY <1>4
    <3>4. QED
      BY <3>1, <3>2, <3>3, NothingOf
  <2>4. QED
    BY <2>1, <2>2, <2>3
<1>12. HistoryExplainsBalance'
  <2> SUFFICES ASSUME NEW p \in Products
               PROVE  /\ Chained(history', OpeningBalance[p], p)
                      /\ BalanceAfter(history', OpeningBalance[p], p, Len(history')) = row'[p].balance
    BY DEF HistoryExplainsBalance, Chained, BalanceAfter
  <2>1. /\ Chained(history, OpeningBalance[p], p)
        /\ BalanceAfter(history, OpeningBalance[p], p, Len(history)) = row[p].balance
    BY DEF HistoryInv, HistoryExplainsBalance
  <2>2. /\ Chained(moves[d], row[p].balance, p)
        /\ BalanceAfter(moves[d], row[p].balance, p, Len(moves[d])) = Visible(d, p).balance
    BY DEF HistoryInv, MovesExplainDrafts
  <2>3. /\ Chained(history \o moves[d], OpeningBalance[p], p)
        /\ BalanceAfter(history \o moves[d], OpeningBalance[p], p, Len(history \o moves[d]))
             = BalanceAfter(moves[d], BalanceAfter(history, OpeningBalance[p], p, Len(history)), p, Len(moves[d]))
    BY <1>4, <2>1, <2>2, ChainOfBoth
  <2>4. QED
    BY <1>1, <1>6, <2>1, <2>2, <2>3
<1>13. QED
  BY <1>5, <1>8, <1>9, <1>10, <1>11, <1>12 DEF HistoryInv

LEMMA StepExplains == IInv /\ HistoryInv /\ [Next]_vars => HistoryInv'
<1> SUFFICES ASSUME IInv, HistoryInv, [Next]_vars PROVE HistoryInv'
  OBVIOUS
<1>0. TypeOK /\ seen \in [Documents -> Version]
  BY DEF IInv, HistoryInv, MovesTypeOK
<1>1. ASSUME NEW d \in Documents, Run(d) \/ Abort(d) PROVE HistoryInv'
  <2>1. CASE Look(d)
    <3>1. UNCHANGED <<row, history, draft, moves, snapshot, stage, todo>>
      BY <2>1 DEF Look, committed
    <3>2. row[(CHOOSE l \in Doc[d].lines : TRUE).product] \in Version
      <4>1. (CHOOSE l \in Doc[d].lines : TRUE) \in Doc[d].lines
        BY <2>1, LedgerAssumption DEF Look
      <4>2. (CHOOSE l \in Doc[d].lines : TRUE).product \in Products
        BY <4>1, LedgerAssumption
      <4>3. QED
        BY <1>0, <4>2 DEF TypeOK
    <3>3. /\ seen' \in [Documents -> Version]
          /\ stage[d] # "waiting" /\ \A e \in Documents \ {d} : seen'[e] = seen[e]
      BY <1>0, <2>1, <3>2 DEF Look
    <3>4. \A e \in Documents : stage'[e] = "waiting" =>
            stage[e] = "waiting" /\ todo'[e] = todo[e] /\ seen'[e] = seen[e]
      BY <3>1, <3>3
    <3>5. QED
      BY <3>1, <3>3, <3>4, StillExplains
  <2>2. CASE Begin(d)
    <3>1. UNCHANGED <<row, history, draft, moves, snapshot, seen>>
      BY <2>2 DEF Begin, committed
    <3>2. \A e \in Documents : stage'[e] = "waiting" => stage[e] = "waiting" /\ todo'[e] = todo[e]
      BY <1>0, <2>2 DEF Begin, TypeOK
    <3>3. QED
      BY <1>0, <3>1, <3>2, StillExplains
  <2>3. CASE ClaimInvoice(d)
    <3>1. UNCHANGED <<row, history>>
      BY <2>3 DEF ClaimInvoice, committed
    <3>2. CASE End(d, "repeated")
      BY <3>1, <3>2, EndExplains DEF Settled
    <3>3. CASE stage' = [stage EXCEPT ![d] = "ready"] /\ UNCHANGED <<todo, snapshot, draft, moves, seen>>
      <4>1. \A e \in Documents : stage'[e] = "waiting" => stage[e] = "waiting" /\ todo'[e] = todo[e]
        BY <1>0, <3>3 DEF TypeOK
      <4>2. QED
        BY <1>0, <3>1, <3>3, <4>1, StillExplains
    <3>4. QED
      BY <2>3, <3>2, <3>3 DEF ClaimInvoice
  <2>4. CASE DeadlockVictim(d)
    BY <2>4, EndExplains DEF DeadlockVictim, committed, Settled
  <2>5. CASE Abort(d)
    BY <2>5, EndExplains DEF Abort, committed
  <2>6. QED
    BY <1>1, <2>1, <2>2, <2>3, <2>4, <2>5, IssueExplains, ExecuteExplains, CommitExplains DEF Run
<1>2. CASE UNCHANGED vars
  BY <1>0, <1>2, StillExplains DEF vars, committed, transaction
<1>3. QED
  BY <1>1, <1>2 DEF Next

(* stock_movements: for any documents, however their transactions overlap, *)
(* wait, fail or are broken off, the movements of a product lead from its  *)
(* opening balance to the balance it has, each from where the one before   *)
(* it ended.                                                               *)
THEOREM HistoryExplains == Spec => []HistoryExplainsBalance
<1>1. HistoryInv => HistoryExplainsBalance
  BY DEF HistoryInv
<1>2. QED
  BY <1>1, Invariant, InitHistory, StepExplains, PTL DEF Spec
-----------------------------------------------------------------------------
(* The total does not depend on the line it starts with. *)
LEMMA TotalAdds ==
  ASSUME NEW U, IsFiniteSet(U), \A l \in U : l.delta \in Int
  PROVE  /\ Book!Total({}) = 0
         /\ \A S \in SUBSET U : /\ Book!Total(S) \in Int
                                /\ \A x \in S : Book!Total(S) = x.delta + Book!Total(S \ {x})
<1> DEFINE weight == [l \in U |-> l.delta]
<1>1. ASSUME NEW S \in SUBSET U PROVE Book!Total(S) = SumFunctionOnSet(weight, S)
  <2>1. Book!Total(S) = SumFunctionOnSet([l \in S |-> l.delta], S)
    BY DEF Book!Total, Book!SumFunctionOnSet, Book!FoldFunctionOnSet, Book!MapThenFoldSet,
       SumFunctionOnSet, FoldFunctionOnSet, MapThenFoldSet
  <2>2. IsFiniteSet(S)
    BY FS_Subset
  <2>3. \A l \in S : [k \in S |-> k.delta][l] = weight[l]
    OBVIOUS
  <2> HIDE DEF weight
  <2>4. QED
    BY <2>1, <2>2, <2>3, SameSum
<1>2. \A l \in U : weight[l] = l.delta /\ weight[l] \in Int
  OBVIOUS
<1> HIDE DEF weight
<1>3. /\ SumFunctionOnSet(weight, {}) = 0
      /\ \A S \in SUBSET U :
           /\ SumFunctionOnSet(weight, S) \in Int
           /\ \A x \in S : SumFunctionOnSet(weight, S) = weight[x] + SumFunctionOnSet(weight, S \ {x})
  BY <1>2, SumAdds
<1>4. ASSUME NEW S \in SUBSET U, NEW x \in S PROVE S \ {x} \in SUBSET U /\ x \in U
  OBVIOUS
<1>5. {} \in SUBSET U
  OBVIOUS
<1>6. QED
  BY <1>1, <1>2, <1>3, <1>4, <1>5
-----------------------------------------------------------------------------
Open(d) == stage[d] \in {"claiming", "ready", "waiting"}

Edited(d) == (CHOOSE l \in Doc[d].lines : TRUE).product

IsEdit(d) == Doc[d].kind = "edit"

DoneLines(d, p) == {l \in Doc[d].lines : l.product = p /\ l \notin todo[d]}

(* A row has a version, and a line whose statement ran has its lock. *)
DoneIsLocked ==
  /\ \A p \in Products : row[p].version > 0
  /\ \A d \in Documents : Open(d) => \A l \in Doc[d].lines \ todo[d] : Holds(d, l.product)

(* The row an author saw is an older version of it, or the row itself.     *)
AuthorsSawRows ==
  \A d \in Documents : IsEdit(d) =>
    /\ seen[d].version <= row[Edited(d)].version
    /\ seen[d].version = row[Edited(d)].version => seen[d] = row[Edited(d)]

(* The draft of a debit or adjustment has taken the lines that ran from    *)
(* the committed balance.                                                  *)
DraftsAreTotals ==
  \A d \in Documents : Open(d) /\ ~ IsEdit(d) => \A p \in Products :
    Visible(d, p).balance = row[p].balance + Book!Total(DoneLines(d, p))

(* The draft of an edit replaces the row its author saw, its only line.    *)
DraftsAreOfEdits ==
  \A d \in Documents : IsEdit(d) => \A p \in Products : Holds(d, p) =>
    p = Edited(d) /\ todo[d] = {} /\ draft[d][p].balance = Doc[d].target /\ seen[d] = row[p]

BookInv == DoneIsLocked /\ AuthorsSawRows /\ DraftsAreTotals /\ DraftsAreOfEdits

LEMMA LinesAdd ==
  ASSUME NEW d \in Documents
  PROVE  /\ Book!Total({}) = 0
         /\ \A S \in SUBSET Doc[d].lines :
              /\ Book!Total(S) \in Int
              /\ \A x \in S : Book!Total(S) = x.delta + Book!Total(S \ {x})
BY TotalAdds, LedgerAssumption

LEMMA EditedIsAProduct ==
  ASSUME NEW d \in Documents, IsEdit(d)
  PROVE  Edited(d) \in Products /\ \A l \in Doc[d].lines : l.product = Edited(d) /\ Doc[d].lines = {l}
<1>1. PICK l \in Doc[d].lines : Doc[d].lines = {l}
  BY LedgerAssumption DEF IsEdit
<1>2. (CHOOSE k \in Doc[d].lines : TRUE) = l
  BY <1>1
<1>3. l.product \in Products
  BY LedgerAssumption
<1>4. QED
  BY <1>1, <1>2, <1>3 DEF Edited

LEMMA InitBook == Init => BookInv
<1> SUFFICES ASSUME Init PROVE BookInv
  OBVIOUS
<1>1. /\ \A p \in Products : row[p].version = 1
      /\ \A d \in Documents : ~ Open(d) /\ seen[d].version = 0
      /\ \A d \in Documents, p \in Products : ~ Holds(d, p)
  BY DEF Init, Open, Holds, NoRow
<1>2. DoneIsLocked
  BY <1>1 DEF DoneIsLocked
<1>3. AuthorsSawRows
  BY <1>1, EditedIsAProduct DEF AuthorsSawRows
<1>4. DraftsAreTotals /\ DraftsAreOfEdits
  BY <1>1 DEF DraftsAreTotals, DraftsAreOfEdits
<1>5. QED
  BY <1>2, <1>3, <1>4 DEF BookInv

(* A step that writes no row and after which every open document is where  *)
(* it was, or has all its lines before it and no lock.                     *)
LEMMA StillBooks ==
  ASSUME TypeOK, BookInv, UNCHANGED row, AuthorsSawRows',
         \A e \in Documents : Open(e)' =>
           \/ Open(e) /\ draft'[e] = draft[e] /\ todo'[e] = todo[e]
           \/ todo'[e] = Doc[e].lines /\ \A p \in Products : draft'[e][p] = NoRow,
         \A e \in Documents, p \in Products : draft'[e][p] # NoRow =>
           draft'[e] = draft[e] /\ todo'[e] = todo[e] /\ seen'[e] = seen[e]
  PROVE  BookInv'
<1>1. DoneIsLocked'
  <2>1. ASSUME NEW e \in Documents, Open(e)', NEW l \in Doc[e].lines \ todo'[e]
        PROVE  draft'[e][l.product] # NoRow
    BY <2>1 DEF BookInv, DoneIsLocked, Holds
  <2>2. \A p \in Products : row'[p].version > 0
    BY DEF BookInv, DoneIsLocked
  <2>3. QED
    BY <2>1, <2>2 DEF DoneIsLocked, Holds
<1>2. DraftsAreTotals'
  <2> SUFFICES ASSUME NEW e \in Documents, Open(e)', ~ IsEdit(e), NEW p \in Products
               PROVE  Visible(e, p)'.balance = row[p].balance + Book!Total(DoneLines(e, p)')
    BY DEF DraftsAreTotals, IsEdit
  <2>1. CASE Open(e) /\ draft'[e] = draft[e] /\ todo'[e] = todo[e]
    <3>1. Visible(e, p)' = Visible(e, p) /\ DoneLines(e, p)' = DoneLines(e, p)
      BY <2>1 DEF Visible, Holds, DoneLines
    <3>2. Visible(e, p).balance = row[p].balance + Book!Total(DoneLines(e, p))
      BY <2>1 DEF BookInv, DraftsAreTotals
    <3>3. QED
      BY <3>1, <3>2
  <2>2. CASE todo'[e] = Doc[e].lines /\ \A q \in Products : draft'[e][q] = NoRow
    <3>1. Visible(e, p)' = row[p] /\ DoneLines(e, p)' = {}
      BY <2>2 DEF Visible, Holds, DoneLines
    <3>2. row[p].balance \in Int
      BY VisibleTyped DEF Version
    <3>3. QED
      BY <3>1, <3>2, LinesAdd
  <2>3. QED
    BY <2>1, <2>2
<1>3. DraftsAreOfEdits'
  <2> SUFFICES ASSUME NEW e \in Documents, IsEdit(e), NEW p \in Products, draft'[e][p] # NoRow
               PROVE  p = Edited(e) /\ todo'[e] = {} /\ draft'[e][p].balance = Doc[e].target /\ seen'[e] = row'[p]
    BY DEF DraftsAreOfEdits, Holds, Edited, IsEdit
  <2>1. QED
    BY DEF BookInv, DraftsAreOfEdits, Holds
<1>4. QED
  BY <1>1, <1>2, <1>3 DEF BookInv

LEMMA AuthorsStay ==
  ASSUME AuthorsSawRows, UNCHANGED <<row, seen>>
  PROVE  AuthorsSawRows'
BY DEF AuthorsSawRows, IsEdit, Edited

(* Every end but a commit. *)
LEMMA EndBooks ==
  ASSUME IInv, BookInv, NEW d \in Documents, NEW how \in Settled \union {"idle"}, End(d, how),
         UNCHANGED row
  PROVE  BookInv'
<1>1. TypeOK /\ AuthorsSawRows'
  BY AuthorsStay DEF IInv, BookInv, End
<1>2. /\ stage'[d] = how /\ \A p \in Products : draft'[d][p] = NoRow
      /\ \A e \in Documents \ {d} : stage'[e] = stage[e] /\ draft'[e] = draft[e] /\ todo'[e] = todo[e]
      /\ seen' = seen
  BY <1>1 DEF End, TypeOK
<1>3. how \notin {"claiming", "ready", "waiting"}
  BY DEF Settled
<1>4. \A e \in Documents : Open(e)' => Open(e) /\ draft'[e] = draft[e] /\ todo'[e] = todo[e]
  BY <1>2, <1>3 DEF Open
<1>5. \A e \in Documents, p \in Products : draft'[e][p] # NoRow =>
        draft'[e] = draft[e] /\ todo'[e] = todo[e] /\ seen'[e] = seen[e]
  BY <1>2
<1>6. QED
  BY <1>1, <1>4, <1>5, StillBooks

LEMMA LookBooks ==
  ASSUME IInv, HistoryInv, BookInv, NEW d \in Documents, Look(d)
  PROVE  BookInv'
<1>1. /\ stage[d] = "idle" /\ IsEdit(d) /\ seen' = [seen EXCEPT ![d] = row[Edited(d)]]
      /\ UNCHANGED <<row, draft, todo, stage>>
  BY DEF Look, committed, IsEdit, Edited
<1>2. TypeOK /\ seen \in [Documents -> Version]
  BY DEF IInv, HistoryInv, MovesTypeOK
<1>3. seen'[d] = row[Edited(d)] /\ \A e \in Documents \ {d} : seen'[e] = seen[e]
  BY <1>1, <1>2
<1>4. row[Edited(d)].version \in Nat
  <2>1. row[Edited(d)] \in Version
    BY <1>1, <1>2, EditedIsAProduct DEF TypeOK
  <2>2. QED
    BY <2>1 DEF Version
<1>5. AuthorsSawRows'
  <2> SUFFICES ASSUME NEW e \in Documents, IsEdit(e)
               PROVE  /\ seen'[e].version <= row[Edited(e)].version
                      /\ seen'[e].version = row[Edited(e)].version => seen'[e] = row[Edited(e)]
    BY <1>1 DEF AuthorsSawRows, IsEdit, Edited
  <2>1. CASE e = d
    BY <1>3, <1>4, <2>1
  <2>2. CASE e # d
    BY <1>3, <2>2 DEF BookInv, AuthorsSawRows
  <2>3. QED
    BY <2>1, <2>2
<1>6. \A p \in Products : ~ Holds(d, p)
  BY <1>1 DEF IInv, LocksAreOfWork, AtWork
<1>7. /\ \A e \in Documents : Open(e)' => Open(e) /\ draft'[e] = draft[e] /\ todo'[e] = todo[e]
      /\ \A e \in Documents, p \in Products : draft'[e][p] # NoRow =>
           draft'[e] = draft[e] /\ todo'[e] = todo[e] /\ seen'[e] = seen[e]
  BY <1>1, <1>3, <1>6 DEF Open, Holds
<1>8. QED
  BY <1>1, <1>2, <1>5, <1>7, StillBooks

LEMMA BeginBooks ==
  ASSUME IInv, BookInv, NEW d \in Documents, Begin(d)
  PROVE  BookInv'
<1>1. /\ stage[d] = "idle" /\ UNCHANGED <<row, draft, seen>>
      /\ \E s : stage' = [stage EXCEPT ![d] = s]
      /\ todo' = [todo EXCEPT ![d] = Doc[d].lines]
  BY DEF Begin, committed
<1>2. TypeOK /\ AuthorsSawRows'
  BY <1>1, AuthorsStay DEF IInv, BookInv
<1>3. \A p \in Products : ~ Holds(d, p)
  BY <1>1 DEF IInv, LocksAreOfWork, AtWork
<1>4. /\ todo'[d] = Doc[d].lines /\ \A p \in Products : draft'[d][p] = NoRow
      /\ \A e \in Documents \ {d} : stage'[e] = stage[e] /\ todo'[e] = todo[e]
      /\ \A e \in Documents : draft'[e] = draft[e] /\ seen'[e] = seen[e]
  BY <1>1, <1>2, <1>3 DEF TypeOK, Holds
<1>5. \A e \in Documents : Open(e)' =>
        \/ Open(e) /\ draft'[e] = draft[e] /\ todo'[e] = todo[e]
        \/ todo'[e] = Doc[e].lines /\ \A p \in Products : draft'[e][p] = NoRow
  BY <1>4 DEF Open
<1>6. \A e \in Documents, p \in Products : draft'[e][p] # NoRow =>
        draft'[e] = draft[e] /\ todo'[e] = todo[e] /\ seen'[e] = seen[e]
  BY <1>4
<1>7. QED
  BY <1>1, <1>2, <1>5, <1>6, StillBooks

(* Steps that only move an open transaction on to its next statement. *)
LEMMA NextStatementBooks ==
  ASSUME IInv, BookInv, NEW d \in Documents, Open(d), NEW s, stage' = [stage EXCEPT ![d] = s],
         UNCHANGED <<row, draft, todo, seen>>
  PROVE  BookInv'
<1>1. TypeOK /\ AuthorsSawRows'
  BY AuthorsStay DEF IInv, BookInv
<1>2. \A e \in Documents : Open(e)' => Open(e) /\ draft'[e] = draft[e] /\ todo'[e] = todo[e]
  BY <1>1 DEF Open, TypeOK
<1>3. QED
  BY <1>1, <1>2, StillBooks

LEMMA ExecuteBooks ==
  ASSUME IInv, HistoryInv, BookInv, NEW d \in Documents, Execute(d)
  PROVE  BookInv'
<1>1. PICK l, p : l = Current(d) /\ p = l.product
  OBVIOUS
<1> DEFINE r == Visible(d, p)
           new == [balance |-> NewBalance(d, r), version |-> r.version + 1]
<1>2. stage[d] = "waiting" /\ UNCHANGED <<row, debits>> /\ todo[d] # {}
  BY DEF Execute, committed, IInv, LocksAreOfWork
<1>3. CASE End(d, "rejected") \/ End(d, "overflow")
  BY <1>2, <1>3, EndBooks DEF Settled
<1>4. CASE /\ Accepts(d, r) /\ NewBalance(d, r) <= IntegerMax
           /\ stage' = [stage EXCEPT ![d] = "ready"]
           /\ todo' = [todo EXCEPT ![d] = @ \ {l}]
           /\ draft' = [draft EXCEPT ![d][p] = new]
           /\ UNCHANGED seen
  <2>1. TypeOK /\ AuthorsSawRows'
    BY <1>2, <1>4, AuthorsStay DEF IInv, BookInv
  <2>2. /\ l \in todo[d] /\ l \in Doc[d].lines /\ todo[d] \subseteq Doc[d].lines
        /\ p \in Products /\ l.delta \in Int
    BY <1>1, <1>2, <2>1, CurrentIsFirst, LedgerAssumption DEF TypeOK
  <2>3. r \in Version /\ row[p] \in Version /\ r.balance \in Int /\ r.version \in Nat
    BY <2>1, <2>2, VisibleTyped DEF Version
  <2>4. new # NoRow /\ new.balance = NewBalance(d, r)
    BY <2>3 DEF NoRow
  <2> HIDE DEF r, new
  <2>5. draft' = [draft EXCEPT ![d] = [draft[d] EXCEPT ![p] = new]]
    BY <1>4
  <2>6. /\ todo'[d] = todo[d] \ {l} /\ draft'[d][p] = new
        /\ \A q \in Products \ {p} : draft'[d][q] = draft[d][q]
        /\ \A e \in Documents \ {d} : stage'[e] = stage[e] /\ todo'[e] = todo[e] /\ draft'[e] = draft[e]
        /\ \A e \in Documents : Open(e)' = Open(e)
        /\ row' = row /\ seen' = seen
    BY <1>2, <1>4, <2>1, <2>2, <2>5 DEF TypeOK, Open
  <2>7. DoneIsLocked'
    <3>1. \A q \in Products : row'[q].version > 0
      BY <2>6 DEF BookInv, DoneIsLocked
    <3>2. ASSUME NEW e \in Documents, Open(e)', NEW k \in Doc[e].lines \ todo'[e]
          PROVE  draft'[e][k.product] # NoRow
      <4>1. CASE e # d
        <5>1. Open(e) /\ k \in Doc[e].lines \ todo[e] /\ draft'[e] = draft[e]
          BY <2>6, <3>2, <4>1
        <5>2. QED
          BY <5>1 DEF BookInv, DoneIsLocked, Holds
      <4>2. CASE e = d /\ k.product = p
        BY <2>4, <2>6, <4>2
      <4>3. CASE e = d /\ k.product # p
        <5>1. k \in Doc[d].lines \ todo[d] /\ Open(d)
          BY <1>1, <2>6, <3>2, <4>3
        <5>2. draft[d][k.product] # NoRow
          BY <5>1 DEF BookInv, DoneIsLocked, Holds
        <5>3. k.product \in Products
          BY <5>1, LedgerAssumption
        <5>4. QED
          BY <2>6, <4>3, <5>2, <5>3
      <4>4. QED
        BY <4>1, <4>2, <4>3
    <3>3. QED
      BY <3>1, <3>2 DEF DoneIsLocked, Holds
  <2>8. DraftsAreTotals'
    <3> SUFFICES ASSUME NEW e \in Documents, Open(e)', ~ IsEdit(e), NEW q \in Products
                 PROVE  Visible(e, q)'.balance = row'[q].balance + Book!Total(DoneLines(e, q)')
      BY DEF DraftsAreTotals, IsEdit
    <3>1. Visible(e, q).balance = row[q].balance + Book!Total(DoneLines(e, q))
      BY <2>6 DEF BookInv, DraftsAreTotals
    <3>2. CASE e # d \/ q # p
      <4>1. Visible(e, q)' = Visible(e, q) /\ DoneLines(e, q)' = DoneLines(e, q)
        BY <1>1, <2>6, <3>2 DEF Visible, Holds, DoneLines
      <4>2. QED
        BY <2>6, <3>1, <4>1
    <3>3. CASE e = d /\ q = p
      <4> DEFINE before == DoneLines(d, p)
                 now == DoneLines(d, p)'
      <4>1. now = before \union {l} /\ l \notin before /\ now \in SUBSET Doc[d].lines
        BY <1>1, <2>2, <2>6 DEF DoneLines
      <4>2. now \ {l} = before /\ l \in now /\ before \in SUBSET Doc[d].lines
        BY <4>1
      <4> HIDE DEF now, before
      <4>3. Book!Total(now) = l.delta + Book!Total(before) /\ Book!Total(before) \in Int
        BY <4>1, <4>2, LinesAdd
      <4>4. Visible(d, p)' = new /\ new.balance = r.balance + l.delta
        BY <1>1, <2>4, <2>6, <3>3 DEF Visible, Holds, NewBalance, IsEdit
      <4>5. row[p].balance \in Int
        BY <2>3 DEF Version
      <4>6. r.balance = row[p].balance + Book!Total(before)
        BY <3>1, <3>3 DEF r, before
      <4>7. new.balance = row[p].balance + Book!Total(now)
        BY <2>2, <2>3, <4>3, <4>4, <4>5, <4>6
      <4>8. QED
        BY <2>6, <3>3, <4>4, <4>7 DEF now
    <3>4. QED
      BY <3>2, <3>3
  <2>9. DraftsAreOfEdits'
    <3> SUFFICES ASSUME NEW e \in Documents, IsEdit(e), NEW q \in Products, draft'[e][q] # NoRow
                 PROVE  q = Edited(e) /\ todo'[e] = {} /\ draft'[e][q].balance = Doc[e].target /\ seen'[e] = row'[q]
      BY DEF DraftsAreOfEdits, Holds, Edited, IsEdit
    <3>1. CASE e # d \/ q # p
      <4>1. draft[e][q] # NoRow /\ draft'[e][q] = draft[e][q]
        BY <2>6, <3>1
      <4>2. q = Edited(e) /\ todo[e] = {} /\ draft[e][q].balance = Doc[e].target /\ seen[e] = row[q]
        BY <4>1 DEF BookInv, DraftsAreOfEdits, Holds
      <4>3. QED
        BY <2>2, <2>6, <4>1, <4>2
    <3>2. CASE e = d /\ q = p
      <4>1. p = Edited(d) /\ Doc[d].lines = {l}
        BY <1>1, <2>2, <3>2, EditedIsAProduct
      <4>2. todo'[d] = {}
        BY <2>2, <2>6, <4>1
      <4>3. ~ Holds(d, p)
        BY <2>2, <3>2 DEF BookInv, DraftsAreOfEdits
      <4>4. r = row[p] /\ r.version = seen[d].version
        BY <1>4, <3>2, <4>3 DEF r, Visible, Accepts, IsEdit
      <4>5. seen[d] = row[p]
        BY <3>2, <4>1, <4>4 DEF BookInv, AuthorsSawRows
      <4>6. new.balance = Doc[d].target
        BY <2>4, <3>2 DEF NewBalance, IsEdit
      <4>7. QED
        BY <2>6, <3>2, <4>1, <4>2, <4>5, <4>6
    <3>3. QED
      BY <3>1, <3>2
  <2>10. QED
    BY <2>1, <2>7, <2>8, <2>9 DEF BookInv
<1>5. QED
  BY <1>1, <1>3, <1>4 DEF Execute

LEMMA CommitBooks ==
  ASSUME IInv, HistoryInv, BookInv, NEW d \in Documents, Commit(d)
  PROVE  BookInv'
<1>1. /\ End(d, "committed")
      /\ row' = [p \in Products |-> IF Holds(d, p) THEN draft[d][p] ELSE row[p]]
  BY DEF Commit, Publish
<1>2. TypeOK /\ seen \in [Documents -> Version]
  BY DEF IInv, HistoryInv, MovesTypeOK
<1>3. /\ ~ Open(d)' /\ \A p \in Products : draft'[d][p] = NoRow
      /\ \A e \in Documents \ {d} : /\ Open(e)' = Open(e) /\ draft'[e] = draft[e] /\ todo'[e] = todo[e]
      /\ seen' = seen
  BY <1>1, <1>2 DEF End, TypeOK, Open
<1>4. \A p \in Products : row'[p] = row[p] \/ (Holds(d, p) /\ row'[p].version > row[p].version)
  BY <1>1 DEF HistoryInv, DraftsAreNewer
<1>5. \A e \in Documents \ {d}, p \in Products : Holds(e, p) => row'[p] = row[p]
  BY <1>1 DEF IInv, LocksExclude
<1>6. \A p \in Products : row[p].version \in Nat /\ row'[p].version \in Nat
  <2>1. ASSUME NEW p \in Products PROVE row[p] \in Version /\ row'[p] \in Version
    BY <1>1, <1>2, VisibleTyped
  <2>2. QED
    BY <2>1 DEF Version
<1>7. DoneIsLocked'
  <2>1. \A p \in Products : row'[p].version > 0
    BY <1>4, <1>6 DEF BookInv, DoneIsLocked
  <2>2. ASSUME NEW e \in Documents, Open(e)', NEW k \in Doc[e].lines \ todo'[e]
        PROVE  draft'[e][k.product] # NoRow
    BY <1>3, <2>2 DEF BookInv, DoneIsLocked, Holds
  <2>3. QED
    BY <2>1, <2>2 DEF DoneIsLocked, Holds
<1>8. AuthorsSawRows'
  <2> SUFFICES ASSUME NEW e \in Documents, IsEdit(e)
               PROVE  /\ seen'[e].version <= row'[Edited(e)].version
                      /\ seen'[e].version = row'[Edited(e)].version => seen'[e] = row'[Edited(e)]
    BY DEF AuthorsSawRows, IsEdit, Edited
  <2>1. PICK p \in Products : p = Edited(e)
    BY EditedIsAProduct
  <2>2. /\ seen[e].version <= row[p].version
        /\ seen[e].version = row[p].version => seen[e] = row[p]
    BY <2>1 DEF BookInv, AuthorsSawRows
  <2>3. seen[e].version \in Nat
    BY <1>2 DEF Version
  <2>4. QED
    BY <1>3, <1>4, <1>6, <2>1, <2>2, <2>3
<1>9. DraftsAreTotals'
  <2> SUFFICES ASSUME NEW e \in Documents, Open(e)', ~ IsEdit(e), NEW p \in Products
               PROVE  Visible(e, p)'.balance = row'[p].balance + Book!Total(DoneLines(e, p)')
    BY DEF DraftsAreTotals, IsEdit
  <2>1. e # d /\ Open(e) /\ DoneLines(e, p)' = DoneLines(e, p)
    BY <1>3 DEF DoneLines
  <2>2. CASE Holds(e, p)
    <3>1. Visible(e, p)' = Visible(e, p) /\ row'[p] = row[p]
      BY <1>3, <1>5, <2>1, <2>2 DEF Visible, Holds
    <3>2. Visible(e, p).balance = row[p].balance + Book!Total(DoneLines(e, p))
      BY <2>1 DEF BookInv, DraftsAreTotals
    <3>3. QED
      BY <2>1, <3>1, <3>2
  <2>3. CASE ~ Holds(e, p)
    <3>1. Visible(e, p)' = row'[p]
      BY <1>3, <2>1, <2>3 DEF Visible, Holds
    <3>2. DoneLines(e, p) = {}
      BY <2>1, <2>3 DEF BookInv, DoneIsLocked, DoneLines
    <3>3. row'[p].balance \in Int
      <4>1. row'[p] \in Version
        BY <1>1, <1>2, VisibleTyped
      <4>2. QED
        BY <4>1 DEF Version
    <3>4. QED
      BY <2>1, <3>1, <3>2, <3>3, LinesAdd
  <2>4. QED
    BY <2>2, <2>3
<1>10. DraftsAreOfEdits'
  <2> SUFFICES ASSUME NEW e \in Documents, IsEdit(e), NEW p \in Products, draft'[e][p] # NoRow
               PROVE  p = Edited(e) /\ todo'[e] = {} /\ draft'[e][p].balance = Doc[e].target /\ seen'[e] = row'[p]
    BY DEF DraftsAreOfEdits, Holds, Edited, IsEdit
  <2>1. e # d /\ draft'[e] = draft[e] /\ todo'[e] = todo[e] /\ Holds(e, p)
    BY <1>3 DEF Holds
  <2>2. QED
    BY <1>3, <1>5, <2>1 DEF BookInv, DraftsAreOfEdits
<1>11. QED
  BY <1>7, <1>8, <1>9, <1>10 DEF BookInv

LEMMA StepBooks == IInv /\ HistoryInv /\ BookInv /\ [Next]_vars => BookInv'
<1> SUFFICES ASSUME IInv, HistoryInv, BookInv, [Next]_vars PROVE BookInv'
  OBVIOUS
<1>1. ASSUME NEW d \in Documents, Run(d) \/ Abort(d) PROVE BookInv'
  <2>1. CASE ClaimInvoice(d)
    <3>1. UNCHANGED row /\ Open(d)
      BY <2>1 DEF ClaimInvoice, committed, Open
    <3>2. CASE End(d, "repeated")
      BY <3>1, <3>2, EndBooks DEF Settled
    <3>3. CASE stage' = [stage EXCEPT ![d] = "ready"] /\ UNCHANGED <<todo, draft, seen>>
      BY <3>1, <3>3, NextStatementBooks
    <3>4. QED
      BY <2>1, <3>2, <3>3 DEF ClaimInvoice
  <2>2. CASE Issue(d)
    <3>1. UNCHANGED row /\ Open(d)
      BY <2>2 DEF Issue, committed, Open
    <3>2. CASE End(d, "rejected")
      BY <3>1, <3>2, EndBooks DEF Settled
    <3>3. CASE stage' = [stage EXCEPT ![d] = "waiting"] /\ UNCHANGED <<todo, draft, seen>>
      BY <3>1, <3>3, NextStatementBooks
    <3>4. QED
      BY <2>2, <3>2, <3>3 DEF Issue
  <2>3. CASE DeadlockVictim(d)
    BY <2>3, EndBooks DEF DeadlockVictim, committed, Settled
  <2>4. CASE Abort(d)
    BY <2>4, EndBooks DEF Abort, committed
  <2>5. QED
    BY <1>1, <2>1, <2>2, <2>3, <2>4, LookBooks, BeginBooks, ExecuteBooks, CommitBooks DEF Run
<1>2. CASE UNCHANGED vars
  <2>1. UNCHANGED <<row, stage, todo, draft, seen>>
    BY <1>2 DEF vars, committed, transaction
  <2>2. AuthorsSawRows' /\ TypeOK
    BY <2>1, AuthorsStay DEF BookInv, IInv
  <2>3. \A e \in Documents : Open(e)' => Open(e) /\ draft'[e] = draft[e] /\ todo'[e] = todo[e]
    BY <2>1 DEF Open
  <2>4. QED
    BY <2>1, <2>2, <2>3, StillBooks
<1>3. QED
  BY <1>1, <1>2 DEF Next
-----------------------------------------------------------------------------
(* The commit of a transaction books its document. *)
LEMMA CommitIsABooking ==
  ASSUME IInv, HistoryInv, BookInv, NEW d \in Documents, Commit(d)
  PROVE  Book!Book(d)
<1>1. /\ stage[d] = "ready" /\ todo[d] = {} /\ End(d, "committed")
      /\ row' = [p \in Products |-> IF Holds(d, p) THEN draft[d][p] ELSE row[p]]
  BY DEF Commit, Publish
<1>2. TypeOK /\ seen' = seen /\ Open(d) /\ AtWork(d)
  BY <1>1 DEF IInv, End, Open, AtWork
<1>3. \A p \in Products : row'[p] = Visible(d, p) /\ Visible(d, p).balance \in 0 .. IntegerMax
  BY <1>1, <1>2, VisibleTyped DEF Visible, Version
<1>4. \A p : Book!Lines(d, p) = DoneLines(d, p)
  BY <1>1 DEF Book!Lines, DoneLines
<1>5. ASSUME NEW p \in Products, IsEdit(d), Book!Lines(d, p) # {}
      PROVE  Holds(d, p) /\ p = Edited(d) /\ draft[d][p].balance = Doc[d].target /\ seen[d] = row[p] /\ seen[d] # NoRow
  <2>1. Holds(d, p)
    BY <1>2, <1>4, <1>5 DEF BookInv, DoneIsLocked, DoneLines
  <2>2. seen[d] # NoRow
    BY <1>5, <2>1 DEF BookInv, DraftsAreOfEdits, DoneIsLocked, NoRow
  <2>3. QED
    BY <1>5, <2>1, <2>2 DEF BookInv, DraftsAreOfEdits
<1>6. ASSUME NEW p \in Products
      PROVE  Book!After(d, p) = Visible(d, p).balance
  <2>1. CASE IsEdit(d) /\ Book!Lines(d, p) # {}
    BY <1>5, <2>1 DEF Book!After, Visible, IsEdit
  <2>2. CASE IsEdit(d) /\ Book!Lines(d, p) = {}
    <3>1. ~ Holds(d, p)
      <4>1. Holds(d, p) => p = Edited(d)
        BY <2>2 DEF BookInv, DraftsAreOfEdits
      <4>2. \E l \in Doc[d].lines : l.product = Edited(d)
        BY <2>2, EditedIsAProduct, LedgerAssumption DEF IsEdit
      <4>3. QED
        BY <2>2, <4>1, <4>2 DEF Book!Lines
    <3>2. Book!After(d, p) = row[p].balance + Book!Total({})
      BY <2>2 DEF Book!After
    <3>3. row[p].balance \in Int
      BY <1>2, VisibleTyped DEF Version
    <3>4. QED
      BY <3>1, <3>2, <3>3, LinesAdd DEF Visible
  <2>3. CASE ~ IsEdit(d)
    <3>1. Book!After(d, p) = row[p].balance + Book!Total(DoneLines(d, p))
      BY <1>4, <2>3 DEF Book!After, IsEdit
    <3>2. QED
      BY <1>2, <2>3, <3>1 DEF BookInv, DraftsAreTotals
  <2>4. QED
    BY <2>1, <2>2, <2>3
<1>7. [p \in Products |-> row[p].balance]' = [p \in Products |-> Book!After(d, p)]
  BY <1>3, <1>6
<1>8. \A p \in Products : Book!After(d, p) >= 0
  BY <1>3, <1>6
<1>9. d \notin {e \in Documents : stage[e] = "committed"}
  BY <1>1
<1>10. {e \in Documents : stage[e] = "committed"}' = {e \in Documents : stage[e] = "committed"} \union {d}
  BY <1>1, <1>2 DEF End, TypeOK
<1>11. Doc[d].kind = "debit" => \A e \in {f \in Documents : stage[f] = "committed"} :
         Doc[e].kind = "debit" => Doc[e].invoice # Doc[d].invoice
  BY <1>2 DEF IInv, ClaimsExclude, Debits
<1>12. Doc[d].kind = "edit" => \A p \in Products : Book!Lines(d, p) # {} =>
         [e \in Documents |-> IF seen[e] = NoRow THEN -1 ELSE seen[e].balance][d]
           = [q \in Products |-> row[q].balance][p]
  BY <1>5 DEF IsEdit
<1>13. QED
  BY <1>2, <1>7, <1>8, <1>9, <1>10, <1>11, <1>12 DEF Book!Book

(* A look at the form is the look of the book. *)
LEMMA LookIsALook ==
  ASSUME IInv, HistoryInv, BookInv, NEW d \in Documents, Look(d)
  PROVE  Book!Look(d)
<1>1. IsEdit(d) /\ seen' = [seen EXCEPT ![d] = row[Edited(d)]] /\ UNCHANGED <<row, stage>>
  BY DEF Look, committed, IsEdit, Edited
<1>2. seen \in [Documents -> Version]
  BY DEF HistoryInv, MovesTypeOK
<1>3. PICK p \in Products : p = Edited(d)
  BY <1>1, EditedIsAProduct
<1>4. row[p] # NoRow
  BY DEF BookInv, DoneIsLocked, NoRow
<1>5. Book!Lines(d, p) # {}
  BY <1>1, <1>3, EditedIsAProduct, LedgerAssumption DEF Book!Lines, IsEdit
<1> DEFINE shown == [e \in Documents |-> IF seen[e] = NoRow THEN -1 ELSE seen[e].balance]
<1>6. shown' = [shown EXCEPT ![d] = row[p].balance]
  BY <1>1, <1>2, <1>3, <1>4
<1>7. QED
  BY <1>1, <1>5, <1>6 DEF Book!Look

(* A step that commits nothing and shows nothing is no step of the book. *)
LEMMA RestIsNoStep ==
  ASSUME UNCHANGED <<row, seen>>,
         \A e \in Documents : stage'[e] = "committed" <=> stage[e] = "committed"
  PROVE  UNCHANGED Book!bvars
BY DEF Book!bvars

LEMMA EndIsNoStep ==
  ASSUME TypeOK, NEW d \in Documents, stage[d] # "committed", NEW how, how # "committed", End(d, how),
         UNCHANGED row
  PROVE  UNCHANGED Book!bvars
<1>1. seen' = seen /\ \A e \in Documents : stage'[e] = "committed" <=> stage[e] = "committed"
  BY DEF End, TypeOK
<1>2. QED
  BY <1>1, RestIsNoStep

LEMMA StepIsOfTheBook ==
  ASSUME IInv, HistoryInv, BookInv, [Next]_vars
  PROVE  [Book!Next]_(Book!bvars)
<1>0. TypeOK
  BY DEF IInv
<1>1. ASSUME NEW d \in Documents, Run(d) \/ Abort(d)
      PROVE  Book!Look(d) \/ Book!Book(d) \/ UNCHANGED Book!bvars
  <2>1. CASE Begin(d)
    <3>1. \A e \in Documents : stage'[e] = "committed" <=> stage[e] = "committed"
      BY <1>0, <2>1 DEF Begin, TypeOK
    <3>2. QED
      BY <2>1, <3>1, RestIsNoStep DEF Begin, committed
  <2>2. CASE ClaimInvoice(d)
    <3>1. stage[d] = "claiming" /\ UNCHANGED row
      BY <2>2 DEF ClaimInvoice, committed
    <3>2. CASE End(d, "repeated")
      BY <1>0, <3>1, <3>2, EndIsNoStep
    <3>3. CASE stage' = [stage EXCEPT ![d] = "ready"] /\ UNCHANGED seen
      <4>1. \A e \in Documents : stage'[e] = "committed" <=> stage[e] = "committed"
        BY <1>0, <3>1, <3>3 DEF TypeOK
      <4>2. QED
        BY <3>1, <3>3, <4>1, RestIsNoStep
    <3>4. QED
      BY <2>2, <3>2, <3>3 DEF ClaimInvoice
  <2>3. CASE Issue(d)
    <3>1. stage[d] = "ready" /\ UNCHANGED row
      BY <2>3 DEF Issue, committed
    <3>2. CASE End(d, "rejected")
      BY <1>0, <3>1, <3>2, EndIsNoStep
    <3>3. CASE stage' = [stage EXCEPT ![d] = "waiting"] /\ UNCHANGED seen
      <4>1. \A e \in Documents : stage'[e] = "committed" <=> stage[e] = "committed"
        BY <1>0, <3>1, <3>3 DEF TypeOK
      <4>2. QED
        BY <3>1, <3>3, <4>1, RestIsNoStep
    <3>4. QED
      BY <2>3, <3>2, <3>3 DEF Issue
  <2>4. CASE Execute(d)
    <3>1. stage[d] = "waiting" /\ UNCHANGED row
      BY <2>4 DEF Execute, committed
    <3>2. CASE End(d, "rejected") \/ End(d, "overflow")
      BY <1>0, <3>1, <3>2, EndIsNoStep
    <3>3. CASE stage' = [stage EXCEPT ![d] = "ready"] /\ UNCHANGED seen
      <4>1. \A e \in Documents : stage'[e] = "committed" <=> stage[e] = "committed"
        BY <1>0, <3>1, <3>3 DEF TypeOK
      <4>2. QED
        BY <3>1, <3>3, <4>1, RestIsNoStep
    <3>4. QED
      BY <2>4, <3>2, <3>3 DEF Execute
  <2>5. CASE DeadlockVictim(d)
    <3>1. stage[d] \in {"claiming", "waiting"} /\ UNCHANGED row /\ End(d, "failed")
      BY <2>5 DEF DeadlockVictim, committed, Blocked, WaitsFor
    <3>2. QED
      BY <1>0, <3>1, EndIsNoStep
  <2>6. CASE Abort(d)
    <3>1. stage[d] # "committed" /\ UNCHANGED row /\ End(d, "idle")
      BY <2>6 DEF Abort, committed
    <3>2. QED
      BY <1>0, <3>1, EndIsNoStep
  <2>7. QED
    BY <1>1, <2>1, <2>2, <2>3, <2>4, <2>5, <2>6, LookIsALook, CommitIsABooking DEF Run
<1>2. CASE UNCHANGED vars
  BY <1>2, RestIsNoStep DEF vars, committed, transaction
<1>3. QED
  BY <1>1, <1>2 DEF Next, Book!Next

LEMMA InitIsOfTheBook == Init => Book!Init
<1> SUFFICES ASSUME Init PROVE Book!Init
  OBVIOUS
<1>1. OpeningBalance = [p \in Products |-> OpeningBalance[p]]
  BY LedgerAssumption
<1>2. [p \in Products |-> row[p].balance] = OpeningBalance
  BY <1>1 DEF Init
<1>3. QED
  BY <1>2 DEF Init, Book!Init

(* Debit, Adjust and UpdateProduct: for any documents, however their       *)
(* transactions overlap, the balances change only as if every document     *)
(* were booked at once and alone: all of its lines or none, an invoice     *)
(* once, an edit only over the balance its author was looking at.          *)
THEOREM LedgerKeepsTheBook == Spec => BookSpec
<1>1. IInv /\ HistoryInv /\ BookInv /\ [Next]_vars => [Book!Next]_(Book!bvars)
  BY StepIsOfTheBook
<1>2. QED
  BY <1>1, InitInv, InitHistory, InitBook, StepKeeps, StepExplains, StepBooks, InitIsOfTheBook,
     PTL DEF Spec, BookSpec, Book!Spec
=============================================================================
