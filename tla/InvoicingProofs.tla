---------------------------- MODULE InvoicingProofs ----------------------------
(***************************************************************************)
(* Theorems about the catalogue, the invoices issued over it and the pages *)
(* of its listings, for any products, imports, documents, requests and     *)
(* limits.                                                                 *)
(***************************************************************************)
EXTENDS Invoicing, SetLemmas, TLAPS

(***************************************************************************)
(* Sums.                                                                   *)
(***************************************************************************)

Lines == [product : Products, byCode : BOOLEAN, delta : Int]

(* A document adds whole numbers to balances, and to those of its products *)
(* only.                                                                   *)
LEMMA DeltaType ==
  ASSUME NEW p, NEW ls, ls \in Seq(Lines)
  PROVE  /\ DeltaTo(p, ls) \in Int
         /\ (\A i \in DOMAIN ls : ls[i].product # p) => DeltaTo(p, ls) = 0
<1> DEFINE step(i) == IF ls[i].product = p THEN ls[i].delta ELSE 0
           Sums(m) == {g \in [0 .. m -> Int] : \A i \in 0 .. m : g[i] = IF i = 0 THEN 0 ELSE g[i - 1] + step(i)}
           sum[i \in 0 .. Len(ls)] == IF i = 0 THEN 0 ELSE sum[i - 1] + step(i)
           Bad == {m \in 0 .. Len(ls) : Sums(m) = {}}
<1>1. Len(ls) \in Nat /\ DOMAIN ls = 1 .. Len(ls)
  OBVIOUS
<1>2. ASSUME NEW i \in 1 .. Len(ls) PROVE step(i) \in Int
  <2>1. ls[i] \in Lines
    BY <1>1
  <2>2. QED
    BY <2>1 DEF Lines
<1> HIDE DEF step
<1>3. Bad = {}
  <2> SUFFICES ASSUME Bad # {} PROVE FALSE
    OBVIOUS
  <2>1. PICK m \in Bad : \A k \in Bad : m <= k
    <3>1. Bad \in SUBSET Nat
      OBVIOUS
    <3> HIDE DEF Bad
    <3>2. QED
      BY <3>1, LeastNumber
  <2>2. m # 0
    <3>1. [i \in 0 .. 0 |-> 0] \in Sums(0)
      OBVIOUS
    <3>2. QED
      BY <3>1
  <2>3. PICK g \in Sums(m - 1) : TRUE
    <3>1. m \in 1 .. Len(ls)
      BY <2>2
    <3> HIDE DEF Bad
    <3>2. m - 1 \in 0 .. Len(ls) /\ m - 1 \notin Bad
      BY <2>1, <3>1
    <3>3. QED
      BY <3>2 DEF Bad
  <2> DEFINE h == [i \in 0 .. m |-> IF i = m THEN g[m - 1] + step(m) ELSE g[i]]
  <2>4. h \in [0 .. m -> Int]
    BY <1>2, <2>2
  <2>5. ASSUME NEW i \in 0 .. m PROVE h[i] = IF i = 0 THEN 0 ELSE h[i - 1] + step(i)
    <3>1. CASE i = m
      BY <2>2, <3>1
    <3>2. CASE i # m
      <4>1. i \in 0 .. m - 1 /\ h[i] = g[i] /\ (i # 0 => h[i - 1] = g[i - 1])
        BY <3>2
      <4>2. QED
        BY <4>1
    <3>3. QED
      BY <3>1, <3>2
  <2>6. h \in Sums(m)
    BY <2>4, <2>5
  <2>7. QED
    BY <2>6
<1>4. PICK g \in Sums(Len(ls)) : TRUE
  BY <1>1, <1>3
<1>5. g = [i \in 0 .. Len(ls) |-> IF i = 0 THEN 0 ELSE g[i - 1] + step(i)]
  OBVIOUS
<1>6. sum = [i \in 0 .. Len(ls) |-> IF i = 0 THEN 0 ELSE sum[i - 1] + step(i)]
  BY <1>5
<1> HIDE DEF sum
<1> DEFINE Right(i) == sum[i] \in Int /\ ((\A j \in DOMAIN ls : ls[j].product # p) => sum[i] = 0)
           Wrong == {i \in 0 .. Len(ls) : ~ Right(i)}
<1>7. Wrong = {}
  <2> SUFFICES ASSUME Wrong # {} PROVE FALSE
    OBVIOUS
  <2>1. PICK i \in Wrong : \A k \in Wrong : i <= k
    <3>1. Wrong \in SUBSET Nat
      OBVIOUS
    <3> HIDE DEF Wrong
    <3>2. QED
      BY <3>1, LeastNumber
  <2>2. CASE i = 0
    BY <1>6, <2>2
  <2>3. CASE i # 0
    <3>1. i - 1 \in 0 .. Len(ls) /\ i - 1 \notin Wrong
      BY <2>1, <2>3
    <3>2. Right(i - 1)
      BY <3>1
    <3>3. sum[i] = sum[i - 1] + step(i)
      BY <1>6, <2>3
    <3>4. (\A j \in DOMAIN ls : ls[j].product # p) => step(i) = 0
      BY <1>1, <2>3 DEF step
    <3>5. step(i) \in Int
      BY <1>2, <2>3
    <3>6. Right(i)
      BY <3>2, <3>3, <3>4, <3>5
    <3>7. QED
      BY <3>6
  <2>4. QED
    BY <2>2, <2>3
<1>8. DeltaTo(p, ls) = sum[Len(ls)]
  BY DEF DeltaTo, sum, step
<1>9. QED
  BY <1>1, <1>7, <1>8
-----------------------------------------------------------------------------
(***************************************************************************)
(* The lines of an order, merged, and the lines of an answer, resolved.    *)
(***************************************************************************)

(* Lines of some products with some quantities.                            *)
LinesOf(P, Q) == [product : P, quantity : Q]

(* No product is in lines twice. *)
OneEach(ls) == \A i, k \in DOMAIN ls : ls[i].product = ls[k].product => i = k

UnitsFor(p, line) == IF p = line.product THEN line.quantity ELSE 0

(* The lines of its product get its units, or it becomes the last one.     *)

IsAdded(ls, line, new) ==
  \/ /\ \E i \in DOMAIN ls : ls[i].product = line.product
     /\ DOMAIN new = DOMAIN ls
     /\ \A i \in DOMAIN ls :
          new[i].product = ls[i].product /\ new[i].quantity = ls[i].quantity + UnitsFor(ls[i].product, line)
  \/ /\ \A i \in DOMAIN ls : ls[i].product # line.product
     /\ new = Append(ls, line)

(* That is what adding a line does.                                        *)
LEMMA AddLineDoes ==
  ASSUME NEW P, NEW Q, Q \subseteq Int, \A a, b \in Q : a + b \in Q,
         NEW ls \in Seq(LinesOf(P, Q)), NEW line \in LinesOf(P, Q)
  PROVE  /\ AddLine(ls, line) \in Seq(LinesOf(P, Q))
         /\ IsAdded(ls, line, AddLine(ls, line))
<1>1. CASE \E i \in DOMAIN ls : ls[i].product = line.product
  <2> DEFINE new == [i \in DOMAIN ls |-> IF ls[i].product = line.product
                                         THEN [ls[i] EXCEPT !.quantity = @ + line.quantity] ELSE ls[i]]
  <2>1. AddLine(ls, line) = new
    BY <1>1 DEF AddLine
  <2>2. ASSUME NEW i \in DOMAIN ls
        PROVE  /\ new[i] \in LinesOf(P, Q) /\ new[i].product = ls[i].product
               /\ new[i].quantity = ls[i].quantity + UnitsFor(ls[i].product, line)
    <3>1. ls[i] \in LinesOf(P, Q)
      OBVIOUS
    <3>2. ls[i].quantity \in Q /\ line.quantity \in Q /\ ls[i].quantity + line.quantity \in Q
      BY <3>1 DEF LinesOf
    <3>3. CASE ls[i].product = line.product
      <4>1. new[i] = [ls[i] EXCEPT !.quantity = @ + line.quantity]
        BY <3>3
      <4>2. QED
        BY <3>1, <3>2, <3>3, <4>1 DEF LinesOf, UnitsFor
    <3>4. CASE ls[i].product # line.product
      BY <3>1, <3>2, <3>4 DEF UnitsFor
    <3>5. QED
      BY <3>3, <3>4
  <2>3. DOMAIN new = 1 .. Len(ls) /\ DOMAIN ls = 1 .. Len(ls) /\ Len(ls) \in Nat
    OBVIOUS
  <2> HIDE DEF new
  <2>4. new \in Seq(LinesOf(P, Q))
    <3>1. \E n \in Nat : DOMAIN new = 1 .. n
      BY <2>3
    <3>2. new = [i \in 1 .. Len(ls) |-> new[i]]
      BY <2>3 DEF new
    <3>3. new \in [1 .. Len(ls) -> LinesOf(P, Q)]
      BY <2>2, <2>3, <3>2
    <3>4. QED
      BY <2>3, <3>3
  <2>5. QED
    BY <1>1, <2>1, <2>2, <2>3, <2>4 DEF IsAdded
<1>2. CASE \A i \in DOMAIN ls : ls[i].product # line.product
  BY <1>2 DEF AddLine, IsAdded
<1>3. QED
  BY <1>1, <1>2

(* The lines of an order are merged one after another.                     *)
LEMMA MergeRuns ==
  ASSUME NEW P, NEW Q, Q \subseteq Int, \A a, b \in Q : a + b \in Q,
         NEW inputs \in Seq(LinesOf(P, Q))
  PROVE  \E run \in [0 .. Len(inputs) -> Seq(LinesOf(P, Q))] :
           /\ run[0] = << >> /\ Merge(inputs) = run[Len(inputs)]
           /\ \A k \in 1 .. Len(inputs) : run[k] = AddLine(run[k - 1], inputs[k])
<1> DEFINE n == Len(inputs)
           A == Seq(LinesOf(P, Q))
           next == [k \in 1 .. n |-> [ls \in A |-> AddLine(ls, inputs[k])]]
           iter[S \in SUBSET (DOMAIN inputs)] ==
             IF S = {} THEN << >> ELSE AddLine(iter[S \ {Max(S)}], inputs[Max(S)])
<1>1. n \in Nat /\ DOMAIN inputs = 1 .. n /\ \A k \in 1 .. n : inputs[k] \in LinesOf(P, Q)
  OBVIOUS
<1>2. Merge(inputs) = iter[DOMAIN inputs]
  BY DEF Merge, FoldLeft, MapThenFoldSet
<1>3. << >> \in A
  OBVIOUS
<1> HIDE DEF n
<1>4. \A k \in 1 .. n : \A ls \in A : AddLine(ls, inputs[k]) \in A
  BY <1>1, AddLineDoes
<1>5. next \in [1 .. n -> [A -> A]]
  BY <1>4
<1>6. PICK g \in [SUBSET (1 .. n) -> A] : IsFold(g, << >>, next, n)
  <2>1. PICK nothing \in A : nothing = << >>
    BY <1>3
  <2>2. n \in Nat
    BY <1>1
  <2> HIDE DEF next, A
  <2>3. \E g \in [SUBSET (1 .. n) -> A] : IsFold(g, nothing, next, n)
    BY <1>5, <2>2, FoldExists
  <2>4. QED
    BY <2>1, <2>3
<1>7. ASSUME NEW S \in SUBSET (1 .. n)
      PROVE  /\ g[S] = IF S = {} THEN << >> ELSE AddLine(g[S \ {Max(S)}], inputs[Max(S)])
             /\ S # {} => Max(S) \in S
  <2>1. CASE S = {}
    BY <1>6, <2>1 DEF IsFold
  <2>2. CASE S # {}
    <3>1. S \in SUBSET (0 .. n)
      OBVIOUS
    <3>2. Max(S) \in S
      BY <1>1, <2>2, <3>1, LargestNumber
    <3>3. Max(S) \in 1 .. n /\ g[S \ {Max(S)}] \in A
      BY <3>2
    <3>4. g[S] = next[Max(S)][g[S \ {Max(S)}]]
      BY <1>6, <2>2 DEF IsFold
    <3> HIDE DEF A
    <3>5. QED
      BY <2>2, <3>2, <3>3, <3>4
  <2>3. QED
    BY <2>1, <2>2
<1>8. g = [S \in SUBSET (DOMAIN inputs) |-> IF S = {} THEN << >> ELSE AddLine(g[S \ {Max(S)}], inputs[Max(S)])]
  <2>1. g = [S \in SUBSET (1 .. n) |-> g[S]]
    OBVIOUS
  <2>2. QED
    BY <1>1, <1>7, <2>1
<1>9. iter = [S \in SUBSET (DOMAIN inputs) |->
                IF S = {} THEN << >> ELSE AddLine(iter[S \ {Max(S)}], inputs[Max(S)])]
  BY <1>8
<1>10. PICK run \in [0 .. n -> A] : IsRun(run, << >>, next, n, iter[1 .. n])
  <2> HIDE DEF iter
  <2>1. PICK nothing \in A : nothing = << >>
    BY <1>3
  <2>2. n \in Nat /\ iter[{}] = nothing
    BY <1>1, <1>9, <2>1
  <2>3. ASSUME NEW S \in SUBSET (1 .. n), S # {}, iter[S \ {Max(S)}] \in A
        PROVE  iter[S] = next[Max(S)][iter[S \ {Max(S)}]]
    <3>1. iter[S] = AddLine(iter[S \ {Max(S)}], inputs[Max(S)]) /\ Max(S) \in 1 .. n
      BY <1>1, <1>7, <1>9, <2>3
    <3> HIDE DEF A
    <3>2. QED
      BY <2>3, <3>1
  <2> HIDE DEF next, A
  <2>4. IsFoldIn(A, iter, nothing, next, n)
    BY <2>2, <2>3 DEF IsFoldIn
  <2>5. \E run \in [0 .. n -> A] : IsRun(run, nothing, next, n, iter[1 .. n])
    BY <1>5, <2>2, <2>4, FoldRuns
  <2>6. QED
    BY <2>1, <2>5
<1> HIDE DEF A
<1>11. ASSUME NEW k \in 1 .. n PROVE run[k] = AddLine(run[k - 1], inputs[k])
  <2>1. k - 1 \in 0 .. n
    BY <1>1
  <2>2. run[k - 1] \in A /\ run[k] = next[k][run[k - 1]]
    BY <1>10, <2>1 DEF IsRun
  <2>3. QED
    BY <2>2
<1> HIDE DEF iter, next
<1>12. QED
  BY <1>1, <1>2, <1>10, <1>11 DEF n, A, IsRun

(* The first k lines that ask for a product, and the units they ask for.   *)
Asked(inputs, k, p) == {j \in 1 .. k : inputs[j].product = p}
Units(inputs, k, p) == SumFunctionOnSet([j \in DOMAIN inputs |-> inputs[j].quantity], Asked(inputs, k, p))

(* Each line adds its units to those of its product. *)
LEMMA UnitsAddUp ==
  ASSUME NEW P, NEW inputs \in Seq(LinesOf(P, Int)), NEW p
  PROVE  /\ \A k \in 0 .. Len(inputs) :
              Units(inputs, k, p) \in Int /\ (Asked(inputs, k, p) = {} => Units(inputs, k, p) = 0)
         /\ \A k \in 1 .. Len(inputs) :
              Units(inputs, k, p) =
                Units(inputs, k - 1, p) + UnitsFor(p, inputs[k])
<1> DEFINE weight == [j \in DOMAIN inputs |-> inputs[j].quantity]
           A(k) == Asked(inputs, k, p)
<1>1. Len(inputs) \in Nat /\ DOMAIN inputs = 1 .. Len(inputs) /\ \A j \in 1 .. Len(inputs) : inputs[j].quantity \in Int
  <2>1. Len(inputs) \in Nat /\ DOMAIN inputs = 1 .. Len(inputs)
    OBVIOUS
  <2>2. \A j \in 1 .. Len(inputs) : inputs[j] \in LinesOf(P, Int)
    OBVIOUS
  <2>3. \A line \in LinesOf(P, Int) : line.quantity \in Int
    BY DEF LinesOf
  <2>4. QED
    BY <2>1, <2>2, <2>3
<1>2. IsFiniteSet(1 .. Len(inputs))
  BY <1>1, FS_Interval
<1>3. \A j \in 1 .. Len(inputs) : weight[j] = inputs[j].quantity /\ weight[j] \in Int
  BY <1>1
<1>4. \A k \in 0 .. Len(inputs) : A(k) \in SUBSET (1 .. Len(inputs))
  BY <1>1 DEF Asked
<1>5. \A k : Units(inputs, k, p) = SumFunctionOnSet(weight, A(k))
  BY DEF Units
<1> HIDE DEF weight
<1>6. /\ SumFunctionOnSet(weight, {}) = 0
      /\ \A S \in SUBSET (1 .. Len(inputs)) :
           /\ SumFunctionOnSet(weight, S) \in Int
           /\ \A x \in S : SumFunctionOnSet(weight, S) = weight[x] + SumFunctionOnSet(weight, S \ {x})
  BY <1>2, <1>3, SumAdds
<1>7. ASSUME NEW k \in 0 .. Len(inputs)
      PROVE  Units(inputs, k, p) \in Int /\ (Asked(inputs, k, p) = {} => Units(inputs, k, p) = 0)
  BY <1>4, <1>5, <1>6
<1>8. ASSUME NEW k \in 1 .. Len(inputs)
      PROVE  Units(inputs, k, p) =
               Units(inputs, k - 1, p) + UnitsFor(p, inputs[k])
  <2>1. k \in 0 .. Len(inputs) /\ k - 1 \in 0 .. Len(inputs) /\ k \in 1 .. k
    BY <1>1
  <2>2. Units(inputs, k - 1, p) \in Int
    BY <1>7, <2>1
  <2>3. CASE inputs[k].product = p
    <3>1. k \in A(k) /\ A(k) \ {k} = A(k - 1)
      <4>1. \A j : j \in 1 .. (k - 1) <=> j \in 1 .. k /\ j # k
        BY <1>1
      <4>2. QED
        BY <2>1, <2>3, <4>1 DEF Asked
    <3>2. SumFunctionOnSet(weight, A(k)) = weight[k] + SumFunctionOnSet(weight, A(k) \ {k})
      BY <1>4, <1>6, <2>1, <3>1
    <3>3. weight[k] = inputs[k].quantity /\ weight[k] \in Int
      BY <1>3
    <3>4. Units(inputs, k, p) = SumFunctionOnSet(weight, A(k))
      BY <1>5
    <3>5. Units(inputs, k - 1, p) = SumFunctionOnSet(weight, A(k) \ {k})
      BY <1>5, <3>1
    <3> HIDE DEF A
    <3>6. Units(inputs, k, p) = inputs[k].quantity + Units(inputs, k - 1, p)
      BY <3>2, <3>3, <3>4, <3>5
    <3>7. QED
      BY <2>2, <2>3, <3>3, <3>6 DEF UnitsFor
  <2>4. CASE inputs[k].product # p
    <3>1. A(k) = A(k - 1)
      <4>1. \A j : j \in 1 .. (k - 1) <=> j \in 1 .. k /\ j # k
        BY <1>1
      <4>2. QED
        BY <2>4, <4>1 DEF Asked
    <3>2. Units(inputs, k, p) = Units(inputs, k - 1, p)
      BY <1>5, <3>1
    <3>3. QED
      BY <2>2, <2>4, <3>2 DEF UnitsFor
  <2>5. QED
    BY <2>3, <2>4
<1>9. QED
  BY <1>7, <1>8

(* Merged lines have the products of the order, each of them once, and all *)
(* the units: after k lines those of the first k.                          *)
LEMMA MergeIsTotal ==
  ASSUME NEW P, NEW inputs \in Seq(LinesOf(P, Int))
  PROVE  Merge(inputs) \in Seq(LinesOf(P, Int)) /\ IsTotalOf(Merge(inputs), inputs)
<1> DEFINE n == Len(inputs)
<1>1. n \in Nat /\ DOMAIN inputs = 1 .. n /\ \A k \in 1 .. n : inputs[k] \in LinesOf(P, Int)
  OBVIOUS
<1>2. PICK run \in [0 .. n -> Seq(LinesOf(P, Int))] :
        /\ run[0] = << >> /\ Merge(inputs) = run[n]
        /\ \A k \in 1 .. n : run[k] = AddLine(run[k - 1], inputs[k])
  <2>1. Int \subseteq Int /\ \A a, b \in Int : a + b \in Int
    OBVIOUS
  <2>2. QED
    BY <2>1, MergeRuns
<1> HIDE DEF n
<1> DEFINE Total(k) ==
             /\ \A i \in DOMAIN run[k] : \E j \in 1 .. k : inputs[j].product = run[k][i].product
             /\ \A j \in 1 .. k : \E i \in DOMAIN run[k] : inputs[j].product = run[k][i].product
             /\ OneEach(run[k])
             /\ \A i \in DOMAIN run[k] : run[k][i].quantity = Units(inputs, k, run[k][i].product)
           Bad == {k \in 0 .. n : ~ Total(k)}
<1>3. ASSUME NEW k \in 1 .. n, Total(k - 1) PROVE Total(k)
  <2> DEFINE before == run[k - 1]
             now == run[k]
             line == inputs[k]
  <2>1. k - 1 \in 0 .. n /\ before \in Seq(LinesOf(P, Int)) /\ now = AddLine(before, line) /\ line \in LinesOf(P, Int)
    BY <1>1, <1>2
  <2>2. /\ \A i \in DOMAIN before : \E j \in 1 .. k - 1 : inputs[j].product = before[i].product
        /\ \A j \in 1 .. k - 1 : \E i \in DOMAIN before : inputs[j].product = before[i].product
        /\ OneEach(before)
        /\ \A i \in DOMAIN before : before[i].quantity = Units(inputs, k - 1, before[i].product)
    BY <1>3
  <2>3. \A p : /\ Units(inputs, k, p) = Units(inputs, k - 1, p) + UnitsFor(p, line)
               /\ Units(inputs, k - 1, p) \in Int
               /\ Asked(inputs, k - 1, p) = {} => Units(inputs, k - 1, p) = 0
    <3>1. ASSUME NEW p
          PROVE  /\ Units(inputs, k, p) =
                      Units(inputs, k - 1, p) + UnitsFor(p, inputs[k])
                 /\ Units(inputs, k - 1, p) \in Int
                 /\ Asked(inputs, k - 1, p) = {} => Units(inputs, k - 1, p) = 0
      <4>1. k \in 1 .. Len(inputs) /\ k - 1 \in 0 .. Len(inputs)
        BY <2>1 DEF n
      <4>2. QED
        BY <4>1, UnitsAddUp
    <3>2. QED
      BY <3>1
  <2>4. \A j \in 1 .. k : j \in 1 .. k - 1 \/ j = k
    BY <1>1
  <2>5. \A j \in 1 .. k - 1 : j \in 1 .. k
    BY <1>1
  <2>6. k \in 1 .. k /\ line.quantity \in Int
    BY <1>1, <2>1 DEF LinesOf
  <2>7. IsAdded(before, line, now)
    <3>1. Int \subseteq Int /\ \A a, b \in Int : a + b \in Int
      OBVIOUS
    <3> HIDE DEF before, now, line
    <3>2. QED
      BY <2>1, <3>1, AddLineDoes
  <2> HIDE DEF before, now
  <2>8. CASE /\ \E i \in DOMAIN before : before[i].product = line.product
             /\ DOMAIN now = DOMAIN before
             /\ \A i \in DOMAIN before :
                  /\ now[i].product = before[i].product
                  /\ now[i].quantity = before[i].quantity + UnitsFor(before[i].product, line)
    <3>1. \A i \in DOMAIN now : \E j \in 1 .. k : inputs[j].product = now[i].product
      BY <2>2, <2>5, <2>8
    <3>2. \A j \in 1 .. k : \E i \in DOMAIN now : inputs[j].product = now[i].product
      BY <2>2, <2>4, <2>8
    <3>3. OneEach(now)
      BY <2>2, <2>8 DEF OneEach
    <3>4. \A i \in DOMAIN now : now[i].quantity = Units(inputs, k, now[i].product)
      BY <2>2, <2>3, <2>8
    <3>5. QED
      BY <3>1, <3>2, <3>3, <3>4 DEF now
  <2>9. CASE (\A i \in DOMAIN before : before[i].product # line.product) /\ now = Append(before, line)
    <3> DEFINE m == Len(before)
    <3>1. /\ m \in Nat /\ DOMAIN before = 1 .. m /\ DOMAIN now = 1 .. m + 1
          /\ now[m + 1] = line /\ \A i \in 1 .. m : now[i] = before[i]
      <4>1. Append(before, line) \in Seq(LinesOf(P, Int)) /\ Len(Append(before, line)) = m + 1
        BY <2>1
      <4>2. QED
        BY <2>1, <2>9, <4>1
    <3> HIDE DEF m
    <3>2. \A i \in 1 .. m + 1 : i \in 1 .. m \/ i = m + 1
      BY <3>1
    <3>3. \A i \in 1 .. m : i \in 1 .. m + 1
      BY <3>1
    <3>4. m + 1 \in 1 .. m + 1
      BY <3>1
    <3>5. \A i \in DOMAIN now : \E j \in 1 .. k : inputs[j].product = now[i].product
      BY <2>2, <2>5, <2>6, <3>1, <3>2
    <3>6. \A j \in 1 .. k : \E i \in DOMAIN now : inputs[j].product = now[i].product
      <4> TAKE j \in 1 .. k
      <4>1. CASE j \in 1 .. k - 1
        <5>1. PICK i \in DOMAIN before : inputs[j].product = before[i].product
          BY <2>2, <4>1
        <5>2. i \in DOMAIN now /\ now[i] = before[i]
          BY <3>1, <3>3
        <5>3. QED
          BY <5>1, <5>2
      <4>2. CASE j = k
        BY <3>1, <3>4, <4>2
      <4>3. QED
        BY <2>4, <4>1, <4>2
    <3>7. OneEach(now)
      BY <2>2, <2>9, <3>1, <3>2 DEF OneEach
    <3>8. \A i \in 1 .. m : now[i].quantity = Units(inputs, k, now[i].product)
      <4> TAKE i \in 1 .. m
      <4>1. now[i] = before[i] /\ before[i].product # line.product
        BY <2>9, <3>1
      <4>2. Units(inputs, k, before[i].product) = Units(inputs, k - 1, before[i].product)
        BY <2>3, <4>1 DEF UnitsFor
      <4>3. QED
        BY <2>2, <3>1, <4>1, <4>2
    <3>9. line.quantity = Units(inputs, k, line.product)
      <4>1. Asked(inputs, k - 1, line.product) = {}
        BY <2>2, <2>9 DEF Asked
      <4>2. UnitsFor(line.product, line) = line.quantity
        BY DEF UnitsFor
      <4>3. QED
        BY <2>3, <2>6, <4>1, <4>2
    <3>10. \A i \in DOMAIN now : now[i].quantity = Units(inputs, k, now[i].product)
      BY <3>1, <3>2, <3>8, <3>9
    <3>11. QED
      BY <3>5, <3>6, <3>7, <3>10 DEF now
  <2>10. QED
    BY <2>7, <2>8, <2>9 DEF IsAdded
<1>4. Total(0)
  BY <1>1, <1>2 DEF OneEach
<1>5. Bad = {}
  <2> SUFFICES ASSUME Bad # {} PROVE FALSE
    OBVIOUS
  <2> HIDE DEF Total
  <2>1. PICK k \in Bad : \A l \in Bad : k <= l
    <3>1. Bad \in SUBSET Nat
      BY <1>1
    <3> HIDE DEF Bad
    <3>2. QED
      BY <3>1, LeastNumber
  <2>2. k \in 0 .. n /\ ~ Total(k) /\ k # 0
    BY <1>4
  <2>3. k \in 1 .. n /\ k - 1 \in 0 .. n /\ k - 1 < k
    BY <1>1, <2>2
  <2>4. Total(k - 1)
    BY <1>1, <2>1, <2>3
  <2>5. QED
    BY <1>3, <2>2, <2>3, <2>4
<1>6. Total(n)
  <2>1. n \in 0 .. n
    BY <1>1
  <2> HIDE DEF Total
  <2>2. QED
    BY <1>5, <2>1
<1>7. Merge(inputs) \in Seq(LinesOf(P, Int))
  BY <1>1, <1>2
<1>8. IsTotalOf(Merge(inputs), inputs)
  <2> DEFINE items == run[n]
  <2>1. /\ \A i \in DOMAIN items : \E j \in DOMAIN inputs : inputs[j].product = items[i].product
        /\ \A j \in DOMAIN inputs : \E i \in DOMAIN items : inputs[j].product = items[i].product
        /\ OneEach(items)
        /\ \A i \in DOMAIN items : items[i].quantity = Units(inputs, n, items[i].product)
    BY <1>1, <1>6
  <2>2. items = Merge(inputs)
    BY <1>2
  <2> HIDE DEF items
  <2>3. {items[i].product : i \in DOMAIN items} = {inputs[j].product : j \in DOMAIN inputs}
    BY <2>1
  <2>4. \A p : Units(inputs, n, p) = SumFunctionOnSet([j \in DOMAIN inputs |-> inputs[j].quantity],
                                                     {j \in DOMAIN inputs : inputs[j].product = p})
    BY <1>1 DEF Units, Asked
  <2>5. IsTotalOf(items, inputs)
    BY <2>1, <2>3, <2>4 DEF IsTotalOf, OneEach
  <2>6. QED
    BY <2>2, <2>5
<1>9. QED
  BY <1>7, <1>8

(* The lines that may be suggested of some products, and rows that show no *)
(* others.                                                                 *)
Suggestions(P) == LinesOf(P, Nat \ {0})
NamesOnly(shown, P) == \A code : Named(shown, code) \subseteq P

(* A draft as it grows, and what of it is kept. *)
Drafts(run, shown, answer) ==
  /\ run[0] = << >>
  /\ \A k \in 1 .. Len(answer) : run[k] = Suggest(shown, run[k - 1], answer[k])
  /\ Resolve(answer, shown) = SubSeq(run[Len(answer)], 1, Min({Len(run[Len(answer)]), MaxItems}))

(* An item of an answer adds nothing, or one line of a product shown.      *)
LEMMA SuggestDoes ==
  ASSUME NEW P, NEW shown, NamesOnly(shown, P),
         NEW ls \in Seq(Suggestions(P)), NEW item
  PROVE  /\ Suggest(shown, ls, item) \in Seq(Suggestions(P))
         /\ \/ Suggest(shown, ls, item) = ls
            \/ \E line \in Suggestions(P) : IsAdded(ls, line, Suggest(shown, ls, item))
<1>1. CASE Named(shown, item.code) # {} /\ Usable(item.quantity)
  <2> DEFINE line == [product |-> CHOOSE p \in Named(shown, item.code) : TRUE, quantity |-> item.quantity]
  <2>1. (CHOOSE p \in Named(shown, item.code) : TRUE) \in P
    BY <1>1 DEF NamesOnly
  <2>2. PICK Q : Q = Nat \ {0}
    OBVIOUS
  <2>3. Q \subseteq Int /\ (\A a, b \in Q : a + b \in Q) /\ item.quantity \in Q
    BY <1>1, <2>2, InvoicingAssumption DEF Usable
  <2>4. line \in LinesOf(P, Q) /\ Suggestions(P) = LinesOf(P, Q)
    BY <2>1, <2>2, <2>3 DEF LinesOf, Suggestions
  <2>5. Suggest(shown, ls, item) = AddLine(ls, line)
    BY <1>1 DEF Suggest
  <2> HIDE DEF line
  <2>6. ls \in Seq(LinesOf(P, Q))
    BY <2>4
  <2>7. AddLine(ls, line) \in Seq(LinesOf(P, Q)) /\ IsAdded(ls, line, AddLine(ls, line))
    BY <2>3, <2>4, <2>6, AddLineDoes
  <2>8. QED
    BY <2>4, <2>5, <2>7
<1>2. CASE ~ (Named(shown, item.code) # {} /\ Usable(item.quantity))
  BY <1>2 DEF Suggest
<1>3. QED
  BY <1>1, <1>2

(* The suggestions of an answer are made one item after another.           *)
LEMMA SuggestionsRun ==
  ASSUME NEW P, NEW shown, NamesOnly(shown, P),
         NEW answer \in Seq([code : Nat, quantity : Int])
  PROVE  \E run \in [0 .. Len(answer) -> Seq(Suggestions(P))] : Drafts(run, shown, answer)
<1> DEFINE n == Len(answer)
           A == Seq(Suggestions(P))
           next == [k \in 1 .. n |-> [ls \in A |-> Suggest(shown, ls, answer[k])]]
           iter[S \in SUBSET (DOMAIN answer)] ==
             IF S = {} THEN << >> ELSE Suggest(shown, iter[S \ {Max(S)}], answer[Max(S)])
<1>1. n \in Nat /\ DOMAIN answer = 1 .. n
  OBVIOUS
<1>2. Resolve(answer, shown) =
        SubSeq(iter[DOMAIN answer], 1, Min({Len(iter[DOMAIN answer]), MaxItems}))
  BY DEF Resolve, FoldLeft, MapThenFoldSet
<1>3. << >> \in A
  OBVIOUS
<1> HIDE DEF n
<1>4. \A k \in 1 .. n : \A ls \in A : Suggest(shown, ls, answer[k]) \in A
  BY SuggestDoes
<1>5. next \in [1 .. n -> [A -> A]]
  BY <1>4
<1>6. PICK g \in [SUBSET (1 .. n) -> A] : IsFold(g, << >>, next, n)
  <2>1. PICK nothing \in A : nothing = << >>
    BY <1>3
  <2>2. n \in Nat
    BY <1>1
  <2> HIDE DEF next, A
  <2>3. \E g \in [SUBSET (1 .. n) -> A] : IsFold(g, nothing, next, n)
    BY <1>5, <2>2, FoldExists
  <2>4. QED
    BY <2>1, <2>3
<1>7. ASSUME NEW S \in SUBSET (1 .. n)
      PROVE  /\ g[S] = IF S = {} THEN << >> ELSE Suggest(shown, g[S \ {Max(S)}], answer[Max(S)])
             /\ S # {} => Max(S) \in S
  <2>1. CASE S = {}
    BY <1>6, <2>1 DEF IsFold
  <2>2. CASE S # {}
    <3>1. S \in SUBSET (0 .. n)
      OBVIOUS
    <3>2. Max(S) \in S
      BY <1>1, <2>2, <3>1, LargestNumber
    <3>3. Max(S) \in 1 .. n /\ g[S \ {Max(S)}] \in A
      BY <3>2
    <3>4. g[S] = next[Max(S)][g[S \ {Max(S)}]]
      BY <1>6, <2>2 DEF IsFold
    <3> HIDE DEF A
    <3>5. QED
      BY <2>2, <3>2, <3>3, <3>4
  <2>3. QED
    BY <2>1, <2>2
<1>8. g = [S \in SUBSET (DOMAIN answer) |-> IF S = {} THEN << >> ELSE Suggest(shown, g[S \ {Max(S)}], answer[Max(S)])]
  <2>1. g = [S \in SUBSET (1 .. n) |-> g[S]]
    OBVIOUS
  <2>2. QED
    BY <1>1, <1>7, <2>1
<1>9. iter = [S \in SUBSET (DOMAIN answer) |->
                IF S = {} THEN << >> ELSE Suggest(shown, iter[S \ {Max(S)}], answer[Max(S)])]
  BY <1>8
<1>10. PICK run \in [0 .. n -> A] : IsRun(run, << >>, next, n, iter[1 .. n])
  <2> HIDE DEF iter
  <2>1. PICK nothing \in A : nothing = << >>
    BY <1>3
  <2>2. n \in Nat /\ iter[{}] = nothing
    BY <1>1, <1>9, <2>1
  <2>3. ASSUME NEW S \in SUBSET (1 .. n), S # {}, iter[S \ {Max(S)}] \in A
        PROVE  iter[S] = next[Max(S)][iter[S \ {Max(S)}]]
    <3>1. iter[S] = Suggest(shown, iter[S \ {Max(S)}], answer[Max(S)]) /\ Max(S) \in 1 .. n
      BY <1>1, <1>7, <1>9, <2>3
    <3> HIDE DEF A
    <3>2. QED
      BY <2>3, <3>1
  <2> HIDE DEF next, A
  <2>4. IsFoldIn(A, iter, nothing, next, n)
    BY <2>2, <2>3 DEF IsFoldIn
  <2>5. \E run \in [0 .. n -> A] : IsRun(run, nothing, next, n, iter[1 .. n])
    BY <1>5, <2>2, <2>4, FoldRuns
  <2>6. QED
    BY <2>1, <2>5
<1> HIDE DEF A
<1>11. ASSUME NEW k \in 1 .. n PROVE run[k] = Suggest(shown, run[k - 1], answer[k])
  <2>1. k - 1 \in 0 .. n
    BY <1>1
  <2>2. run[k - 1] \in A /\ run[k] = next[k][run[k - 1]]
    BY <1>10, <2>1 DEF IsRun
  <2>3. QED
    BY <2>2
<1> HIDE DEF iter, next
<1>12. iter[DOMAIN answer] = run[n] /\ run[0] = << >>
  BY <1>1, <1>10 DEF IsRun
<1>13. QED
  BY <1>2, <1>10, <1>11, <1>12 DEF n, A, Drafts

(* Nor is one in them twice after another line is added. *)
LEMMA AddedOnce ==
  ASSUME NEW R, NEW ls \in Seq(R), OneEach(ls), NEW line \in R, NEW new, IsAdded(ls, line, new)
  PROVE  OneEach(new)
<1>1. CASE /\ DOMAIN new = DOMAIN ls
           /\ \A i \in DOMAIN ls : new[i].product = ls[i].product
  BY <1>1 DEF OneEach
<1>2. CASE (\A i \in DOMAIN ls : ls[i].product # line.product) /\ new = Append(ls, line)
  <2> DEFINE n == Len(ls)
  <2>1. n \in Nat /\ DOMAIN ls = 1 .. n
    OBVIOUS
  <2>2. DOMAIN new = 1 .. n + 1 /\ new[n + 1] = line /\ \A i \in 1 .. n : new[i] = ls[i]
    BY <1>2
  <2> HIDE DEF n
  <2>3. \A i \in 1 .. n + 1 : i \in 1 .. n \/ i = n + 1
    BY <2>1
  <2>4. QED
    BY <1>2, <2>1, <2>2, <2>3 DEF OneEach
<1>3. QED
  BY <1>1, <1>2 DEF IsAdded

(* What the assistant suggests: products it was shown, each of them once. *)
LEMMA ResolveIsUsable ==
  ASSUME NEW P, NEW shown, NamesOnly(shown, P),
         NEW answer \in Seq([code : Nat, quantity : Int])
  PROVE  /\ Resolve(answer, shown) \in Seq(Suggestions(P))
         /\ OneEach(Resolve(answer, shown))
         /\ Len(Resolve(answer, shown)) <= MaxItems
<1> DEFINE n == Len(answer)
           R == Suggestions(P)
<1>1. n \in Nat
  OBVIOUS
<1>3. PICK run \in [0 .. n -> Seq(Suggestions(P))] :
        /\ run[0] = << >>
        /\ \A k \in 1 .. n : run[k] = Suggest(shown, run[k - 1], answer[k])
        /\ Resolve(answer, shown) = SubSeq(run[n], 1, Min({Len(run[n]), MaxItems}))
  <2>1. \E run \in [0 .. Len(answer) -> Seq(Suggestions(P))] : Drafts(run, shown, answer)
    BY SuggestionsRun
  <2>2. QED
    BY <2>1 DEF Drafts
<1> HIDE DEF n
<1> DEFINE Bad == {k \in 0 .. n : ~ OneEach(run[k])}
<1>4. ASSUME NEW k \in 1 .. n, OneEach(run[k - 1]) PROVE OneEach(run[k])
  <2> DEFINE ls == run[k - 1]
  <2>1. k - 1 \in 0 .. n /\ ls \in Seq(Suggestions(P)) /\ run[k] = Suggest(shown, ls, answer[k])
    BY <1>1, <1>3
  <2>2. Len(ls) \in Nat /\ DOMAIN ls = 1 .. Len(ls) /\ OneEach(ls)
    BY <1>4, <2>1
  <2> HIDE DEF ls
  <2>3. run[k] = ls \/ \E line \in Suggestions(P) : IsAdded(ls, line, run[k])
    BY <2>1, SuggestDoes
  <2>4. QED
    BY <2>1, <2>2, <2>3, AddedOnce
<1>5. OneEach(run[0])
  BY <1>3 DEF OneEach
<1>6. Bad = {}
  <2> SUFFICES ASSUME Bad # {} PROVE FALSE
    OBVIOUS
  <2>1. PICK k \in Bad : \A l \in Bad : k <= l
    <3>1. Bad \in SUBSET Nat
      BY <1>1
    <3> HIDE DEF Bad
    <3>2. QED
      BY <3>1, LeastNumber
  <2>2. k \in 1 .. n /\ k - 1 \in 0 .. n /\ k - 1 < k /\ ~ OneEach(run[k])
    BY <1>1, <1>5
  <2>3. OneEach(run[k - 1])
    BY <1>1, <2>1, <2>2
  <2>4. QED
    BY <1>4, <2>2, <2>3
<1>7. OneEach(run[n]) /\ run[n] \in Seq(R) /\ Len(run[n]) \in Nat /\ DOMAIN run[n] = 1 .. Len(run[n])
  <2>1. n \in 0 .. n
    BY <1>1
  <2>2. OneEach(run[n])
    BY <1>6, <2>1
  <2>3. run[n] \in Seq(R)
    BY <1>3, <2>1
  <2> HIDE DEF R
  <2>4. QED
    BY <2>2, <2>3
<1> DEFINE all == run[n]
           most == Min({Len(all), MaxItems})
<1>8. most \in Nat /\ most <= Len(all) /\ most <= MaxItems
  <2>1. MaxItems \in Nat /\ Len(all) \in Nat
    BY <1>7, InvoicingAssumption
  <2>2. PICK m \in {Len(all), MaxItems} : \A y \in {Len(all), MaxItems} : m <= y
    BY <2>1
  <2>3. most \in {Len(all), MaxItems} /\ \A y \in {Len(all), MaxItems} : most <= y
    BY <2>2 DEF Min
  <2>4. QED
    BY <2>1, <2>3
<1> HIDE DEF most, all, R
<1>9. /\ SubSeq(all, 1, most) \in Seq(R) /\ Len(SubSeq(all, 1, most)) = most
      /\ DOMAIN SubSeq(all, 1, most) = 1 .. most
      /\ \A i \in 1 .. most : SubSeq(all, 1, most)[i] = all[i] /\ i \in DOMAIN all
  BY <1>7, <1>8 DEF all
<1>10. Resolve(answer, shown) = SubSeq(all, 1, most)
  BY <1>3 DEF all, most
<1>11. OneEach(SubSeq(all, 1, most))
  BY <1>7, <1>9 DEF OneEach, all
<1>12. QED
  BY <1>8, <1>9, <1>10, <1>11 DEF R
-----------------------------------------------------------------------------
(***************************************************************************)
(* Keys, pages and cursors.                                                *)
(***************************************************************************)

(* The keys a listing is ordered by. *)
KeySpace(listing) ==
  IF listing \in {"code", "invoices"} THEN {<<a>> : a \in Int} ELSE {<<a, b>> : a, b \in Int}

LEMMA LessSingle == \A a, b \in Int : Less(<<a>>, <<b>>) <=> a < b
<1> TAKE a, b \in Int
<1>1. DOMAIN <<a>> = {1} /\ <<a>>[1] = a /\ <<b>>[1] = b
  OBVIOUS
<1>2. \A j \in 1 .. (1 - 1) : <<a>>[j] = <<b>>[j]
  OBVIOUS
<1>3. Less(<<a>>, <<b>>) <=> \E i \in {1} : <<a>>[i] < <<b>>[i] /\ \A j \in 1 .. (i - 1) : <<a>>[j] = <<b>>[j]
  BY <1>1, Zenon DEF Less
<1>4. QED
  BY <1>1, <1>2, <1>3

LEMMA LessDouble ==
  \A a, b, c, d \in Int : Less(<<a, b>>, <<c, d>>) <=> a < c \/ (a = c /\ b < d)
<1> TAKE a, b, c, d \in Int
<1>1. DOMAIN <<a, b>> = {1, 2} /\ 1 .. (1 - 1) = {} /\ 1 .. (2 - 1) = {1}
  OBVIOUS
<1>2. QED
  BY <1>1 DEF Less

(* The keys of a listing are in a line. *)
LEMMA KeysAreOrdered ==
  ASSUME NEW order, NEW listing,
         NEW a \in KeySpace(listing), NEW b \in KeySpace(listing), NEW c \in KeySpace(listing)
  PROVE  /\ a # NoCursor
         /\ ~ Precedes(order, a, a)
         /\ Precedes(order, a, b) /\ Precedes(order, b, c) => Precedes(order, a, c)
         /\ a # b => Precedes(order, a, b) \/ Precedes(order, b, a)
<1>1. CASE listing \in {"code", "invoices"}
  <2>1. PICK x \in Int, y \in Int, z \in Int : a = <<x>> /\ b = <<y>> /\ c = <<z>>
    BY <1>1 DEF KeySpace
  <2>2. QED
    BY <2>1, LessSingle DEF Precedes, NoCursor
<1>2. CASE listing \notin {"code", "invoices"}
  <2>1. PICK x \in Int, xx \in Int, y \in Int, yy \in Int, z \in Int, zz \in Int :
          a = <<x, xx>> /\ b = <<y, yy>> /\ c = <<z, zz>>
    BY <1>2 DEF KeySpace
  <2>2. QED
    BY <2>1, LessDouble DEF Precedes, NoCursor
<1>3. QED
  BY <1>1, <1>2

(* Rows that can be listed: there are so many, and no two have a key in    *)
(* common.                                                                 *)
Listable(listing, rows) ==
  /\ IsFiniteSet(rows)
  /\ \A r \in rows : r.key \in KeySpace(listing)
  /\ \A r, s \in rows : r.key = s.key => r = s

(* Every place in the order is that of one row, and the later place that   *)
(* of the later row.                                                       *)
LEMMA PlacesOfRows ==
  ASSUME NEW order, NEW listing, NEW rows, Listable(listing, rows)
  PROVE  /\ Cardinality(rows) \in Nat
         /\ \A i \in 1 .. Cardinality(rows) : Nth(order, rows, i) \in rows
         /\ \A r \in rows : \E i \in 1 .. Cardinality(rows) : Nth(order, rows, i) = r
         /\ \A i, j \in 1 .. Cardinality(rows) :
              i < j => Precedes(order, Nth(order, rows, i).key, Nth(order, rows, j).key)
<1> DEFINE n == Cardinality(rows)
           place == [r \in rows |-> Cardinality(Ahead(order, rows, r))]
<1>1. n \in Nat
  BY FS_CardinalityType DEF Listable
<1>2. ASSUME NEW r \in rows
      PROVE  IsFiniteSet(Ahead(order, rows, r)) /\ place[r] \in 0 .. n - 1
  <2>1. Ahead(order, rows, r) \subseteq rows \ {r}
    BY KeysAreOrdered DEF Ahead, Listable
  <2>2. IsFiniteSet(rows \ {r}) /\ Cardinality(rows \ {r}) = n - 1
    BY FS_RemoveElement DEF Listable
  <2>3. IsFiniteSet(Ahead(order, rows, r)) /\ Cardinality(Ahead(order, rows, r)) <= n - 1
    BY <2>1, <2>2, FS_Subset
  <2>4. Cardinality(Ahead(order, rows, r)) \in Nat
    BY <2>3, FS_CardinalityType
  <2>5. QED
    BY <1>1, <2>3, <2>4
<1>3. ASSUME NEW r \in rows, NEW s \in rows, Precedes(order, r.key, s.key)
      PROVE  place[r] < place[s]
  <2>1. Ahead(order, rows, r) \union {r} \subseteq Ahead(order, rows, s)
    BY <1>3, KeysAreOrdered DEF Ahead, Listable
  <2>2. r \notin Ahead(order, rows, r)
    BY KeysAreOrdered DEF Ahead, Listable
  <2>3. /\ IsFiniteSet(Ahead(order, rows, r) \union {r})
        /\ Cardinality(Ahead(order, rows, r) \union {r}) = place[r] + 1
    BY <1>2, <2>2, FS_AddElement
  <2>4. place[r] + 1 <= place[s]
    BY <1>2, <2>1, <2>3, FS_Subset
  <2>5. QED
    BY <1>2, <2>4
<1>4. ASSUME NEW r \in rows, NEW s \in rows, place[r] = place[s] PROVE r = s
  <2>1. ~ Precedes(order, r.key, s.key) /\ ~ Precedes(order, s.key, r.key)
    BY <1>2, <1>3, <1>4
  <2>2. QED
    BY <2>1, KeysAreOrdered DEF Listable
<1>5. place \in Surjection(rows, 0 .. n - 1)
  <2>1. place \in Injection(rows, 0 .. n - 1)
    BY <1>2, <1>4 DEF Injection, IsInjective
  <2>2. IsFiniteSet(0 .. n - 1) /\ Cardinality(0 .. n - 1) = n
    BY <1>1, FS_Interval
  <2>3. QED
    BY <2>1, <2>2, FS_Injection
<1>6. ASSUME NEW i \in 1 .. n PROVE Nth(order, rows, i) \in rows /\ place[Nth(order, rows, i)] = i - 1
  <2>1. i - 1 \in 0 .. n - 1
    BY <1>1
  <2>2. PICK r \in rows : place[r] = i - 1
    BY <1>5, <2>1 DEF Surjection
  <2>3. QED
    BY <2>2 DEF Nth
<1>7. ASSUME NEW r \in rows PROVE \E i \in 1 .. n : Nth(order, rows, i) = r
  <2>1. PICK k \in 0 .. n - 1 : place[r] = k
    BY <1>2
  <2>2. k + 1 \in 1 .. n
    BY <1>1
  <2>3. Nth(order, rows, k + 1) \in rows /\ place[Nth(order, rows, k + 1)] = k
    BY <1>6, <2>2
  <2>4. Nth(order, rows, k + 1) = r
    BY <1>4, <2>1, <2>3
  <2>5. QED
    BY <2>2, <2>4
<1>8. ASSUME NEW i \in 1 .. n, NEW j \in 1 .. n, i < j
      PROVE  Precedes(order, Nth(order, rows, i).key, Nth(order, rows, j).key)
  <2> DEFINE r == Nth(order, rows, i)
             s == Nth(order, rows, j)
  <2>1. r \in rows /\ s \in rows /\ place[r] = i - 1 /\ place[s] = j - 1
    BY <1>6
  <2>2. r # s /\ ~ place[s] < place[r]
    BY <1>8, <2>1
  <2> HIDE DEF r, s, place
  <2>3. r.key # s.key /\ ~ Precedes(order, s.key, r.key)
    BY <1>3, <2>1, <2>2 DEF Listable
  <2>4. Precedes(order, r.key, s.key)
    BY <2>1, <2>3, KeysAreOrdered DEF Listable
  <2>5. QED
    BY <2>4 DEF r, s
<1>9. QED
  BY <1>1, <1>6, <1>7, <1>8

(* A page shows the rows beyond its cursor in their order, all of them up  *)
(* to the cursor of the next, which is the key of the last row shown.      *)
IsCut(page, order, rows, cursor) ==
  /\ page.items \in Seq(rows)
  /\ \A i \in DOMAIN page.items : cursor = NoCursor \/ Precedes(order, cursor, page.items[i].key)
  /\ \A i, j \in DOMAIN page.items :
       i < j => Precedes(order, page.items[i].key, page.items[j].key)
  /\ page.next # NoCursor =>
       \E i \in DOMAIN page.items : page.next = page.items[i].key /\ i = Len(page.items)
  /\ \A r \in rows :
       (cursor = NoCursor \/ Precedes(order, cursor, r.key))
         /\ (page.next = NoCursor \/ ~ Precedes(order, page.next, r.key))
       => \E i \in DOMAIN page.items : page.items[i] = r

LEMMA PageIsACut ==
  ASSUME NEW order, NEW listing, NEW rows, Listable(listing, rows), NEW cursor, NEW limit \in Int
  PROVE  IsCut(List(rows, order, cursor, limit), order, rows, cursor)
<1> SUFFICES ASSUME NEW page, page = List(rows, order, cursor, limit) PROVE IsCut(page, order, rows, cursor)
  OBVIOUS
<1> DEFINE most == NormalizeLimit(limit)
           beyond == {r \in rows : cursor = NoCursor \/ Precedes(order, cursor, r.key)}
           n == Cardinality(beyond)
           nth(i) == Nth(order, beyond, i)
           shown == IF n < most THEN n ELSE most
<1>1. most \in Nat \ {0}
  BY ListingAssumption DEF NormalizeLimit
<1>2. Listable(listing, beyond)
  BY FS_Subset DEF Listable
<1>3. /\ n \in Nat
      /\ \A i \in 1 .. n : nth(i) \in beyond
      /\ \A r \in beyond : \E i \in 1 .. n : nth(i) = r
      /\ \A i, j \in 1 .. n : i < j => Precedes(order, nth(i).key, nth(j).key)
  BY <1>2, PlacesOfRows
<1>4. page.items = [i \in 1 .. shown |-> nth(i)]
  BY DEF List, Ordered
<1>5. page.next = IF n > most THEN nth(most).key ELSE NoCursor
  <2> DEFINE found == [i \in 1 .. IF n < most + 1 THEN n ELSE most + 1 |-> nth(i)]
  <2>1. page.next = IF Len(found) > most THEN found[most].key ELSE NoCursor
    BY DEF List, Ordered, NextCursor
  <2>2. Len(found) = IF n < most + 1 THEN n ELSE most + 1
    BY <1>1, <1>3
  <2>3. n > most => found[most] = nth(most)
    BY <1>1, <1>3
  <2> HIDE DEF found, most, n, nth
  <2>4. QED
    BY <1>1, <1>3, <2>1, <2>2, <2>3
<1> HIDE DEF most, n, nth
<1>6. shown \in Nat /\ shown <= n /\ DOMAIN page.items = 1 .. shown /\ Len(page.items) = shown
  BY <1>1, <1>3, <1>4
<1>7. \A i \in 1 .. shown : page.items[i] = nth(i) /\ nth(i) \in rows
  BY <1>3, <1>4, <1>6
<1>8. page.items \in Seq(rows)
  BY <1>4, <1>6, <1>7
<1>9. \A i \in 1 .. shown : cursor = NoCursor \/ Precedes(order, cursor, page.items[i].key)
  BY <1>3, <1>6, <1>7
<1>10. \A i, j \in 1 .. shown : i < j => Precedes(order, page.items[i].key, page.items[j].key)
  BY <1>3, <1>6, <1>7
<1>11. page.next # NoCursor => page.next = page.items[shown].key /\ shown \in 1 .. shown
  BY <1>1, <1>3, <1>5, <1>7
<1>12. ASSUME NEW r \in rows, cursor = NoCursor \/ Precedes(order, cursor, r.key),
              page.next = NoCursor \/ ~ Precedes(order, page.next, r.key)
       PROVE  \E i \in 1 .. shown : page.items[i] = r
  <2>1. PICK i \in 1 .. n : nth(i) = r
    BY <1>3, <1>12
  <2>2. i <= shown
    <3> SUFFICES ASSUME ~ i <= shown PROVE FALSE
      OBVIOUS
    <3>1. n > most /\ most \in 1 .. n /\ most < i
      BY <1>1, <1>3
    <3>2. Precedes(order, nth(most).key, r.key)
      BY <1>3, <2>1, <3>1
    <3>3. nth(most).key # NoCursor
      BY <1>3, <3>1, KeysAreOrdered DEF Listable
    <3>4. QED
      BY <1>5, <1>12, <3>1, <3>2, <3>3
  <2>3. QED
    BY <1>3, <1>6, <1>7, <2>1, <2>2
<1>13. QED
  BY <1>6, <1>8, <1>9, <1>10, <1>11, <1>12 DEF IsCut
-----------------------------------------------------------------------------
(***************************************************************************)
(* The catalogue.                                                          *)
(***************************************************************************)

Answers == {"repeated", "invalid", "exists", "ok", "error"}

CatalogueTypeOK ==
  /\ products \in [Products -> [code : Nat, description : Nat, balance : Int]]
  /\ movements \subseteq [product : Products, at : Int, id : Nat]
  /\ IsFiniteSet(movements)
  /\ clock \in Nat
  /\ inserted \in [Imports -> Int]
  /\ results \in [Imports -> Seq(Answers)]
  /\ begun \in [Documents -> Int]

CodesAreUnique ==
  /\ \A p \in Registered : products[p].code # 0
  /\ \A p, q \in Registered : products[p].code = products[q].code => p = q

(* A code that is being inserted is nobody's yet, and of one import. *)
CodesAreReserved ==
  \A r \in Imports : inserted[r] # -1 =>
    /\ Working(r) /\ Item(r).valid /\ ~ Taken(Item(r).code)
    /\ \A s \in Imports : inserted[s] # -1 /\ Item(s).code = Item(r).code => s = r

(* The ids of the items that are still to come are nobody's. *)
IdsAreNew ==
  \A r \in Imports : \A i \in DOMAIN ImportItems[r] : i > Len(results[r]) => ImportItems[r][i].id \notin Registered

AnswersAreTrue ==
  \A r \in Imports : \A i \in DOMAIN results[r] :
    /\ results[r][i] = "ok" => ImportItems[r][i].id \in Registered
    /\ results[r][i] = "exists" => Taken(ImportItems[r][i].code)

CatalogueInv ==
  /\ CatalogueTypeOK
  /\ CodesAreUnique
  /\ CodesAreReserved
  /\ IdsAreNew
  /\ AnswersAreTrue

LEMMA CatalogueInitInv == CatalogueInit => CatalogueInv
<1> SUFFICES ASSUME CatalogueInit PROVE CatalogueInv
  OBVIOUS
<1> USE CatalogueAssumption DEF CatalogueInit
<1>1. movements \subseteq [product : Products, at : Int, id : Nat] /\ IsFiniteSet(movements)
  <2> DEFINE S == {q \in Products : InitProducts[q].balance # 0}
             f == [p \in S |-> Opening(p)]
  <2>1. IsFiniteSet(S)
    BY FS_Subset
  <2>2. f \in Surjection(S, movements)
    BY DEF Surjection
  <2>3. QED
    BY <2>1, <2>2, FS_Surjection DEF Opening
<1>2. products \in [Products -> [code : Nat, description : Nat, balance : Int]]
  OBVIOUS
<1>3. CatalogueTypeOK
  BY <1>1, <1>2 DEF CatalogueTypeOK
<1>4. CodesAreUnique /\ IdsAreNew
  BY DEF CodesAreUnique, IdsAreNew, Registered
<1>5. CodesAreReserved /\ AnswersAreTrue
  BY DEF CodesAreReserved, AnswersAreTrue
<1>6. QED
  BY <1>3, <1>4, <1>5 DEF CatalogueInv

(* Products stay, with their codes. *)
Keeps == \A p \in Registered : p \in Registered' /\ products'[p].code = products[p].code

Items == [id : Products, code : Nat, balance : Nat, valid : BOOLEAN]

(* The items of a request, and the one that is next. *)
LEMMA ItemsType ==
  ASSUME NEW r \in Imports
  PROVE  ImportItems[r] \in Seq(Items) /\ \A i \in DOMAIN ImportItems[r] : i \in Nat /\ ImportItems[r][i] \in Items
<1>1. ImportItems \in [Imports -> Seq(Items)]
  BY CatalogueAssumption DEF Items
<1>2. QED
  BY <1>1

LEMMA IdsAreDistinct ==
  ASSUME NEW r \in Imports, NEW s \in Imports, NEW i \in DOMAIN ImportItems[r], NEW j \in DOMAIN ImportItems[s],
         ImportItems[s][j].id = ImportItems[r][i].id
  PROVE  s = r /\ j = i
BY CatalogueAssumption

LEMMA ItemType ==
  ASSUME CatalogueTypeOK, NEW r \in Imports, Working(r)
  PROVE  /\ Position(r) \in DOMAIN ImportItems[r] /\ Position(r) > Len(results[r])
         /\ Item(r).id \in Products /\ Item(r).code \in Nat /\ Item(r).balance \in Nat
<1>1. results[r] \in Seq(Answers)
  BY DEF CatalogueTypeOK
<1>2. ImportItems[r] \in Seq(Items) /\ Len(results[r]) \in Nat
  BY <1>1, ItemsType
<1>3. Position(r) \in DOMAIN ImportItems[r] /\ Position(r) > Len(results[r])
  BY <1>2 DEF Working, Position
<1>4. Item(r) \in Items
  BY <1>2, <1>3 DEF Item
<1>5. QED
  BY <1>3, <1>4 DEF Items

(* What an answer to an item does to the answers. *)
LEMMA AnswerKeeps ==
  ASSUME CatalogueTypeOK, NEW r \in Imports, NEW x \in Answers, Answer(r, x)
  PROVE  /\ results' \in [Imports -> Seq(Answers)]
         /\ Len(results'[r]) = Len(results[r]) + 1
         /\ Len(results[r]) \in Nat
         /\ results'[r][Position(r)] = x
         /\ \A i \in 1 .. Len(results[r]) : results'[r][i] = results[r][i]
         /\ \A s \in Imports \ {r} : results'[s] = results[s]
<1>1. results[r] \in Seq(Answers)
  BY DEF CatalogueTypeOK
<1>2. Append(results[r], x) \in Seq(Answers) /\ results'[r] = Append(results[r], x)
  BY <1>1 DEF Answer, CatalogueTypeOK
<1>3. QED
  BY <1>1, <1>2 DEF Answer, CatalogueTypeOK, Position

(* A step that registers nothing and answers no import. *)
LEMMA SameCodesKeep ==
  ASSUME CatalogueInv, CatalogueTypeOK', UNCHANGED <<inserted, results>>,
         Registered' = Registered, \A p \in Registered : products'[p].code = products[p].code
  PROVE  CatalogueInv' /\ Keeps
<1>1. \A c : Taken(c)' <=> Taken(c)
  BY DEF Taken
<1>2. Keeps
  BY DEF Keeps
<1>3. CodesAreUnique'
  BY DEF CatalogueInv, CodesAreUnique
<1>4. \A r \in Imports : Item(r)' = Item(r) /\ (Working(r)' <=> Working(r))
  BY DEF Item, Working, Position
<1>5. CodesAreReserved'
  BY <1>1, <1>4 DEF CatalogueInv, CodesAreReserved
<1>6. IdsAreNew'
  BY DEF CatalogueInv, IdsAreNew
<1>7. AnswersAreTrue'
  BY <1>1 DEF CatalogueInv, AnswersAreTrue
<1>8. QED
  BY <1>2, <1>3, <1>5, <1>6, <1>7 DEF CatalogueInv

(* An answer is true if the item it is for is, and what was answered       *)
(* before stays true.                                                      *)
LEMMA AnswersStayTrue ==
  ASSUME CatalogueInv, Keeps, NEW r \in Imports, NEW x \in Answers, Answer(r, x), NEW item, item = Item(r),
         x = "ok" => item.id \in Registered', x = "exists" => Taken(item.code)'
  PROVE  AnswersAreTrue'
<1>1. \A c : Taken(c) => Taken(c)'
  BY DEF Keeps, Taken
<1>2. \A p \in Registered : p \in Registered'
  BY DEF Keeps
<1> SUFFICES ASSUME NEW s \in Imports, NEW i \in DOMAIN results'[s]
             PROVE  /\ results'[s][i] = "ok" => ImportItems[s][i].id \in Registered'
                    /\ results'[s][i] = "exists" => Taken(ImportItems[s][i].code)'
  BY DEF AnswersAreTrue
<1>3. CASE s = r /\ i = Position(r)
  BY <1>3, AnswerKeeps DEF CatalogueInv, Item
<1>4. CASE s # r \/ i # Position(r)
  <2>1. i \in DOMAIN results[s] /\ results'[s][i] = results[s][i]
    <3>1. CASE s # r
      BY <3>1, AnswerKeeps DEF CatalogueInv
    <3>2. CASE s = r
      <4>1. results[r] \in Seq(Answers) /\ results'[r] \in Seq(Answers)
        BY AnswerKeeps DEF CatalogueInv, CatalogueTypeOK
      <4>2. i \in 1 .. Len(results[r]) + 1 /\ i # Len(results[r]) + 1
        BY <1>4, <3>2, <4>1, AnswerKeeps DEF CatalogueInv, Position
      <4>3. Len(results[r]) \in Nat /\ i \in 1 .. Len(results[r])
        BY <4>1, <4>2, AnswerKeeps DEF CatalogueInv
      <4>4. QED
        BY <3>2, <4>1, <4>3, AnswerKeeps DEF CatalogueInv
    <3>3. QED
      BY <3>1, <3>2
  <2>2. QED
    BY <1>1, <1>2, <2>1 DEF CatalogueInv, AnswersAreTrue
<1>5. QED
  BY <1>3, <1>4

(* An item that is answered without a product. *)
LEMMA RefusalKeeps ==
  ASSUME CatalogueInv, UNCHANGED <<products, movements, clock, begun>>,
         NEW r \in Imports, NEW x \in Answers \ {"ok"}, Answer(r, x), Working(r),
         x = "exists" => Taken(Item(r).code),
         (inserted[r] = -1 /\ UNCHANGED inserted) \/ inserted' = [inserted EXCEPT ![r] = -1]
  PROVE  CatalogueInv' /\ Keeps
<1>1. Keeps /\ Registered' = Registered /\ \A c : Taken(c)' <=> Taken(c)
  BY DEF Keeps, Registered, Taken
<1> USE DEF CatalogueInv
<1>2. inserted' \in [Imports -> Int] /\ inserted'[r] = -1 /\ \A s \in Imports \ {r} : inserted'[s] = inserted[s]
  <2>1. inserted \in [Imports -> Int]
    BY DEF CatalogueTypeOK
  <2>2. QED
    BY <2>1
<1>3. x \in Answers
  OBVIOUS
<1>4. CatalogueTypeOK'
  BY <1>2, <1>3, AnswerKeeps DEF CatalogueTypeOK
<1>5. CodesAreUnique'
  BY <1>1 DEF CodesAreUnique
<1>6. \A s \in Imports \ {r} : Item(s)' = Item(s) /\ (Working(s)' <=> Working(s))
  BY <1>3, AnswerKeeps DEF Item, Working, Position
<1>7. \A s \in Imports : inserted'[s] # -1 =>
        s # r /\ inserted[s] # -1 /\ Item(s)' = Item(s) /\ (Working(s)' <=> Working(s))
  BY <1>2, <1>6
<1>8. CodesAreReserved'
  BY <1>1, <1>7 DEF CatalogueInv, CodesAreReserved
<1>9. IdsAreNew'
  <2> SUFFICES ASSUME NEW s \in Imports, NEW i \in DOMAIN ImportItems[s], i > Len(results'[s])
               PROVE  ImportItems[s][i].id \notin Registered
    BY <1>1 DEF IdsAreNew
  <2>0. results[s] \in Seq(Answers)
    BY DEF CatalogueTypeOK
  <2>1. Len(results[s]) \in Nat /\ (Len(results'[s]) = Len(results[s]) \/ Len(results'[s]) = Len(results[s]) + 1)
    BY <1>3, <2>0, AnswerKeeps
  <2>2. i \in Nat
    BY ItemsType
  <2>3. i > Len(results[s])
    BY <2>1, <2>2
  <2>4. QED
    BY <2>3 DEF CatalogueInv, IdsAreNew
<1>10. AnswersAreTrue'
  <2>1. PICK item : item = Item(r)
    OBVIOUS
  <2>2. QED
    BY <1>1, <1>3, <2>1, AnswersStayTrue
<1>11. QED
  BY <1>1, <1>4, <1>5, <1>8, <1>9, <1>10 DEF CatalogueInv

LEMMA RefuseItemKeeps ==
  ASSUME CatalogueInv, NEW r \in Imports, RefuseItem(r)
  PROVE  CatalogueInv' /\ Keeps
<1>1. PICK x \in {"repeated", "invalid"} : Answer(r, x)
  BY DEF RefuseItem
<1>2. QED
  BY <1>1, RefusalKeeps DEF RefuseItem, Answers

LEMMA InsertKeeps ==
  ASSUME CatalogueInv, NEW r \in Imports, Insert(r)
  PROVE  CatalogueInv' /\ Keeps
<1>1. CASE Taken(Item(r).code) /\ Answer(r, "exists") /\ UNCHANGED inserted
  BY <1>1, RefusalKeeps DEF Insert, Answers
<1>2. CASE ~ Taken(Item(r).code) /\ inserted' = [inserted EXCEPT ![r] = clock] /\ UNCHANGED results
  <2>1. /\ Keeps /\ Registered' = Registered
        /\ \A c : Taken(c)' <=> Taken(c)
        /\ \A s \in Imports : Item(s)' = Item(s) /\ (Working(s)' <=> Working(s))
    BY <1>2 DEF Insert, Keeps, Registered, Taken, Item, Working, Position
  <2>2. CatalogueTypeOK'
    BY <1>2 DEF Insert, CatalogueInv, CatalogueTypeOK
  <2>3. CodesAreReserved'
    BY <1>2, <2>1 DEF Insert, CatalogueInv, CatalogueTypeOK, CodesAreReserved
  <2>4. CodesAreUnique' /\ IdsAreNew' /\ AnswersAreTrue'
    BY <1>2, <2>1 DEF Insert, CatalogueInv, CodesAreUnique, IdsAreNew, AnswersAreTrue
  <2>5. QED
    BY <2>1, <2>2, <2>3, <2>4 DEF CatalogueInv
<1>3. QED
  BY <1>1, <1>2 DEF Insert

(* The COMMIT of a product.  Its id was nobody's, its code nobody else's. *)
LEMMA CreateKeeps ==
  ASSUME CatalogueInv, NEW r \in Imports, Create(r)
  PROVE  CatalogueInv' /\ Keeps
<1> USE DEF CatalogueInv
<1> DEFINE item == Item(r)
           row == [code |-> item.code, description |-> 0, balance |-> item.balance]
           opening == [product |-> item.id, at |-> inserted[r], id |-> 0]
           opened == {m \in {opening} : item.balance # 0}
<1>1. /\ Working(r) /\ item.valid /\ ~ Taken(item.code)
      /\ \A s \in Imports : inserted[s] # -1 /\ Item(s).code = item.code => s = r
  BY DEF Create, CodesAreReserved
<1>2. /\ Position(r) \in DOMAIN ImportItems[r] /\ Position(r) > Len(results[r])
      /\ item = ImportItems[r][Position(r)]
      /\ item.id \in Products /\ item.code \in Nat /\ item.balance \in Nat
  BY <1>1, ItemType DEF Item
<1>3. item.code # 0 /\ item.id \notin Registered
  <2>1. ImportItems[r][Position(r)].valid => ImportItems[r][Position(r)].code # 0
    BY <1>2, CatalogueAssumption
  <2>2. ImportItems[r][Position(r)].id \notin Registered
    BY <1>2 DEF IdsAreNew
  <2>3. QED
    BY <1>1, <1>2, <2>1, <2>2
<1>4. CASE Answer(r, "error") /\ UNCHANGED <<products, movements>>
  BY <1>1, <1>4, RefusalKeeps DEF Create, Answers
<1>5. CASE /\ products' = [products EXCEPT ![item.id] = row]
           /\ movements' = movements \union opened
           /\ Answer(r, "ok") \/ Answer(r, "error")
  <2>1. PICK x \in {"ok", "error"} : Answer(r, x)
    BY <1>5
  <2>2. x \in Answers
    BY DEF Answers
  <2>3. /\ inserted' \in [Imports -> Int] /\ inserted'[r] = -1
        /\ \A s \in Imports \ {r} : inserted'[s] = inserted[s]
    BY DEF Create, CatalogueTypeOK
  <2>4. row \in [code : Nat, description : Nat, balance : Int]
    BY <1>2
  <2>5. products' \in [Products -> [code : Nat, description : Nat, balance : Int]]
    BY <1>5, <2>4 DEF CatalogueTypeOK
  <2>6. movements' \subseteq [product : Products, at : Int, id : Nat] /\ IsFiniteSet(movements')
    <3>0. opening \in [product : Products, at : Int, id : Nat]
      BY <1>2 DEF CatalogueTypeOK
    <3> HIDE DEF opening
    <3>1. opened \subseteq [product : Products, at : Int, id : Nat]
      BY <3>0
    <3>2. IsFiniteSet(opened)
      <4>1. IsFiniteSet({opening}) /\ opened \in SUBSET {opening}
        BY FS_Singleton
      <4> HIDE DEF opened
      <4>2. QED
        BY <4>1, FS_Subset
    <3> HIDE DEF opened
    <3>3. QED
      BY <1>5, <3>1, <3>2, FS_Union DEF CatalogueTypeOK
  <2>7. CatalogueTypeOK'
    BY <2>1, <2>2, <2>3, <2>5, <2>6, AnswerKeeps DEF Create, CatalogueTypeOK
  <2>8. Registered' = Registered \union {item.id} /\ products'[item.id].code = item.code
    <3>1. products'[item.id] = row /\ \A p \in Products \ {item.id} : products'[p] = products[p]
      BY <1>2, <1>5 DEF CatalogueTypeOK
    <3>2. row.code = item.code /\ row # NoProduct
      BY <1>3 DEF NoProduct
    <3> HIDE DEF row, item
    <3>3. QED
      BY <1>2, <3>1, <3>2 DEF Registered
  <2>9. \A p \in Registered : products'[p].code = products[p].code
    BY <1>2, <1>3, <1>5 DEF CatalogueTypeOK, Registered
  <2>10. Keeps
    BY <2>8, <2>9 DEF Keeps
  <2>11. CodesAreUnique'
    <3>1. \A p \in Registered : products'[p].code # 0 /\ products'[p].code # item.code
      BY <1>1, <2>9 DEF CodesAreUnique, Taken
    <3>2. \A p, q \in Registered : products'[p].code = products'[q].code => p = q
      BY <2>9 DEF CodesAreUnique
    <3> HIDE DEF item
    <3>3. QED
      BY <1>3, <2>8, <3>1, <3>2 DEF CodesAreUnique
  <2>12. \A c : Taken(c)' <=> Taken(c) \/ c = item.code
    BY <2>8, <2>9 DEF Taken
  <2>13. \A s \in Imports : inserted'[s] # -1 =>
           s # r /\ inserted[s] # -1 /\ Item(s)' = Item(s) /\ (Working(s)' <=> Working(s))
    <3>1. \A s \in Imports \ {r} : results'[s] = results[s]
      BY <2>1, <2>2, AnswerKeeps
    <3>2. \A s \in Imports \ {r} : Item(s)' = Item(s) /\ (Working(s)' <=> Working(s))
      BY <3>1 DEF Item, Working, Position
    <3>3. QED
      BY <2>3, <3>2
  <2>14. CodesAreReserved'
    BY <1>1, <2>12, <2>13 DEF CodesAreReserved, Create
  <2>15. IdsAreNew'
    <3> SUFFICES ASSUME NEW s \in Imports, NEW i \in DOMAIN ImportItems[s], i > Len(results'[s])
                 PROVE  ImportItems[s][i].id \notin Registered'
      BY DEF IdsAreNew
    <3>1. i \in Nat
      BY ItemsType
    <3>2. results[s] \in Seq(Answers)
      BY DEF CatalogueTypeOK
    <3>3. Len(results'[s]) = IF s = r THEN Len(results[s]) + 1 ELSE Len(results[s])
      BY <2>1, <2>2, AnswerKeeps
    <3>4. i > Len(results[s]) /\ (s = r => i # Len(results[r]) + 1)
      BY <3>1, <3>2, <3>3
    <3>5. ImportItems[s][i].id # ImportItems[r][Position(r)].id
      <4>1. s # r \/ i # Position(r)
        BY <3>4 DEF Position
      <4>2. QED
        BY <1>2, <4>1, IdsAreDistinct
    <3>6. ImportItems[s][i].id \notin Registered
      BY <3>4 DEF IdsAreNew
    <3>7. QED
      BY <1>2, <2>8, <3>5, <3>6
  <2>16. AnswersAreTrue'
    <3>1. PICK it : it = Item(r)
      OBVIOUS
    <3>2. it.id \in Registered'
      BY <2>8, <3>1
    <3>3. QED
      BY <2>1, <2>2, <2>10, <3>1, <3>2, AnswersStayTrue
  <2>17. QED
    BY <2>7, <2>10, <2>11, <2>14, <2>15, <2>16
<1>6. QED
  BY <1>4, <1>5 DEF Create

LEMMA BeginAdjustKeeps ==
  ASSUME CatalogueInv, NEW d \in Documents, BeginAdjust(d)
  PROVE  CatalogueInv' /\ Keeps
<1>1. CatalogueTypeOK'
  BY DEF CatalogueInv, CatalogueTypeOK, BeginAdjust
<1>2. QED
  BY <1>1, SameCodesKeep DEF BeginAdjust, Registered

LEMMA UpdateProductKeeps ==
  ASSUME CatalogueInv, NEW p \in Products, UpdateProduct(p)
  PROVE  CatalogueInv' /\ Keeps
<1>1. CatalogueTypeOK'
  <2>1. products[p] \in [code : Nat, description : Nat, balance : Int]
    BY DEF CatalogueInv, CatalogueTypeOK
  <2>2. [products[p] EXCEPT !.description = @ + 1] \in [code : Nat, description : Nat, balance : Int]
    BY <2>1
  <2>3. products' = [products EXCEPT ![p] = [products[p] EXCEPT !.description = @ + 1]]
    BY DEF UpdateProduct, CatalogueInv, CatalogueTypeOK
  <2>4. QED
    BY <2>2, <2>3 DEF CatalogueInv, CatalogueTypeOK, UpdateProduct
<1>2. \A q \in Products : products'[q].code = products[q].code
  BY DEF CatalogueInv, CatalogueTypeOK, UpdateProduct
<1>3. \A q \in Products \ {p} : products'[q] = products[q]
  BY DEF CatalogueInv, CatalogueTypeOK, UpdateProduct
<1>4. p \in Registered /\ p \in Registered'
  BY <1>2 DEF CatalogueInv, CodesAreUnique, UpdateProduct, Registered, NoProduct
<1>5. Registered' = Registered
  BY <1>3, <1>4 DEF Registered
<1>6. \A q \in Registered : products'[q].code = products[q].code
  BY <1>2 DEF Registered
<1>7. QED
  BY <1>1, <1>5, <1>6, SameCodesKeep DEF UpdateProduct

(* A document finds its products registered, and changes no other. *)
LEMMA AdjustKeeps ==
  ASSUME CatalogueInv, NEW d \in Documents, Adjust(d)
  PROVE  CatalogueInv' /\ Keeps
<1> DEFINE ls == Adjustments[d]
           Movement(i) == [product |-> ls[i].product, at |-> begun[d], id |-> MovementId[d][i]]
<1>1. ls \in Seq(Lines)
  <2>1. Adjustments \in [Documents -> Seq(Lines)]
    BY CatalogueAssumption DEF Lines
  <2>2. QED
    BY <2>1
<1>2. CASE UNCHANGED <<products, movements>>
  <2>1. CatalogueTypeOK' /\ Registered' = Registered
    BY <1>2 DEF Adjust, CatalogueInv, CatalogueTypeOK, Registered
  <2>2. QED
    BY <1>2, <2>1, SameCodesKeep DEF Adjust
<1>3. CASE /\ \A i \in DOMAIN ls : ls[i].product \in Registered
           /\ products' = [p \in Products |-> [products[p] EXCEPT !.balance = @ + DeltaTo(p, ls)]]
           /\ movements' = movements \union {Movement(i) : i \in DOMAIN ls}
  <2>1. \A p : DeltaTo(p, ls) \in Int /\ (p \notin Registered => DeltaTo(p, ls) = 0)
    BY <1>1, <1>3, DeltaType
  <2> DEFINE D(p) == DeltaTo(p, ls)
  <2>2. \A p : D(p) \in Int /\ (p \notin Registered => D(p) = 0)
    BY <2>1
  <2>3. products' = [p \in Products |-> [products[p] EXCEPT !.balance = @ + D(p)]]
    BY <1>3
  <2> HIDE DEF D
  <2>4. ASSUME NEW p \in Products
        PROVE  /\ products'[p] \in [code : Nat, description : Nat, balance : Int]
               /\ products'[p].code = products[p].code
               /\ p \notin Registered => products'[p] = products[p]
    <3>1. products[p] \in [code : Nat, description : Nat, balance : Int]
      BY DEF CatalogueInv, CatalogueTypeOK
    <3>2. products'[p] = [products[p] EXCEPT !.balance = @ + D(p)]
      BY <2>3
    <3>3. D(p) \in Int /\ (p \notin Registered => D(p) = 0)
      BY <2>2
    <3>4. products'[p] = [code |-> products[p].code, description |-> products[p].description,
                          balance |-> products[p].balance + D(p)]
      BY <3>1, <3>2
    <3>5. products[p] = [code |-> products[p].code, description |-> products[p].description,
                         balance |-> products[p].balance]
      BY <3>1
    <3>6. products[p].balance \in Int /\ products[p].code \in Nat /\ products[p].description \in Nat
      BY <3>1
    <3>7. QED
      BY <3>3, <3>4, <3>5, <3>6
  <2>5. Registered' = Registered
    <3>1. \A p \in Products \ Registered : p \notin Registered'
      BY <2>4 DEF Registered
    <3>2. ASSUME NEW p \in Registered PROVE p \in Registered'
      <4>1. p \in Products /\ products'[p].code # 0
        BY <2>4 DEF Registered, CatalogueInv, CodesAreUnique
      <4>2. QED
        BY <4>1 DEF Registered, NoProduct
    <3>3. QED
      BY <3>1, <3>2 DEF Registered
  <2>6. movements' \subseteq [product : Products, at : Int, id : Nat] /\ IsFiniteSet(movements')
    <3> DEFINE M == {Movement(i) : i \in DOMAIN ls}
               f == [i \in DOMAIN ls |-> Movement(i)]
    <3>1. ASSUME NEW i \in DOMAIN ls PROVE Movement(i) \in [product : Products, at : Int, id : Nat]
      <4>1. ls[i].product \in Products /\ begun[d] \in Int
        BY <1>3 DEF Registered, CatalogueInv, CatalogueTypeOK
      <4>2. MovementId[d][i] \in Nat
        BY CatalogueAssumption
      <4>3. QED
        BY <4>1, <4>2
    <3>2. IsFiniteSet(DOMAIN ls)
      <4>1. DOMAIN ls = 1 .. Len(ls) /\ Len(ls) \in Nat
        BY <1>1
      <4>2. QED
        BY <4>1, FS_Interval
    <3>3. f \in Surjection(DOMAIN ls, M)
      <4> HIDE DEF Movement
      <4>1. f \in [DOMAIN ls -> M] /\ \A m \in M : \E i \in DOMAIN ls : f[i] = m
        OBVIOUS
      <4>2. QED
        BY <4>1 DEF Surjection
    <3>4. IsFiniteSet(M)
      BY <3>2, <3>3, FS_Surjection
    <3>5. M \subseteq [product : Products, at : Int, id : Nat]
      BY <3>1
    <3> HIDE DEF M
    <3>6. movements' = movements \union M
      BY <1>3 DEF M
    <3>7. QED
      BY <3>4, <3>5, <3>6, FS_Union DEF CatalogueInv, CatalogueTypeOK
  <2>7. products' \in [Products -> [code : Nat, description : Nat, balance : Int]]
    BY <2>3, <2>4
  <2>8. CatalogueTypeOK'
    BY <2>6, <2>7 DEF Adjust, CatalogueInv, CatalogueTypeOK
  <2>9. \A p \in Registered : products'[p].code = products[p].code
    BY <2>4 DEF Registered
  <2>10. QED
    BY <2>5, <2>8, <2>9, SameCodesKeep DEF Adjust
<1>4. QED
  BY <1>2, <1>3 DEF Adjust

LEMMA CatalogueStep == CatalogueInv /\ CatalogueNext => CatalogueInv' /\ Keeps
BY RefuseItemKeeps, InsertKeeps, CreateKeeps, BeginAdjustKeeps, AdjustKeeps, UpdateProductKeeps
   DEF CatalogueNext
-----------------------------------------------------------------------------
(***************************************************************************)
(* The invoices.                                                           *)
(***************************************************************************)

Stages == {"new", "refused", "lookup", "resolved", "inserted", "issued", "unanswered"}

BillingTypeOK ==
  /\ stage \in [Requests -> Stages]
  /\ number \in [Requests -> Nat]
  /\ after \in [Requests -> Nat]
  /\ sequence \in Nat
  /\ DOMAIN lines = Requests
  /\ DOMAIN moments = Requests

(* Until a request looks up its products every moment is kept; from then   *)
(* on its items are as they were at one of them.                           *)
ItemsAreOfAMoment ==
  \A q \in Requests :
    /\ stage[q] = "lookup" => Descriptions \in moments[q]
    /\ stage[q] \in {"resolved", "inserted", "issued", "unanswered"} =>
         \E described \in moments[q] :
           \A i \in DOMAIN lines[q] : lines[q][i].description = described[lines[q][i].product]

Numbered == {q \in Requests : stage[q] \in {"inserted", "issued", "unanswered"}}

(* The sequence is ahead of every number taken and of every number that    *)
(* was answered, and so of what a request had been answered when it began. *)
SequenceIsAhead ==
  /\ \A q \in Requests : number[q] <= sequence /\ after[q] <= sequence
  /\ \A q \in Numbered : number[q] > after[q]
  /\ \A q, r \in Numbered : number[q] = number[r] => q = r

BillingInv == BillingTypeOK /\ ItemsAreOfAMoment /\ SequenceIsAhead

LEMMA BillingInitInv == Init => BillingInv
BY DEF Init, BillingInv, BillingTypeOK, Stages, ItemsAreOfAMoment, SequenceIsAhead, Numbered

LEMMA CreateInvoiceKeeps ==
  ASSUME BillingInv, NEW q \in Requests, CreateInvoice(q), UNCHANGED stock
  PROVE  BillingInv'
<1> USE DEF BillingInv
<1>1. PICK s \in {"lookup", "refused"} :
        /\ stage' = [stage EXCEPT ![q] = s]
        /\ DOMAIN lines' = Requests
        /\ \A r \in Requests \ {q} : lines'[r] = lines[r]
  <2>1. PICK inputs \in Orders \union ({draft} \ {<< >>}) :
          \/ lines' = [lines EXCEPT ![q] = Merge(inputs)] /\ Goto(q, "lookup")
          \/ Goto(q, "refused") /\ UNCHANGED lines
    BY DEF CreateInvoice
  <2>2. CASE lines' = [lines EXCEPT ![q] = Merge(inputs)] /\ Goto(q, "lookup")
    BY <2>2 DEF Goto, BillingTypeOK
  <2>3. CASE Goto(q, "refused") /\ UNCHANGED lines
    BY <2>3 DEF Goto, BillingTypeOK
  <2>4. QED
    BY <2>1, <2>2, <2>3
<1>2. moments' = [moments EXCEPT ![q] = {Descriptions}] /\ Descriptions' = Descriptions
  BY DEF CreateInvoice, stock, Descriptions
<1>3. Max(Answered \union {0}) \in 0 .. sequence
  <2>1. Answered \union {0} \in SUBSET (0 .. sequence)
    BY DEF Answered, BillingTypeOK, SequenceIsAhead
  <2>2. QED
    BY <2>1, LargestNumber DEF BillingTypeOK
<1>4. after' = [after EXCEPT ![q] = Max(Answered \union {0})] /\ UNCHANGED <<number, sequence>>
  BY DEF CreateInvoice
<1>5. BillingTypeOK'
  BY <1>1, <1>2, <1>3, <1>4 DEF BillingTypeOK, Stages
<1>6. ItemsAreOfAMoment'
  <2> SUFFICES ASSUME NEW r \in Requests
               PROVE  /\ stage'[r] = "lookup" => Descriptions' \in moments'[r]
                      /\ stage'[r] \in {"resolved", "inserted", "issued", "unanswered"} =>
                           \E described \in moments'[r] :
                             \A i \in DOMAIN lines'[r] : lines'[r][i].description = described[lines'[r][i].product]
    BY DEF ItemsAreOfAMoment
  <2>1. CASE r = q
    BY <1>1, <1>2, <2>1 DEF BillingTypeOK
  <2>2. CASE r # q
    <3>1. stage'[r] = stage[r] /\ lines'[r] = lines[r] /\ moments'[r] = moments[r]
      BY <1>1, <1>2, <2>2 DEF BillingTypeOK
    <3>2. QED
      BY <1>2, <3>1 DEF ItemsAreOfAMoment
  <2>3. QED
    BY <2>1, <2>2
<1>7. Numbered' \subseteq Numbered /\ q \notin Numbered'
  BY <1>1 DEF Numbered, BillingTypeOK
<1>8. SequenceIsAhead'
  BY <1>3, <1>4, <1>7 DEF SequenceIsAhead, BillingTypeOK, Numbered
<1>9. QED
  BY <1>5, <1>6, <1>8

(* The items are made of the descriptions at this moment, which is one of  *)
(* those watched.                                                          *)
LEMMA LookupKeeps ==
  ASSUME BillingInv, NEW q \in Requests, Lookup(q), UNCHANGED stock
  PROVE  BillingInv'
<1> USE DEF BillingInv
<1>1. stage[q] = "lookup" /\ UNCHANGED <<number, sequence, after, moments>> /\ Descriptions' = Descriptions
  BY DEF Lookup, stock, Descriptions
<1>2. PICK s \in {"resolved", "refused"} : stage' = [stage EXCEPT ![q] = s]
  BY DEF Lookup, Goto
<1>3. stage'[q] = "resolved" => lines' = [lines EXCEPT ![q] = Snapshot(q, Descriptions)]
  BY DEF Lookup, Goto, BillingTypeOK
<1>4. DOMAIN lines' = Requests /\ \A r \in Requests \ {q} : lines'[r] = lines[r]
  BY DEF Lookup, BillingTypeOK
<1>5. BillingTypeOK'
  BY <1>1, <1>2, <1>4 DEF BillingTypeOK, Stages
<1>6. ItemsAreOfAMoment'
  <2> SUFFICES ASSUME NEW r \in Requests
               PROVE  /\ stage'[r] = "lookup" => Descriptions' \in moments'[r]
                      /\ stage'[r] \in {"resolved", "inserted", "issued", "unanswered"} =>
                           \E described \in moments'[r] :
                             \A i \in DOMAIN lines'[r] : lines'[r][i].description = described[lines'[r][i].product]
    BY DEF ItemsAreOfAMoment
  <2>1. CASE r = q /\ stage'[q] = "resolved"
    <3>1. lines'[q] = Snapshot(q, Descriptions)
      BY <1>3, <2>1 DEF BillingTypeOK
    <3>2. \A i \in DOMAIN lines'[q] : lines'[q][i].description = Descriptions[lines'[q][i].product]
      BY <3>1 DEF Snapshot
    <3>3. Descriptions \in moments'[q]
      BY <1>1 DEF ItemsAreOfAMoment
    <3> HIDE DEF Descriptions
    <3>4. QED
      BY <2>1, <3>2, <3>3
  <2>2. CASE r = q /\ stage'[q] # "resolved"
    BY <1>2, <2>2 DEF BillingTypeOK
  <2>3. CASE r # q
    BY <1>1, <1>2, <1>4, <2>3 DEF ItemsAreOfAMoment, BillingTypeOK
  <2>4. QED
    BY <2>1, <2>2, <2>3
<1>7. Numbered' = Numbered
  BY <1>1, <1>2 DEF Numbered, BillingTypeOK
<1>8. SequenceIsAhead'
  BY <1>1, <1>7 DEF SequenceIsAhead
<1>9. QED
  BY <1>5, <1>6, <1>8

LEMMA InsertInvoiceKeeps ==
  ASSUME BillingInv, NEW q \in Requests, InsertInvoice(q), UNCHANGED stock
  PROVE  BillingInv'
<1> USE DEF BillingInv, InsertInvoice, Goto
<1>1. BillingTypeOK'
  BY DEF BillingTypeOK, Stages, NextNumber
<1>2. ItemsAreOfAMoment'
  BY DEF ItemsAreOfAMoment, BillingTypeOK, stock, Descriptions
<1>3. Numbered' = Numbered \union {q} /\ number'[q] = sequence + 1 /\ sequence' = sequence + 1
  BY DEF Numbered, BillingTypeOK, NextNumber
<1>4. \A r \in Requests \ {q} : number'[r] = number[r]
  BY DEF BillingTypeOK
<1>5. SequenceIsAhead'
  BY <1>3, <1>4 DEF SequenceIsAhead, BillingTypeOK, Numbered
<1>6. QED
  BY <1>1, <1>2, <1>5

LEMMA CommitInvoiceKeeps ==
  ASSUME BillingInv, NEW q \in Requests, CommitInvoice(q), UNCHANGED stock
  PROVE  BillingInv'
<1> USE DEF BillingInv
<1>1. PICK s \in {"issued", "unanswered", "refused"} : stage' = [stage EXCEPT ![q] = s]
  BY DEF CommitInvoice, Goto
<1>2. stage[q] = "inserted" /\ UNCHANGED <<lines, number, sequence, after, moments, products>>
  BY DEF CommitInvoice, stock
<1>3. BillingTypeOK'
  BY <1>1, <1>2 DEF BillingTypeOK, Stages
<1>4. ItemsAreOfAMoment'
  BY <1>1, <1>2 DEF ItemsAreOfAMoment, BillingTypeOK, Descriptions
<1>5. Numbered' \subseteq Numbered
  BY <1>1, <1>2 DEF Numbered, BillingTypeOK
<1>6. SequenceIsAhead'
  BY <1>2, <1>5 DEF SequenceIsAhead
<1>7. QED
  BY <1>3, <1>4, <1>6

(* While the catalogue changes its descriptions are watched. *)
LEMMA WatchingKeeps ==
  ASSUME BillingInv, UNCHANGED <<stage, lines, number, sequence, after>>,
         moments' = [q \in Requests |-> IF stage[q] = "lookup" THEN moments[q] \union {Descriptions'}
                                        ELSE moments[q]]
  PROVE  BillingInv'
<1> USE DEF BillingInv
<1>1. BillingTypeOK'
  BY DEF BillingTypeOK
<1>2. ItemsAreOfAMoment'
  BY DEF ItemsAreOfAMoment
<1>3. SequenceIsAhead'
  BY DEF SequenceIsAhead, Numbered
<1>4. QED
  BY <1>1, <1>2, <1>3

(* What every step does: the catalogue changes, or a request goes on, or   *)
(* the reader reads.                                                       *)
LEMMA BillingStep ==
  ASSUME CatalogueInv, BillingInv, [Next]_vars
  PROVE  CatalogueInv' /\ BillingInv' /\ Keeps
<1>1. CASE UNCHANGED <<stock, billing>>
  BY <1>1, SameCodesKeep
     DEF stock, billing, CatalogueInv, CatalogueTypeOK, Registered, BillingInv, BillingTypeOK,
         ItemsAreOfAMoment, SequenceIsAhead, Numbered, Descriptions
<1>2. CASE /\ CatalogueNext
           /\ moments' = [q \in Requests |-> IF stage[q] = "lookup" THEN moments[q] \union {Descriptions'}
                                             ELSE moments[q]]
           /\ UNCHANGED <<stage, lines, number, sequence, after>>
  BY <1>2, CatalogueStep, WatchingKeeps
<1>3. CASE (\E q \in Requests : Issue(q)) /\ UNCHANGED stock
  <2>1. BillingInv'
    BY <1>3, CreateInvoiceKeeps, LookupKeeps, InsertInvoiceKeeps, CommitInvoiceKeeps DEF Issue
  <2>2. CatalogueInv' /\ Keeps
    BY <1>3, SameCodesKeep DEF stock, CatalogueInv, CatalogueTypeOK, Registered
  <2>3. QED
    BY <2>1, <2>2
<1>4. QED
  BY <1>1, <1>2, <1>3 DEF Next, vars
-----------------------------------------------------------------------------
(***************************************************************************)
(* The reader.                                                             *)
(***************************************************************************)

AllKeys == KeySpace("code") \union KeySpace("balance")
AllRows == [id : Products \union Requests \union [product : Products, at : Int, id : Nat], key : AllKeys]

(* What has been shown is in order and not beyond the cursor; of the rows  *)
(* that stayed it has those that are not beyond it either, as they are.    *)
Exact(query, cursor, shown, rows) ==
  /\ cursor \in KeySpace(query.listing) \union {NoCursor}
  /\ \A i \in DOMAIN shown : shown[i].key \in KeySpace(query.listing)
  /\ \A i, j \in DOMAIN shown : i < j => Precedes(query.order, shown[i].key, shown[j].key)
  /\ cursor # NoCursor => \A i \in DOMAIN shown : ~ Precedes(query.order, cursor, shown[i].key)
  /\ \A row \in rows : cursor = NoCursor \/ ~ Precedes(query.order, cursor, row.key) =>
       \E i \in DOMAIN shown : shown[i] = row
  /\ \A row \in rows : \A i \in DOMAIN shown : shown[i].id = row.id => shown[i] = row

(* A row whose key follows from its id, now and later. *)
Anchored(listing, row) ==
  /\ listing = "code" => row.id \in Registered /\ row.key = <<products[row.id].code>>
  /\ listing = "history" => row.key = <<row.id.at, row.id.id>>
  /\ listing = "invoices" => row.id \in Stored /\ row.key = <<number[row.id]>>

(* A page read from rows that can be listed goes on where the last ended.  *)
LEMMA ReadingOn ==
  ASSUME NEW query \in Queries, NEW rows, Listable(query.listing, rows),
         \A r, s \in rows : r.id = s.id => r = s,
         NEW stay \in SUBSET rows, NEW cursor, NEW shown \in Seq(AllRows),
         (cursor = NoCursor /\ shown = << >>) \/ (cursor # NoCursor /\ Exact(query, cursor, shown, stay)),
         NEW page, page = List(rows, query.order, cursor, query.limit)
  PROVE  Exact(query, page.next, shown \o page.items, stay)
<1> DEFINE P(k, l) == Precedes(query.order, k, l)
           K == KeySpace(query.listing)
           items == page.items
           m == Len(shown)
           n == Len(items)
           all == shown \o items
<1>1. query.limit \in Int
  BY InvoicingAssumption
<1>2. /\ items \in Seq(rows)
      /\ \A i \in DOMAIN items : cursor = NoCursor \/ P(cursor, items[i].key)
      /\ \A i, j \in DOMAIN items : i < j => P(items[i].key, items[j].key)
      /\ page.next # NoCursor => \E i \in DOMAIN items : page.next = items[i].key /\ i = n
      /\ \A r \in rows :
           (cursor = NoCursor \/ P(cursor, r.key)) /\ (page.next = NoCursor \/ ~ P(page.next, r.key))
           => \E i \in DOMAIN items : items[i] = r
  <2>1. IsCut(page, query.order, rows, cursor)
    BY <1>1, PageIsACut
  <2>2. QED
    BY <2>1 DEF IsCut
<1>3. \A r \in rows : r.key \in K
  BY DEF Listable
<1>4. \A a, b, c \in K : /\ ~ P(a, a)
                         /\ P(a, b) /\ P(b, c) => P(a, c)
                         /\ a # b => P(a, b) \/ P(b, a)
  BY KeysAreOrdered
<1>5. /\ \A i \in DOMAIN shown : shown[i].key \in K
      /\ \A i, j \in DOMAIN shown : i < j => P(shown[i].key, shown[j].key)
      /\ \A i \in DOMAIN shown : cursor \in K /\ ~ P(cursor, shown[i].key)
      /\ \A row \in stay : cursor # NoCursor /\ ~ P(cursor, row.key) => \E i \in DOMAIN shown : shown[i] = row
      /\ \A row \in stay : \A i \in DOMAIN shown : shown[i].id = row.id => shown[i] = row
  BY DEF Exact
<1> HIDE DEF P, K, items
<1>6. m \in Nat /\ n \in Nat /\ DOMAIN shown = 1 .. m /\ DOMAIN items = 1 .. n
  BY <1>2
<1>7. /\ all \in Seq(AllRows \union rows) /\ DOMAIN all = 1 .. m + n
      /\ \A i \in 1 .. m : all[i] = shown[i]
      /\ \A i \in 1 .. n : all[m + i] = items[i] /\ items[i] \in rows
  BY <1>2, <1>6
<1>8. \A i \in 1 .. m + n : i \in 1 .. m \/ \E j \in 1 .. n : i = m + j
  <2>1. \A i \in 1 .. m + n : i \in 1 .. m \/ (i - m \in 1 .. n /\ i = m + (i - m))
    BY <1>6
  <2>2. QED
    BY <2>1
<1> HIDE DEF m, n, all
<1>9. \A i \in 1 .. m + n : all[i].key \in K
  <2> TAKE i \in 1 .. m + n
  <2>1. CASE i \in 1 .. m
    BY <1>5, <1>6, <1>7, <2>1
  <2>2. CASE i \notin 1 .. m
    <3>1. PICK j \in 1 .. n : i = m + j
      BY <1>8, <2>2
    <3>2. QED
      BY <1>3, <1>7, <3>1
  <2>3. QED
    BY <2>1, <2>2
<1>10. ASSUME NEW i \in 1 .. m + n, NEW j \in 1 .. m + n, i < j PROVE P(all[i].key, all[j].key)
  <2>1. CASE i \in 1 .. m /\ j \in 1 .. m
    BY <1>5, <1>6, <1>7, <1>10, <2>1
  <2>2. CASE i \in 1 .. m /\ j \notin 1 .. m
    <3>1. PICK jj \in 1 .. n : j = m + jj
      BY <1>8, <2>2
    <3>2. all[j] = items[jj] /\ all[i] = shown[i]
      BY <1>7, <2>2, <3>1
    <3>3. cursor \in K /\ ~ P(cursor, all[i].key) /\ all[i].key \in K /\ all[j].key \in K
      BY <1>5, <1>6, <1>9, <2>2, <3>2
    <3>4. P(cursor, all[j].key)
      <4>1. cursor # NoCursor
        BY <1>6, <2>2 DEF m
      <4>2. QED
        BY <1>2, <1>6, <3>2, <4>1
    <3>5. QED
      BY <1>4, <3>3, <3>4
  <2>3. CASE i \notin 1 .. m
    <3>1. PICK ii \in 1 .. n : i = m + ii
      BY <1>8, <2>3
    <3>2. PICK jj \in 1 .. n : j = m + jj
      BY <1>6, <1>8, <1>10, <2>3
    <3>3. ii < jj
      BY <1>6, <1>10, <3>1, <3>2
    <3>4. all[i] = items[ii] /\ all[j] = items[jj]
      BY <1>7, <3>1, <3>2
    <3>5. P(items[ii].key, items[jj].key)
      BY <1>2, <1>6, <3>3
    <3>6. QED
      BY <3>4, <3>5
  <2>4. QED
    BY <2>1, <2>2, <2>3
<1>11. page.next # NoCursor => n \in 1 .. n /\ page.next = all[m + n].key
  BY <1>2, <1>6, <1>7
<1>12. page.next \in K \union {NoCursor}
  <2>1. n \in 1 .. n => m + n \in 1 .. m + n
    BY <1>6
  <2>2. QED
    BY <1>9, <1>11, <2>1
<1>13. ASSUME page.next # NoCursor, NEW i \in 1 .. m + n PROVE ~ P(page.next, all[i].key)
  <2>1. m + n \in 1 .. m + n
    BY <1>6, <1>11, <1>13
  <2>2. CASE i = m + n
    BY <1>4, <1>9, <1>11, <1>13, <2>1, <2>2
  <2>3. CASE i # m + n
    <3>1. i < m + n
      BY <1>6, <2>3
    <3>2. P(all[i].key, all[m + n].key)
      BY <1>10, <2>1, <3>1
    <3>3. QED
      BY <1>4, <1>9, <1>11, <1>13, <2>1, <3>2
  <2>4. QED
    BY <2>2, <2>3
<1>14. ASSUME NEW row \in stay, page.next = NoCursor \/ ~ P(page.next, row.key)
       PROVE  \E i \in 1 .. m + n : all[i] = row
  <2>1. CASE cursor = NoCursor \/ P(cursor, row.key)
    <3>1. PICK i \in 1 .. n : items[i] = row
      BY <1>2, <1>6, <1>14, <2>1
    <3>2. m + i \in 1 .. m + n
      BY <1>6
    <3>3. QED
      BY <1>7, <3>1, <3>2
  <2>2. CASE cursor # NoCursor /\ ~ P(cursor, row.key)
    <3>1. PICK i \in 1 .. m : shown[i] = row
      BY <1>5, <1>6, <2>2
    <3>2. i \in 1 .. m + n
      BY <1>6
    <3>3. QED
      BY <1>7, <3>1, <3>2
  <2>3. QED
    BY <2>1, <2>2
<1>15. ASSUME NEW row \in stay, NEW i \in 1 .. m + n, all[i].id = row.id PROVE all[i] = row
  <2>1. CASE i \in 1 .. m
    BY <1>5, <1>6, <1>7, <1>15, <2>1
  <2>2. CASE i \notin 1 .. m
    BY <1>7, <1>8, <1>15, <2>2
  <2>3. QED
    BY <2>1, <2>2
<1>16. QED
  <2>1. DOMAIN all = 1 .. m + n
    BY <1>7
  <2>2. Exact(query, page.next, all, stay)
    BY <1>9, <1>10, <1>12, <1>13, <1>14, <1>15, <2>1 DEF Exact, P, K
  <2>3. QED
    BY <2>2 DEF all, items

(* Every listing can be paged: its keys are unique.                        *)
LEMMA RowsAreListable ==
  ASSUME CatalogueInv, BillingInv, NEW query \in Queries
  PROVE  /\ Listable(query.listing, Rows(query))
         /\ \A r, s \in Rows(query) : r.id = s.id => r = s
         /\ Rows(query) \subseteq AllRows
         /\ \A r \in Rows(query) : Anchored(query.listing, r)
<1> DEFINE R == Rows(query)
           L == query.listing
           Claim == /\ IsFiniteSet(R)
                    /\ \A r \in R : r.key \in KeySpace(L) /\ r \in AllRows /\ Anchored(L, r)
                    /\ \A r, s \in R : (r.id = s.id \/ r.key = s.key) => r = s
<1>1. L \in Listings
  BY InvoicingAssumption
<1>2. ASSUME L \in {"code", "balance"} PROVE Claim
  <2> DEFINE K(p) == IF L = "balance" THEN <<products[p].balance, products[p].code>> ELSE <<products[p].code>>
             S == {p \in Registered : Kept(query, p)}
             f == [p \in S |-> [id |-> p, key |-> K(p)]]
  <2>1. R = {[id |-> p, key |-> K(p)] : p \in S}
    BY <1>2 DEF Rows, ListProducts
  <2>2. ASSUME NEW p \in S PROVE K(p) \in KeySpace(L) /\ (L = "code" => K(p) = <<products[p].code>>)
    <3>1. products[p].balance \in Int /\ products[p].code \in Int
      BY DEF CatalogueInv, CatalogueTypeOK, Registered
    <3>2. QED
      BY <1>2, <3>1 DEF KeySpace
  <2>3. \A p, q \in S : K(p) = K(q) => p = q
    <3>1. \A p, q \in S : K(p) = K(q) => products[p].code = products[q].code
      BY <1>2
    <3>2. QED
      BY <3>1 DEF CatalogueInv, CodesAreUnique
  <2>4. S \subseteq Products /\ S \subseteq Registered
    BY DEF Registered
  <2> HIDE DEF K, S
  <2>5. IsFiniteSet(R)
    <3>1. f \in Surjection(S, R)
      BY <2>1 DEF Surjection
    <3>2. IsFiniteSet(S)
      BY <2>4, CatalogueAssumption, FS_Subset
    <3>3. QED
      BY <3>1, <3>2, FS_Surjection
  <2>6. ASSUME NEW r \in R PROVE r.key \in KeySpace(L) /\ r \in AllRows /\ Anchored(L, r)
    <3>1. PICK p \in S : r = [id |-> p, key |-> K(p)]
      BY <2>1
    <3>2. r.key \in KeySpace(L) /\ r.key \in AllKeys
      BY <1>2, <2>2, <3>1 DEF AllKeys
    <3>3. r \in AllRows
      BY <2>4, <3>1, <3>2 DEF AllRows
    <3>4. Anchored(L, r)
      BY <1>2, <2>2, <2>4, <3>1 DEF Anchored
    <3>5. QED
      BY <3>2, <3>3, <3>4
  <2>7. \A r, s \in R : (r.id = s.id \/ r.key = s.key) => r = s
    BY <2>1, <2>3
  <2>8. QED
    BY <2>5, <2>6, <2>7
<1>3. ASSUME L = "history" PROVE Claim
  <2> DEFINE S == {m \in movements : m.product = query.product}
             f == [m \in S |-> [id |-> m, key |-> <<m.at, m.id>>]]
  <2>1. R = {[id |-> m, key |-> <<m.at, m.id>>] : m \in S}
    BY <1>3 DEF Rows, ListMovements
  <2>2. S \subseteq movements /\ S \subseteq [product : Products, at : Int, id : Nat]
    BY DEF CatalogueInv, CatalogueTypeOK
  <2>3. \A m, n \in S : m.at = n.at /\ m.id = n.id => m = n
    <3>1. \A m, n \in S : m.product = n.product
      OBVIOUS
    <3> HIDE DEF S
    <3>2. QED
      BY <2>2, <3>1
  <2> HIDE DEF S
  <2>4. IsFiniteSet(R)
    <3>1. f \in Surjection(S, R)
      BY <2>1 DEF Surjection
    <3>2. IsFiniteSet(S)
      BY <2>2, FS_Subset DEF CatalogueInv, CatalogueTypeOK
    <3>3. QED
      BY <3>1, <3>2, FS_Surjection
  <2>5. ASSUME NEW r \in R PROVE r.key \in KeySpace(L) /\ r \in AllRows /\ Anchored(L, r)
    <3>1. PICK m \in S : r = [id |-> m, key |-> <<m.at, m.id>>]
      BY <2>1
    <3>2. m.at \in Int /\ m.id \in Int /\ m \in [product : Products, at : Int, id : Nat]
      BY <2>2
    <3>3. r.key \in KeySpace(L) /\ r.key \in AllKeys
      BY <1>3, <3>1, <3>2 DEF AllKeys, KeySpace
    <3>4. r \in AllRows
      BY <3>1, <3>2, <3>3 DEF AllRows
    <3>5. Anchored(L, r)
      BY <1>3, <3>1 DEF Anchored
    <3>6. QED
      BY <3>3, <3>4, <3>5
  <2>6. \A r, s \in R : (r.id = s.id \/ r.key = s.key) => r = s
    BY <2>1, <2>3
  <2>7. QED
    BY <2>4, <2>5, <2>6
<1>4. ASSUME L = "invoices" PROVE Claim
  <2> DEFINE S == {q \in Stored : Uses(query, q)}
             f == [q \in S |-> [id |-> q, key |-> <<number[q]>>]]
  <2>1. R = {[id |-> q, key |-> <<number[q]>>] : q \in S}
    BY <1>4 DEF Rows, ListInvoices
  <2>2. S \subseteq Stored /\ S \subseteq Requests /\ S \subseteq Numbered
    BY DEF Stored, Numbered
  <2>3. \A q, r \in S : number[q] = number[r] => q = r
    BY <2>2 DEF BillingInv, SequenceIsAhead
  <2>4. \A q \in S : number[q] \in Int
    BY <2>2 DEF BillingInv, BillingTypeOK
  <2> HIDE DEF S
  <2>5. IsFiniteSet(R)
    <3>1. f \in Surjection(S, R)
      BY <2>1 DEF Surjection
    <3>2. IsFiniteSet(S)
      BY <2>2, InvoicingAssumption, FS_Subset
    <3>3. QED
      BY <3>1, <3>2, FS_Surjection
  <2>6. ASSUME NEW r \in R PROVE r.key \in KeySpace(L) /\ r \in AllRows /\ Anchored(L, r)
    <3>1. PICK q \in S : r = [id |-> q, key |-> <<number[q]>>]
      BY <2>1
    <3>2. r.key \in KeySpace(L) /\ r.key \in AllKeys
      BY <1>4, <2>4, <3>1 DEF AllKeys, KeySpace
    <3>3. r \in AllRows
      BY <2>2, <3>1, <3>2 DEF AllRows
    <3>4. Anchored(L, r)
      BY <1>4, <2>2, <3>1 DEF Anchored
    <3>5. QED
      BY <3>2, <3>3, <3>4
  <2>7. \A r, s \in R : (r.id = s.id \/ r.key = s.key) => r = s
    BY <2>1, <2>3
  <2>8. QED
    BY <2>5, <2>6, <2>7
<1>5. Claim
  BY <1>1, <1>2, <1>3, <1>4 DEF Listings
<1>6. QED
  BY <1>5 DEF Listable

ReadingTypeOK ==
  reading # NotReading =>
    reading \in [state : {"paging", "done"}, query : Queries, cursor : AllKeys \union {NoCursor}, shown : Seq(AllRows)]

PagesInv ==
  reading # NotReading =>
    /\ Exact(reading.query, reading.cursor, reading.shown, stayed)
    /\ reading.state = "paging" => reading.cursor # NoCursor /\ stayed \subseteq Rows(reading.query)
    /\ reading.query.listing # "balance" =>
         \A i \in DOMAIN reading.shown : Anchored(reading.query.listing, reading.shown[i])

-----------------------------------------------------------------------------
(***************************************************************************)
(* What an invoice and a draft hold.                                       *)
(***************************************************************************)

(* Once the catalogue is asked for its products a request has the items    *)
(* its invoice will have.                                                  *)
OrdersInv ==
  \A q \in Requests : stage[q] \in {"lookup", "resolved", "inserted", "issued", "unanswered"} =>
    HoldAnOrder(lines[q]) /\ DOMAIN lines[q] = 1 .. Len(lines[q])

DraftInv == draft \in Seq(Suggestions(Registered)) /\ OneEach(draft) /\ Len(draft) <= MaxItems

LEMMA InitOrders == Init => OrdersInv /\ DraftInv
<1> SUFFICES ASSUME Init PROVE OrdersInv /\ DraftInv
  OBVIOUS
<1>1. MaxItems \in Nat /\ draft = << >>
  BY InvoicingAssumption DEF Init
<1>2. << >> \in Seq(Suggestions(Registered)) /\ Len(<< >>) = 0 /\ DOMAIN << >> = {}
  OBVIOUS
<1>3. DraftInv
  BY <1>1, <1>2 DEF DraftInv, OneEach
<1>4. QED
  BY <1>3 DEF Init, OrdersInv

(* What is accepted of an operator is held. *)
LEMMA AcceptedIsHeld ==
  ASSUME DraftInv, NEW inputs \in Orders \union ({draft} \ {<< >>}), NewItemInputs(inputs)
  PROVE  HoldAnOrder(Merge(inputs)) /\ DOMAIN Merge(inputs) = 1 .. Len(Merge(inputs))
<1>1. inputs \in Seq(LinesOf(Products, Int))
  <2>1. CASE inputs \in Orders
    BY <2>1, InvoicingAssumption DEF LinesOf
  <2>2. CASE inputs = draft
    <3>1. Suggestions(Registered) \subseteq LinesOf(Products, Int)
      BY DEF Suggestions, LinesOf, Registered
    <3>2. QED
      BY <2>2, <3>1 DEF DraftInv
  <2>3. QED
    BY <2>1, <2>2
<1>2. Merge(inputs) \in Seq(LinesOf(Products, Int)) /\ IsTotalOf(Merge(inputs), inputs)
  BY <1>1, MergeIsTotal
<1>3. Len(Merge(inputs)) \in Nat /\ DOMAIN Merge(inputs) = 1 .. Len(Merge(inputs))
  BY <1>2
<1>4. Len(Merge(inputs)) # 0
  <2>1. 1 \in DOMAIN inputs
    BY <1>1 DEF NewItemInputs
  <2>2. inputs[1].product \in {Merge(inputs)[i].product : i \in DOMAIN Merge(inputs)}
    BY <1>2, <2>1 DEF IsTotalOf
  <2>3. QED
    BY <1>3, <2>2
<1>5. Len(Merge(inputs)) <= MaxItems /\ \A i \in DOMAIN Merge(inputs) : Usable(Merge(inputs)[i].quantity)
  BY DEF NewItemInputs
<1>6. Len(Merge(inputs)) \in 1 .. MaxItems
  BY <1>3, <1>4, <1>5, InvoicingAssumption
<1>7. QED
  BY <1>2, <1>3, <1>5, <1>6 DEF HoldAnOrder

(* The items described are those that were asked for. *)
LEMMA SnapshotIsHeld ==
  ASSUME NEW q \in Requests, NEW described,
         HoldAnOrder(lines[q]), DOMAIN lines[q] = 1 .. Len(lines[q])
  PROVE  HoldAnOrder(Snapshot(q, described)) /\ DOMAIN Snapshot(q, described) = 1 .. Len(Snapshot(q, described))
<1> DEFINE old == lines[q]
           new == Snapshot(q, described)
           n == Len(old)
<1>1. n \in 1 .. MaxItems /\ DOMAIN old = 1 .. n
  BY DEF HoldAnOrder
<1>2. new = [i \in 1 .. n |-> [product |-> old[i].product, quantity |-> old[i].quantity,
                               description |-> described[old[i].product]]]
  BY <1>1 DEF Snapshot
<1> HIDE DEF n, new, old
<1>3. DOMAIN new = 1 .. n /\ Len(new) = n
  BY <1>1, <1>2
<1>4. \A i \in 1 .. n : new[i].product = old[i].product /\ new[i].quantity = old[i].quantity
  BY <1>2
<1>5. PICK inputs \in Orders \union ({draft} \ {<< >>}) : IsTotalOf(old, inputs)
  BY DEF HoldAnOrder, old
<1>6. IsTotalOf(new, inputs)
  <2>1. {new[i].product : i \in DOMAIN new} = {old[i].product : i \in DOMAIN old}
    BY <1>1, <1>3, <1>4
  <2>2. /\ {old[i].product : i \in DOMAIN old} = {inputs[j].product : j \in DOMAIN inputs}
        /\ \A i, k \in 1 .. n : old[i].product = old[k].product => i = k
    BY <1>1, <1>5 DEF IsTotalOf
  <2>3. ASSUME NEW i \in 1 .. n
        PROVE  new[i].quantity = SumFunctionOnSet([j \in DOMAIN inputs |-> inputs[j].quantity],
                                                  {j \in DOMAIN inputs : inputs[j].product = new[i].product})
    <3>1. new[i].product = old[i].product /\ new[i].quantity = old[i].quantity
      BY <1>4
    <3>2. old[i].quantity = SumFunctionOnSet([j \in DOMAIN inputs |-> inputs[j].quantity],
                                             {j \in DOMAIN inputs : inputs[j].product = old[i].product})
      BY <1>1, <1>5 DEF IsTotalOf
    <3>3. QED
      BY <3>1, <3>2
  <2>4. \A i, k \in 1 .. n : new[i].product = new[k].product => i = k
    BY <1>4, <2>2
  <2>5. QED
    BY <1>3, <2>1, <2>2, <2>3, <2>4 DEF IsTotalOf
<1>7. \A i \in DOMAIN new : Usable(new[i].quantity)
  BY <1>1, <1>3, <1>4 DEF HoldAnOrder, old
<1>8. QED
  BY <1>1, <1>3, <1>5, <1>6, <1>7 DEF HoldAnOrder, new

(* A draft is made once. *)
LEMMA DraftStays ==
  ASSUME [Next]_vars
  PROVE  draft # << >> => draft' = draft
BY DEF Next, vars, Read, FirstPage, NextPage, Draft

LEMMA OrdersStep ==
  ASSUME BillingInv, OrdersInv, DraftInv, [Next]_vars
  PROVE  OrdersInv'
<1>1. \A items : HoldAnOrder(items) => HoldAnOrder(items)'
  BY DraftStays DEF HoldAnOrder
<1>2. CASE UNCHANGED <<stage, lines>>
  BY <1>1, <1>2 DEF OrdersInv
<1>3. ASSUME NEW q \in Requests, Issue(q), UNCHANGED draft PROVE OrdersInv'
  <2>1. ASSUME NEW r \in Requests, r # q PROVE stage'[r] = stage[r] /\ lines'[r] = lines[r]
    BY <1>3, <2>1 DEF Issue, CreateInvoice, Lookup, InsertInvoice, CommitInvoice, Goto, BillingInv, BillingTypeOK
  <2> DEFINE Held == stage'[q] \in {"lookup", "resolved", "inserted", "issued", "unanswered"} =>
                       HoldAnOrder(lines'[q]) /\ DOMAIN lines'[q] = 1 .. Len(lines'[q])
  <2>2. ASSUME CreateInvoice(q) PROVE Held
    <3>1. PICK inputs \in Orders \union ({draft} \ {<< >>}) :
            \/ /\ NewItemInputs(inputs)
               /\ lines' = [lines EXCEPT ![q] = Merge(inputs)]
               /\ Goto(q, "lookup")
            \/ ~ NewItemInputs(inputs) /\ Goto(q, "refused") /\ UNCHANGED lines
      BY <2>2 DEF CreateInvoice
    <3>2. CASE NewItemInputs(inputs) /\ lines' = [lines EXCEPT ![q] = Merge(inputs)]
      <4>1. lines'[q] = Merge(inputs)
        BY <3>2 DEF BillingInv, BillingTypeOK
      <4>2. QED
        BY <3>2, <4>1, AcceptedIsHeld
    <3>3. CASE Goto(q, "refused")
      BY <3>3 DEF Goto, BillingInv, BillingTypeOK
    <3>4. QED
      BY <3>1, <3>2, <3>3
  <2>3. ASSUME Lookup(q) PROVE Held
    <3>1. CASE Goto(q, "refused")
      BY <3>1 DEF Goto, BillingInv, BillingTypeOK
    <3>2. CASE lines' = [lines EXCEPT ![q] = Snapshot(q, Descriptions)]
      <4>1. lines'[q] = Snapshot(q, Descriptions) /\ stage[q] = "lookup"
        BY <2>3, <3>2 DEF Lookup, BillingInv, BillingTypeOK
      <4>2. HoldAnOrder(lines[q]) /\ DOMAIN lines[q] = 1 .. Len(lines[q])
        BY <4>1 DEF OrdersInv
      <4> HIDE DEF Descriptions
      <4>3. QED
        BY <4>1, <4>2, SnapshotIsHeld
    <3>3. QED
      BY <2>3, <3>1, <3>2 DEF Lookup
  <2>4. ASSUME InsertInvoice(q) \/ CommitInvoice(q) PROVE Held
    <3>1. stage[q] \in {"resolved", "inserted"} /\ lines' = lines
      BY <2>4 DEF InsertInvoice, CommitInvoice
    <3>2. QED
      BY <3>1 DEF OrdersInv
  <2>5. Held
    BY <1>3, <2>2, <2>3, <2>4 DEF Issue
  <2>6. \A items : HoldAnOrder(items)' <=> HoldAnOrder(items)
    BY <1>3 DEF HoldAnOrder
  <2>7. ASSUME NEW r \in Requests, stage'[r] \in {"lookup", "resolved", "inserted", "issued", "unanswered"}
        PROVE  HoldAnOrder(lines'[r]) /\ DOMAIN lines'[r] = 1 .. Len(lines'[r])
    <3>1. CASE r = q
      BY <2>5, <2>7, <3>1
    <3>2. CASE r # q
      BY <2>1, <2>7, <3>2 DEF OrdersInv
    <3>3. QED
      BY <3>1, <3>2
  <2>8. QED
    BY <1>3, <2>7 DEF OrdersInv, HoldAnOrder
<1>4. QED
  BY <1>2, <1>3 DEF Next, vars, billing

LEMMA DraftStep ==
  ASSUME Keeps, ReadingTypeOK, PagesInv, DraftInv, [Next]_vars
  PROVE  DraftInv'
<1>1. Suggestions(Registered) \subseteq Suggestions(Registered')
  BY DEF Suggestions, LinesOf, Keeps
<1>2. CASE UNCHANGED draft
  BY <1>1, <1>2 DEF DraftInv, OneEach
<1>3. CASE Draft /\ UNCHANGED <<stock, billing>>
  <2>1. PICK answer \in ModelAnswers : draft' = Resolve(answer, reading.shown)
    BY <1>3 DEF Draft
  <2>2. answer \in Seq([code : Nat, quantity : Int])
    BY InvoicingAssumption
  <2>3. reading # NotReading /\ reading.query.listing = "code"
    BY <1>3 DEF Draft, ListedAll, NotReading, CataloguePage
  <2>4. \A i \in DOMAIN reading.shown : reading.shown[i].id \in Registered
    BY <2>3 DEF PagesInv, Anchored
  <2>5. NamesOnly(reading.shown, Registered)
    BY <2>4 DEF NamesOnly, Named, ToSet
  <2>6. DraftInv'
    <3>1. Registered' = Registered
      BY <1>3 DEF stock, Registered
    <3>2. /\ draft' \in Seq(Suggestions(Registered))
          /\ OneEach(draft')
          /\ Len(draft') <= MaxItems
      BY <2>1, <2>2, <2>5, ResolveIsUsable
    <3>3. QED
      BY <3>1, <3>2 DEF DraftInv, OneEach
  <2>7. QED
    BY <2>6
<1>4. QED
  BY <1>2, <1>3 DEF Next, vars, Read, FirstPage, NextPage
-----------------------------------------------------------------------------
(***************************************************************************)
(* Everything together.                                                    *)
(***************************************************************************)

Inv == CatalogueInv /\ BillingInv /\ ReadingTypeOK /\ PagesInv /\ OrdersInv /\ DraftInv

LEMMA InitInv == Init => Inv
BY CatalogueInitInv, BillingInitInv, InitOrders DEF Init, Inv, ReadingTypeOK, PagesInv

(* Stored invoices stay, with their numbers. *)
LEMMA StoredStay ==
  ASSUME BillingInv, [Next]_vars
  PROVE  \A q \in Stored : q \in Stored' /\ number'[q] = number[q]
<1>1. CASE UNCHANGED <<stage, number>>
  BY <1>1 DEF Stored
<1>2. ASSUME NEW r \in Requests, Issue(r) PROVE \A q \in Stored : q \in Stored' /\ number'[q] = number[q]
  <2>1. r \notin Stored /\ \A q \in Requests \ {r} : stage'[q] = stage[q] /\ number'[q] = number[q]
    BY <1>2 DEF Issue, CreateInvoice, Lookup, InsertInvoice, CommitInvoice, Goto, Stored, BillingInv, BillingTypeOK
  <2>2. QED
    BY <2>1 DEF Stored
<1>3. QED
  BY <1>1, <1>2 DEF Next, vars, billing

(* A page read, the first or the next. *)
LEMMA ReadPageKeeps ==
  ASSUME CatalogueInv, BillingInv, NEW query \in Queries, NEW cursor, NEW shown \in Seq(AllRows),
         ReadPage(query, cursor, shown), UNCHANGED <<stock, billing>>,
         stayed' \subseteq Rows(query),
         (cursor = NoCursor /\ shown = << >>) \/ (cursor # NoCursor /\ Exact(query, cursor, shown, stayed')),
         query.listing # "balance" => \A i \in DOMAIN shown : Anchored(query.listing, shown[i])
  PROVE  ReadingTypeOK' /\ PagesInv'
<1> DEFINE page == List(Rows(query), query.order, cursor, query.limit)
<1>1. reading' = [state |-> IF page.next = NoCursor THEN "done" ELSE "paging",
                  query |-> query, cursor |-> page.next, shown |-> shown \o page.items]
  BY DEF ReadPage
<1>2. Exact(query, page.next, shown \o page.items, stayed')
  BY ReadingOn, RowsAreListable
<1>3. page.items \in Seq(Rows(query)) /\ \A i \in DOMAIN page.items : page.items[i] \in Rows(query)
  <2>1. Listable(query.listing, Rows(query)) /\ query.limit \in Int
    BY RowsAreListable, InvoicingAssumption
  <2>2. IsCut(page, query.order, Rows(query), cursor)
    BY <2>1, PageIsACut
  <2>3. page.items \in Seq(Rows(query))
    BY <2>2 DEF IsCut
  <2> HIDE DEF page
  <2>4. QED
    BY <2>3
<1> HIDE DEF page
<1>4. shown \o page.items \in Seq(AllRows)
  <2>1. page.items \in Seq(AllRows)
    BY <1>3, RowsAreListable
  <2>2. QED
    BY <2>1
<1>5. page.next \in AllKeys \union {NoCursor}
  BY <1>2 DEF Exact, AllKeys, KeySpace
<1>6. \A r \in Rows(query) : Anchored(query.listing, r)
  BY RowsAreListable
<1>7. ASSUME query.listing # "balance", NEW i \in DOMAIN (shown \o page.items)
      PROVE  Anchored(query.listing, (shown \o page.items)[i])
  <2>1. CASE i \in 1 .. Len(shown)
    BY <1>3, <1>7, <2>1
  <2>2. CASE i \notin 1 .. Len(shown)
    <3>1. i - Len(shown) \in DOMAIN page.items /\ (shown \o page.items)[i] = page.items[i - Len(shown)]
      BY <1>3, <2>2
    <3>2. QED
      BY <1>3, <1>6, <3>1
  <2>3. QED
    BY <2>1, <2>2
<1>8. Rows(query)' = Rows(query) /\ \A row : Anchored(query.listing, row)' <=> Anchored(query.listing, row)
  BY DEF stock, billing, Rows, ListProducts, ListMovements, ListInvoices, Registered, Kept, Uses, Stored, Anchored
<1>9. ReadingTypeOK'
  BY <1>1, <1>4, <1>5 DEF ReadingTypeOK
<1>10. PagesInv'
  BY <1>1, <1>2, <1>7, <1>8 DEF PagesInv
<1>11. QED
  BY <1>9, <1>10

LEMMA ReadKeeps ==
  ASSUME CatalogueInv, BillingInv, ReadingTypeOK, PagesInv, Read, Watch, UNCHANGED <<stock, billing>>
  PROVE  ReadingTypeOK' /\ PagesInv'
<1>1. ASSUME NEW query \in Queries, FirstPage(query) PROVE ReadingTypeOK' /\ PagesInv'
  <2>1. reading'.query = query /\ reading'.state \in {"paging", "done"}
    BY <1>1 DEF FirstPage, ReadPage
  <2>2. stayed' = Rows(query)
    BY <1>1, <2>1 DEF FirstPage, Watch
  <2>3. ReadPage(query, NoCursor, << >>) /\ << >> \in Seq(AllRows)
    BY <1>1 DEF FirstPage
  <2>4. stayed' \subseteq Rows(query)
    BY <2>2
  <2>5. \A i \in DOMAIN << >> : FALSE
    OBVIOUS
  <2>6. PICK nothing \in Seq(AllRows) : nothing = << >>
    BY <2>3
  <2>7. ReadPage(query, NoCursor, nothing) /\ \A i \in DOMAIN nothing : Anchored(query.listing, nothing[i])
    BY <2>3, <2>5, <2>6
  <2>8. QED
    BY <2>4, <2>6, <2>7, ReadPageKeeps
<1>2. ASSUME reading.state = "paging", reading'.query = reading.query
      PROVE  stayed' = stayed /\ stayed \subseteq Rows(reading.query)
  <2>1. reading # NotReading /\ stayed \subseteq Rows(reading.query)
    BY <1>2 DEF NotReading, PagesInv
  <2>2. stayed' = stayed \intersect Rows(reading'.query)
    BY <1>2 DEF Watch, stock, billing, Rows, ListProducts, ListMovements, ListInvoices, Registered, Kept, Uses, Stored
  <2>3. QED
    BY <1>2, <2>1, <2>2
<1>3. CASE NextPage
  <2>1. reading.state = "paging" /\ reading # NotReading
    BY <1>3 DEF NextPage, NotReading
  <2>2. /\ reading.query \in Queries /\ reading.shown \in Seq(AllRows)
        /\ ReadPage(reading.query, reading.cursor, reading.shown)
    BY <1>3, <2>1 DEF NextPage, ReadingTypeOK
  <2>3. reading'.query = reading.query
    BY <2>2 DEF ReadPage
  <2>4. /\ stayed' = stayed /\ stayed \subseteq Rows(reading.query)
        /\ reading.cursor # NoCursor /\ Exact(reading.query, reading.cursor, reading.shown, stayed)
    BY <1>2, <2>1, <2>3 DEF PagesInv
  <2>5. reading.query.listing # "balance" =>
          \A i \in DOMAIN reading.shown : Anchored(reading.query.listing, reading.shown[i])
    BY <2>1 DEF PagesInv
  <2>6. QED
    BY <2>2, <2>4, <2>5, ReadPageKeeps
<1>4. CASE Draft
  <2>1. reading.state \in {"paging", "done"} /\ reading # NotReading /\ reading' = [reading EXCEPT !.state = "done"]
    BY <1>4 DEF Draft, ListedAll, NotReading
  <2>2. reading \in [state : {"paging", "done"}, query : Queries, cursor : AllKeys \union {NoCursor}, shown : Seq(AllRows)]
    BY <2>1 DEF ReadingTypeOK
  <2>3. /\ reading'.state = "done" /\ reading'.query = reading.query /\ reading'.cursor = reading.cursor
        /\ reading'.shown = reading.shown
        /\ reading' \in [state : {"paging", "done"}, query : Queries, cursor : AllKeys \union {NoCursor}, shown : Seq(AllRows)]
    BY <2>1, <2>2
  <2>4. stayed' = stayed
    BY <1>2, <2>1, <2>3 DEF Watch
  <2>5. \A listing, row : Anchored(listing, row)' <=> Anchored(listing, row)
    BY DEF stock, billing, Registered, Stored, Anchored
  <2>6. PagesInv'
    BY <2>1, <2>3, <2>4, <2>5 DEF PagesInv
  <2>7. QED
    BY <2>3, <2>6 DEF ReadingTypeOK
<1>5. QED
  BY <1>1, <1>3, <1>4 DEF Read

(* While nothing is read, rows only leave those that stayed. *)
LEMMA WaitingKeeps ==
  ASSUME BillingInv, Keeps, ReadingTypeOK, PagesInv, [Next]_vars, UNCHANGED reading, Watch \/ UNCHANGED vars
  PROVE  ReadingTypeOK' /\ PagesInv'
<1>1. ReadingTypeOK'
  BY DEF ReadingTypeOK
<1>2. stayed' \subseteq stayed /\ (reading.state = "paging" => stayed' \subseteq Rows(reading.query)')
  <2>1. CASE Watch
    <3>1. CASE reading.state = "paging"
      BY <2>1, <3>1 DEF Watch
    <3>2. CASE reading.state # "paging"
      BY <2>1, <3>2 DEF Watch
    <3>3. QED
      BY <3>1, <3>2
  <2>2. CASE UNCHANGED vars
    <3>1. Rows(reading.query)' = Rows(reading.query) /\ stayed' = stayed
      BY <2>2 DEF vars, stock, billing, Rows, ListProducts, ListMovements, ListInvoices, Registered, Kept, Uses, Stored
    <3>2. reading.state = "paging" => stayed \subseteq Rows(reading.query)
      BY DEF PagesInv, NotReading
    <3>3. QED
      BY <3>1, <3>2
  <2>3. QED
    BY <2>1, <2>2
<1>3. ASSUME reading # NotReading
      PROVE  /\ Exact(reading.query, reading.cursor, reading.shown, stayed')
             /\ reading.query.listing # "balance" =>
                  \A i \in DOMAIN reading.shown : Anchored(reading.query.listing, reading.shown[i])'
  <2>1. Exact(reading.query, reading.cursor, reading.shown, stayed)
    BY <1>3 DEF PagesInv
  <2>2. Exact(reading.query, reading.cursor, reading.shown, stayed')
    BY <1>2, <2>1 DEF Exact
  <2>3. ASSUME reading.query.listing # "balance", NEW i \in DOMAIN reading.shown
        PROVE  Anchored(reading.query.listing, reading.shown[i])'
    BY <1>3, <2>3, StoredStay DEF PagesInv, Anchored, Keeps
  <2>4. QED
    BY <2>2, <2>3
<1>4. PagesInv'
  BY <1>2, <1>3 DEF PagesInv
<1>5. QED
  BY <1>1, <1>4

LEMMA Step == Inv /\ [Next]_vars => Inv'
<1> SUFFICES ASSUME Inv, [Next]_vars PROVE Inv'
  OBVIOUS
<1>1. CatalogueInv' /\ BillingInv' /\ Keeps
  BY BillingStep DEF Inv
<1>2. OrdersInv' /\ DraftInv'
  BY <1>1, OrdersStep, DraftStep DEF Inv
<1>3. CASE Read /\ UNCHANGED <<stock, billing>> /\ Watch
  BY <1>1, <1>2, <1>3, ReadKeeps DEF Inv
<1>4. CASE UNCHANGED reading /\ (Watch \/ UNCHANGED vars)
  BY <1>1, <1>2, <1>4, WaitingKeeps DEF Inv
<1>5. QED
  BY <1>3, <1>4 DEF Next, vars

THEOREM Invariant == Spec => []Inv
BY InitInv, Step, PTL DEF Spec

(* The catalogue: whatever imports, edits and documents run at once, two   *)
(* products never share a code, and every answer to an import stays true.  *)
THEOREM CatalogueAnswersAreTrue == Spec => []CatalogueIsTruthful
<1>1. Inv => CatalogueIsTruthful
  BY DEF Inv, CatalogueInv, CodesAreUnique, AnswersAreTrue, CatalogueIsTruthful
<1>2. QED
  BY <1>1, Invariant, PTL

(* The registration of invoices: numbers are unique and in the order in    *)
(* which they were asked for, whatever is lost between the sequence and    *)
(* the answer.                                                             *)
THEOREM NumbersAreInOrder == Spec => []NumbersFollowTheClock
<1>1. Stored \subseteq Numbered
  BY DEF Stored, Numbered
<1>2. Inv => NumbersFollowTheClock
  BY <1>1 DEF Inv, BillingInv, SequenceIsAhead, NumbersFollowTheClock
<1>3. QED
  BY <1>2, Invariant, PTL

(* The items of an invoice are the catalogue at one moment of its request. *)
THEOREM ItemsAreOneReading == Spec => []ItemsAreASnapshot
<1>1. Inv => ItemsAreASnapshot
  BY DEF Inv, BillingInv, ItemsAreOfAMoment, ItemsAreASnapshot, Stored
<1>2. QED
  BY <1>1, Invariant, PTL

(* What an operator sent is what is invoiced: whatever was drafted, merged *)
(* and described on the way, an invoice has each product of its order once *)
(* and all the units of it.                                                *)
THEOREM InvoicesAreTheirOrders == Spec => []InvoicesHoldTheirOrders
<1>1. Inv => InvoicesHoldTheirOrders
  BY DEF Inv, OrdersInv, InvoicesHoldTheirOrders, Stored
<1>2. QED
  BY <1>1, Invariant, PTL

(* The assistant: the model's answer never puts a product in a draft that  *)
(* the catalogue does not have, nor any product twice.                     *)
THEOREM DraftsAreResolved == Spec => []DraftsAreOfTheCatalogue
<1>1. ASSUME DraftInv PROVE DraftsAreOfTheCatalogue
  <2>1. \A i \in DOMAIN draft : draft[i] \in Suggestions(Registered)
    BY <1>1 DEF DraftInv
  <2>2. \A line \in Suggestions(Registered) : line.product \in Registered /\ line.quantity > 0
    BY DEF Suggestions, LinesOf
  <2>3. QED
    BY <1>1, <2>1, <2>2 DEF DraftInv, OneEach, DraftsAreOfTheCatalogue
<1>2. Inv => DraftsAreOfTheCatalogue
  BY <1>1 DEF Inv
<1>3. QED
  BY <1>2, Invariant, PTL

(* One place, one time. *)
LEMMA ShownOnce ==
  ASSUME NEW k \in DOMAIN reading.shown, NEW id,
         \A i \in DOMAIN reading.shown : reading.shown[i].id = id <=> i = k
  PROVE  Times(id) = 1
<1>1. {i \in DOMAIN reading.shown : reading.shown[i].id = id} = {k}
  OBVIOUS
<1>2. QED
  BY <1>1, FS_Singleton DEF Times

(* The listings: for any writers between the pages, any limits and orders, *)
(* a row that stayed in its place is shown exactly once, and where keys    *)
(* never change nothing is shown twice.                                    *)
THEOREM PagingIsExact == Spec => []PagesAreExact
<1>1. ASSUME Inv, reading.state = "done", reading.cursor = NoCursor
      PROVE  /\ \A row \in stayed : Times(row.id) = 1
             /\ reading.query.listing # "balance" =>
                  \A i \in DOMAIN reading.shown : Times(reading.shown[i].id) = 1
  <2> DEFINE shown == reading.shown
             K == KeySpace(reading.query.listing)
  <2>1. reading # NotReading
    BY <1>1 DEF NotReading
  <2>2. /\ Exact(reading.query, NoCursor, shown, stayed)
        /\ reading.query.listing # "balance" => \A i \in DOMAIN shown : Anchored(reading.query.listing, shown[i])
        /\ shown \in Seq(AllRows) /\ reading.query.listing \in Listings
    BY <1>1, <2>1, InvoicingAssumption DEF Inv, ReadingTypeOK, PagesInv
  <2>3. \A i, j \in DOMAIN shown : shown[i].key = shown[j].key => i = j
    <3>1. \A i, j \in DOMAIN shown : i < j => shown[i].key # shown[j].key
      BY <2>2, KeysAreOrdered DEF Exact
    <3>2. \A i, j \in DOMAIN shown : i # j => i < j \/ j < i
      BY <2>2
    <3>3. QED
      BY <3>1, <3>2
  <2>4. ASSUME NEW row \in stayed PROVE Times(row.id) = 1
    <3>1. PICK k \in DOMAIN shown : shown[k] = row
      BY <2>2 DEF Exact
    <3>2. \A i \in DOMAIN shown : shown[i].id = row.id => shown[i] = row
      BY <2>2 DEF Exact
    <3>3. \A i \in DOMAIN shown : shown[i].id = row.id <=> i = k
      BY <2>3, <3>1, <3>2
    <3>4. QED
      BY <3>1, <3>3, ShownOnce
  <2>5. ASSUME reading.query.listing # "balance", NEW k \in DOMAIN shown PROVE Times(shown[k].id) = 1
    <3>1. \A i \in DOMAIN shown : shown[i].id = shown[k].id => shown[i].key = shown[k].key
      BY <2>2, <2>5 DEF Anchored, Listings
    <3>2. \A i \in DOMAIN shown : shown[i].id = shown[k].id <=> i = k
      BY <2>3, <3>1
    <3>3. QED
      BY <3>2, ShownOnce
  <2>6. QED
    BY <2>4, <2>5
<1>2. Inv => PagesAreExact
  BY <1>1 DEF PagesAreExact
<1>3. QED
  BY <1>2, Invariant, PTL
=============================================================================
