------------------------------ MODULE SetLemmas ------------------------------
(***************************************************************************)
(* What the proofs of several modules need of numbers, of finite sets and  *)
(* of sums over them.  Each follows from the well-foundedness of finite    *)
(* sets under inclusion.                                                   *)
(***************************************************************************)
EXTENDS Integers, FiniteSetsExt, FiniteSetTheorems, TLAPS

(* Every set of natural numbers that is not empty has a least one. *)
LEMMA LeastNumber ==
  ASSUME NEW S \in SUBSET Nat, S # {}
  PROVE  \E x \in S : \A y \in S : x <= y
<1> DEFINE Upto == {1 .. x : x \in S}
<1>1. Upto \subseteq FiniteSubsetsOf(Nat) /\ Upto # {}
  <2>1. ASSUME NEW x \in S PROVE 1 .. x \in FiniteSubsetsOf(Nat)
    BY FS_Interval DEF FiniteSubsetsOf
  <2>2. QED
    BY <2>1
<1>2. PICK A \in Upto : \A B \in Upto : <<B, A>> \notin StrictSubsetOrdering(Nat)
  <2>1. IsWellFoundedOn(StrictSubsetOrdering(Nat), FiniteSubsetsOf(Nat))
    BY FS_StrictSubsetOrderingWellFounded
  <2> HIDE DEF Upto
  <2>2. QED
    BY <1>1, <2>1, WFMin
<1>3. PICK x \in S : A = 1 .. x
  OBVIOUS
<1>4. ASSUME NEW y \in S, y < x PROVE FALSE
  <2>1. x \in 1 .. x /\ x \notin 1 .. y /\ (1 .. y) \subseteq (1 .. x)
    BY <1>4
  <2>2. <<1 .. y, 1 .. x>> \in StrictSubsetOrdering(Nat)
    BY <2>1 DEF StrictSubsetOrdering
  <2>3. QED
    BY <1>2, <1>3, <2>2
<1>5. QED
  BY <1>3, <1>4

(* The largest of a set of natural numbers with a bound. *)
LEMMA LargestNumber ==
  ASSUME NEW n \in Nat, NEW S \in SUBSET (0 .. n), S # {}
  PROVE  Max(S) \in S /\ \A y \in S : y <= Max(S)
<1> DEFINE Bounds == {k \in Nat : \A y \in S : y <= k}
<1>1. Bounds \in SUBSET Nat /\ n \in Bounds
  OBVIOUS
<1>2. PICK k \in Bounds : \A l \in Bounds : k <= l
  <2> HIDE DEF Bounds
  <2>1. QED
    BY <1>1, LeastNumber
<1>3. k \in S
  <2> SUFFICES ASSUME k \notin S PROVE FALSE
    OBVIOUS
  <2>1. \A y \in S : y <= k - 1 /\ k - 1 \in Nat
    OBVIOUS
  <2>2. k - 1 \in Bounds
    BY <2>1
  <2>3. QED
    BY <1>2, <2>2
<1>4. \E x \in S : \A y \in S : x >= y
  BY <1>3
<1>5. QED
  BY <1>4 DEF Max

(* Of the subsets of a finite set one has none of the others inside.       *)
LEMMA SmallestSet ==
  ASSUME NEW U, IsFiniteSet(U), NEW B \in SUBSET SUBSET U, B # {}
  PROVE  \E s \in B : \A t \in B : t \subseteq s => t = s
<1>1. B \subseteq FiniteSubsetsOf(U)
  <2>1. ASSUME NEW s \in B PROVE s \in FiniteSubsetsOf(U)
    <3>1. s \in SUBSET U
      OBVIOUS
    <3>2. IsFiniteSet(s)
      BY <3>1, FS_Subset
    <3>3. QED
      BY <3>1, <3>2 DEF FiniteSubsetsOf
  <2>2. QED
    BY <2>1
<1>2. IsWellFoundedOn(StrictSubsetOrdering(U), FiniteSubsetsOf(U))
  BY FS_StrictSubsetOrderingWellFounded
<1>3. PICK s \in B : \A t \in B : <<t, s>> \notin StrictSubsetOrdering(U)
  BY <1>1, <1>2, WFMin
<1>4. ASSUME NEW t \in B, t \subseteq s PROVE t = s
  <2> SUFFICES ASSUME t # s PROVE FALSE
    OBVIOUS
  <2>1. <<t, s>> \in StrictSubsetOrdering(U)
    BY <1>4 DEF StrictSubsetOrdering
  <2>2. QED
    BY <1>3, <2>1
<1>5. QED
  BY <1>4

-----------------------------------------------------------------------------
(* Sums: the member that SumFunctionOnSet takes first, and the function it *)
(* builds on the subsets of a set whose members have a weight.             *)
FirstOf(s) == CHOOSE x \in s : TRUE

IsSum(g, weight, T) ==
  g = [s \in SUBSET T |-> IF s = {} THEN 0 ELSE weight[FirstOf(s)] + g[s \ {FirstOf(s)}]]

(* The first member of a set is one of its members. *)
LEMMA FirstIsIn ==
  ASSUME NEW s, s # {}
  PROVE  FirstOf(s) \in s
BY DEF FirstOf

(* Two such functions agree where both are defined. *)
LEMMA SumsAgree ==
  ASSUME NEW weight, NEW U, IsFiniteSet(U), NEW S \in SUBSET U,
         NEW f, IsSum(f, weight, U), NEW g, IsSum(g, weight, S)
  PROVE  \A s \in SUBSET S : f[s] = g[s]
<1> DEFINE Bad == {s \in SUBSET S : f[s] # g[s]}
<1> SUFFICES ASSUME Bad # {} PROVE FALSE
  OBVIOUS
<1>1. PICK s \in Bad : \A t \in Bad : t \subseteq s => t = s
  <2>1. Bad \in SUBSET SUBSET U
    OBVIOUS
  <2> HIDE DEF Bad
  <2>2. QED
    BY <2>1, SmallestSet
<1>2. s \in SUBSET S /\ s \in SUBSET U /\ f[s] # g[s]
  OBVIOUS
<1>3. CASE s = {}
  BY <1>2, <1>3 DEF IsSum
<1>4. CASE s # {}
  <2> DEFINE t == s \ {FirstOf(s)}
  <2>1. FirstOf(s) \in s
    BY <1>4, FirstIsIn
  <2>2. f[s] = weight[FirstOf(s)] + f[t] /\ g[s] = weight[FirstOf(s)] + g[t]
    BY <1>2, <1>4 DEF IsSum
  <2>3. t \in SUBSET S /\ t \subseteq s /\ t # s
    BY <1>2, <2>1
  <2> HIDE DEF t
  <2>4. f[t] = g[t]
    BY <1>1, <2>3
  <2>5. QED
    BY <1>2, <2>2, <2>4
<1>5. QED
  BY <1>3, <1>4

(* SumFunctionOnSet is the value of such a function, if there is one. *)
LEMMA SumIsOne ==
  ASSUME NEW weight, NEW T, NEW f, IsSum(f, weight, T)
  PROVE  \E g : IsSum(g, weight, T) /\ SumFunctionOnSet(weight, T) = g[T]
<1> DEFINE iter[s \in SUBSET T] == IF s = {} THEN 0 ELSE weight[FirstOf(s)] + iter[s \ {FirstOf(s)}]
<1>1. SumFunctionOnSet(weight, T) = iter[T]
  BY DEF SumFunctionOnSet, FoldFunctionOnSet, MapThenFoldSet, FirstOf
<1>2. f = [s \in SUBSET T |-> IF s = {} THEN 0 ELSE weight[FirstOf(s)] + f[s \ {FirstOf(s)}]]
  BY DEF IsSum
<1>3. iter = [s \in SUBSET T |-> IF s = {} THEN 0 ELSE weight[FirstOf(s)] + iter[s \ {FirstOf(s)}]]
  BY <1>2
<1> HIDE DEF iter
<1>4. QED
  BY <1>1, <1>3 DEF IsSum

(* Where there is such a function, it gives the sum of every subset. *)
LEMMA SumOfEach ==
  ASSUME NEW weight, NEW U, IsFiniteSet(U), NEW f, IsSum(f, weight, U), NEW S \in SUBSET U
  PROVE  SumFunctionOnSet(weight, S) = f[S]
<1> DEFINE h == [s \in SUBSET S |-> f[s]]
<1>1. IsSum(h, weight, S)
  <2>1. ASSUME NEW s \in SUBSET S
        PROVE  h[s] = IF s = {} THEN 0 ELSE weight[FirstOf(s)] + h[s \ {FirstOf(s)}]
    <3>1. s \in SUBSET U /\ s \ {FirstOf(s)} \in SUBSET S
      OBVIOUS
    <3>2. f[s] = IF s = {} THEN 0 ELSE weight[FirstOf(s)] + f[s \ {FirstOf(s)}]
      BY <3>1 DEF IsSum
    <3>3. QED
      BY <3>1, <3>2
  <2>2. h = [s \in SUBSET S |-> h[s]]
    OBVIOUS
  <2> HIDE DEF h
  <2>3. QED
    BY <2>1, <2>2 DEF IsSum
<1>2. PICK g : IsSum(g, weight, S) /\ SumFunctionOnSet(weight, S) = g[S]
  BY <1>1, SumIsOne
<1>3. QED
  BY <1>2, SumsAgree

(* There is one on every finite set. *)
LEMMA SumExists ==
  ASSUME NEW weight, NEW U, IsFiniteSet(U)
  PROVE  \E f : IsSum(f, weight, U)
<1> DEFINE Bad == {T \in SUBSET U : \A f : ~ IsSum(f, weight, T)}
<1>1. Bad = {}
  <2> SUFFICES ASSUME Bad # {} PROVE FALSE
    OBVIOUS
  <2>1. PICK T \in Bad : \A t \in Bad : t \subseteq T => t = T
    <3>1. Bad \in SUBSET SUBSET U
      OBVIOUS
    <3> HIDE DEF Bad
    <3>2. QED
      BY <3>1, SmallestSet
  <2>2. T \in SUBSET U /\ IsFiniteSet(T) /\ \A f : ~ IsSum(f, weight, T)
    BY FS_Subset
  <2>3. \A t \in SUBSET T : t # T => \E f : IsSum(f, weight, t)
    <3>1. ASSUME NEW t \in SUBSET T, t # T PROVE \E f : IsSum(f, weight, t)
      <4>1. t \in SUBSET U /\ t \notin Bad
        BY <2>1, <2>2, <3>1
      <4>2. QED
        BY <4>1
    <3>2. QED
      BY <3>1
  <2> HIDE DEF Bad
  <2>4. ASSUME NEW t \in SUBSET T, t # T
        PROVE  SumFunctionOnSet(weight, t) =
                 IF t = {} THEN 0 ELSE weight[FirstOf(t)] + SumFunctionOnSet(weight, t \ {FirstOf(t)})
    <3>1. IsFiniteSet(t)
      BY <2>2, FS_Subset
    <3>2. PICK f : IsSum(f, weight, t)
      BY <2>3, <2>4
    <3>3. t \in SUBSET t /\ t \ {FirstOf(t)} \in SUBSET t
      OBVIOUS
    <3>4. /\ SumFunctionOnSet(weight, t) = f[t]
          /\ SumFunctionOnSet(weight, t \ {FirstOf(t)}) = f[t \ {FirstOf(t)}]
      BY <3>1, <3>2, <3>3, SumOfEach
    <3>5. f[t] = IF t = {} THEN 0 ELSE weight[FirstOf(t)] + f[t \ {FirstOf(t)}]
      BY <3>2, <3>3 DEF IsSum
    <3>6. QED
      BY <3>4, <3>5
  <2> DEFINE h == [s \in SUBSET T |->
                     IF s = {} THEN 0
                     ELSE weight[FirstOf(s)] + SumFunctionOnSet(weight, s \ {FirstOf(s)})]
  <2>5. ASSUME NEW s \in SUBSET T
        PROVE  h[s] = IF s = {} THEN 0 ELSE weight[FirstOf(s)] + h[s \ {FirstOf(s)}]
    <3>1. CASE s = {}
      BY <3>1
    <3>2. CASE s # {}
      <4>1. FirstOf(s) \in s
        BY <3>2, FirstIsIn
      <4>2. s \ {FirstOf(s)} \in SUBSET T /\ s \ {FirstOf(s)} # T
        BY <4>1
      <4>3. h[s \ {FirstOf(s)}] = SumFunctionOnSet(weight, s \ {FirstOf(s)})
        BY <2>4, <4>2
      <4>4. QED
        BY <3>2, <4>3
    <3>3. QED
      BY <3>1, <3>2
  <2>6. h = [s \in SUBSET T |-> h[s]]
    OBVIOUS
  <2> HIDE DEF h
  <2>7. IsSum(h, weight, T)
    BY <2>5, <2>6 DEF IsSum
  <2>8. QED
    BY <2>2, <2>7
<1>2. QED
  BY <1>1

(* The sum does not depend on the member it starts with. *)
LEMMA SumAdds ==
  ASSUME NEW weight, NEW U, IsFiniteSet(U), \A l \in U : weight[l] \in Int
  PROVE  /\ SumFunctionOnSet(weight, {}) = 0
         /\ \A S \in SUBSET U :
              /\ SumFunctionOnSet(weight, S) \in Int
              /\ \A x \in S : SumFunctionOnSet(weight, S) = weight[x] + SumFunctionOnSet(weight, S \ {x})
<1>1. PICK f : IsSum(f, weight, U)
  BY SumExists
<1>2. \A S \in SUBSET U : SumFunctionOnSet(weight, S) = f[S]
  BY <1>1, SumOfEach
<1>3. \A S \in SUBSET U : f[S] = IF S = {} THEN 0 ELSE weight[FirstOf(S)] + f[S \ {FirstOf(S)}]
  BY <1>1 DEF IsSum
<1> DEFINE Fine(S) == f[S] \in Int /\ \A x \in S : f[S] = weight[x] + f[S \ {x}]
           Bad == {S \in SUBSET U : ~ Fine(S)}
<1>4. Bad = {}
  <2> SUFFICES ASSUME Bad # {} PROVE FALSE
    OBVIOUS
  <2>1. PICK S \in Bad : \A t \in Bad : t \subseteq S => t = S
    <3>1. Bad \in SUBSET SUBSET U
      OBVIOUS
    <3> HIDE DEF Bad
    <3>2. QED
      BY <3>1, SmallestSet
  <2>2. S \in SUBSET U /\ ~ Fine(S)
    OBVIOUS
  <2>3. \A t \in SUBSET S : t # S => Fine(t)
    <3>1. ASSUME NEW t \in SUBSET S, t # S PROVE Fine(t)
      <4>1. t \in SUBSET U /\ t \notin Bad
        BY <2>1, <2>2, <3>1
      <4>2. QED
        BY <4>1
    <3>2. QED
      BY <3>1
  <2> HIDE DEF Bad
  <2>4. S # {}
    <3> SUFFICES ASSUME S = {} PROVE FALSE
      OBVIOUS
    <3>1. f[S] = 0 /\ \A x : x \notin S
      BY <1>3, <2>2
    <3>2. Fine(S)
      BY <3>1
    <3>3. QED
      BY <2>2, <3>2
  <2>5. PICK y \in S : y = FirstOf(S)
    BY <2>4, FirstIsIn
  <2>6. f[S] = weight[y] + f[S \ {y}] /\ weight[y] \in Int /\ f[S \ {y}] \in Int
    <3>1. S \ {y} \in SUBSET S /\ S \ {y} # S
      OBVIOUS
    <3>2. Fine(S \ {y})
      BY <2>3, <3>1
    <3>3. QED
      BY <1>3, <2>2, <2>4, <2>5, <3>2
  <2>7. ASSUME NEW x \in S PROVE f[S] = weight[x] + f[S \ {x}]
    <3>1. CASE x = y
      BY <2>6, <3>1
    <3>2. CASE x # y
      <4> DEFINE both == S \ {x, y}
      <4>1. /\ S \ {y} \in SUBSET S /\ S \ {y} # S /\ S \ {x} \in SUBSET S /\ S \ {x} # S
            /\ both \in SUBSET S /\ both # S
            /\ (S \ {y}) \ {x} = both /\ (S \ {x}) \ {y} = both /\ x \in S \ {y} /\ y \in S \ {x}
        BY <3>2
      <4> HIDE DEF both
      <4>2. Fine(S \ {y}) /\ Fine(S \ {x}) /\ Fine(both)
        BY <2>3, <4>1
      <4>3. f[S \ {y}] = weight[x] + f[both] /\ f[S \ {x}] = weight[y] + f[both] /\ f[both] \in Int
        BY <4>1, <4>2
      <4>4. weight[x] \in Int
        BY <2>2
      <4>5. QED
        BY <2>6, <4>3, <4>4
    <3>3. QED
      BY <3>1, <3>2
  <2>8. f[S] \in Int
    BY <2>6
  <2>9. Fine(S)
    BY <2>7, <2>8
  <2>10. QED
    BY <2>2, <2>9
<1>5. ASSUME NEW S \in SUBSET U
      PROVE  f[S] \in Int /\ \A x \in S : f[S] = weight[x] + f[S \ {x}] /\ S \ {x} \in SUBSET U
  BY <1>4
<1>6. f[{}] = 0 /\ {} \in SUBSET U
  BY <1>3
<1>7. QED
  BY <1>2, <1>5, <1>6

(* Sums by weights that agree on a set are the same. *)
LEMMA SameSum ==
  ASSUME NEW U, IsFiniteSet(U), NEW v, NEW w, \A x \in U : v[x] = w[x]
  PROVE  SumFunctionOnSet(v, U) = SumFunctionOnSet(w, U)
<1>1. PICK f : IsSum(f, v, U)
  BY SumExists
<1>2. IsSum(f, w, U)
  <2>1. ASSUME NEW s \in SUBSET U, s # {} PROVE v[FirstOf(s)] = w[FirstOf(s)]
    BY <2>1, FirstIsIn
  <2>2. \A s \in SUBSET U : f[s] = IF s = {} THEN 0 ELSE w[FirstOf(s)] + f[s \ {FirstOf(s)}]
    BY <1>1, <2>1 DEF IsSum
  <2>3. f = [s \in SUBSET U |-> f[s]]
    BY <1>1 DEF IsSum
  <2>4. QED
    BY <2>2, <2>3 DEF IsSum
<1>3. U \in SUBSET U
  OBVIOUS
<1>4. QED
  BY <1>1, <1>2, <1>3, SumOfEach
-----------------------------------------------------------------------------
(* What a fold builds on the subsets of 1 .. n, the last element being the *)
(* outermost.                                                              *)
IsFold(g, base, next, n) ==
  \A S \in SUBSET (1 .. n) : g[S] = IF S = {} THEN base ELSE next[Max(S)][g[S \ {Max(S)}]]

LEMMA FoldExists ==
  ASSUME NEW A, NEW base \in A, NEW n \in Nat, NEW next \in [1 .. n -> [A -> A]]
  PROVE  \E g \in [SUBSET (1 .. n) -> A] : IsFold(g, base, next, n)
<1> DEFINE Upto(m) == {g \in [SUBSET (1 .. m) -> A] :
                         \A S \in SUBSET (1 .. m) :
                           g[S] = IF S = {} THEN base ELSE next[Max(S)][g[S \ {Max(S)}]]}
           Bad == {m \in 0 .. n : Upto(m) = {}}
<1>1. Bad = {}
  <2> SUFFICES ASSUME Bad # {} PROVE FALSE
    OBVIOUS
  <2>1. PICK m \in Bad : \A k \in Bad : m <= k
    <3>1. Bad \in SUBSET Nat
      OBVIOUS
    <3> HIDE DEF Bad
    <3>2. QED
      BY <3>1, LeastNumber
  <2>2. m \in 0 .. n /\ m # 0
    <3>1. [S \in SUBSET (1 .. 0) |-> base] \in Upto(0)
      OBVIOUS
    <3>2. QED
      BY <3>1
  <2>3. PICK g \in Upto(m - 1) : TRUE
    <3>1. m - 1 \in 0 .. n /\ m - 1 < m
      BY <2>2
    <3> HIDE DEF Bad
    <3>2. m - 1 \notin Bad
      BY <2>1, <2>2, <3>1
    <3>3. QED
      BY <3>1, <3>2 DEF Bad
  <2> DEFINE h == [S \in SUBSET (1 .. m) |-> IF m \in S THEN next[m][g[S \ {m}]] ELSE g[S]]
  <2> HIDE DEF Bad
  <2>4. \A S \in SUBSET (1 .. m) : S \ {m} \in SUBSET (1 .. m - 1) /\ (m \notin S => S \in SUBSET (1 .. m - 1))
    BY <2>2
  <2>5. g \in [SUBSET (1 .. m - 1) -> A]
    OBVIOUS
  <2>6. next[m] \in [A -> A]
    BY <2>2
  <2>7. h \in [SUBSET (1 .. m) -> A]
    BY <2>4, <2>5, <2>6
  <2>8. ASSUME NEW S \in SUBSET (1 .. m)
        PROVE  h[S] = IF S = {} THEN base ELSE next[Max(S)][h[S \ {Max(S)}]]
    <3>1. CASE m \in S
      <4>1. Max(S) = m
        <5>1. m \in Nat /\ S \in SUBSET (0 .. m) /\ S # {}
          BY <2>2, <3>1
        <5>2. Max(S) \in S /\ \A j \in S : j <= Max(S)
          BY <5>1, LargestNumber
        <5>3. Max(S) \in 1 .. m /\ m <= Max(S)
          BY <3>1, <5>2
        <5>4. QED
          BY <2>2, <5>3
      <4>2. h[S] = next[m][g[S \ {m}]] /\ h[S \ {m}] = g[S \ {m}]
        BY <3>1
      <4>3. QED
        BY <3>1, <4>1, <4>2
    <3>2. CASE m \notin S
      <4>1. h[S] = g[S] /\ S \ {Max(S)} \in SUBSET (1 .. m) /\ m \notin S \ {Max(S)}
        BY <3>2
      <4>2. h[S \ {Max(S)}] = g[S \ {Max(S)}]
        BY <4>1
      <4>3. g[S] = IF S = {} THEN base ELSE next[Max(S)][g[S \ {Max(S)}]]
        BY <2>4, <3>2
      <4>4. QED
        BY <4>1, <4>2, <4>3
    <3>3. QED
      BY <3>1, <3>2
  <2>9. h \in Upto(m)
    BY <2>7, <2>8
  <2>10. m \in Bad /\ Upto(m) # {}
    BY <2>9
  <2>11. QED
    BY <2>10 DEF Bad
<1>2. Upto(n) # {}
  <2>1. n \in 0 .. n
    OBVIOUS
  <2> HIDE DEF Upto
  <2>2. QED
    BY <1>1, <2>1
<1>3. QED
  BY <1>2 DEF IsFold

(* As long as it stays in A, f does what next says.                        *)
IsFoldIn(A, f, base, next, n) ==
  /\ f[{}] = base
  /\ \A S \in SUBSET (1 .. n) :
       S # {} /\ f[S \ {Max(S)}] \in A => f[S] = next[Max(S)][f[S \ {Max(S)}]]

IsRun(run, base, next, n, last) ==
  run[0] = base /\ run[n] = last /\ \A k \in 1 .. n : run[k] = next[k][run[k - 1]]

(* A fold over 1 .. n goes from one number to the next.                    *)
LEMMA FoldRuns ==
  ASSUME NEW A, NEW base \in A, NEW n \in Nat, NEW next \in [1 .. n -> [A -> A]],
         NEW iter, IsFoldIn(A, iter, base, next, n)
  PROVE  \E run \in [0 .. n -> A] : IsRun(run, base, next, n, iter[1 .. n])
<1> DEFINE run == [k \in 0 .. n |-> iter[1 .. k]]
           Bad == {k \in 0 .. n : run[k] \notin A}
<1>1. ASSUME NEW k \in 1 .. n, run[k - 1] \in A PROVE run[k] = next[k][run[k - 1]]
  <2>1. Max(1 .. k) = k
    <3>1. k \in Nat /\ k \in 1 .. k /\ (1 .. k) \subseteq (0 .. k)
      OBVIOUS
    <3>2. Max(1 .. k) \in 1 .. k /\ \A j \in 1 .. k : j <= Max(1 .. k)
      BY <3>1, LargestNumber
    <3>3. Max(1 .. k) \in Int /\ Max(1 .. k) <= k /\ k <= Max(1 .. k)
      BY <3>1, <3>2
    <3>4. QED
      BY <3>1, <3>3
  <2>2. k \in 1 .. k /\ (1 .. k) \ {k} = 1 .. (k - 1) /\ (1 .. k) \subseteq (1 .. n)
    OBVIOUS
  <2>3. k \in 0 .. n /\ k - 1 \in 0 .. n
    OBVIOUS
  <2>4. run[k] = iter[1 .. k] /\ run[k - 1] = iter[1 .. (k - 1)]
    BY <2>3
  <2> HIDE DEF run
  <2>5. (1 .. k) \ {Max(1 .. k)} = 1 .. (k - 1) /\ 1 .. k # {}
    BY <2>1, <2>2
  <2>6. QED
    BY <1>1, <2>1, <2>2, <2>4, <2>5 DEF IsFoldIn
<1>2. run[0] = base
  <2>1. 1 .. 0 = {} /\ 0 \in 0 .. n
    OBVIOUS
  <2>2. QED
    BY <2>1 DEF IsFoldIn
<1>3. Bad = {}
  <2> SUFFICES ASSUME Bad # {} PROVE FALSE
    OBVIOUS
  <2>1. PICK k \in Bad : \A l \in Bad : k <= l
    <3>1. Bad \in SUBSET Nat
      OBVIOUS
    <3> HIDE DEF Bad
    <3>2. QED
      BY <3>1, LeastNumber
  <2>2. k \in 0 .. n /\ run[k] \notin A
    OBVIOUS
  <2>3. k \in 1 .. n /\ k - 1 \in 0 .. n /\ k - 1 < k
    BY <1>2, <2>2
  <2> HIDE DEF run
  <2>4. run[k - 1] \in A
    BY <2>1, <2>3
  <2>5. next[k][run[k - 1]] \in A
    BY <2>3, <2>4
  <2>6. QED
    BY <1>1, <2>2, <2>3, <2>4, <2>5
<1>4. run \in [0 .. n -> A] /\ run[n] = iter[1 .. n]
  <2>1. \A k \in 0 .. n : run[k] \in A
    BY <1>3
  <2>2. n \in 0 .. n
    OBVIOUS
  <2>3. QED
    BY <2>1, <2>2
<1>5. \A k \in 1 .. n : run[k] = next[k][run[k - 1]]
  <2>1. \A k \in 1 .. n : k - 1 \in 0 .. n
    OBVIOUS
  <2> HIDE DEF run
  <2>2. QED
    BY <1>1, <1>4, <2>1
<1> HIDE DEF run
<1>6. QED
  BY <1>2, <1>4, <1>5 DEF IsRun
=============================================================================
