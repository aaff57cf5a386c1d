---------------------------- MODULE Foundations ----------------------------
(***************************************************************************)
(* What the proofs of several modules rest on: extrema of sets of numbers, *)
(* recursion over numbers and finite sets, reachability in graphs, sums,   *)
(* and how sequences count and repeat.                                     *)
(***************************************************************************)
EXTENDS Integers, Sequences, FiniteSets, FiniteSetsExt, SequencesExt, Functions, Folds,
        FiniteSetTheorems, FunctionTheorems, SequenceTheorems, WellFoundedInduction, TLAPS

(***************************************************************************)
(* A set of integers with a bound has a first and a last element.          *)
(***************************************************************************)
LEMMA NatMin ==
  ASSUME NEW S \in SUBSET Nat, S # {}
  PROVE  \E m \in S : \A n \in S : m <= n
<1> DEFINE T == {0..n : n \in S}
           R == StrictSubsetOrdering(Nat)
<1>1. T \subseteq FiniteSubsetsOf(Nat) /\ T # {}
  <2>1. \A n \in S : IsFiniteSet(0..n) /\ 0..n \in SUBSET Nat
    BY FS_Interval
  <2> QED BY <2>1 DEF FiniteSubsetsOf
<1>2. \E x \in T : \A y \in T : ~(<<y, x>> \in R)
  <2>1. IsWellFoundedOn(R, FiniteSubsetsOf(Nat))
    BY FS_StrictSubsetOrderingWellFounded
  <2> HIDE DEF R, T
  <2> QED BY <1>1, <2>1, WFMin
<1>3. PICK m \in S : \A n \in S : ~(<<0..n, 0..m>> \in R)
  BY <1>2
<1>4. ASSUME NEW n \in S, n < m PROVE <<0..n, 0..m>> \in R
  <2>1. 0..n \subseteq 0..m /\ m \in 0..m /\ m \notin 0..n
    BY <1>4
  <2>2. 0..n \in SUBSET Nat /\ 0..m \in SUBSET Nat
    OBVIOUS
  <2>3. 0..n # 0..m
    BY <2>1
  <2> QED BY <2>1, <2>2, <2>3 DEF StrictSubsetOrdering
<1>5. \A n \in S : ~(n < m)
  <2> HIDE DEF R
  <2> QED BY <1>3, <1>4
<1> QED BY <1>5

LEMMA EveryNat ==
  ASSUME NEW S, 0 \in S, \A n \in Nat : n \in S => n + 1 \in S
  PROVE  \A n \in Nat : n \in S
<1> DEFINE Bad == {n \in Nat : n \notin S}
<1> SUFFICES ASSUME Bad # {} PROVE FALSE
  OBVIOUS
<1>1. PICK n \in Bad : \A i \in Bad : n <= i
  <2>1. Bad \in SUBSET Nat
    OBVIOUS
  <2> HIDE DEF Bad
  <2> QED BY <2>1, NatMin
<1>2. n \in Nat /\ n # 0 /\ n \notin S
  OBVIOUS
<1>3. n - 1 \in Nat /\ n - 1 \notin Bad
  <2> HIDE DEF Bad
  <2> QED BY <1>1, <1>2
<1>4. n - 1 \in S /\ (n - 1) + 1 = n
  BY <1>2, <1>3
<1> QED BY <1>2, <1>3, <1>4

LEMMA MinOfInts ==
  ASSUME NEW S \in SUBSET Int, S # {}, NEW lo \in Int, \A x \in S : lo <= x
  PROVE  /\ Min(S) \in S
         /\ \A x \in S : Min(S) <= x
<1> DEFINE N == {n \in Nat : n + lo \in S}
<1>1. N \in SUBSET Nat /\ N # {}
  <2>1. \A x \in S : x - lo \in N
    OBVIOUS
  <2> QED BY <2>1
<1>2. PICK n \in N : \A i \in N : n <= i
  <2> HIDE DEF N
  <2> QED BY <1>1, NatMin
<1>3. n + lo \in S
  OBVIOUS
<1>4. \A x \in S : n + lo <= x
  <2>1. \A x \in S : x - lo \in N
    OBVIOUS
  <2> QED BY <1>2, <2>1
<1> QED BY <1>3, <1>4, Zenon DEF Min

LEMMA MaxOfInts ==
  ASSUME NEW S \in SUBSET Int, S # {}, NEW hi \in Int, \A x \in S : x <= hi
  PROVE  /\ Max(S) \in S
         /\ \A x \in S : x <= Max(S)
<1> DEFINE N == {n \in Nat : hi - n \in S}
<1>1. N \in SUBSET Nat /\ N # {}
  <2>1. \A x \in S : hi - x \in N
    OBVIOUS
  <2> QED BY <2>1
<1>2. PICK n \in N : \A i \in N : n <= i
  <2> HIDE DEF N
  <2> QED BY <1>1, NatMin
<1>3. hi - n \in S
  OBVIOUS
<1>4. \A x \in S : x <= hi - n
  <2>1. ASSUME NEW x \in S PROVE n <= hi - x
    <3>1. hi - x \in N
      OBVIOUS
    <3> QED BY <1>2, <3>1
  <2> QED BY <2>1
<1> QED BY <1>3, <1>4, Zenon DEF Max

LEMMA MinIs ==
  ASSUME NEW S \in SUBSET Int, NEW m \in S, \A x \in S : m <= x
  PROVE  Min(S) = m
<1>1. S # {} /\ m \in Int
  OBVIOUS
<1>2. Min(S) \in S /\ \A x \in S : Min(S) <= x
  BY <1>1, MinOfInts
<1>3. Min(S) \in Int /\ Min(S) <= m /\ m <= Min(S)
  BY <1>2
<1> QED BY <1>1, <1>3

LEMMA MaxIs ==
  ASSUME NEW S \in SUBSET Int, NEW m \in S, \A x \in S : x <= m
  PROVE  Max(S) = m
<1>1. S # {} /\ m \in Int
  OBVIOUS
<1>2. Max(S) \in S /\ \A x \in S : x <= Max(S)
  BY <1>1, MaxOfInts
<1>3. Max(S) \in Int /\ Max(S) <= m /\ m <= Max(S)
  BY <1>2
<1> QED BY <1>1, <1>3

(***************************************************************************)
(* Among finite sets some are smallest, and some are largest.              *)
(***************************************************************************)
LEMMA SmallestSet ==
  ASSUME NEW V, IsFiniteSet(V), NEW Q \in SUBSET SUBSET V, Q # {}
  PROVE  \E S \in Q : \A T \in Q : T \subseteq S => T = S
<1> DEFINE Less == StrictSubsetOrdering(V)
<1>1. Q \subseteq FiniteSubsetsOf(V)
  BY FS_FiniteSubsetsOfFinite
<1>2. IsWellFoundedOn(Less, FiniteSubsetsOf(V))
  BY FS_StrictSubsetOrderingWellFounded
<1>3. PICK S \in Q : \A T \in Q : ~(<<T, S>> \in Less)
  <2> HIDE DEF Less
  <2> QED BY <1>1, <1>2, WFMin
<1>4. ASSUME NEW T \in Q, T \subseteq S, T # S PROVE <<T, S>> \in Less
  BY <1>4 DEF StrictSubsetOrdering
<1> HIDE DEF Less
<1>5. \A T \in Q : T \subseteq S => T = S
  BY <1>3, <1>4
<1> QED BY <1>5

LEMMA LargestSet ==
  ASSUME NEW V, IsFiniteSet(V), NEW Q \in SUBSET SUBSET V, Q # {}
  PROVE  \E S \in Q : \A T \in Q : S \subseteq T => T = S
<1> DEFINE R == {T \in SUBSET V : V \ T \in Q}
<1>0. \A S \in Q : V \ S \in SUBSET V /\ V \ (V \ S) = S
  OBVIOUS
<1>1. R \in SUBSET SUBSET V /\ R # {}
  <2>1. PICK S \in Q : TRUE
    OBVIOUS
  <2>2. V \ S \in R
    BY <1>0
  <2> QED BY <2>2
<1>2. PICK M \in R : \A N \in R : N \subseteq M => N = M
  <2> HIDE DEF R
  <2> QED BY <1>1, SmallestSet
<1>3. PICK S \in Q : M = V \ S
  BY <1>0
<1>4. ASSUME NEW T \in Q, S \subseteq T PROVE T = S
  <2>1. V \ T \in R /\ V \ T \subseteq M
    BY <1>0, <1>3, <1>4
  <2>2. V \ T = V \ S
    BY <1>2, <1>3, <2>1
  <2>3. S \in SUBSET V /\ T \in SUBSET V
    OBVIOUS
  <2> QED BY <2>2, <2>3
<1> QED BY <1>4

-----------------------------------------------------------------------------
(***************************************************************************)
(* A function over the numbers that is defined by recursion.               *)
(***************************************************************************)
Iterate(f, R, a, step) ==
  f \in [Nat -> R] /\ \A n \in Nat : f[n] = IF n = 0 THEN a ELSE step[f[n - 1]]

LEMMA Iterates ==
  ASSUME NEW R, NEW a \in R, NEW step \in [R -> R]
  PROVE  \E f : Iterate(f, R, a, step)
<1> DEFINE Is(g, n) == g[0] = a /\ \A i \in 1..n : g[i] = step[g[i - 1]]
           Has(n) == \E g \in [0..n -> R] : Is(g, n)
           Bad == {n \in Nat : ~Has(n)}
<1>1. Has(0)
  <2> DEFINE g == [i \in 0..0 |-> a]
  <2>1. g \in [0..0 -> R] /\ Is(g, 0)
    OBVIOUS
  <2> QED BY <2>1
<1>2. ASSUME NEW n \in Nat, Has(n) PROVE Has(n + 1)
  <2>1. PICK g \in [0..n -> R] : Is(g, n)
    BY <1>2
  <2> DEFINE h == [i \in 0..n + 1 |-> IF i = n + 1 THEN step[g[n]] ELSE g[i]]
  <2>2. h \in [0..n + 1 -> R]
    OBVIOUS
  <2>3. h[0] = a
    BY <2>1
  <2>4. ASSUME NEW i \in 1..n + 1 PROVE h[i] = step[h[i - 1]]
    BY <2>1
  <2> HIDE DEF h
  <2> QED BY <2>2, <2>3, <2>4
<1>3. \A n \in Nat : Has(n)
  <2> SUFFICES ASSUME Bad # {} PROVE FALSE
    OBVIOUS
  <2>1. Bad \in SUBSET Nat
    OBVIOUS
  <2>2. PICK n \in Bad : \A k \in Bad : n <= k
    <3> HIDE DEF Bad
    <3> QED BY <2>1, NatMin
  <2>3. n # 0
    BY <1>1
  <2>4. n - 1 \in Nat /\ n - 1 \notin Bad /\ (n - 1) + 1 = n
    <3> HIDE DEF Has
    <3> QED BY <2>2, <2>3
  <2> HIDE DEF Has
  <2> QED BY <1>2, <2>4
<1> DEFINE c(n) == CHOOSE g \in [0..n -> R] : Is(g, n)
<1>4. \A n \in Nat : c(n) \in [0..n -> R] /\ Is(c(n), n)
  <2> HIDE DEF Is
  <2> QED BY <1>3
<1>5. ASSUME NEW n \in Nat, NEW g, NEW h, NEW m \in Nat, Is(g, n), Is(h, m)
      PROVE  \A i \in Nat : i <= n /\ i <= m => g[i] = h[i]
  <2> DEFINE Differ == {i \in Nat : i <= n /\ i <= m /\ g[i] # h[i]}
  <2> SUFFICES ASSUME Differ # {} PROVE FALSE
    OBVIOUS
  <2>1. PICK i \in Differ : \A k \in Differ : i <= k
    <3>1. Differ \in SUBSET Nat
      OBVIOUS
    <3> HIDE DEF Differ
    <3> QED BY <3>1, NatMin
  <2>2. i # 0
    BY <1>5
  <2>3. i - 1 \in Nat /\ i - 1 <= n /\ i - 1 <= m /\ i - 1 \notin Differ
    <3>1. i \in Nat /\ i <= n /\ i <= m
      OBVIOUS
    <3> HIDE DEF Differ
    <3> QED BY <2>1, <2>2, <3>1
  <2>4. g[i - 1] = h[i - 1]
    BY <2>3
  <2>5. i \in 1..n /\ i \in 1..m
    BY <2>2
  <2> QED BY <1>5, <2>4, <2>5
<1> DEFINE f == [n \in Nat |-> c(n)[n]]
<1>6. ASSUME NEW n \in Nat PROVE f[n] \in R /\ f[n] = IF n = 0 THEN a ELSE step[f[n - 1]]
  <2>1. c(n) \in [0..n -> R] /\ Is(c(n), n)
    BY <1>4
  <2>2. CASE n = 0
    <3> HIDE DEF c
    <3> QED BY <2>1, <2>2
  <2>3. CASE n # 0
    <3>1. n - 1 \in Nat /\ n \in 1..n /\ n - 1 <= n /\ n - 1 \in 0..n - 1
      BY <2>3
    <3>2. c(n - 1) \in [0..n - 1 -> R] /\ Is(c(n - 1), n - 1)
      BY <1>4, <3>1
    <3>3. c(n)[n - 1] = c(n - 1)[n - 1]
      <4> HIDE DEF c, Is
      <4> QED BY <1>5, <2>1, <3>1, <3>2
    <3>4. c(n)[n] = step[c(n)[n - 1]]
      <4> HIDE DEF c
      <4> QED BY <2>1, <3>1
    <3> HIDE DEF c, Is
    <3> QED BY <2>1, <2>3, <3>1, <3>3, <3>4
  <2> QED BY <2>2, <2>3
<1>7. f \in [Nat -> R]
  <2>1. f = [n \in Nat |-> f[n]]
    OBVIOUS
  <2> HIDE DEF f
  <2> QED BY <1>6, <2>1
<1> HIDE DEF f
<1> QED BY <1>6, <1>7 DEF Iterate

(***************************************************************************)
(* A fold over a finite set of numbers that takes the largest last: it is  *)
(* defined, and what each step keeps holds at the end.                     *)
(***************************************************************************)
Folded(it, S, base, g) ==
  \A T \in SUBSET S :
    it[T] = IF T = {} THEN base ELSE g[it[T \ {Max(T)}]][Max(T)]

LEMMA MaxOfNats ==
  ASSUME NEW N \in Nat, NEW T \in SUBSET (0..N), T # {}
  PROVE  Max(T) \in T /\ \A x \in T : x <= Max(T)
<1>1. T \in SUBSET Int /\ \A x \in T : x <= N
  OBVIOUS
<1> QED BY <1>1, MaxOfInts

LEMMA FoldExists ==
  ASSUME NEW N \in Nat, NEW S \in SUBSET (0..N),
         NEW R, NEW base \in R, NEW g \in [R -> [S -> R]]
  PROVE  \E it \in [SUBSET S -> R] : Folded(it, S, base, g)
<1> DEFINE Upto(n) == {x \in S : x < n}
           Has(n) == \E it \in [SUBSET Upto(n) -> R] : Folded(it, Upto(n), base, g)
           Bad == {n \in Nat : ~Has(n)}
<1>0. \A x \in S : x \in Nat /\ x <= N
  OBVIOUS
<1>1. Has(0)
  <2> DEFINE it == [T \in SUBSET Upto(0) |-> base]
  <2>1. Upto(0) = {}
    <3>1. \A x \in S : ~(x < 0)
      BY <1>0
    <3> QED BY <3>1
  <2>2. it \in [SUBSET Upto(0) -> R] /\ Folded(it, Upto(0), base, g)
    BY <2>1 DEF Folded
  <2> QED BY <2>2
<1>2. ASSUME NEW n \in Nat, Has(n) PROVE Has(n + 1)
  <2>1. PICK it \in [SUBSET Upto(n) -> R] : Folded(it, Upto(n), base, g)
    BY <1>2
  <2> DEFINE more == [T \in SUBSET Upto(n + 1) |->
                        IF n \in T THEN g[it[T \ {n}]][n] ELSE it[T]]
  <2>2. ASSUME NEW T \in SUBSET Upto(n + 1)
        PROVE  /\ n \in T => T \ {n} \in SUBSET Upto(n) /\ n \in S /\ Max(T) = n
               /\ n \notin T => T \in SUBSET Upto(n)
    <3>1. CASE n \in T
      <4>1. T \in SUBSET Int /\ \A x \in T : x <= n
        BY <1>0
      <4>2. Max(T) = n
        BY <3>1, <4>1, MaxIs
      <4> QED BY <3>1, <4>2
    <3>2. CASE n \notin T
      <4>1. ASSUME NEW x \in T PROVE x \in S /\ x < n
        <5>1. x \in S /\ x < n + 1 /\ x # n
          BY <3>2
        <5>2. x \in Nat
          BY <1>0, <5>1
        <5> QED BY <5>1, <5>2
      <4> QED BY <3>2, <4>1
    <3> QED BY <3>1, <3>2
  <2>3. more \in [SUBSET Upto(n + 1) -> R]
    <3>1. ASSUME NEW T \in SUBSET Upto(n + 1)
          PROVE  (IF n \in T THEN g[it[T \ {n}]][n] ELSE it[T]) \in R
      <4> HIDE DEF Upto
      <4> QED BY <2>2
    <3> HIDE DEF Upto
    <3> QED BY <3>1
  <2>4. ASSUME NEW T \in SUBSET Upto(n + 1)
        PROVE  more[T] = IF T = {} THEN base ELSE g[more[T \ {Max(T)}]][Max(T)]
    <3>1. CASE n \in T
      <4>1. T \ {n} \in SUBSET Upto(n) /\ Max(T) = n /\ n \notin T \ {n}
            /\ T \ {n} \in SUBSET Upto(n + 1)
        BY <2>2, <3>1
      <4> HIDE DEF Upto
      <4>2. more[T \ {n}] = it[T \ {n}] /\ more[T] = g[it[T \ {n}]][n]
        BY <3>1, <4>1
      <4> HIDE DEF more
      <4> QED BY <3>1, <4>1, <4>2
    <3>2. CASE n \notin T
      <4>1. T \in SUBSET Upto(n)
        BY <2>2, <3>2
      <4>2. T \ {Max(T)} \in SUBSET Upto(n + 1) /\ n \notin T \ {Max(T)}
        BY <3>2
      <4>3. it[T] = IF T = {} THEN base ELSE g[it[T \ {Max(T)}]][Max(T)]
        BY <2>1, <4>1 DEF Folded
      <4> HIDE DEF Upto
      <4>4. more[T] = it[T] /\ more[T \ {Max(T)}] = it[T \ {Max(T)}]
        BY <3>2, <4>2
      <4> HIDE DEF more
      <4> QED BY <4>3, <4>4
    <3> QED BY <3>1, <3>2
  <2> HIDE DEF more, Upto
  <2> QED BY <2>3, <2>4 DEF Folded
<1>3. \A n \in Nat : Has(n)
  <2> SUFFICES ASSUME Bad # {} PROVE FALSE
    OBVIOUS
  <2>1. Bad \in SUBSET Nat
    OBVIOUS
  <2>2. PICK n \in Bad : \A k \in Bad : n <= k
    <3> HIDE DEF Bad
    <3> QED BY <2>1, NatMin
  <2>3. n # 0
    BY <1>1
  <2>4. n - 1 \in Nat /\ n - 1 \notin Bad /\ (n - 1) + 1 = n
    <3> HIDE DEF Has
    <3> QED BY <2>2, <2>3
  <2> HIDE DEF Has
  <2> QED BY <1>2, <2>4
<1>4. Upto(N + 1) = S
  <2>1. \A x \in S : x < N + 1
    BY <1>0
  <2> QED BY <2>1
<1>5. Has(N + 1)
  <2> HIDE DEF Has
  <2> QED BY <1>3
<1> HIDE DEF Upto
<1> QED BY <1>4, <1>5

LEMMA FoldKeeps ==
  ASSUME NEW S, IsFiniteSet(S), \A T \in (SUBSET S) \ {{}} : Max(T) \in T,
         NEW Good, NEW it,
         it[{}] \in Good[{}],
         \A T \in (SUBSET S) \ {{}} :
           it[T \ {Max(T)}] \in Good[T \ {Max(T)}] => it[T] \in Good[T]
  PROVE  it[S] \in Good[S]
<1> DEFINE Bad == {T \in SUBSET S : it[T] \notin Good[T]}
<1> SUFFICES ASSUME Bad # {} PROVE FALSE
  OBVIOUS
<1>1. PICK T \in Bad : \A W \in Bad : W \subseteq T => W = T
  <2>1. Bad \in SUBSET SUBSET S
    OBVIOUS
  <2> HIDE DEF Bad
  <2> QED BY <2>1, SmallestSet
<1>2. T \in (SUBSET S) \ {{}}
  OBVIOUS
<1>3. Max(T) \in T
  BY <1>2
<1>4. T \ {Max(T)} \in SUBSET S /\ T \ {Max(T)} \notin Bad
  <2>1. T \ {Max(T)} \subseteq T /\ T \ {Max(T)} # T
    BY <1>3
  <2> HIDE DEF Bad
  <2> QED BY <1>1, <1>2, <2>1
<1> QED BY <1>2, <1>4

-----------------------------------------------------------------------------
(***************************************************************************)
(* Graphs on V: U[x] is what can be reached from x in one step, and Above  *)
(* what can be reached in any number of steps.                             *)
(***************************************************************************)
Closed(U, S) == \A x \in S : U[x] \subseteq S
Above(V, U, m) == {x \in V : \A S \in SUBSET V : m \in S /\ Closed(U, S) => x \in S}
NoCycle(V, U) == \A a \in V : \A b \in U[a] : a \notin Above(V, U, b)

LEMMA AboveIs ==
  ASSUME NEW V, NEW U \in [V -> SUBSET V], NEW m \in V
  PROVE  /\ Above(V, U, m) \in SUBSET V /\ m \in Above(V, U, m)
         /\ \A x \in Above(V, U, m) : U[x] \subseteq Above(V, U, m)
         /\ \A S \in SUBSET V : m \in S /\ Closed(U, S) => Above(V, U, m) \subseteq S
BY DEF Above, Closed

LEMMA AboveAbove ==
  ASSUME NEW V, NEW U \in [V -> SUBSET V], NEW m \in V, NEW x \in Above(V, U, m)
  PROVE  Above(V, U, x) \subseteq Above(V, U, m)
<1>1. Above(V, U, m) \in SUBSET V /\ Closed(U, Above(V, U, m))
  BY AboveIs DEF Closed
<1>2. x \in V
  BY <1>1
<1> QED BY <1>1, <1>2, AboveIs

LEMMA AboveFirst ==
  ASSUME NEW V, NEW U \in [V -> SUBSET V], NEW m \in V, NEW x \in Above(V, U, m), x # m
  PROVE  \E y \in U[m] : x \in Above(V, U, y)
<1> DEFINE S == {m} \cup {z \in V : \E y \in U[m] : z \in Above(V, U, y)}
<1>1. S \in SUBSET V /\ m \in S
  OBVIOUS
<1>2. ASSUME NEW z \in S, NEW w \in U[z] PROVE w \in S
  <2>1. z \in V /\ w \in V
    OBVIOUS
  <2>2. CASE z = m
    <3>1. w \in U[m] /\ w \in Above(V, U, w)
      BY <2>1, <2>2, AboveIs
    <3> QED BY <2>1, <3>1
  <2>3. CASE z # m
    <3>1. PICK y \in U[m] : z \in Above(V, U, y)
      BY <2>3
    <3>2. w \in Above(V, U, y)
      BY <3>1, AboveIs
    <3> QED BY <2>1, <3>2
  <2> QED BY <2>2, <2>3
<1>3. Above(V, U, m) \subseteq S
  <2> HIDE DEF S
  <2>1. Closed(U, S)
    BY <1>2 DEF Closed
  <2> QED BY <1>1, <2>1, AboveIs
<1> QED BY <1>3

LEMMA AboveLast ==
  ASSUME NEW V, NEW U \in [V -> SUBSET V], NEW m \in V, NEW x \in Above(V, U, m), x # m
  PROVE  \E y \in Above(V, U, m) : x \in U[y]
<1> DEFINE S == {z \in Above(V, U, m) : z = m \/ \E y \in Above(V, U, m) : z \in U[y]}
<1>1. /\ Above(V, U, m) \in SUBSET V /\ m \in Above(V, U, m)
      /\ \A z \in Above(V, U, m) : U[z] \subseteq Above(V, U, m)
  BY AboveIs
<1>2. S \in SUBSET V /\ m \in S /\ Closed(U, S)
  BY <1>1 DEF Closed
<1>3. Above(V, U, m) \subseteq S
  <2> HIDE DEF S
  <2> QED BY <1>2, AboveIs
<1> QED BY <1>3

LEMMA FewerEdges ==
  ASSUME NEW V, NEW U \in [V -> SUBSET V], NEW W \in [V -> SUBSET V],
         \A x \in V : W[x] \subseteq U[x]
  PROVE  /\ \A m \in V : Above(V, W, m) \subseteq Above(V, U, m)
         /\ NoCycle(V, U) => NoCycle(V, W)
<1>1. ASSUME NEW m \in V PROVE Above(V, W, m) \subseteq Above(V, U, m)
  <2>1. /\ Above(V, U, m) \in SUBSET V /\ m \in Above(V, U, m)
        /\ \A x \in Above(V, U, m) : U[x] \subseteq Above(V, U, m)
    BY AboveIs
  <2>2. Closed(W, Above(V, U, m))
    BY <2>1 DEF Closed
  <2> QED BY <2>1, <2>2, AboveIs
<1> QED BY <1>1 DEF NoCycle

(***************************************************************************)
(* Edges from every x in X to every t in T make no cycle if no x is above  *)
(* a t.                                                                    *)
(***************************************************************************)
EdgesAdded(V, U, W, X, T) ==
  /\ \A x \in V : W[x] = IF x \in X THEN U[x] \cup T ELSE U[x]
  /\ \A x \in X, t \in T : x \notin Above(V, U, t)

Through(V, U, X, T, m) ==
  {y \in V : \E x \in X, t \in T : x \in Above(V, U, m) /\ y \in Above(V, U, t)}

LEMMA MoreEdges ==
  ASSUME NEW V, NEW U \in [V -> SUBSET V], NEW W \in [V -> SUBSET V],
         NEW X \in SUBSET V, NEW T \in SUBSET V, EdgesAdded(V, U, W, X, T)
  PROVE  /\ \A m \in V : Above(V, W, m) = Above(V, U, m) \cup Through(V, U, X, T, m)
         /\ NoCycle(V, U) => NoCycle(V, W)
<1> USE DEF EdgesAdded, Through
<1> DEFINE Via(m) == Through(V, U, X, T, m)
<1>0. \A m \in V : Above(V, U, m) \in SUBSET V /\ Above(V, W, m) \in SUBSET V /\ m \in Above(V, U, m)
  BY AboveIs
<1>1. ASSUME NEW m \in V
      PROVE  Above(V, W, m) \subseteq Above(V, U, m) \cup Via(m)
  <2> DEFINE S == Above(V, U, m) \cup Via(m)
  <2>1. S \in SUBSET V /\ m \in S
    BY <1>0
  <2>2. ASSUME NEW z \in S, NEW w \in W[z] PROVE w \in S
    <3>1. z \in V /\ w \in V
      BY <2>1
    <3>2. CASE z \in X /\ w \in T
      <4>1. PICK x \in X : x \in Above(V, U, m)
        BY <3>2
      <4>2. w \in Above(V, U, w)
        BY <1>0, <3>1
      <4> QED BY <3>1, <3>2, <4>1, <4>2
    <3>3. CASE w \in U[z]
      <4>1. CASE z \in Above(V, U, m)
        BY <3>3, <4>1, AboveIs
      <4>2. CASE z \in Via(m)
        <5>1. PICK x \in X, t \in T : x \in Above(V, U, m) /\ z \in Above(V, U, t)
          BY <4>2
        <5>2. w \in Above(V, U, t)
          BY <3>3, <5>1, AboveIs
        <5> QED BY <3>1, <5>1, <5>2
      <4> QED BY <4>1, <4>2
    <3> QED BY <3>1, <3>2, <3>3
  <2> HIDE DEF S
  <2>3. Closed(W, S)
    BY <2>2 DEF Closed
  <2>4. Above(V, W, m) \subseteq S
    BY <2>1, <2>3, AboveIs
  <2> QED BY <2>4 DEF S
<1>2. ASSUME NEW m \in V PROVE Above(V, U, m) \subseteq Above(V, W, m)
  <2>1. \A x \in V : U[x] \subseteq W[x]
    OBVIOUS
  <2> QED BY <2>1, FewerEdges
<1>3. ASSUME NEW m \in V PROVE Via(m) \subseteq Above(V, W, m)
  <2> SUFFICES ASSUME NEW y \in V, NEW x \in X, NEW t \in T,
                      x \in Above(V, U, m), y \in Above(V, U, t)
               PROVE  y \in Above(V, W, m)
    OBVIOUS
  <2>1. x \in Above(V, W, m) /\ y \in Above(V, W, t)
    BY <1>2
  <2>2. t \in W[x]
    OBVIOUS
  <2>3. t \in Above(V, W, m)
    BY <2>1, <2>2, AboveIs
  <2> QED BY <2>1, <2>3, AboveAbove
<1>4. ASSUME NoCycle(V, U), NEW a \in V, NEW b \in W[a], a \in Above(V, W, b) PROVE FALSE
  <2>1. b \in V
    OBVIOUS
  <2>2. CASE a \in X /\ b \in T
    <3>1. a \notin Above(V, U, b)
      BY <2>2
    <3>2. \A t \in T : a \notin Above(V, U, t)
      BY <2>2
    <3> QED BY <1>1, <1>4, <2>1, <3>1, <3>2
  <2>3. CASE b \in U[a]
    <3>1. a \notin Above(V, U, b)
      BY <1>4, <2>3 DEF NoCycle
    <3>2. PICK x \in X, t \in T : x \in Above(V, U, b) /\ a \in Above(V, U, t)
      BY <1>1, <1>4, <2>1, <3>1
    <3>3. b \in Above(V, U, t)
      BY <2>3, <3>2, AboveIs
    <3>4. x \in Above(V, U, t)
      BY <3>2, <3>3, AboveAbove
    <3> QED BY <3>4
  <2> QED BY <2>2, <2>3
<1>5. NoCycle(V, U) => NoCycle(V, W)
  BY <1>4 DEF NoCycle
<1> QED BY <1>1, <1>2, <1>3, <1>5

(***************************************************************************)
(* A new element put above g, and one put below g; and the ways that go on *)
(* above g2 moved to g1, and m put above g2.                               *)
(***************************************************************************)
Loose(V, U, n) == U[n] = {} /\ \A x \in V : n \notin U[x]

PutAbove(V, U, W, n, g) ==
  \A x \in V : W[x] = IF x = g THEN {n} ELSE IF x = n THEN U[g] ELSE U[x]

PutBelow(V, U, W, n, g) ==
  \A x \in V : W[x] = IF x = n THEN {g}
                      ELSE IF g \in U[x] THEN (U[x] \ {g}) \cup {n} ELSE U[x]

OthersKept(V, U, W, n) ==
  \A x, y \in V : x # n /\ y # n => (y \in Above(V, W, x) <=> y \in Above(V, U, x))

LEMMA InsertAbove ==
  ASSUME NEW V, NEW U \in [V -> SUBSET V], NEW W \in [V -> SUBSET V],
         NEW n \in V, NEW g \in V, g # n, Loose(V, U, n), PutAbove(V, U, W, n, g)
  PROVE  OthersKept(V, U, W, n) /\ (NoCycle(V, U) => NoCycle(V, W))
<1> USE DEF Loose, PutAbove
<1>1. ASSUME NEW x \in V, x # n
      PROVE  /\ \A y \in Above(V, W, x) : y \in Above(V, U, x) \/ (y = n /\ g \in Above(V, U, x))
             /\ Above(V, U, x) \subseteq Above(V, W, x)
  <2> DEFINE S == {y \in V : y \in Above(V, U, x) \/ (y = n /\ g \in Above(V, U, x))}
  <2>0. Above(V, U, x) \in SUBSET V /\ x \in Above(V, U, x) /\ Above(V, W, x) \in SUBSET V
        /\ x \in Above(V, W, x)
    BY AboveIs
  <2>1. \A z \in Above(V, U, x) : U[z] \subseteq Above(V, U, x)
    BY AboveIs
  <2>2. \A z \in Above(V, W, x) : W[z] \subseteq Above(V, W, x)
    BY AboveIs
  <2>3. S \in SUBSET V /\ x \in S /\ Closed(W, S)
    <3>1. ASSUME NEW z \in S, NEW w \in W[z] PROVE w \in S
      <4>1. w \in V /\ z \in V
        OBVIOUS
      <4>2. CASE z = g
        BY <2>0, <4>1, <4>2
      <4>3. CASE z = n
        <5>1. n \notin Above(V, U, x)
          <6>1. ASSUME n \in Above(V, U, x) PROVE FALSE
            BY <1>1, <6>1, AboveLast, <2>0
          <6> QED BY <6>1
        <5>2. g \in Above(V, U, x) /\ w \in U[g]
          BY <4>3, <5>1
        <5> QED BY <2>1, <4>1, <5>2
      <4>4. CASE z # g /\ z # n
        BY <2>1, <4>1, <4>4
      <4> QED BY <4>2, <4>3, <4>4
    <3> HIDE DEF S
    <3>2. Closed(W, S)
      BY <3>1 DEF Closed
    <3> QED BY <2>0, <3>2 DEF S
  <2>4. Above(V, W, x) \subseteq S
    <3> HIDE DEF S
    <3> QED BY <2>3, AboveIs
  <2>5. Closed(U, Above(V, W, x))
    <3>1. ASSUME NEW z \in Above(V, W, x), NEW w \in U[z] PROVE w \in Above(V, W, x)
      <4>1. z \in V /\ z # n
        BY <2>0
      <4>2. CASE z = g
        <5>1. n \in Above(V, W, x)
          BY <2>2, <4>2
        <5> QED BY <2>2, <4>2, <5>1
      <4>3. CASE z # g
        BY <2>2, <4>1, <4>3
      <4> QED BY <4>2, <4>3
    <3> QED BY <3>1 DEF Closed
  <2>6. Above(V, U, x) \subseteq Above(V, W, x)
    BY <2>0, <2>5, AboveIs
  <2> QED BY <2>4, <2>6
<1>2. ASSUME NoCycle(V, U) PROVE NoCycle(V, W)
  <2>0. \A a \in V : \A b \in U[a] : a \notin Above(V, U, b)
    BY <1>2 DEF NoCycle
  <2>1. ASSUME NEW a \in V, NEW b \in W[a], a \in Above(V, W, b) PROVE FALSE
    <3>1. b \in V
      OBVIOUS
    <3>2. CASE a = g
      <4>1. b = n
        BY <3>2
      <4>2. PICK t \in W[n] : g \in Above(V, W, t)
        BY <2>1, <3>2, <4>1, AboveFirst
      <4>3. t \in U[g] /\ t \in V /\ t # n
        BY <4>2
      <4>4. g \in Above(V, U, t)
        BY <1>1, <4>2, <4>3
      <4> QED BY <2>0, <4>3, <4>4
    <3>3. CASE a = n
      <4>1. b \in U[g] /\ b # n
        BY <3>3
      <4>2. n \notin Above(V, U, b)
        <5>1. ASSUME n \in Above(V, U, b) PROVE FALSE
          <6>1. PICK y \in Above(V, U, b) : n \in U[y]
            BY <3>1, <4>1, <5>1, AboveLast
          <6> QED BY <3>1, <6>1, AboveIs
        <5> QED BY <5>1
      <4>3. g \in Above(V, U, b)
        BY <1>1, <2>1, <3>1, <3>3, <4>1, <4>2
      <4> QED BY <2>0, <4>1, <4>3
    <3>4. CASE a # g /\ a # n
      <4>1. b \in U[a] /\ b # n
        BY <3>4
      <4> QED BY <1>1, <2>0, <2>1, <3>1, <3>4, <4>1
    <3> QED BY <3>2, <3>3, <3>4
  <2> QED BY <2>1 DEF NoCycle
<1>3. ASSUME NEW x \in V, NEW y \in V, x # n, y # n
      PROVE  y \in Above(V, W, x) <=> y \in Above(V, U, x)
  BY <1>1, <1>3
<1> QED BY <1>2, <1>3 DEF OthersKept

LEMMA InsertBelow ==
  ASSUME NEW V, NEW U \in [V -> SUBSET V], NEW W \in [V -> SUBSET V],
         NEW n \in V, NEW g \in V, g # n, Loose(V, U, n), PutBelow(V, U, W, n, g)
  PROVE  OthersKept(V, U, W, n) /\ (NoCycle(V, U) => NoCycle(V, W))
<1> USE DEF Loose, PutBelow
<1>1. ASSUME NEW x \in V, x # n
      PROVE  /\ \A y \in Above(V, W, x) : \/ y \in Above(V, U, x)
                                          \/ y = n /\ \E z \in Above(V, U, x) : g \in U[z]
             /\ Above(V, U, x) \subseteq Above(V, W, x)
  <2> DEFINE S == {y \in V : \/ y \in Above(V, U, x)
                             \/ y = n /\ \E z \in Above(V, U, x) : g \in U[z]}
  <2>0. Above(V, U, x) \in SUBSET V /\ x \in Above(V, U, x) /\ Above(V, W, x) \in SUBSET V
        /\ x \in Above(V, W, x)
    BY AboveIs
  <2>1. \A z \in Above(V, U, x) : U[z] \subseteq Above(V, U, x)
    BY AboveIs
  <2>2. \A z \in Above(V, W, x) : W[z] \subseteq Above(V, W, x)
    BY AboveIs
  <2>3. n \notin Above(V, U, x)
    <3>1. ASSUME n \in Above(V, U, x) PROVE FALSE
      BY <1>1, <3>1, AboveLast, <2>0
    <3> QED BY <3>1
  <2>4. S \in SUBSET V /\ x \in S /\ Closed(W, S)
    <3>1. ASSUME NEW z \in S, NEW w \in W[z] PROVE w \in S
      <4>1. w \in V /\ z \in V
        OBVIOUS
      <4>2. CASE z = n
        <5>1. w = g /\ g \in Above(V, U, x)
          BY <2>1, <2>3, <4>2
        <5> QED BY <5>1
      <4>3. CASE z # n
        <5>1. z \in Above(V, U, x)
          BY <4>3
        <5>2. w \in U[z] \/ (w = n /\ g \in U[z])
          BY <4>1, <4>3
        <5> QED BY <2>1, <4>1, <5>1, <5>2
      <4> QED BY <4>2, <4>3
    <3> HIDE DEF S
    <3>2. Closed(W, S)
      BY <3>1 DEF Closed
    <3> QED BY <2>0, <3>2 DEF S
  <2>5. Above(V, W, x) \subseteq S
    <3> HIDE DEF S
    <3> QED BY <2>4, AboveIs
  <2>6. Closed(U, Above(V, W, x))
    <3>1. ASSUME NEW z \in Above(V, W, x), NEW w \in U[z] PROVE w \in Above(V, W, x)
      <4>1. z \in V /\ z # n
        BY <2>0
      <4>2. CASE w = g
        <5>1. n \in Above(V, W, x)
          BY <2>2, <4>1, <4>2
        <5> QED BY <2>2, <4>2, <5>1
      <4>3. CASE w # g
        <5>1. w \in W[z]
          BY <4>1, <4>3
        <5> QED BY <2>2, <5>1
      <4> QED BY <4>2, <4>3
    <3> QED BY <3>1 DEF Closed
  <2>7. Above(V, U, x) \subseteq Above(V, W, x)
    BY <2>0, <2>6, AboveIs
  <2> QED BY <2>5, <2>7
<1>2. ASSUME NoCycle(V, U) PROVE NoCycle(V, W)
  <2>0. \A a \in V : \A b \in U[a] : a \notin Above(V, U, b)
    BY <1>2 DEF NoCycle
  <2>1. ASSUME NEW a \in V, NEW b \in W[a], a \in Above(V, W, b) PROVE FALSE
    <3>1. b \in V
      OBVIOUS
    <3>2. CASE a = n
      <4>1. b = g
        BY <3>2
      <4>2. g \in V /\ Above(V, U, g) \in SUBSET V
        BY AboveIs
      <4>3. n \notin Above(V, U, g)
        <5>1. ASSUME n \in Above(V, U, g) PROVE FALSE
          <6>1. PICK y \in Above(V, U, g) : n \in U[y]
            BY <5>1, AboveLast
          <6> QED BY <4>2, <6>1
        <5> QED BY <5>1
      <4>4. PICK z \in Above(V, U, g) : g \in U[z]
        BY <1>1, <2>1, <3>2, <4>1, <4>3
      <4> QED BY <2>0, <4>2, <4>4
    <3>3. CASE a # n /\ b = n
      <4>1. g \in U[a]
        BY <3>3
      <4>2. PICK t \in W[n] : a \in Above(V, W, t)
        BY <2>1, <3>3, AboveFirst
      <4>3. t = g
        BY <4>2
      <4>4. a \in Above(V, U, g)
        BY <1>1, <3>3, <4>2, <4>3
      <4> QED BY <2>0, <4>1, <4>4
    <3>4. CASE a # n /\ b # n
      <4>1. b \in U[a]
        BY <3>4
      <4> QED BY <1>1, <2>0, <2>1, <3>1, <3>4, <4>1
    <3> QED BY <3>2, <3>3, <3>4
  <2> QED BY <2>1 DEF NoCycle
<1>3. ASSUME NEW x \in V, NEW y \in V, x # n, y # n
      PROVE  y \in Above(V, W, x) <=> y \in Above(V, U, x)
  BY <1>1, <1>3
<1> QED BY <1>2, <1>3 DEF OthersKept

MovedAbove(V, U, W, g1, g2, m) ==
  \A x \in V : W[x] = IF x = g2 THEN {m} ELSE IF x = g1 THEN U[g1] \cup U[g2] ELSE U[x]

LEMMA MoveAbove ==
  ASSUME NEW V, NEW U \in [V -> SUBSET V], NEW W \in [V -> SUBSET V],
         NEW g1 \in V, NEW g2 \in V, NEW m \in V, g1 # g2,
         MovedAbove(V, U, W, g1, g2, m),
         g1 \notin Above(V, U, g2), g2 \notin Above(V, U, g1), g2 \notin Above(V, U, m),
         NoCycle(V, U)
  PROVE  NoCycle(V, W)
<1> USE DEF MovedAbove
<1> DEFINE more == [x \in V |-> IF x = g1 THEN U[g1] \cup U[g2] ELSE U[x]]
           fewer == [x \in V |-> IF x = g2 THEN {} ELSE more[x]]
           T == U[g2]
           X == {g1}
           Y == {g2}
           M == {m}
<1>1. more \in [V -> SUBSET V] /\ fewer \in [V -> SUBSET V] /\ T \in SUBSET V /\ X \in SUBSET V
      /\ Y \in SUBSET V /\ M \in SUBSET V
  OBVIOUS
<1>2. \A x \in V : more[x] = IF x \in X THEN U[x] \cup T ELSE U[x]
  OBVIOUS
<1>3. \A x \in X, t \in T : x \notin Above(V, U, t)
  <2>1. ASSUME NEW t \in T PROVE g1 \notin Above(V, U, t)
    <3>1. t \in Above(V, U, g2)
      <4>1. g2 \in Above(V, U, g2)
        BY AboveIs
      <4> QED BY <4>1, AboveIs
    <3> QED BY <3>1, AboveAbove
  <2> QED BY <2>1
<1>4. \A x \in V : fewer[x] \subseteq more[x]
  BY <1>1
<1>5. \A x \in V : W[x] = IF x \in Y THEN fewer[x] \cup M ELSE fewer[x]
  OBVIOUS
<1>6. \A t \in T : g2 \notin Above(V, U, t)
  BY DEF NoCycle
<1>a. EdgesAdded(V, U, more, X, T)
  BY <1>2, <1>3 DEF EdgesAdded
<1> HIDE DEF more, fewer, T
<1>7. /\ \A a \in V : Above(V, more, a) = Above(V, U, a) \cup Through(V, U, X, T, a)
      /\ NoCycle(V, more)
  <2> HIDE DEF X, Y, M
  <2> QED BY <1>1, <1>a, MoreEdges
<1>8. NoCycle(V, fewer) /\ \A a \in V : Above(V, fewer, a) \subseteq Above(V, more, a)
  BY <1>1, <1>4, <1>7, FewerEdges
<1>9. g2 \notin Above(V, fewer, m)
  <2>1. g2 \notin Above(V, more, m)
    BY <1>6, <1>7 DEF Through
  <2> QED BY <1>8, <2>1
<1>10. \A x \in Y, t \in M : x \notin Above(V, fewer, t)
  BY <1>9
<1>11. EdgesAdded(V, fewer, W, Y, M)
  BY <1>5, <1>10 DEF EdgesAdded
<1> HIDE DEF Y, M
<1> QED BY <1>1, <1>8, <1>11, MoreEdges

(***************************************************************************)
(* Without cycles every way ends, upwards and downwards.                   *)
(***************************************************************************)
LEMMA WaysEnd ==
  ASSUME NEW V, IsFiniteSet(V), NEW U \in [V -> SUBSET V], NoCycle(V, U), NEW m \in V
  PROVE  /\ \E x \in Above(V, U, m) : U[x] = {}
         /\ \E x \in V : m \in Above(V, U, x) /\ \A y \in V : x \notin U[y]
<1>0. \A x \in V : Above(V, U, x) \in SUBSET V /\ x \in Above(V, U, x)
  BY AboveIs
<1>1. \E x \in Above(V, U, m) : U[x] = {}
  <2> DEFINE Q == {Above(V, U, x) : x \in Above(V, U, m)}
  <2>1. Q \in SUBSET SUBSET V /\ Q # {}
    BY <1>0
  <2>2. PICK S \in Q : \A T \in Q : T \subseteq S => T = S
    <3> HIDE DEF Q
    <3> QED BY <2>1, SmallestSet
  <2>3. PICK x \in Above(V, U, m) : S = Above(V, U, x)
    OBVIOUS
  <2>4. x \in V
    BY <1>0
  <2>5. ASSUME NEW y \in U[x] PROVE FALSE
    <3>1. y \in Above(V, U, x) /\ y \in Above(V, U, m) /\ y \in V
      BY <1>0, <2>4, AboveIs
    <3>2. Above(V, U, y) \subseteq S
      BY <2>3, <2>4, <3>1, AboveAbove
    <3>3. x \notin Above(V, U, y)
      BY <2>4 DEF NoCycle
    <3>4. Above(V, U, y) \in Q
      BY <3>1
    <3> QED BY <1>0, <2>2, <2>3, <2>4, <3>2, <3>3, <3>4
  <2> QED BY <2>5
<1>2. \E x \in V : m \in Above(V, U, x) /\ \A y \in V : x \notin U[y]
  <2> DEFINE Q == {Above(V, U, x) : x \in {x \in V : m \in Above(V, U, x)}}
  <2>1. Q \in SUBSET SUBSET V /\ Q # {}
    BY <1>0
  <2>2. PICK S \in Q : \A T \in Q : S \subseteq T => T = S
    <3> HIDE DEF Q
    <3> QED BY <2>1, LargestSet
  <2>3. PICK x \in V : m \in Above(V, U, x) /\ S = Above(V, U, x)
    OBVIOUS
  <2>5. ASSUME NEW y \in V, x \in U[y] PROVE FALSE
    <3>1. x \in Above(V, U, y)
      BY <1>0, <2>5, AboveIs
    <3>2. S \subseteq Above(V, U, y)
      BY <2>3, <3>1, AboveAbove
    <3>3. y \notin Above(V, U, x)
      BY <2>5 DEF NoCycle
    <3>4. Above(V, U, y) \in Q
      BY <2>3, <3>2
    <3> QED BY <1>0, <2>2, <2>3, <3>2, <3>3, <3>4
  <2> QED BY <2>3, <2>5
<1> QED BY <1>1, <1>2

(***************************************************************************)
(* The recursion that adds the next step until nothing is new ends, and    *)
(* gives what is above.                                                    *)
(***************************************************************************)
Grows(V, U, grow) ==
  grow = [S \in SUBSET V |-> LET T == S \cup UNION {U[x] : x \in S}
                             IN IF T = S THEN S ELSE grow[T]]

LEMMA GrowIsAbove ==
  ASSUME NEW V, IsFiniteSet(V), NEW U \in [V -> SUBSET V], NEW m \in V
  PROVE  /\ \E grow : Grows(V, U, grow)
         /\ \A grow : Grows(V, U, grow) => grow[{m}] = Above(V, U, m)
<1> DEFINE Next(S) == S \cup UNION {U[x] : x \in S}
           Least(S) == {x \in V : \A Z \in SUBSET V : S \subseteq Z /\ Closed(U, Z) => x \in Z}
           h == [S \in SUBSET V |-> Least(S)]
<1>1. ASSUME NEW S \in SUBSET V
      PROVE  /\ Next(S) \in SUBSET V /\ S \subseteq Next(S)
             /\ Next(S) = S => Least(S) = S
             /\ Least(Next(S)) = Least(S)
  <2>1. Next(S) \in SUBSET V /\ S \subseteq Next(S)
    OBVIOUS
  <2>2. \A x \in S : U[x] \subseteq Next(S)
    OBVIOUS
  <2>3. ASSUME NEW Z \in SUBSET V, Closed(U, Z), S \subseteq Z PROVE Next(S) \subseteq Z
    BY <2>3 DEF Closed
  <2>4. ASSUME Next(S) = S PROVE Least(S) = S
    <3>1. Closed(U, S)
      BY <2>2, <2>4 DEF Closed
    <3> HIDE DEF Next
    <3> QED BY <3>1
  <2> HIDE DEF Next
  <2> QED BY <2>1, <2>3, <2>4
<1> HIDE DEF Next
<1>2. \A S \in SUBSET V : h[S] = IF Next(S) = S THEN S ELSE h[Next(S)]
  <2> SUFFICES ASSUME NEW S \in SUBSET V PROVE h[S] = IF Next(S) = S THEN S ELSE h[Next(S)]
    OBVIOUS
  <2>1. h[S] = Least(S) /\ h[Next(S)] = Least(Next(S))
    BY <1>1
  <2> HIDE DEF h, Least
  <2> QED BY <1>1, <2>1
<1>3. Grows(V, U, h)
  <2>1. h = [S \in SUBSET V |-> h[S]]
    OBVIOUS
  <2> HIDE DEF h
  <2> QED BY <1>2, <2>1 DEF Grows, Next
<1>4. ASSUME NEW grow, Grows(V, U, grow) PROVE \A S \in SUBSET V : grow[S] = h[S]
  <2> DEFINE Bad == {S \in SUBSET V : grow[S] # h[S]}
  <2> SUFFICES ASSUME Bad # {} PROVE FALSE
    OBVIOUS
  <2>1. PICK S \in Bad : \A T \in Bad : S \subseteq T => T = S
    <3>1. Bad \in SUBSET SUBSET V
      OBVIOUS
    <3> HIDE DEF Bad
    <3> QED BY <3>1, LargestSet
  <2>2. grow[S] = IF Next(S) = S THEN S ELSE grow[Next(S)]
    BY <1>4 DEF Grows, Next
  <2>3. S \in SUBSET V /\ grow[S] # h[S]
    OBVIOUS
  <2>4. Next(S) # S => Next(S) \notin Bad
    BY <1>1, <2>1, <2>3
  <2>5. Next(S) \in SUBSET V
    BY <1>1, <2>3
  <2> HIDE DEF h
  <2> QED BY <1>2, <2>2, <2>3, <2>4, <2>5
<1>5. h[{m}] = Above(V, U, m)
  BY DEF Above
<1> HIDE DEF h
<1> QED BY <1>3, <1>4, <1>5

(***************************************************************************)
(* A function over a finite set whose value at x is step[x] of its values  *)
(* at the members of U[x], where no member needs itself: there is one.     *)
(***************************************************************************)
Grounded(V, U) == \A M \in (SUBSET V) \ {{}} : \E x \in M : U[x] \cap M = {}

\* step[x] reads its argument only at the members of U[x].
StepOn(V, U, R, step) ==
  /\ step \in [V -> [[V -> R] -> R]]
  /\ \A x \in V : \A f, g \in [V -> R] :
       (\A y \in U[x] : f[y] = g[y]) => step[x][f] = step[x][g]

\* By induction over the closed subsets of V.
LEMMA FiniteRecursion ==
  ASSUME NEW V, IsFiniteSet(V), NEW U \in [V -> SUBSET V], Grounded(V, U),
         NEW R, NEW r \in R, NEW step, StepOn(V, U, R, step)
  PROVE  \E f \in [V -> R] : \A x \in V : f[x] = step[x][f]
<1> DEFINE Solves(f, D) == \A x \in D : f[x] = step[x][f]
           Q == {D \in SUBSET V : Closed(U, D) /\ \E f \in [V -> R] : Solves(f, D)}
<1>1. {} \in Q
  <2>1. [x \in V |-> r] \in [V -> R] /\ Solves([x \in V |-> r], {})
    OBVIOUS
  <2> QED BY <2>1 DEF Closed
<1>2. PICK D \in Q : \A T \in Q : D \subseteq T => T = D
  <2>1. Q \in SUBSET SUBSET V
    OBVIOUS
  <2> HIDE DEF Q
  <2> QED BY <1>1, <2>1, LargestSet
<1>3. PICK f \in [V -> R] : Solves(f, D)
  BY <1>2
<1>4. Closed(U, D) /\ D \in SUBSET V
  BY <1>2
<1>5. ASSUME D # V PROVE FALSE
  <2>1. PICK x \in V \ D : U[x] \cap (V \ D) = {}
    BY <1>4, <1>5 DEF Grounded
  <2>2. U[x] \subseteq D /\ x \in V /\ x \notin D
    BY <2>1
  <2>3. PICK g : g = [f EXCEPT ![x] = step[x][f]]
    OBVIOUS
  <2>4. step[x][f] \in R
    BY <2>2 DEF StepOn
  <2>5. g \in [V -> R] /\ g[x] = step[x][f] /\ \A y \in V : y # x => g[y] = f[y]
    BY <2>2, <2>3, <2>4
  <2>6. ASSUME NEW y \in D \cup {x} PROVE g[y] = step[y][g]
    <3>1. U[y] \subseteq D /\ y \in V
      BY <1>4, <2>2 DEF Closed
    <3>2. \A z \in U[y] : g[z] = f[z]
      BY <1>4, <2>2, <2>5, <3>1
    <3>3. step[y][g] = step[y][f]
      BY <2>5, <3>1, <3>2 DEF StepOn
    <3> QED BY <1>3, <2>2, <2>5, <3>1, <3>3
  <2>7. D \cup {x} \in Q
    <3>1. Closed(U, D \cup {x}) /\ D \cup {x} \in SUBSET V
      BY <1>4, <2>2 DEF Closed
    <3> QED BY <2>5, <2>6, <3>1
  <2> HIDE DEF Q
  <2> QED BY <1>2, <2>2, <2>7
<1> QED BY <1>3, <1>5

(***************************************************************************)
(* Sums.                                                                   *)
(***************************************************************************)
Adds(it, S, f, c) ==
  /\ it \in [SUBSET S -> Int] /\ it[{}] = 0
  /\ \A T \in (SUBSET S) \ {{}} : it[T] = f[c[T]] + it[T \ {c[T]}]

\* c chooses a member of every nonempty subset of S.
Selects(S, c) == \A T \in (SUBSET S) \ {{}} : c[T] \in T

\* What the folds of the library choose.
Picks(S) == [T \in (SUBSET S) \ {{}} |-> CHOOSE x \in T : TRUE]

\* The sum of f over the subsets of S, taken from any choice of members, exists.
LEMMA AddsExists ==
  ASSUME NEW S, IsFiniteSet(S), NEW f \in [S -> Int], NEW c, Selects(S, c)
  PROVE  \E it : Adds(it, S, f, c)
<1> DEFINE V == SUBSET S
           U == [T \in V |-> IF T = {} THEN {} ELSE {T \ {c[T]}}]
           step == [T \in V |-> [h \in [V -> Int] |-> IF T = {} THEN 0 ELSE f[c[T]] + h[T \ {c[T]}]]]
<1>1. IsFiniteSet(V)
  BY FS_SUBSET
<1>2. U \in [V -> SUBSET V]
  OBVIOUS
<1>3. Grounded(V, U)
  <2> SUFFICES ASSUME NEW M \in (SUBSET V) \ {{}} PROVE \E T \in M : U[T] \cap M = {}
    BY DEF Grounded
  <2>1. PICK T \in M : \A W \in M : W \subseteq T => W = T
    BY SmallestSet
  <2>2. U[T] = IF T = {} THEN {} ELSE {T \ {c[T]}}
    OBVIOUS
  <2>3. T # {} => T \ {c[T]} \notin M
    BY <2>1 DEF Selects
  <2> QED BY <2>1, <2>2, <2>3
<1>4. step \in [V -> [[V -> Int] -> Int]]
  <2>1. ASSUME NEW T \in V, NEW h \in [V -> Int]
        PROVE  (IF T = {} THEN 0 ELSE f[c[T]] + h[T \ {c[T]}]) \in Int
    <3>1. T # {} => f[c[T]] \in Int /\ h[T \ {c[T]}] \in Int
      BY DEF Selects
    <3> QED BY <3>1
  <2> QED BY <2>1
<1>5. \A T \in V : \A h \in [V -> Int] : step[T][h] = IF T = {} THEN 0 ELSE f[c[T]] + h[T \ {c[T]}]
  OBVIOUS
<1>6. \A T \in V : U[T] = IF T = {} THEN {} ELSE {T \ {c[T]}}
  OBVIOUS
<1>7. \A T \in V : \A g, h \in [V -> Int] :
        (\A W \in U[T] : g[W] = h[W]) => step[T][g] = step[T][h]
  <2> SUFFICES ASSUME NEW T \in V, NEW g \in [V -> Int], NEW h \in [V -> Int],
                      \A W \in U[T] : g[W] = h[W]
               PROVE  step[T][g] = step[T][h]
    OBVIOUS
  <2>1. CASE T = {}
    <3>1. step[T][g] = 0 /\ step[T][h] = 0
      <4> HIDE DEF V, U, step
      <4> QED BY <1>5, <2>1
    <3> QED BY <3>1
  <2>2. CASE T # {}
    <3>1. T \ {c[T]} \in U[T]
      BY <1>6, <2>2
    <3>2. g[T \ {c[T]}] = h[T \ {c[T]}]
      <4> HIDE DEF V, U, step
      <4> QED BY <3>1
    <3>3. step[T][g] = f[c[T]] + g[T \ {c[T]}] /\ step[T][h] = f[c[T]] + h[T \ {c[T]}]
      <4> HIDE DEF V, U, step
      <4> QED BY <1>5, <2>2
    <3> QED BY <3>2, <3>3
  <2> QED BY <2>1, <2>2
<1>8. \E it \in [V -> Int] : \A T \in V : it[T] = step[T][it]
  <2> HIDE DEF V, U, step
  <2>1. PICK R : R = Int
    OBVIOUS
  <2>2. 0 \in R /\ StepOn(V, U, R, step)
    <3>1. StepOn(V, U, Int, step)
      BY ONLY <1>4, <1>7, Zenon DEF StepOn
    <3>2. 0 \in Int
      OBVIOUS
    <3> QED BY <2>1, <3>1, <3>2
  <2>3. \E it \in [V -> R] : \A T \in V : it[T] = step[T][it]
    BY ONLY <1>1, <1>2, <1>3, <2>2, FiniteRecursion
  <2> QED BY <2>1, <2>3
<1>9. PICK it \in [V -> Int] : \A T \in V : it[T] = step[T][it]
  BY <1>8
<1>10. \A T \in V : it[T] = IF T = {} THEN 0 ELSE f[c[T]] + it[T \ {c[T]}]
  <2> HIDE DEF step
  <2> QED BY <1>5, <1>9
<1> HIDE DEF step, U
<1> QED BY <1>9, <1>10 DEF Adds

\* SumFunction is such a sum.
LEMMA SumAdds ==
  ASSUME NEW S, IsFiniteSet(S), NEW f \in [S -> Int]
  PROVE  Selects(S, Picks(S)) /\ \E it : Adds(it, S, f, Picks(S)) /\ SumFunction(f) = it[S]
<1>1. Selects(S, Picks(S))
  BY DEF Selects, Picks
<1> DEFINE Is(it) == it = [T \in SUBSET S |-> IF T = {} THEN 0
                               ELSE f[CHOOSE x \in T : TRUE] + it[T \ {CHOOSE x \in T : TRUE}]]
<1>2. \E it : Is(it)
  <2>1. PICK it : Adds(it, S, f, Picks(S))
    BY <1>1, AddsExists
  <2> DEFINE rhs(T) == IF T = {} THEN 0
                       ELSE f[CHOOSE x \in T : TRUE] + it[T \ {CHOOSE x \in T : TRUE}]
  <2>2. ASSUME NEW T \in SUBSET S PROVE it[T] = rhs(T)
    BY <2>1 DEF Adds, Picks
  <2>3. it = [T \in SUBSET S |-> it[T]]
    BY <2>1 DEF Adds
  <2>4. it = [T \in SUBSET S |-> rhs(T)]
    <3> HIDE DEF rhs
    <3> QED BY <2>2, <2>3
  <2> QED BY <2>4
<1>3. PICK it : it = (CHOOSE g : Is(g))
  OBVIOUS
<1>4. Is(it)
  <2> HIDE DEF Is
  <2> QED BY <1>2, <1>3
<1>5. SumFunction(f) = it[S]
  BY <1>3 DEF SumFunction, SumFunctionOnSet, FoldFunctionOnSet, MapThenFoldSet
<1>6. Adds(it, S, f, Picks(S))
  <2>1. \A T \in SUBSET S : it[T] = IF T = {} THEN 0
                                    ELSE f[Picks(S)[T]] + it[T \ {Picks(S)[T]}]
    BY <1>4 DEF Picks
  <2>2. \A T \in (SUBSET S) \ {{}} : Picks(S)[T] \in T
    BY <1>1 DEF Selects
  <2> DEFINE Bad == {T \in SUBSET S : it[T] \notin Int}
  <2>3. ASSUME Bad # {} PROVE FALSE
    <3>1. PICK T \in Bad : \A W \in Bad : W \subseteq T => W = T
      <4>1. Bad \in SUBSET SUBSET S
        OBVIOUS
      <4> HIDE DEF Bad
      <4> QED BY <2>3, <4>1, SmallestSet
    <3>2. T \in SUBSET S /\ it[T] \notin Int
      OBVIOUS
    <3>3. T # {}
      BY <2>1, <3>2
    <3>4. it[T \ {Picks(S)[T]}] \in Int /\ f[Picks(S)[T]] \in Int
      <4>1. T \ {Picks(S)[T]} \notin Bad /\ T \ {Picks(S)[T]} \in SUBSET S /\ Picks(S)[T] \in S
        <5> HIDE DEF Bad
        <5> QED BY <2>2, <3>1, <3>2, <3>3
      <4> QED BY <4>1
    <3>5. it[T] = f[Picks(S)[T]] + it[T \ {Picks(S)[T]}]
      <4> HIDE DEF Bad, Is
      <4> QED BY <2>1, <3>2, <3>3
    <3> HIDE DEF Bad, Is
    <3> QED BY <3>2, <3>4, <3>5
  <2>4. it \in [SUBSET S -> Int]
    <3>1. it = [T \in SUBSET S |-> it[T]]
      BY <1>4
    <3> QED BY <2>3, <3>1
  <2> QED BY <2>1, <2>4 DEF Adds
<1> QED BY <1>1, <1>5, <1>6

\* A function changed at one argument changes the sum by as much.
LEMMA SumChanges ==
  ASSUME NEW S, IsFiniteSet(S), NEW f \in [S -> Int], NEW g \in [S -> Int], NEW y \in S,
         \A z \in S : z # y => g[z] = f[z]
  PROVE  /\ SumFunction(f) \in Int
         /\ SumFunction(g) = SumFunction(f) + g[y] - f[y]
<1>1. PICK c : c = Picks(S)
  OBVIOUS
<1>2. PICK a : Adds(a, S, f, c) /\ SumFunction(f) = a[S]
  BY <1>1, SumAdds
<1>3. PICK b : Adds(b, S, g, c) /\ SumFunction(g) = b[S]
  BY <1>1, SumAdds
<1>4. Selects(S, c)
  BY <1>1, SumAdds
<1> DEFINE Bad == {T \in SUBSET S : b[T] # a[T] + (IF y \in T THEN g[y] - f[y] ELSE 0)}
<1>5. ASSUME Bad # {} PROVE FALSE
  <2>1. PICK T \in Bad : \A W \in Bad : W \subseteq T => W = T
    <3>1. Bad \in SUBSET SUBSET S
      OBVIOUS
    <3> HIDE DEF Bad
    <3> QED BY <1>5, <3>1, SmallestSet
  <2>2. T \in SUBSET S /\ b[T] # a[T] + (IF y \in T THEN g[y] - f[y] ELSE 0)
    OBVIOUS
  <2>3. T # {}
    <3> SUFFICES ASSUME T = {} PROVE FALSE
      OBVIOUS
    <3>1. a[T] = 0 /\ b[T] = 0 /\ y \notin T
      BY <1>2, <1>3 DEF Adds
    <3> HIDE DEF Bad
    <3> QED BY <2>2, <3>1
  <2>4. PICK p : p = c[T]
    OBVIOUS
  <2>5. PICK W : W = T \ {p}
    OBVIOUS
  <2>6. p \in T /\ p \in S /\ W \in SUBSET S /\ W # T /\ W \subseteq T
    BY <1>4, <2>2, <2>3, <2>4, <2>5 DEF Selects
  <2>7. b[W] = a[W] + (IF y \in W THEN g[y] - f[y] ELSE 0)
    <3>1. W \notin Bad
      <4> HIDE DEF Bad
      <4> QED BY <2>1, <2>6
    <3> QED BY <2>6, <3>1
  <2> HIDE DEF Bad
  <2>8. /\ a[T] = f[p] + a[W] /\ b[T] = g[p] + b[W]
        /\ a[T] \in Int /\ b[T] \in Int /\ a[W] \in Int /\ b[W] \in Int
    BY <1>2, <1>3, <2>2, <2>3, <2>4, <2>5, <2>6 DEF Adds
  <2>9. f[p] \in Int /\ g[p] \in Int /\ f[y] \in Int /\ g[y] \in Int
    BY <2>6
  <2>10. CASE p = y
    <3>1. y \in T /\ y \notin W
      BY <2>5, <2>6, <2>10
    <3> QED BY <2>2, <2>7, <2>8, <2>9, <2>10, <3>1
  <2>11. CASE p # y
    <3>1. g[p] = f[p] /\ (y \in W <=> y \in T)
      BY <2>5, <2>6, <2>11
    <3> QED BY <2>2, <2>7, <2>8, <2>9, <3>1
  <2> QED BY <2>10, <2>11
<1>6. b[S] = a[S] + g[y] - f[y] /\ a[S] \in Int
  <2>1. S \in SUBSET S /\ a[S] \in Int /\ g[y] \in Int /\ f[y] \in Int
    BY <1>2 DEF Adds
  <2>2. b[S] = a[S] + (g[y] - f[y])
    BY <1>5, <2>1
  <2> QED BY <2>1, <2>2
<1> QED BY <1>2, <1>3, <1>6

\* A sum of naturals is a natural, zero only if all of them are, and none exceeds it.
LEMMA SumOfNats ==
  ASSUME NEW S, IsFiniteSet(S), NEW f \in [S -> Nat]
  PROVE  /\ SumFunction(f) \in Nat
         /\ (\A y \in S : f[y] = 0) => SumFunction(f) = 0
         /\ \A y \in S : f[y] <= SumFunction(f)
<1>1. PICK c : c = Picks(S)
  OBVIOUS
<1>2. f \in [S -> Int]
  OBVIOUS
<1>3. PICK a : Adds(a, S, f, c) /\ SumFunction(f) = a[S]
  BY <1>1, <1>2, SumAdds
<1>4. Selects(S, c)
  BY <1>1, <1>2, SumAdds
<1> DEFINE Good(T) == /\ a[T] >= 0
                      /\ (\A y \in S : f[y] = 0) => a[T] = 0
                      /\ \A y \in T : f[y] <= a[T]
           Bad == {T \in SUBSET S : ~Good(T)}
<1>5. ASSUME Bad # {} PROVE FALSE
  <2>1. PICK T \in Bad : \A W \in Bad : W \subseteq T => W = T
    <3>1. Bad \in SUBSET SUBSET S
      OBVIOUS
    <3> HIDE DEF Bad
    <3> QED BY <1>5, <3>1, SmallestSet
  <2>2. T \in SUBSET S /\ ~Good(T)
    OBVIOUS
  <2>3. T # {}
    <3> SUFFICES ASSUME T = {} PROVE FALSE
      OBVIOUS
    <3>1. a[T] = 0
      BY <1>3 DEF Adds
    <3> HIDE DEF Bad
    <3> QED BY <2>2, <3>1
  <2>4. PICK p : p = c[T]
    OBVIOUS
  <2>5. PICK W : W = T \ {p}
    OBVIOUS
  <2>6. p \in T /\ p \in S /\ W \in SUBSET S /\ W # T /\ W \subseteq T
    BY <1>4, <2>2, <2>3, <2>4, <2>5 DEF Selects
  <2>7. Good(W)
    <3>1. W \notin Bad
      <4> HIDE DEF Bad
      <4> QED BY <2>1, <2>6
    <3> QED BY <2>6, <3>1
  <2> HIDE DEF Bad
  <2>8. a[T] = f[p] + a[W] /\ a[T] \in Int /\ a[W] \in Int /\ f[p] \in Nat
    BY <1>3, <2>2, <2>3, <2>4, <2>5, <2>6 DEF Adds
  <2>9. ASSUME NEW y \in T PROVE f[y] <= a[T]
    <3>1. y = p \/ y \in W
      BY <2>5
    <3>2. y \in W => f[y] <= a[W] /\ f[y] \in Nat
      BY <2>6, <2>7
    <3> QED BY <2>7, <2>8, <3>1, <3>2
  <2> QED BY <2>2, <2>6, <2>7, <2>8, <2>9
<1>6. Good(S) /\ a[S] \in Int
  <2>1. S \in SUBSET S /\ a[S] \in Int
    BY <1>3 DEF Adds
  <2> QED BY <1>5, <2>1
<1> QED BY <1>3, <1>6

\* A sum with one term that is not zero.
LEMMA SumOfOne ==
  ASSUME NEW S, IsFiniteSet(S), NEW f \in [S -> Nat], NEW y \in S,
         \A z \in S : z # y => f[z] = 0
  PROVE  SumFunction(f) = f[y]
<1>1. PICK g : g = [z \in S |-> 0]
  OBVIOUS
<1>2. g \in [S -> Nat] /\ g \in [S -> Int] /\ f \in [S -> Int] /\ (\A z \in S : g[z] = 0)
      /\ \A z \in S : z # y => f[z] = g[z]
  BY <1>1
<1>3. SumFunction(g) = 0
  BY <1>2, SumOfNats
<1>4. SumFunction(f) = SumFunction(g) + f[y] - g[y]
  BY <1>2, SumChanges
<1> QED BY <1>2, <1>3, <1>4

(***************************************************************************)
(* How many elements of a sequence are in a set.                           *)
(***************************************************************************)
HowMany(K, s) == Cardinality({i \in DOMAIN s : s[i] \in K})

\* It is a number, and zero if no element is in the set.
LEMMA HowManyType ==
  ASSUME NEW S, NEW s \in Seq(S), NEW K
  PROVE  /\ IsFiniteSet({i \in DOMAIN s : s[i] \in K}) /\ HowMany(K, s) \in Nat
         /\ HowMany(K, s) = 0 <=> \A i \in 1..Len(s) : s[i] \notin K
<1>1. DOMAIN s = 1..Len(s) /\ Len(s) \in Nat
  OBVIOUS
<1>2. IsFiniteSet(1..Len(s))
  BY <1>1, FS_Interval
<1>3. PICK I : I = {i \in DOMAIN s : s[i] \in K}
  OBVIOUS
<1>4. IsFiniteSet(I)
  <2>1. I \in SUBSET (1..Len(s))
    BY <1>1, <1>3
  <2> QED BY <1>2, <2>1, FS_Subset
<1>5. Cardinality(I) \in Nat /\ (Cardinality(I) = 0 <=> I = {})
  BY <1>4, FS_CardinalityType, FS_EmptySet
<1>6. I = {} <=> \A i \in 1..Len(s) : s[i] \notin K
  BY <1>1, <1>3
<1> QED BY <1>3, <1>4, <1>5, <1>6 DEF HowMany

\* If all elements are in the set it is the length.
LEMMA HowManyAll ==
  ASSUME NEW S, NEW s \in Seq(S), NEW K, \A i \in 1..Len(s) : s[i] \in K
  PROVE  HowMany(K, s) = Len(s)
<1>1. DOMAIN s = 1..Len(s) /\ Len(s) \in Nat
  OBVIOUS
<1>2. {i \in DOMAIN s : s[i] \in K} = 1..Len(s)
  BY <1>1
<1>3. PICK n : n = Len(s) /\ n \in Nat
  BY <1>1
<1>4. Cardinality(1..n) = n
  <2>1. 1 \in Int /\ n \in Int
    BY <1>3
  <2>2. Cardinality(1..n) = IF 1 > n THEN 0 ELSE n - 1 + 1
    BY <2>1, FS_Interval
  <2> QED BY <1>3, <2>2
<1> QED BY <1>2, <1>3, <1>4 DEF HowMany

\* It adds up over a concatenation.
LEMMA HowManyConcat ==
  ASSUME NEW S, NEW s \in Seq(S), NEW t \in Seq(S), NEW K
  PROVE  HowMany(K, s \o t) = HowMany(K, s) + HowMany(K, t)
<1>1. PICK m, n, u : m = Len(s) /\ n = Len(t) /\ u = s \o t
  OBVIOUS
<1>2. /\ m \in Nat /\ n \in Nat /\ u \in Seq(S) /\ Len(u) = m + n
      /\ DOMAIN s = 1..m /\ DOMAIN t = 1..n /\ DOMAIN u = 1..m + n
      /\ \A i \in 1..m : u[i] = s[i]
      /\ \A i \in 1..n : u[i + m] = t[i]
  <2>1. /\ m \in Nat /\ n \in Nat /\ u \in Seq(S) /\ Len(u) = m + n
        /\ \A i \in 1..m + n : u[i] = IF i <= m THEN s[i] ELSE t[i - m]
    BY <1>1, ConcatProperties
  <2>2. DOMAIN s = 1..m /\ DOMAIN t = 1..n /\ DOMAIN u = 1..m + n
    BY <1>1, <2>1
  <2>3. ASSUME NEW i \in 1..n PROVE u[i + m] = t[i]
    <3>1. i + m \in 1..m + n /\ ~(i + m <= m) /\ (i + m) - m = i
      BY <2>1
    <3> QED BY <2>1, <3>1
  <2>4. ASSUME NEW i \in 1..m PROVE u[i] = s[i]
    <3>1. i \in 1..m + n /\ i <= m
      BY <2>1
    <3> QED BY <2>1, <3>1
  <2> QED BY <2>1, <2>2, <2>3, <2>4
<1>3. PICK A, B : A = {i \in DOMAIN s : s[i] \in K} /\ B = {i \in DOMAIN t : t[i] \in K}
  OBVIOUS
<1>4. PICK C : C = {i \in DOMAIN u : u[i] \in K}
  OBVIOUS
<1>5. IsFiniteSet(A) /\ IsFiniteSet(B) /\ IsFiniteSet(C)
  <2>1. IsFiniteSet(1..m) /\ IsFiniteSet(1..n) /\ IsFiniteSet(1..m + n)
    BY <1>2, FS_Interval
  <2>2. A \in SUBSET (1..m) /\ B \in SUBSET (1..n) /\ C \in SUBSET (1..m + n)
    BY <1>2, <1>3, <1>4
  <2> QED BY <2>1, <2>2, FS_Subset
<1>6. PICK D : D = C \ A
  OBVIOUS
<1>7. A \subseteq C
  BY <1>2, <1>3, <1>4
<1>8. \A i \in Int : i \in D <=> i - m \in B
  <2> SUFFICES ASSUME NEW i \in Int PROVE i \in D <=> i - m \in B
    OBVIOUS
  <2>1. CASE i \in 1..m
    BY <1>2, <1>3, <1>4, <1>6, <2>1
  <2>2. CASE i \notin 1..m
    <3>1. i \in 1..m + n <=> i - m \in 1..n
      BY <1>2, <2>2
    <3>2. i - m \in 1..n => u[i] = t[i - m]
      <4>1. (i - m) + m = i
        BY <1>2
      <4> QED BY <1>2, <4>1
    <3> QED BY <1>2, <1>3, <1>4, <1>6, <2>2, <3>1, <3>2
  <2> QED BY <2>1, <2>2
<1>9. Cardinality(D) = Cardinality(B)
  <2> DEFINE f == [j \in B |-> j + m]
  <2>1. B \subseteq Int /\ D \subseteq Int
    BY <1>2, <1>3, <1>4, <1>6
  <2>2. \A j \in B : j + m \in D
    <3> SUFFICES ASSUME NEW j \in B PROVE j + m \in D
      OBVIOUS
    <3>1. j + m \in Int /\ (j + m) - m = j
      BY <1>2, <2>1
    <3> QED BY <1>8, <3>1
  <2>3. \A i, j \in B : f[i] = f[j] => i = j
    BY <1>2, <2>1
  <2>4. \A i \in D : i - m \in B /\ f[i - m] = i
    BY <1>2, <1>8, <2>1
  <2>7. f \in [B -> D]
    BY <2>2
  <2> HIDE DEF f
  <2>5. f \in Bijection(B, D)
    BY <2>3, <2>4, <2>7, Fun_IsBij
  <2>6. ExistsBijection(B, D)
    BY <2>5 DEF ExistsBijection
  <2> QED BY <1>5, <2>6, FS_Bijection
<1>10. Cardinality(C) = Cardinality(A) + Cardinality(D)
  <2>1. IsFiniteSet(D) /\ A \cup D = C /\ A \cap D = {}
    BY <1>5, <1>6, <1>7, FS_Subset
  <2>2. Cardinality(C) = Cardinality(A) + Cardinality(D) - Cardinality({})
    <3>1. PICK X, Y : X = A \cup D /\ Y = A \cap D
      OBVIOUS
    <3>2. Cardinality(X) = Cardinality(A) + Cardinality(D) - Cardinality(Y)
      BY <1>5, <2>1, <3>1, FS_Union
    <3>3. X = C /\ Y = {}
      BY <2>1, <3>1
    <3> QED BY <3>2, <3>3
  <2>3. Cardinality({}) = 0 /\ Cardinality(A) \in Nat /\ Cardinality(D) \in Nat
    BY <1>5, <2>1, FS_EmptySet, FS_CardinalityType
  <2> QED BY <2>1, <2>2, <2>3
<1> QED BY <1>1, <1>3, <1>4, <1>9, <1>10 DEF HowMany

\* A sequence of one element.
LEMMA HowManyOne ==
  ASSUME NEW S, NEW s \in Seq(S), Len(s) = 1, NEW K
  PROVE  HowMany(K, s) = IF s[1] \in K THEN 1 ELSE 0
<1>1. \A i \in 1..Len(s) : i = 1
  OBVIOUS
<1>2. ASSUME s[1] \in K PROVE HowMany(K, s) = 1
  <2>1. \A i \in 1..Len(s) : s[i] \in K
    BY <1>1, <1>2
  <2> QED BY <2>1, HowManyAll
<1>3. ASSUME s[1] \notin K PROVE HowMany(K, s) = 0
  <2>1. \A i \in 1..Len(s) : s[i] \notin K
    BY <1>1, <1>3
  <2> QED BY <2>1, HowManyType
<1> QED BY <1>2, <1>3

\* One more element.
LEMMA HowManyAppend ==
  ASSUME NEW S, NEW s \in Seq(S), NEW a \in S, NEW K
  PROVE  HowMany(K, Append(s, a)) = HowMany(K, s) + IF a \in K THEN 1 ELSE 0
<1>1. <<a>> \in Seq(S) /\ Len(<<a>>) = 1 /\ <<a>>[1] = a /\ Append(s, a) = s \o <<a>>
  OBVIOUS
<1>2. PICK t \in Seq(S) : t = <<a>>
  BY <1>1
<1>3. Append(s, a) = s \o t /\ Len(t) = 1 /\ t[1] = a
  BY <1>1, <1>2
<1>4. HowMany(K, t) = IF a \in K THEN 1 ELSE 0
  BY <1>3, HowManyOne
<1>5. HowMany(K, s \o t) = HowMany(K, s) + HowMany(K, t)
  BY HowManyConcat
<1> QED BY <1>3, <1>4, <1>5

(***************************************************************************)
(* A sequence over and over.                                               *)
(***************************************************************************)
Repeats(p, S, s) ==
  /\ p \in [Nat -> Seq(S)] /\ p[0] = << >> /\ \A n \in Nat : p[n + 1] = p[n] \o s
  /\ \A n \in Nat : FlattenSeq([i \in 1..n |-> s]) = p[n]

\* FlattenSeq, the library's recursion, of n times s is s n times over.
LEMMA FlattenSame ==
  ASSUME NEW S, NEW s \in Seq(S)
  PROVE  \E p : Repeats(p, S, s)
<1>1. PICK p : Iterate(p, Seq(S), << >>, [t \in Seq(S) |-> t \o s])
  <2>1. << >> \in Seq(S) /\ [t \in Seq(S) |-> t \o s] \in [Seq(S) -> Seq(S)]
    OBVIOUS
  <2> QED BY <2>1, Iterates
<1>2. p \in [Nat -> Seq(S)] /\ p[0] = << >> /\ \A n \in Nat : n # 0 => p[n] = p[n - 1] \o s
  <2>1. p \in [Nat -> Seq(S)]
    BY <1>1 DEF Iterate
  <2>2. \A n \in Nat : n # 0 => n - 1 \in Nat /\ p[n - 1] \in Seq(S)
    BY <2>1
  <2> QED BY <1>1, <2>1, <2>2 DEF Iterate
<1>3. ASSUME NEW n \in Nat PROVE p[n + 1] = p[n] \o s
  <2>1. n + 1 \in Nat /\ n + 1 # 0 /\ (n + 1) - 1 = n
    OBVIOUS
  <2> QED BY <1>2, <2>1
<1>4. ASSUME NEW n \in Nat PROVE FlattenSeq([i \in 1..n |-> s]) = p[n]
  <2>1. PICK q : q = [i \in 1..n |-> s]
    OBVIOUS
  <2>2. q \in Seq(Seq(S)) /\ Len(q) = n /\ \A i \in 1..n : q[i] = s
    BY <2>1
  <2>3. CASE n = 0
    <3>1. FlattenSeq(q) = q /\ q = << >>
      BY <2>1, <2>2, <2>3 DEF FlattenSeq
    <3> QED BY <1>2, <2>1, <2>3, <3>1
  <2>4. CASE n # 0
    <3> DEFINE rhs(g, i) == IF i = 1 THEN q[i] ELSE g[i - 1] \o q[i]
               Is(g) == g = [i \in 1..n |-> rhs(g, i)]
    <3>1. \E g : Is(g)
      <4> DEFINE h == [i \in 1..n |-> p[i]]
      <4>1. ASSUME NEW i \in 1..n PROVE p[i] = rhs(h, i)
        <5>0. i \in Nat /\ i # 0 /\ q[i] = s
          BY <2>2
        <5>1. i \in Nat /\ i # 0 /\ p[i] = p[i - 1] \o s /\ q[i] = s
          BY ONLY <1>2, <5>0
        <5>2. CASE i = 1
          <6>1. p[i - 1] = << >> /\ << >> \o s = s
            BY <1>2, <5>2
          <6> QED BY <5>1, <5>2, <6>1
        <5>3. CASE i # 1
          <6>1. i - 1 \in 1..n
            BY <5>3
          <6>2. h[i - 1] = p[i - 1]
            BY <6>1
          <6> QED BY <5>1, <5>3, <6>2
        <5> QED BY <5>2, <5>3
      <4>2. h = [i \in 1..n |-> rhs(h, i)]
        <5> HIDE DEF rhs
        <5> QED BY <4>1
      <4> HIDE DEF h
      <4> QED BY <4>2
    <3>2. PICK g : g = CHOOSE f : Is(f)
      OBVIOUS
    <3>3. Is(g)
      <4> HIDE DEF Is
      <4> QED BY <3>1, <3>2
    <3>4. FlattenSeq(q) = g[n]
      <4>1. FlattenSeq(q) = (CHOOSE f : f = [i \in 1..Len(q) |-> IF i = 1 THEN q[i] ELSE f[i - 1] \o q[i]])[Len(q)]
        BY <2>2, <2>4 DEF FlattenSeq
      <4>2. FlattenSeq(q) = (CHOOSE f : f = [i \in 1..n |-> IF i = 1 THEN q[i] ELSE f[i - 1] \o q[i]])[n]
        BY <2>2, <4>1
      <4> QED BY <3>2, <4>2
    <3>5. \A i \in Nat : i \in {k \in Nat : k \in 1..n => g[k] = p[k]}
      <4> DEFINE K == {k \in Nat : k \in 1..n => g[k] = p[k]}
      <4>1. 0 \in K
        OBVIOUS
      <4>2. ASSUME NEW k \in Nat, k \in K PROVE k + 1 \in K
        <5> SUFFICES ASSUME k + 1 \in 1..n PROVE g[k + 1] = p[k + 1]
          OBVIOUS
        <5>1. g[k + 1] = IF k + 1 = 1 THEN s ELSE g[k] \o s
          <6>1. (k + 1) - 1 = k /\ q[k + 1] = s
            BY <2>2
          <6> QED BY <3>3, <6>1
        <5>2. CASE k = 0
          <6>0. p[k + 1] = p[k] \o s /\ p[k] = << >>
            BY <1>2, <1>3, <5>2
          <6>1. p[k + 1] = << >> \o s /\ << >> \o s = s
            BY <6>0, ConcatEmptySeq
          <6> QED BY <5>1, <5>2, <6>1
        <5>3. CASE k # 0
          <6>1. k \in 1..n /\ k + 1 # 1
            BY <5>3
          <6>2. g[k] = p[k]
            BY <4>2, <6>1
          <6> QED BY <1>3, <5>1, <6>1, <6>2
        <5> QED BY <5>2, <5>3
      <4>3. \A k \in Nat : k \in K
        <5> HIDE DEF K
        <5> QED BY <4>1, <4>2, EveryNat
      <4> QED BY <4>3
    <3>6. n \in 1..n
      BY <2>4
    <3> QED BY <2>1, <3>4, <3>5, <3>6
  <2> QED BY <2>3, <2>4
<1> QED BY <1>2, <1>3, <1>4 DEF Repeats

-----------------------------------------------------------------------------
(***************************************************************************)
(* What is above along the upper covers is below along the lower ones.     *)
(***************************************************************************)
LEMMA BelowOfAbove ==
  ASSUME NEW V, NEW U \in [V -> SUBSET V], NEW L \in [V -> SUBSET V],
         \A a, b \in V : b \in L[a] <=> a \in U[b],
         NEW a \in V, NEW b \in V, a \in Above(V, L, b)
  PROVE  b \in Above(V, U, a)
<1> DEFINE S == {x \in V : b \in Above(V, U, x)}
<1>1. b \in S
  BY AboveIs
<1>2. ASSUME NEW x \in S, NEW y \in L[x] PROVE y \in S
  <2>1. x \in V /\ y \in V /\ x \in U[y] /\ b \in Above(V, U, x)
    OBVIOUS
  <2>2. x \in Above(V, U, y)
    BY <2>1, AboveIs
  <2>3. Above(V, U, x) \subseteq Above(V, U, y)
    BY <2>1, <2>2, AboveAbove
  <2> QED BY <2>1, <2>3
<1>3. S \in SUBSET V
  OBVIOUS
<1> HIDE DEF S
<1>4. Closed(L, S)
  BY <1>2 DEF Closed
<1>5. Above(V, L, b) \subseteq S
  BY <1>1, <1>3, <1>4, AboveIs
<1> QED BY <1>5 DEF S

\* The same, both ways.
LEMMA AboveBelow ==
  ASSUME NEW V, NEW U \in [V -> SUBSET V], NEW L \in [V -> SUBSET V],
         \A a, b \in V : b \in L[a] <=> a \in U[b],
         NEW a \in V, NEW b \in V
  PROVE  a \in Above(V, L, b) <=> b \in Above(V, U, a)
<1>1. \A x, y \in V : y \in U[x] <=> x \in L[y]
  OBVIOUS
<1> QED BY <1>1, BelowOfAbove

\* No two are above each other.
LEMMA NotBothAbove ==
  ASSUME NEW V, NEW U \in [V -> SUBSET V], NoCycle(V, U), NEW a \in V, NEW b \in V,
         a \in Above(V, U, b), b \in Above(V, U, a)
  PROVE  a = b
<1> SUFFICES ASSUME a # b PROVE FALSE
  OBVIOUS
<1>1. PICK y \in U[a] : b \in Above(V, U, y)
  BY AboveFirst
<1>2. y \in V /\ a \notin Above(V, U, y)
  BY DEF NoCycle
<1>3. Above(V, U, b) \subseteq Above(V, U, y)
  BY <1>1, <1>2, AboveAbove
<1> QED BY <1>2, <1>3

(***************************************************************************)
(* A member put between the members of X and those of T above them, in the *)
(* place of the edges between the two.                                     *)
(***************************************************************************)
PutBetween(V, U, W, n, X, T) ==
  /\ \A x \in V : W[x] = IF x = n THEN T ELSE IF x \in X THEN (U[x] \ T) \cup {n} ELSE U[x]
  /\ \A x \in X, t \in T : t # x /\ t \in Above(V, U, x)

\* The others keep their order, and what is below and above the new member.
LEMMA InsertBetween ==
  ASSUME NEW V, NEW U \in [V -> SUBSET V], NEW W \in [V -> SUBSET V],
         NEW n \in V, NEW X \in SUBSET V, NEW T \in SUBSET V, n \notin X, n \notin T,
         Loose(V, U, n), PutBetween(V, U, W, n, X, T)
  PROVE  /\ OthersKept(V, U, W, n) /\ (NoCycle(V, U) => NoCycle(V, W))
         /\ \A x \in V \ {n} : n \in Above(V, W, x) <=> \E l \in X : l \in Above(V, U, x)
         /\ \A y \in V \ {n} : y \in Above(V, W, n) <=> \E t \in T : y \in Above(V, U, t)
<1>1. /\ U[n] = {} /\ \A x \in V : n \notin U[x]
      /\ \A x \in V : W[x] = IF x = n THEN T ELSE IF x \in X THEN (U[x] \ T) \cup {n} ELSE U[x]
      /\ \A x \in X, t \in T : t # x /\ t \in Above(V, U, x)
  BY DEF Loose, PutBetween
<1>0. ASSUME NEW x \in V \ {n} PROVE n \notin Above(V, U, x)
  <2>1. Closed(U, V \ {n})
    BY <1>1 DEF Closed
  <2> QED BY <2>1, AboveIs
<1>2. ASSUME NEW x \in V \ {n}, NEW y \in Above(V, W, x)
      PROVE  y \in Above(V, U, x) \/ (y = n /\ \E l \in X : l \in Above(V, U, x))
  <2> DEFINE A == Above(V, U, x)
             S == {z \in V : z \in A \/ (z = n /\ \E l \in X : l \in A)}
  <2>1. A \in SUBSET V /\ x \in A /\ n \notin A /\ \A z \in A : U[z] \subseteq A
    BY <1>0, AboveIs
  <2>2. ASSUME NEW l \in X, l \in A PROVE T \subseteq A
    <3>1. Above(V, U, l) \subseteq A
      BY <2>2, AboveAbove
    <3> QED BY <1>1, <3>1
  <2> HIDE DEF A
  <2>3. S \in SUBSET V /\ x \in S
    BY <2>1
  <2>4. ASSUME NEW z \in S PROVE W[z] \subseteq S
    <3>1. CASE z = n
      BY <1>1, <2>1, <2>2, <3>1
    <3>2. CASE z # n
      BY <1>1, <2>1, <3>2
    <3> QED BY <3>1, <3>2
  <2>5. Closed(W, S)
    BY <2>4 DEF Closed
  <2> HIDE DEF S
  <2>6. Above(V, W, x) \subseteq S
    BY <2>3, <2>5, AboveIs
  <2> QED BY <2>6 DEF S, A
<1>3. ASSUME NEW x \in V \ {n} PROVE Above(V, U, x) \subseteq Above(V, W, x)
  <2>1. /\ Above(V, W, x) \in SUBSET V /\ x \in Above(V, W, x)
        /\ \A z \in Above(V, W, x) : W[z] \subseteq Above(V, W, x)
    BY AboveIs
  <2>2. ASSUME NEW z \in Above(V, W, x) PROVE U[z] \subseteq Above(V, W, x)
    <3>1. CASE z = n
      BY <1>1, <3>1
    <3>2. CASE z # n /\ z \in X
      <4>1. n \in W[z] /\ U[z] \ T \subseteq W[z]
        BY <1>1, <2>1, <3>2
      <4>2. T \subseteq W[n]
        BY <1>1
      <4> QED BY <2>1, <4>1, <4>2
    <3>3. CASE z # n /\ z \notin X
      BY <1>1, <2>1, <3>3
    <3> QED BY <3>1, <3>2, <3>3
  <2>3. Closed(U, Above(V, W, x))
    BY <2>2 DEF Closed
  <2> QED BY <2>1, <2>3, AboveIs
<1>4. ASSUME NEW x \in V \ {n}, NEW l \in X, l \in Above(V, U, x) PROVE n \in Above(V, W, x)
  <2>1. l \in Above(V, W, x) /\ n \in W[l]
    BY <1>1, <1>3, <1>4
  <2> QED BY <2>1, AboveIs
<1>5. ASSUME NEW y \in V \ {n}, NEW t \in T, y \in Above(V, U, t) PROVE y \in Above(V, W, n)
  <2>1. n \in Above(V, W, n) /\ t \in W[n] /\ t \in V
    BY <1>1, AboveIs
  <2>2. t \in Above(V, W, n)
    BY <2>1, AboveIs
  <2>3. Above(V, W, t) \subseteq Above(V, W, n)
    BY <2>1, <2>2, AboveAbove
  <2> QED BY <1>3, <1>5, <2>1, <2>3
<1>6. ASSUME NEW y \in V \ {n}, y \in Above(V, W, n) PROVE \E t \in T : y \in Above(V, U, t)
  <2>1. PICK t \in W[n] : y \in Above(V, W, t)
    BY <1>6, AboveFirst
  <2>2. t \in T /\ t \in V \ {n}
    BY <1>1
  <2> QED BY <1>2, <2>1, <2>2
<1>7. OthersKept(V, U, W, n)
  BY <1>2, <1>3 DEF OthersKept
<1>8. ASSUME NoCycle(V, U) PROVE NoCycle(V, W)
  <2> SUFFICES ASSUME NEW a \in V, NEW b \in W[a], a \in Above(V, W, b) PROVE FALSE
    BY DEF NoCycle
  <2>1. CASE a # n /\ b # n
    <3>1. b \in U[a] /\ b \in V
      BY <1>1, <2>1
    <3>2. a \in Above(V, U, b)
      BY <1>2, <2>1, <3>1
    <3> QED BY <1>8, <3>1, <3>2 DEF NoCycle
  <2>2. CASE a # n /\ b = n
    <3>1. a \in X
      BY <1>1, <2>2
    <3>2. PICK t \in T : a \in Above(V, U, t)
      BY <1>6, <2>2
    <3>3. t # a /\ t \in Above(V, U, a) /\ t \in V
      BY <1>1, <3>1
    <3> QED BY <1>8, <3>2, <3>3, NotBothAbove
  <2>3. CASE a = n
    <3>1. b \in T /\ b \in V \ {n}
      BY <1>1, <2>3
    <3>2. PICK l \in X : l \in Above(V, U, b)
      BY <1>0, <1>2, <2>3, <3>1
    <3>3. b # l /\ b \in Above(V, U, l) /\ l \in V
      BY <1>1, <3>1
    <3> QED BY <1>8, <3>1, <3>2, <3>3, NotBothAbove
  <2> QED BY <2>1, <2>2, <2>3
<1> QED BY <1>0, <1>2, <1>4, <1>5, <1>6, <1>7, <1>8

(***************************************************************************)
(* The recursion that takes a step until nothing is new ends with a set    *)
(* that the step leaves alone, and with nothing that it need not have.     *)
(***************************************************************************)
Saturates(V, step, grow) ==
  grow = [S \in SUBSET V |-> IF step[S] = S THEN S ELSE grow[step[S]]]

\* It exists, and ends with the least such set.
LEMMA SaturatedIs ==
  ASSUME NEW V, IsFiniteSet(V), NEW step \in [SUBSET V -> SUBSET V],
         \A S \in SUBSET V : S \subseteq step[S],
         NEW S0 \in SUBSET V
  PROVE  /\ \E grow : Saturates(V, step, grow)
         /\ \A grow : Saturates(V, step, grow) =>
              /\ grow[S0] \in SUBSET V /\ S0 \subseteq grow[S0] /\ step[grow[S0]] = grow[S0]
              /\ \A Z \in SUBSET V : S0 \subseteq Z /\ (\A S \in SUBSET Z : step[S] \subseteq Z)
                   => grow[S0] \subseteq Z
<1> DEFINE Fits(S, R) == /\ R \in SUBSET V /\ S \subseteq R /\ step[R] = R
                         /\ \A Z \in SUBSET V : S \subseteq Z /\ (\A T \in SUBSET Z : step[T] \subseteq Z)
                              => R \subseteq Z
           U == [S \in SUBSET V |-> IF step[S] = S THEN {} ELSE {step[S]}]
           F == [SUBSET V -> SUBSET V]
           Do == [S \in SUBSET V |-> [f \in F |-> IF step[S] = S THEN S ELSE f[step[S]]]]
<1>1. IsFiniteSet(SUBSET V) /\ {} \in SUBSET V /\ U \in [SUBSET V -> SUBSET SUBSET V]
  BY FS_SUBSET
<1>2. Grounded(SUBSET V, U)
  <2> SUFFICES ASSUME NEW M \in (SUBSET SUBSET V) \ {{}} PROVE \E x \in M : U[x] \cap M = {}
    BY DEF Grounded
  <2>1. PICK S \in M : \A T \in M : S \subseteq T => T = S
    BY LargestSet
  <2>2. U[S] \cap M = {}
    BY <2>1
  <2> QED BY <2>2
<1>3. StepOn(SUBSET V, U, SUBSET V, Do)
  <2>1. Do \in [SUBSET V -> [F -> SUBSET V]]
    OBVIOUS
  <2>2. ASSUME NEW x \in SUBSET V, NEW f \in F, NEW g \in F, \A y \in U[x] : f[y] = g[y]
        PROVE  Do[x][f] = Do[x][g]
    BY <2>2
  <2> QED BY <2>1, <2>2 DEF StepOn
<1>4. \E grow \in F : \A S \in SUBSET V : grow[S] = IF step[S] = S THEN S ELSE grow[step[S]]
  <2>1. PICK Q : Q = SUBSET V
    OBVIOUS
  <2>2. IsFiniteSet(Q) /\ {} \in Q /\ U \in [Q -> SUBSET Q] /\ Grounded(Q, U) /\ StepOn(Q, U, Q, Do)
    BY ONLY <1>1, <1>2, <1>3, <2>1
  <2>3. \A S \in SUBSET V, f \in F : Do[S][f] = IF step[S] = S THEN S ELSE f[step[S]]
    OBVIOUS
  <2> HIDE DEF U, Do
  <2>4. \E f \in [Q -> Q] : \A x \in Q : f[x] = Do[x][f]
    <3>1. PICK D : D = Do
      OBVIOUS
    <3>2. PICK W : W = U
      OBVIOUS
    <3>3. PICK r : r = {}
      OBVIOUS
    <3>4. /\ IsFiniteSet(Q) /\ r \in Q /\ W \in [Q -> SUBSET Q] /\ Grounded(Q, W)
          /\ StepOn(Q, W, Q, D)
      BY ONLY <2>2, <3>1, <3>2, <3>3
    <3>5. \E f \in [Q -> Q] : \A x \in Q : f[x] = D[x][f]
      BY ONLY <3>4, FiniteRecursion
    <3> QED BY ONLY <3>1, <3>5
  <2>5. PICK f \in F : \A x \in SUBSET V : f[x] = Do[x][f]
    BY ONLY <2>1, <2>4
  <2> HIDE DEF F
  <2> QED BY ONLY <2>3, <2>5
<1> HIDE DEF U, Do, Fits
<1>9. PICK grow \in F : \A S \in SUBSET V : grow[S] = IF step[S] = S THEN S ELSE grow[step[S]]
  BY ONLY <1>4
<1>5. Saturates(V, step, grow)
  BY <1>9 DEF Saturates
<1>6. ASSUME NEW h, Saturates(V, step, h) PROVE \A S \in SUBSET V : Fits(S, h[S])
  <2> DEFINE Bad == {S \in SUBSET V : ~Fits(S, h[S])}
  <2> SUFFICES ASSUME Bad # {} PROVE FALSE
    OBVIOUS
  <2>1. PICK S \in Bad : \A T \in Bad : S \subseteq T => T = S
    <3>1. Bad \in SUBSET SUBSET V
      OBVIOUS
    <3> HIDE DEF Bad
    <3> QED BY <3>1, LargestSet
  <2>2. S \in SUBSET V /\ ~Fits(S, h[S])
    OBVIOUS
  <2>3. h[S] = IF step[S] = S THEN S ELSE h[step[S]]
    BY <1>6, <2>2 DEF Saturates
  <2>4. step[S] \in SUBSET V /\ S \subseteq step[S]
    BY <2>2
  <2>5. CASE step[S] = S
    BY <2>2, <2>3, <2>5 DEF Fits
  <2>6. CASE step[S] # S
    <3>1. step[S] \notin Bad
      BY <2>1, <2>4, <2>6
    <3>2. Fits(step[S], h[S])
      BY <2>3, <2>4, <2>6, <3>1
    <3>3. \A Z \in SUBSET V : S \subseteq Z /\ (\A T \in SUBSET Z : step[T] \subseteq Z)
            => step[S] \subseteq Z
      OBVIOUS
    <3> HIDE DEF Bad
    <3>4. Fits(S, h[S])
      BY <2>4, <3>2, <3>3 DEF Fits
    <3> QED BY <2>2, <3>4
  <2> QED BY <2>5, <2>6
<1> QED BY <1>5, <1>6 DEF Fits

=============================================================================
