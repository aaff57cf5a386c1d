-------------------------- MODULE PosetJoinerProofs --------------------------
(***************************************************************************)
(* Proofs about the joins, for any number of members, jims and nested      *)
(* edits: the members stay in the order of the lattice the jims generate,  *)
(* and the member a join ends with is the join of the expansion.           *)
(***************************************************************************)
EXTENDS PosetJoiner, PosetMembersProofs

-----------------------------------------------------------------------------
(***************************************************************************)
(* The order of a poset, as the reflexive transitive closure of its upper  *)
(* covers.                                                                 *)
(***************************************************************************)
\* b is a or above it.
Under(p, a, b) == b \in Above(Ids, U(p), a)

\* It is a partial order, and its edges are the covers of either half.
LEMMA OrderIs ==
  ASSUME NEW p, Ordered(p)
  PROVE  /\ \A a \in Ids : Under(p, a, a)
         /\ \A a, b, c \in Ids : Under(p, a, b) /\ Under(p, b, c) => Under(p, a, c)
         /\ \A a, b \in Ids : Under(p, a, b) /\ Under(p, b, a) => a = b
         /\ \A a, b \in Ids : Under(p, a, b) /\ a # b =>
              /\ a \in p.members /\ b \in p.members
              /\ \E c \in U(p)[a] : Under(p, c, b)
              /\ \E c \in p.lower[b] : Under(p, a, c)
         /\ \A a, b \in Ids : b \in U(p)[a] => Under(p, a, b) /\ a # b
         /\ \A a \in Ids : \A b \in p.lower[a] : b \in Ids /\ Under(p, b, a) /\ a # b
<1>1. PICK W \in [Ids -> SUBSET Ids] : W = U(p)
  BY OrderedIs
<1>2. /\ NoCycle(Ids, W) /\ p.members \in SUBSET Ids /\ p.lower \in [Ids -> SUBSET Ids]
      /\ \A a, b \in Ids : b \in p.lower[a] <=> a \in W[b]
      /\ \A a, b \in Ids : b \in W[a] => a \in p.members /\ b \in p.members
      /\ \A a \in Ids : a \notin W[a]
      /\ \A a \in Ids : a \in Above(Ids, W, a) /\ W[a] \subseteq Above(Ids, W, a)
  BY <1>1, OrderedIs, WellMadeIs
<1>3. \A a, b \in Ids : b \in Above(Ids, W, a) => Above(Ids, W, b) \subseteq Above(Ids, W, a)
  BY AboveAbove
<1>4. \A a, b \in Ids : b \in Above(Ids, W, a) /\ a \in Above(Ids, W, b) => a = b
  BY <1>2, NotBothAbove
<1>5. ASSUME NEW a \in Ids, NEW b \in Ids, b \in Above(Ids, W, a), a # b
      PROVE  /\ \E c \in W[a] : b \in Above(Ids, W, c)
             /\ \E c \in p.lower[b] : c \in Above(Ids, W, a)
             /\ a \in p.members /\ b \in p.members
  <2>1. PICK c \in W[a] : b \in Above(Ids, W, c)
    BY <1>5, AboveFirst
  <2>2. PICK d \in Above(Ids, W, a) : b \in W[d]
    BY <1>5, AboveLast
  <2>3. d \in Ids /\ c \in Ids
    BY AboveIs
  <2> QED BY <1>2, <2>1, <2>2, <2>3
<1> QED BY <1>1, <1>2, <1>3, <1>4, <1>5 DEF Under

\* The bottom and the top are its ends.
LEMMA EndsAre ==
  ASSUME NEW p, Ordered(p)
  PROVE  /\ \A a \in Ids : Under(p, a, BOTTOM_INDEX) => a = BOTTOM_INDEX
         /\ \A b \in Ids : Under(p, TOP_INDEX, b) => b = TOP_INDEX
         /\ Linked(p) /\ p.jims # {} =>
              \A m \in p.members : Under(p, m, TOP_INDEX) /\ Under(p, BOTTOM_INDEX, m)
<1>1. /\ \A a \in Ids : Under(p, a, BOTTOM_INDEX) => a = BOTTOM_INDEX
      /\ \A b \in Ids : Under(p, TOP_INDEX, b) => b = TOP_INDEX
  BY OrderedIs DEF Under
<1>2. ASSUME Linked(p), NEW j \in p.jims, NEW m \in p.members
      PROVE  Under(p, m, TOP_INDEX) /\ Under(p, BOTTOM_INDEX, m)
  <2>1. p.jims \subseteq p.members \ Standard /\ p.members \in SUBSET Ids
    BY OrderedIs, WellMadeIs
  <2>2. \A x \in p.members \ Standard : Under(p, x, TOP_INDEX) /\ Under(p, BOTTOM_INDEX, x)
    BY <1>2, BetweenThem DEF Under
  <2>3. Under(p, BOTTOM_INDEX, TOP_INDEX)
    BY <2>1, <2>2, IdsAre, OrderIs
  <2> QED BY <2>1, <2>2, <2>3, IdsAre, OrderIs
<1> QED BY <1>1, <1>2

\* Every set of members has one with none below it, and one with none above.
LEMMA LowestAndHighest ==
  ASSUME NEW p, Ordered(p), NEW S \in (SUBSET Ids) \ {{}}
  PROVE  /\ \E a \in S : \A x \in S : Under(p, x, a) => x = a
         /\ \E a \in S : \A x \in S : Under(p, a, x) => x = a
<1>1. PICK W \in [Ids -> SUBSET Ids] : W = U(p)
  BY OrderedIs
<1>2. /\ \A a \in Ids : Above(Ids, W, a) \in SUBSET Ids /\ a \in Above(Ids, W, a)
      /\ \A a, b \in Ids : b \in Above(Ids, W, a) => Above(Ids, W, b) \subseteq Above(Ids, W, a)
      /\ \A a, b \in Ids : b \in Above(Ids, W, a) /\ a \in Above(Ids, W, b) => a = b
  <2>1. \A a \in Ids : Above(Ids, W, a) \in SUBSET Ids /\ a \in Above(Ids, W, a)
    BY AboveIs
  <2>2. \A a, b \in Ids : b \in Above(Ids, W, a) /\ a \in Above(Ids, W, b) => a = b
    BY <1>1, OrderIs DEF Under
  <2> QED BY <2>1, <2>2, AboveAbove
<1> DEFINE Q == {Above(Ids, W, a) : a \in S}
<1>3. Q \in SUBSET SUBSET Ids /\ Q # {}
  BY <1>2
<1>4. PICK T \in Q : \A R \in Q : R \subseteq T => R = T
  <2> HIDE DEF Q
  <2> QED BY <1>3, IdsAre, SmallestSet
<1>5. PICK R \in Q : \A T2 \in Q : R \subseteq T2 => T2 = R
  <2> HIDE DEF Q
  <2> QED BY <1>3, IdsAre, LargestSet
<1>6. PICK a \in S : T = Above(Ids, W, a)
  OBVIOUS
<1>7. PICK b \in S : R = Above(Ids, W, b)
  OBVIOUS
<1>8. \A x \in S : Under(p, a, x) => x = a
  BY <1>1, <1>2, <1>4, <1>6 DEF Under
<1>9. \A x \in S : Under(p, x, b) => x = b
  BY <1>1, <1>2, <1>5, <1>7 DEF Under
<1> QED BY <1>8, <1>9

\* What Down and Up compute.
LEMMA DownIsUnder ==
  ASSUME NEW p, Ordered(p), NEW m \in Ids
  PROVE  /\ Down(p, m) = {x \in Ids : Under(p, x, m)}
         /\ Up(p, m) = {x \in Ids : Under(p, m, x)}
<1> DEFINE L == p.lower
           Is(grow) == grow = [S \in SUBSET Ids |->
                                 LET T == S \cup UNION {p.lower[x] : x \in S}
                                 IN IF T = S THEN S ELSE grow[T]]
<1>1. Down(p, m) = (CHOOSE grow : Is(grow))[{m}]
  BY DEF Down, Closure
<1>2. /\ L \in [Ids -> SUBSET Ids] /\ U(p) \in [Ids -> SUBSET Ids]
      /\ \A a, b \in Ids : b \in L[a] <=> a \in U(p)[b]
  BY OrderedIs, WellMadeIs
<1>3. ASSUME NEW grow PROVE Is(grow) <=> Grows(Ids, L, grow)
  BY DEF Grows
<1> HIDE DEF L, Is
<1>4. /\ \E grow : Grows(Ids, L, grow)
      /\ \A grow : Grows(Ids, L, grow) => grow[{m}] = Above(Ids, L, m)
  BY <1>2, IdsAre, GrowIsAbove
<1>5. Is(CHOOSE grow : Is(grow))
  BY <1>3, <1>4
<1>6. Down(p, m) = Above(Ids, L, m)
  BY <1>1, <1>3, <1>4, <1>5
<1>7. PICK W \in [Ids -> SUBSET Ids] : W = U(p)
  BY <1>2
<1>8. \A x \in Ids : x \in Above(Ids, L, m) <=> m \in Above(Ids, W, x)
  BY <1>2, <1>7, AboveBelow
<1>9. Above(Ids, L, m) \in SUBSET Ids
  BY <1>2, AboveIs
<1>10. Up(p, m) = Above(Ids, W, m)
  BY <1>7, OrderedIs, UpIsAbove
<1>11. Above(Ids, W, m) \in SUBSET Ids
  BY AboveIs
<1> QED BY <1>6, <1>7, <1>8, <1>9, <1>10, <1>11 DEF Under

\* The jims below m, m itself if it is one.
JimsUnder(p, m) == {j \in p.jims : Under(p, j, m)}

\* More are below a greater member; those below a jrm are below its lower covers.
LEMMA JimsUnderIs ==
  ASSUME NEW p, Ordered(p)
  PROVE  /\ \A m : JimsUnder(p, m) \subseteq p.jims
         /\ \A j \in p.jims, m \in Ids : j \in JimsUnder(p, m) <=> Under(p, j, m)
         /\ \A j \in p.jims : j \in JimsUnder(p, j)
         /\ \A a, b \in Ids : Under(p, a, b) => JimsUnder(p, a) \subseteq JimsUnder(p, b)
         /\ JimsUnder(p, BOTTOM_INDEX) = {}
         /\ \A m \in Ids : m \notin p.jims =>
              \A j \in JimsUnder(p, m) : \E l \in p.lower[m] : j \in JimsUnder(p, l)
         /\ \A m \in Ids : JimsBelow(p, m) = JimsUnder(p, m)
<1>1. /\ p.jims \subseteq p.members \ Standard /\ p.members \in SUBSET Ids
      /\ BOTTOM_INDEX \in Ids /\ BOTTOM_INDEX \in Standard
  BY OrderedIs, WellMadeIs, IdsAre
<1>2. /\ \A a \in Ids : Under(p, a, a)
      /\ \A a, b, c \in Ids : Under(p, a, b) /\ Under(p, b, c) => Under(p, a, c)
      /\ \A a, b \in Ids : Under(p, a, b) /\ a # b => \E c \in p.lower[b] : Under(p, a, c)
      /\ \A a \in Ids : Under(p, a, BOTTOM_INDEX) => a = BOTTOM_INDEX
  BY OrderIs, EndsAre
<1>3. \A m \in Ids : JimsBelow(p, m) = JimsUnder(p, m)
  BY <1>1, DownIsUnder DEF JimsBelow, JimsUnder
<1>4. JimsUnder(p, BOTTOM_INDEX) = {}
  BY <1>1, <1>2 DEF JimsUnder
<1>5. \A m \in Ids : m \notin p.jims =>
        \A j \in JimsUnder(p, m) : \E l \in p.lower[m] : j \in JimsUnder(p, l)
  BY <1>1, <1>2 DEF JimsUnder
<1>6. /\ \A m : JimsUnder(p, m) \subseteq p.jims
      /\ \A j \in p.jims, m \in Ids : j \in JimsUnder(p, m) <=> Under(p, j, m)
      /\ \A j \in p.jims : j \in JimsUnder(p, j)
      /\ \A a, b \in Ids : Under(p, a, b) => JimsUnder(p, a) \subseteq JimsUnder(p, b)
  BY <1>1, <1>2 DEF JimsUnder
<1> QED BY <1>3, <1>4, <1>5, <1>6

\* The same jims are below a jrm with a single lower member as below that member.
LEMMA JimsOfSingle ==
  ASSUME NEW p, Ordered(p), NEW m \in Ids, m \notin p.jims, NEW l \in Ids, p.lower[m] = {l}
  PROVE  JimsUnder(p, m) = JimsUnder(p, l)
<1>1. Under(p, l, m)
  BY OrderIs
<1> QED BY <1>1, JimsUnderIs

(***************************************************************************)
(* Members below which one has all the jims of the other are comparable.   *)
(***************************************************************************)
Comparable(p) ==
  \A a, b \in p.members :
    JimsUnder(p, a) \subseteq JimsUnder(p, b) => Under(p, a, b) \/ Under(p, b, a)

\* Of members with different jims, the one with fewer is below.
LEMMA ComparableIs ==
  ASSUME NEW p, Ordered(p), Comparable(p), NEW a \in p.members, NEW b \in p.members,
         JimsUnder(p, a) \subseteq JimsUnder(p, b), JimsUnder(p, a) # JimsUnder(p, b)
  PROVE  Under(p, a, b)
<1>1. a \in Ids /\ b \in Ids
  BY OrderedIs
<1>2. Under(p, b, a) => JimsUnder(p, b) \subseteq JimsUnder(p, a)
  BY <1>1, JimsUnderIs
<1> QED BY <1>2 DEF Comparable

(***************************************************************************)
(* At the end of an edit: the members are the jims and the standard ones.  *)
(***************************************************************************)
LEMMA OnlyJims ==
  ASSUME NEW p, Ordered(p), Linked(p), p.jims # {}, p.members \ Standard \subseteq p.jims
  PROVE  Comparable(p)
<1> SUFFICES ASSUME NEW a \in p.members, NEW b \in p.members,
                    JimsUnder(p, a) \subseteq JimsUnder(p, b)
             PROVE  Under(p, a, b) \/ Under(p, b, a)
  BY DEF Comparable
<1>1. a \in Ids /\ b \in Ids
  BY OrderedIs
<1>2. a \in p.jims => Under(p, a, b)
  BY <1>1, JimsUnderIs
<1>3. a = BOTTOM_INDEX => Under(p, a, b)
  BY EndsAre
<1>4. a = TOP_INDEX => Under(p, b, a)
  BY EndsAre
<1> QED BY <1>2, <1>3, <1>4, IdsAre

(***************************************************************************)
(* A member n that is not a jim made or deleted keeps what is below and    *)
(* comparable among the others.                                            *)
(***************************************************************************)
LEMMA JimsKept ==
  ASSUME NEW p, NEW q, NEW n, OrderOfOthers(p, q, n), q.jims = p.jims, n \notin p.jims,
         p.jims \in SUBSET Ids, NEW m \in Ids, m # n
  PROVE  JimsUnder(q, m) = JimsUnder(p, m) /\ \A x \in Ids \ {n} : Under(q, x, m) <=> Under(p, x, m)
<1>1. \A x, y \in Ids : x # n /\ y # n =>
        (y \in Above(Ids, U(q), x) <=> y \in Above(Ids, U(p), x))
  BY DEF OrderOfOthers, OthersKept
<1> QED BY <1>1 DEF JimsUnder, Under

\* Members compare as before when one of them is deleted.
LEMMA ComparableWithout ==
  ASSUME NEW p, Ordered(p), Comparable(p), NEW n, n \notin p.jims, NEW q,
         q.jims = p.jims, q.members = p.members \ {n}, OrderOfOthers(p, q, n)
  PROVE  Comparable(q)
<1>1. p.members \in SUBSET Ids /\ p.jims \in SUBSET Ids
  BY OrderedIs, WellMadeIs
<1>2. \A m \in p.members \ {n} :
        JimsUnder(q, m) = JimsUnder(p, m) /\ \A x \in Ids \ {n} : Under(q, x, m) <=> Under(p, x, m)
  BY <1>1, JimsKept
<1> QED BY <1>1, <1>2 DEF Comparable

(***************************************************************************)
(* A new member n between those of X and those of T: below it are the jims *)
(* below the members of X, and if it is comparable with the members of     *)
(* which it has or that have its jims, all are.                            *)
(***************************************************************************)
Between(p, q, n, X, T) == PutBetween(Ids, U(p), U(q), n, X, T)

\* What is below and above the new member.
LEMMA BetweenIs ==
  ASSUME NEW p, Ordered(p), NEW q, Ordered(q), q.jims = p.jims,
         NEW n \in Ids, n \notin p.jims, Free(p, n),
         NEW X \in SUBSET Ids, NEW T \in SUBSET Ids, n \notin X, n \notin T,
         Between(p, q, n, X, T)
  PROVE  /\ OrderOfOthers(p, q, n)
         /\ \A x \in Ids \ {n} : Under(q, x, n) <=> \E l \in X : Under(p, x, l)
         /\ \A y \in Ids \ {n} : Under(q, n, y) <=> \E t \in T : Under(p, t, y)
         /\ JimsUnder(q, n) = UNION {JimsUnder(p, l) : l \in X}
<1>1. PICK W \in [Ids -> SUBSET Ids] : W = U(p)
  BY OrderedIs
<1>2. PICK Z \in [Ids -> SUBSET Ids] : Z = U(q)
  BY OrderedIs
<1>3. /\ OthersKept(Ids, W, Z, n)
      /\ \A x \in Ids \ {n} : n \in Above(Ids, Z, x) <=> \E l \in X : l \in Above(Ids, W, x)
      /\ \A y \in Ids \ {n} : y \in Above(Ids, Z, n) <=> \E t \in T : y \in Above(Ids, W, t)
  <2>1. Loose(Ids, W, n) /\ PutBetween(Ids, W, Z, n, X, T)
    BY <1>1, <1>2 DEF Free, Between
  <2>2. PICK V : V = Ids
    OBVIOUS
  <2>3. /\ W \in [V -> SUBSET V] /\ Z \in [V -> SUBSET V] /\ n \in V
        /\ X \in SUBSET V /\ T \in SUBSET V /\ n \notin X /\ n \notin T
        /\ Loose(V, W, n) /\ PutBetween(V, W, Z, n, X, T)
    BY <2>1, <2>2
  <2>4. /\ OthersKept(V, W, Z, n)
        /\ \A x \in V \ {n} : n \in Above(V, Z, x) <=> \E l \in X : l \in Above(V, W, x)
        /\ \A y \in V \ {n} : y \in Above(V, Z, n) <=> \E t \in T : y \in Above(V, W, t)
    BY ONLY <2>3, InsertBetween
  <2> QED BY ONLY <2>2, <2>4
<1>4. p.jims \in SUBSET (Ids \ {n})
  BY OrderedIs, WellMadeIs
<1>5. JimsUnder(q, n) = UNION {JimsUnder(p, l) : l \in X}
  BY <1>1, <1>2, <1>3, <1>4 DEF JimsUnder, Under
<1> QED BY <1>1, <1>2, <1>3, <1>5 DEF Under, OrderOfOthers

\* n is comparable with b in q if its jims are among those of b, or the other way round.
Fits(p, q, n, b) ==
  JimsUnder(q, n) \subseteq JimsUnder(p, b) \/ JimsUnder(p, b) \subseteq JimsUnder(q, n) =>
    Under(q, n, b) \/ Under(q, b, n)

\* All members but n are comparable, where one has the jims of the other.
ComparableBut(p, n) ==
  \A a, b \in p.members \ {n} :
    JimsUnder(p, a) \subseteq JimsUnder(p, b) => Under(p, a, b) \/ Under(p, b, a)

\* Members compare as before, and with the new one if it fits.
LEMMA ComparableWith ==
  ASSUME NEW p, Ordered(p), NEW q, Ordered(q), q.jims = p.jims,
         NEW n \in Ids, n \notin p.jims, OrderOfOthers(p, q, n),
         ComparableBut(p, n),
         q.members \subseteq p.members \cup {n}, \A b \in p.members \ {n} : Fits(p, q, n, b)
  PROVE  Comparable(q)
<1>1. p.members \in SUBSET Ids /\ p.jims \in SUBSET Ids /\ Under(q, n, n)
  BY OrderedIs, WellMadeIs, OrderIs
<1>2. \A m \in p.members \ {n} :
        JimsUnder(q, m) = JimsUnder(p, m) /\ \A x \in Ids \ {n} : Under(q, x, m) <=> Under(p, x, m)
  BY <1>1, JimsKept
<1> SUFFICES ASSUME NEW a \in q.members, NEW b \in q.members,
                    JimsUnder(q, a) \subseteq JimsUnder(q, b)
             PROVE  Under(q, a, b) \/ Under(q, b, a)
  BY DEF Comparable
<1>3. CASE a # n /\ b # n
  BY <1>1, <1>2, <1>3 DEF ComparableBut
<1>4. CASE a = n /\ b # n
  BY <1>2, <1>4 DEF Fits
<1>5. CASE a # n /\ b = n
  BY <1>2, <1>5 DEF Fits
<1> QED BY <1>1, <1>3, <1>4, <1>5

\* One step of the fold: e is listed if it is in K.
Picked(s, e, K) == IF e \in K THEN Append(s, e) ELSE s
\* The fold over the indices in S, the greatest first.
Listed(it, S, f, K) ==
  it = [T \in SUBSET S |-> IF T = {} THEN << >> ELSE Picked(it[T \ {Max(T)}], f[Max(T)], K)]

\* f takes no value twice.
OneToOne(f, S) == \A i, j \in S : f[i] = f[j] => i = j
\* S holds naturals up to N.
UpTo(S, N) == S \in SUBSET (0..N)

\* The fold exists, and lists the values f has in K, each once.
Lists(S, f, K, V) ==
  /\ \E it : Listed(it, S, f, K)
  /\ \A it : Listed(it, S, f, K) =>
       /\ it[S] \in Seq(V) /\ IsInjective(it[S])
       /\ \A e : e \in ToSet(it[S]) <=> e \in K /\ \E i \in S : e = f[i]

\* It does, for every set of indices: by the greatest of them.
LEMMA ListedIs ==
  ASSUME NEW N \in Nat, NEW S, UpTo(S, N), NEW V, NEW f \in [S -> V], OneToOne(f, S), NEW K
  PROVE  Lists(S, f, K, V)
<1>0. S \in SUBSET (0..N) /\ \A i, j \in S : f[i] = f[j] => i = j
  BY DEF UpTo, OneToOne
<1>1. IsFiniteSet(S) /\ \A T \in (SUBSET S) \ {{}} : Max(T) \in T
  <2>1. IsFiniteSet(0..N)
    BY FS_Interval
  <2> QED BY <1>0, <2>1, FS_Subset, MaxOfNats
<1>2. \A s \in Seq(V), e \in V : Picked(s, e, K) \in Seq(V)
  BY SetOfAppend DEF Picked
<1>3. << >> \in Seq(V)
  BY EmptyIs
<1>4. \E it : Listed(it, S, f, K)
  <2> DEFINE R == Seq(V)
             g == [s \in R |-> [i \in S |-> Picked(s, f[i], K)]]
  <2>1. g \in [R -> [S -> R]]
    BY <1>2
  <2>2. \A s \in R : \A i \in S : g[s][i] = Picked(s, f[i], K)
    OBVIOUS
  <2>3. PICK base \in R : base = << >>
    BY <1>3
  <2> HIDE DEF g, R
  <2>4. PICK it \in [SUBSET S -> R] : Folded(it, S, base, g)
    BY <1>0, <2>1, FoldExists
  <2>5. ASSUME NEW T \in SUBSET S
        PROVE  it[T] = IF T = {} THEN << >> ELSE Picked(it[T \ {Max(T)}], f[Max(T)], K)
    <3>1. CASE T = {}
      BY <2>3, <2>4, <3>1 DEF Folded
    <3>2. CASE T # {}
      <4>1. PICK m \in S : m = Max(T)
        BY <1>1, <3>2
      <4>2. PICK s \in R : s = it[T \ {m}]
        OBVIOUS
      <4>3. it[T] = g[s][m]
        BY <2>4, <3>2, <4>1, <4>2 DEF Folded
      <4> QED BY <2>2, <3>2, <4>1, <4>2, <4>3
    <3> QED BY <3>1, <3>2
  <2>6. it = [T \in SUBSET S |-> it[T]]
    OBVIOUS
  <2>7. [T \in SUBSET S |-> it[T]]
          = [T \in SUBSET S |-> IF T = {} THEN << >> ELSE Picked(it[T \ {Max(T)}], f[Max(T)], K)]
    BY ONLY <2>5, Zenon
  <2>8. Listed(it, S, f, K)
    BY ONLY <2>6, <2>7, Zenon DEF Listed
  <2> QED BY <2>8
<1>5. ASSUME NEW it, Listed(it, S, f, K)
      PROVE  /\ it[S] \in Seq(V) /\ IsInjective(it[S])
             /\ \A e : e \in ToSet(it[S]) <=> e \in K /\ \E i \in S : e = f[i]
  <2>1. /\ it[{}] = << >>
        /\ \A T \in (SUBSET S) \ {{}} : it[T] = Picked(it[T \ {Max(T)}], f[Max(T)], K)
    BY <1>5 DEF Listed
  <2> DEFINE Good == [T \in SUBSET S |->
                        {s \in Seq(V) : /\ IsInjective(s)
                                        /\ \A e : e \in ToSet(s) <=> e \in K /\ \E i \in T : e = f[i]}]
  <2>2. it[{}] \in Good[{}]
    BY <2>1, EmptyIs
  <2>3. ASSUME NEW T \in (SUBSET S) \ {{}}, it[T \ {Max(T)}] \in Good[T \ {Max(T)}]
        PROVE  it[T] \in Good[T]
    <3>1. PICK m \in T : m = Max(T)
      BY <1>1
    <3>2. m \in S /\ T \ {m} \in SUBSET S /\ T \in SUBSET S
      BY <3>1
    <3>3. PICK s \in Seq(V) : /\ s = it[T \ {m}] /\ IsInjective(s)
                              /\ \A e : e \in ToSet(s) <=> e \in K /\ \E i \in T \ {m} : e = f[i]
      BY <2>3, <3>1, <3>2
    <3>4. PICK e \in V : e = f[m]
      BY <3>2
    <3>5. it[T] = Picked(s, e, K)
      BY <2>1, <3>1, <3>3, <3>4
    <3>6. IsInjective(s) /\ e \notin ToSet(s)
      BY <1>0, <3>2, <3>3, <3>4
    <3>7. /\ Append(s, e) \in Seq(V) /\ ToSet(Append(s, e)) = ToSet(s) \cup {e}
          /\ IsInjective(Append(s, e))
      BY ONLY <3>6, s \in Seq(V), e \in V, SetOfAppend
    <3>8. PICK r : r = it[T]
      OBVIOUS
    <3>9. r \in Seq(V) /\ IsInjective(r)
      BY <3>3, <3>5, <3>7, <3>8 DEF Picked
    <3>10. \A x : x \in ToSet(r) <=> x \in K /\ \E i \in T : x = f[i]
      <4>1. \A x : (\E i \in T : x = f[i]) <=> x = e \/ \E i \in T \ {m} : x = f[i]
        BY <3>4
      <4>2. \A x : x \in ToSet(r) <=> x \in ToSet(s) \/ (x = e /\ e \in K)
        BY <3>5, <3>7, <3>8 DEF Picked
      <4> QED BY <3>3, <4>1, <4>2
    <3> QED BY <3>2, <3>8, <3>9, <3>10
  <2> HIDE DEF Good
  <2>4. it[S] \in Good[S]
    BY <1>1, <2>2, <2>3, FoldKeeps
  <2> QED BY <2>4 DEF Good
<1> QED BY <1>4, <1>5 DEF Lists

\* InIdOrder lists a set.
LEMMA InIdOrderIs ==
  ASSUME NEW S \in SUBSET Ids
  PROVE  /\ InIdOrder(S) \in Seq(Ids) /\ IsInjective(InIdOrder(S)) /\ ToSet(InIdOrder(S)) = S
<1> DEFINE Is(it) == it = [T \in SUBSET S |->
                             IF T = {} THEN << >> ELSE Append(it[T \ {Max(T)}], Max(T))]
           f == [i \in S |-> i]
<1>1. InIdOrder(S) = (CHOOSE it : Is(it))[S]
  BY DEF InIdOrder, FoldInIdOrder, MapThenFoldSet
<1>2. /\ MaxId \in Nat /\ S \in SUBSET (0..MaxId) /\ f \in [S -> Ids]
      /\ \A i, j \in S : f[i] = f[j] => i = j
  BY MaxIdAssumption DEF Ids
<1>3. \A T \in (SUBSET S) \ {{}} : Max(T) \in T
  BY <1>2, MaxOfNats
<1>4. ASSUME NEW it PROVE Is(it) <=> Listed(it, S, f, Ids)
  <2>1. ASSUME NEW T \in SUBSET S
        PROVE (IF T = {} THEN << >> ELSE Append(it[T \ {Max(T)}], Max(T)))
                = (IF T = {} THEN << >> ELSE Picked(it[T \ {Max(T)}], f[Max(T)], Ids))
    <3>1. CASE T # {}
      <4>1. PICK m \in S : m = Max(T)
        BY <1>3, <3>1
      <4>2. f[m] = m /\ m \in Ids
        OBVIOUS
      <4> QED BY <4>1, <4>2 DEF Picked
    <3> QED BY <3>1
  <2>2. [T \in SUBSET S |-> IF T = {} THEN << >> ELSE Append(it[T \ {Max(T)}], Max(T))]
          = [T \in SUBSET S |-> IF T = {} THEN << >> ELSE Picked(it[T \ {Max(T)}], f[Max(T)], Ids)]
    BY ONLY <2>1, Zenon
  <2> QED BY ONLY <2>2, Zenon DEF Listed
<1> HIDE DEF Is, f
<1>5. /\ \E it : Listed(it, S, f, Ids)
      /\ \A it : Listed(it, S, f, Ids) =>
           /\ it[S] \in Seq(Ids) /\ IsInjective(it[S])
           /\ \A e : e \in ToSet(it[S]) <=> e \in Ids /\ \E i \in S : e = f[i]
  <2>1. PICK N \in Nat : N = MaxId
    BY <1>2
  <2>2. UpTo(S, N) /\ f \in [S -> Ids] /\ OneToOne(f, S)
    BY <1>2, <2>1 DEF UpTo, OneToOne
  <2>3. Lists(S, f, Ids, Ids)
    BY ONLY <2>2, N \in Nat, ListedIs
  <2> QED BY <2>3 DEF Lists
<1>6. Listed(CHOOSE it : Is(it), S, f, Ids)
  BY <1>4, <1>5
<1>7. PICK s \in Seq(Ids) : /\ s = InIdOrder(S) /\ IsInjective(s)
                            /\ \A e : e \in ToSet(s) <=> e \in Ids /\ \E i \in S : e = f[i]
  BY <1>1, <1>5, <1>6
<1>8. ToSet(s) = S
  BY <1>7 DEF f
<1> QED BY <1>7, <1>8

\* Without lists what is not in S.
LEMMA WithoutIs ==
  ASSUME NEW s \in Seq(Ids), IsInjective(s), NEW S
  PROVE  /\ Without(s, S) \in Seq(Ids) /\ IsInjective(Without(s, S))
         /\ ToSet(Without(s, S)) = ToSet(s) \ S
<1> DEFINE D == 1..Len(s)
           K == Ids \ S
           Is(it) == it = [T \in SUBSET D |->
                             IF T = {} THEN << >>
                             ELSE IF s[Max(T)] \in S THEN it[T \ {Max(T)}]
                             ELSE Append(it[T \ {Max(T)}], s[Max(T)])]
<1>1. Without(s, S) = (CHOOSE it : Is(it))[D]
  <2>1. DOMAIN s = D
    OBVIOUS
  <2> QED BY <2>1 DEF Without, FoldLeft, MapThenFoldSet
<1>2. /\ Len(s) \in Nat /\ D \in SUBSET (0..Len(s)) /\ s \in [D -> Ids]
      /\ \A i, j \in D : s[i] = s[j] => i = j
  BY DEF IsInjective
<1>3. \A e : e \in ToSet(s) <=> \E i \in D : s[i] = e
  BY SetOf
<1> HIDE DEF D
<1>4. \A T \in (SUBSET D) \ {{}} : Max(T) \in T
  BY <1>2, MaxOfNats
<1>5. ASSUME NEW it PROVE Is(it) <=> Listed(it, D, s, K)
  <2>1. ASSUME NEW T \in SUBSET D
        PROVE (IF T = {} THEN << >>
               ELSE IF s[Max(T)] \in S THEN it[T \ {Max(T)}]
               ELSE Append(it[T \ {Max(T)}], s[Max(T)]))
                = (IF T = {} THEN << >> ELSE Picked(it[T \ {Max(T)}], s[Max(T)], K))
    <3>1. CASE T # {}
      <4>1. PICK m \in D : m = Max(T)
        BY <1>4, <3>1
      <4>2. s[m] \in Ids
        BY <1>2
      <4> QED BY <4>1, <4>2 DEF Picked
    <3> QED BY <3>1
  <2> HIDE DEF K
  <2>2. [T \in SUBSET D |-> IF T = {} THEN << >>
                            ELSE IF s[Max(T)] \in S THEN it[T \ {Max(T)}]
                            ELSE Append(it[T \ {Max(T)}], s[Max(T)])]
          = [T \in SUBSET D |-> IF T = {} THEN << >> ELSE Picked(it[T \ {Max(T)}], s[Max(T)], K)]
    BY ONLY <2>1, Zenon
  <2> QED BY ONLY <2>2, Zenon DEF Listed
<1> HIDE DEF Is, K
<1>6. /\ \E it : Listed(it, D, s, K)
      /\ \A it : Listed(it, D, s, K) =>
           /\ it[D] \in Seq(Ids) /\ IsInjective(it[D])
           /\ \A e : e \in ToSet(it[D]) <=> e \in K /\ \E i \in D : e = s[i]
  <2>1. PICK N \in Nat : N = Len(s)
    BY <1>2
  <2>2. UpTo(D, N) /\ s \in [D -> Ids] /\ OneToOne(s, D)
    BY <1>2, <2>1 DEF UpTo, OneToOne
  <2>3. Lists(D, s, K, Ids)
    BY ONLY <2>2, N \in Nat, ListedIs
  <2> QED BY <2>3 DEF Lists
<1>7. Listed(CHOOSE it : Is(it), D, s, K)
  BY <1>5, <1>6
<1>8. PICK r \in Seq(Ids) : /\ r = Without(s, S) /\ IsInjective(r)
                            /\ \A e : e \in ToSet(r) <=> e \in K /\ \E i \in D : e = s[i]
  BY <1>1, <1>6, <1>7
<1>9. ToSet(r) = ToSet(s) \ S
  <2>1. ToSet(s) \in SUBSET Ids
    BY SetOf
  <2> QED BY <1>3, <1>8, <2>1 DEF K
<1> QED BY <1>8, <1>9

\* A member n may be put over those of X and under those of T.
MayPut(p, n, X, T) ==
  /\ X \in SUBSET p.members /\ T \in SUBSET p.members /\ n \notin X /\ n \notin T
  /\ TOP_INDEX \notin X /\ BOTTOM_INDEX \notin T
  /\ \A x \in X : \A t \in T : t # x /\ Under(p, x, t)

\* link_result puts its result there, and leaves the poset ordered.
LEMMA LinkResult ==
  ASSUME NEW p, Ordered(p), NEW n \in p.members \ Standard, Free(p, n),
         NEW X, NEW T, MayPut(p, n, X, T)
  PROVE  LET q == link_result(p, X, T, n) IN
         Ordered(q) /\ SameMembers(p, q) /\ Between(p, q, n, X, T)
<1> DEFINE q == link_result(p, X, T, n)
<1>1. /\ WellMade(p) /\ p.members \in SUBSET Ids /\ n \in Ids /\ n \in p.members
      /\ p.lower \in [Ids -> SUBSET Ids] /\ p.upper \in [Ids -> Seq(Ids)]
      /\ n # TOP_INDEX /\ n # BOTTOM_INDEX
      /\ U(p) \in [Ids -> SUBSET Ids] /\ NoCycle(Ids, U(p)) /\ Ends(p)
      /\ \A a \in Ids : U(p)[a] = ToSet(p.upper[a]) /\ IsInjective(p.upper[a])
      /\ \A a, b \in Ids : b \in p.lower[a] <=> a \in U(p)[b]
      /\ \A a, b \in Ids : b \in U(p)[a] => a \in p.members /\ b \in p.members
  BY OrderedIs, WellMadeIs, IdsAre
<1>2. U(p)[n] = {} /\ \A x \in Ids : n \notin U(p)[x]
  BY DEF Free, Loose
<1>3. /\ X \in SUBSET p.members /\ T \in SUBSET p.members /\ n \notin X /\ n \notin T
      /\ TOP_INDEX \notin X /\ BOTTOM_INDEX \notin T
      /\ \A x \in X : \A t \in T : t # x /\ Under(p, x, t)
  BY DEF MayPut
<1>4. InIdOrder(T) \in Seq(Ids) /\ IsInjective(InIdOrder(T)) /\ ToSet(InIdOrder(T)) = T
  BY <1>1, <1>3, InIdOrderIs
<1>5. ASSUME NEW m \in Ids
      PROVE  /\ Append(Without(p.upper[m], T), n) \in Seq(Ids)
             /\ IsInjective(Append(Without(p.upper[m], T), n))
             /\ ToSet(Append(Without(p.upper[m], T), n)) = (U(p)[m] \ T) \cup {n}
  <2>1. PICK s \in Seq(Ids) : s = p.upper[m] /\ IsInjective(s) /\ ToSet(s) = U(p)[m]
    BY <1>1
  <2>2. PICK r \in Seq(Ids) : /\ r = Without(s, T) /\ IsInjective(r) /\ ToSet(r) = ToSet(s) \ T
    BY <2>1, WithoutIs
  <2>3. n \notin ToSet(r)
    BY <1>2, <2>1, <2>2
  <2>4. /\ Append(r, n) \in Seq(Ids) /\ ToSet(Append(r, n)) = ToSet(r) \cup {n}
        /\ IsInjective(Append(r, n))
    BY <1>1, <2>2, <2>3, SetOfAppend
  <2> QED BY <2>1, <2>2, <2>4
<1> DEFINE lower == [m \in Ids |-> IF m = n THEN X
                                   ELSE IF m \in T THEN (p.lower[m] \ X) \cup {n}
                                   ELSE p.lower[m]]
           upper == [m \in Ids |-> IF m = n THEN InIdOrder(T)
                                   ELSE IF m \in X THEN Append(Without(p.upper[m], T), n)
                                   ELSE p.upper[m]]
<1>6. p \in Posets /\ q = [p EXCEPT !.lower = lower, !.upper = upper]
  BY <1>1 DEF WellMade, link_result, Posets
<1>7. lower \in [Ids -> SUBSET Ids] /\ upper \in [Ids -> Seq(Ids)]
  BY <1>1, <1>3, <1>4, <1>5
<1>a. /\ \A m \in Ids : lower[m] = IF m = n THEN X
                                   ELSE IF m \in T THEN (p.lower[m] \ X) \cup {n}
                                   ELSE p.lower[m]
      /\ \A m \in Ids : upper[m] = IF m = n THEN InIdOrder(T)
                                   ELSE IF m \in X THEN Append(Without(p.upper[m], T), n)
                                   ELSE p.upper[m]
  OBVIOUS
<1> HIDE DEF lower, upper, q
<1>8. /\ q \in Posets /\ SameMembers(p, q) /\ q.lower = lower /\ q.upper = upper
  BY <1>6, <1>7 DEF Posets, SameMembers
<1>9. \A m \in Ids : /\ ToSet(upper[m]) = IF m = n THEN T
                                          ELSE IF m \in X THEN (U(p)[m] \ T) \cup {n}
                                          ELSE U(p)[m]
                     /\ IsInjective(upper[m])
  BY <1>1, <1>4, <1>5, <1>a
<1>b. ASSUME NEW a \in Ids, NEW b \in Ids
      PROVE  a \in ToSet(upper[b]) <=>
               \/ b = n /\ a \in T
               \/ b # n /\ b \in X /\ (a = n \/ (a \in U(p)[b] /\ a \notin T))
               \/ b # n /\ b \notin X /\ a \in U(p)[b]
  BY <1>9
<1>10. Fit(p.members, q.lower, q.upper)
  <2>1. ASSUME NEW a \in Ids, NEW b \in Ids
        PROVE  b \in lower[a] <=> a \in ToSet(upper[b])
    <3>1. b \in lower[a] <=> \/ a = n /\ b \in X
                             \/ a # n /\ a \in T /\ (b = n \/ (b \in p.lower[a] /\ b \notin X))
                             \/ a # n /\ a \notin T /\ b \in p.lower[a]
      BY <1>a
    <3>2. b \in p.lower[a] <=> a \in U(p)[b]
      BY <1>1
    <3>3. (b = n => a \notin U(p)[b]) /\ (a = n => a \notin U(p)[b])
      BY <1>2
    <3> QED BY <1>b, <1>3, <3>1, <3>2, <3>3
  <2>2. ASSUME NEW a \in Ids, NEW b \in Ids, b \in ToSet(upper[a])
        PROVE  a \in p.members /\ b \in p.members
    BY <1>1, <1>3, <1>b, <2>2
  <2> QED BY <1>8, <1>9, <2>1, <2>2 DEF Fit
<1>12. WellMade(q) /\ \A x \in Ids : U(q)[x] = ToSet(q.upper[x])
  BY <1>1, <1>8, <1>10, WithCovers
<1>13. PICK W \in [Ids -> SUBSET Ids] : W = U(p)
  BY <1>1
<1>14. PICK Z \in [Ids -> SUBSET Ids] : Z = U(q)
  BY <1>12, WellMadeIs
<1>c. \A x \in Ids : U(q)[x] = ToSet(upper[x])
  BY <1>8, <1>12
<1>15. PutBetween(Ids, W, Z, n, X, T)
  <2>1. \A x \in Ids : Z[x] = IF x = n THEN T ELSE IF x \in X THEN (W[x] \ T) \cup {n} ELSE W[x]
    BY <1>9, <1>c, <1>13, <1>14
  <2> QED BY <1>3, <1>13, <2>1 DEF PutBetween, Under
<1>16. NoCycle(Ids, Z)
  <2>1. Loose(Ids, W, n) /\ NoCycle(Ids, W)
    BY <1>1, <1>13 DEF Free
  <2>2. PICK V : V = Ids
    OBVIOUS
  <2>3. /\ W \in [V -> SUBSET V] /\ Z \in [V -> SUBSET V] /\ n \in V
        /\ X \in SUBSET V /\ T \in SUBSET V /\ n \notin X /\ n \notin T
        /\ Loose(V, W, n) /\ PutBetween(V, W, Z, n, X, T) /\ NoCycle(V, W)
    BY <1>1, <1>3, <1>15, <2>1, <2>2
  <2>4. NoCycle(V, Z)
    BY ONLY <2>3, InsertBetween
  <2> QED BY <2>2, <2>4
<1>17. Ends(q)
  <2>1. U(p)[TOP_INDEX] = {} /\ \A x \in Ids : BOTTOM_INDEX \notin U(p)[x]
    BY <1>1 DEF Ends
  <2>2. U(q)[TOP_INDEX] = {}
    BY <1>1, <1>3, <1>9, <1>c, <2>1, IdsAre
  <2>3. ASSUME NEW x \in Ids PROVE BOTTOM_INDEX \notin U(q)[x]
    <3>1. BOTTOM_INDEX \notin ToSet(upper[x])
      BY <1>1, <1>3, <1>b, <2>1, IdsAre
    <3> QED BY <1>c, <3>1
  <2> QED BY <2>2, <2>3 DEF Ends
<1> QED BY <1>8, <1>12, <1>13, <1>14, <1>15, <1>16, <1>17 DEF q, Ordered, Between

\* It leaves no member but the ends without a cover.
LEMMA LinkedBetween ==
  ASSUME NEW p, Ordered(p), NEW q, SameMembers(p, q),
         NEW n \in p.members, Free(p, n), LinkedBut(p, n),
         NEW X, NEW T, MayPut(p, n, X, T), X # {}, T # {}, Between(p, q, n, X, T)
  PROVE  Linked(q)
<1>1. /\ X \in SUBSET p.members /\ T \in SUBSET p.members /\ n \notin X /\ n \notin T
      /\ p.members \in SUBSET Ids /\ q.members = p.members
      /\ \A x \in Ids : U(q)[x] = IF x = n THEN T
                                  ELSE IF x \in X THEN (U(p)[x] \ T) \cup {n} ELSE U(p)[x]
  BY OrderedIs DEF MayPut, SameMembers, Between, PutBetween
<1>2. ASSUME NEW m \in p.members \ Standard, m # n
      PROVE  U(q)[m] # {} /\ \E x \in p.members : m \in U(q)[x]
  <2>1. U(p)[m] # {} /\ \E x \in p.members : m \in U(p)[x]
    BY <1>2, IdsAre DEF LinkedBut
  <2>2. U(q)[m] # {}
    BY <1>1, <1>2, <2>1
  <2>3. CASE m \in T
    <3>1. n \in Ids /\ m \in U(q)[n]
      BY <1>1, <2>3
    <3> QED BY <2>2, <3>1
  <2>4. CASE m \notin T
    <3>1. PICK x \in p.members : m \in U(p)[x]
      BY <2>1
    <3>2. x \in Ids /\ x # n
      BY <1>1, <3>1 DEF Free, Loose
    <3>3. m \in U(q)[x]
      BY <1>1, <2>4, <3>1, <3>2
    <3> QED BY <2>2, <3>3
  <2> QED BY <2>3, <2>4
<1>3. U(q)[n] # {} /\ \E x \in p.members : n \in U(q)[x]
  BY <1>1
<1> QED BY <1>1, <1>2, <1>3 DEF Linked

\* The greatest and the least jem of m have the jims of m.
LEMMA JemsHaveItsJims ==
  ASSUME NEW p, Ordered(p), NEW m \in p.members
  PROVE  /\ JimsUnder(p, greatest_jem(p, m)) = JimsUnder(p, m)
         /\ JimsUnder(p, least_jem(p, m)) = JimsUnder(p, m)
<1> DEFINE K == {g \in p.members : JimsUnder(p, g) = JimsUnder(p, m)}
<1>1. /\ WellMade(p) /\ p.members \in SUBSET Ids /\ U(p) \in [Ids -> SUBSET Ids]
      /\ \A a \in Ids : U(p)[a] \subseteq p.members
      /\ \A a, b \in Ids : b \in p.lower[a] <=> a \in U(p)[b]
      /\ \A a, b \in Ids : b \in U(p)[a] => a \in p.members /\ b \in p.members
  BY OrderedIs
<1>2. \A u, r \in Ids : ~is_jim(p, u) /\ p.lower[u] = {r} => JimsUnder(p, u) = JimsUnder(p, r)
  BY JimsOfSingle DEF is_jim
<1>3. K \in SUBSET p.members /\ m \in K
  OBVIOUS
<1>4. \A r \in K : \A u \in U(p)[r] : ~is_jim(p, u) /\ p.lower[u] = {r} => u \in K
  BY <1>1, <1>2
<1>5. \A r \in K : \A u \in Ids : ~is_jim(p, r) /\ p.lower[r] = {u} => u \in K
  BY <1>1, <1>2
<1> HIDE DEF K
<1>6. greatest_jem(p, m) \in K
  BY <1>1, <1>3, <1>4, GreatestJemIn
<1>7. least_jem(p, m) \in K
  BY <1>1, <1>3, <1>5, LeastJemIn
<1> QED BY <1>6, <1>7 DEF K

(***************************************************************************)
(* A jem is put over or under a member g with the jims of m; the members   *)
(* comparable with g are comparable with the jem.                          *)
(***************************************************************************)
LEMMA JemBetween ==
  ASSUME NEW p, Ordered(p), NEW g \in p.members, NEW n \in Ids, n # g, Free(p, n), NEW q
  PROVE  /\ PutOver(p, q, n, g) => Between(p, q, n, {g}, U(p)[g])
         /\ PutUnder(p, q, n, g) => Between(p, q, n, p.lower[g], {g})
<1>1. /\ p.members \in SUBSET Ids /\ U(p) \in [Ids -> SUBSET Ids] /\ g \in Ids
      /\ p.lower \in [Ids -> SUBSET Ids]
      /\ \A a, b \in Ids : b \in p.lower[a] <=> a \in U(p)[b]
  BY OrderedIs, WellMadeIs
<1>2. U(p)[n] = {} /\ \A x \in Ids : n \notin U(p)[x]
  BY DEF Free, Loose
<1>3. \A t \in U(p)[g] : t # g /\ t \in Above(Ids, U(p), g)
  BY <1>1, OrderIs DEF Under
<1>4. \A x \in p.lower[g] : g # x /\ g \in Above(Ids, U(p), x)
  BY <1>1, OrderIs DEF Under
<1>5. ASSUME PutOver(p, q, n, g) PROVE Between(p, q, n, {g}, U(p)[g])
  <2>1. \A x \in Ids : U(q)[x] = IF x = g THEN {n} ELSE IF x = n THEN U(p)[g] ELSE U(p)[x]
    BY <1>5 DEF PutOver, PutAbove
  <2>2. \A x \in Ids : U(q)[x] = IF x = n THEN U(p)[g]
                                 ELSE IF x \in {g} THEN (U(p)[x] \ U(p)[g]) \cup {n} ELSE U(p)[x]
    BY <2>1
  <2> QED BY <1>3, <2>2 DEF Between, PutBetween
<1>6. ASSUME PutUnder(p, q, n, g) PROVE Between(p, q, n, p.lower[g], {g})
  <2>1. \A x \in Ids : U(q)[x] = IF x = n THEN {g}
                                 ELSE IF g \in U(p)[x] THEN (U(p)[x] \ {g}) \cup {n} ELSE U(p)[x]
    BY <1>6 DEF PutUnder, PutBelow
  <2>2. \A x \in Ids : U(q)[x] = IF x = n THEN {g}
                                 ELSE IF x \in p.lower[g] THEN (U(p)[x] \ {g}) \cup {n} ELSE U(p)[x]
    BY <1>1, <2>1
  <2> QED BY <1>4, <2>2 DEF Between, PutBetween
<1> QED BY <1>5, <1>6

\* Put over g, a jem is under what was above g; put under it, over what was below.
LEMMA JemFits ==
  ASSUME NEW p, Ordered(p), NEW q, Ordered(q), q.jims = p.jims, NEW g \in p.members,
         NEW n \in p.members, n \notin p.jims, n # g, Free(p, n), ComparableBut(p, n),
         PutOver(p, q, n, g) \/ (PutUnder(p, q, n, g) /\ g \notin p.jims)
  PROVE  /\ JimsUnder(q, n) = JimsUnder(p, g)
         /\ \A b \in p.members \ {n} : Fits(p, q, n, b)
<1>1. /\ p.members \in SUBSET Ids /\ U(p) \in [Ids -> SUBSET Ids] /\ g \in Ids /\ n \in Ids
      /\ p.lower \in [Ids -> SUBSET Ids]
      /\ \A a, b \in Ids : b \in p.lower[a] <=> a \in U(p)[b]
  BY OrderedIs, WellMadeIs
<1>2. /\ \A x \in Ids : n \notin U(p)[x]
      /\ n \notin p.lower[g]
  BY <1>1 DEF Free, Loose
<1>3. \A b \in p.members \ {n} :
        JimsUnder(p, g) \subseteq JimsUnder(p, b) \/ JimsUnder(p, b) \subseteq JimsUnder(p, g) =>
          Under(p, g, b) \/ Under(p, b, g)
  BY DEF ComparableBut
<1>4. CASE PutOver(p, q, n, g)
  <2>1. PICK X, T : X = {g} /\ T = U(p)[g] /\ Between(p, q, n, X, T)
    BY <1>1, <1>4, JemBetween
  <2>2. /\ \A x \in Ids \ {n} : Under(q, x, n) <=> \E l \in X : Under(p, x, l)
        /\ \A y \in Ids \ {n} : Under(q, n, y) <=> \E t \in T : Under(p, t, y)
        /\ JimsUnder(q, n) = UNION {JimsUnder(p, l) : l \in X}
    <3>1. X \in SUBSET Ids /\ T \in SUBSET Ids /\ n \notin X /\ n \notin T
      BY <1>1, <1>2, <2>1
    <3>2. /\ Ordered(p) /\ Ordered(q) /\ q.jims = p.jims /\ n \in Ids /\ n \notin p.jims
          /\ Free(p, n) /\ X \in SUBSET Ids /\ T \in SUBSET Ids /\ n \notin X /\ n \notin T
          /\ Between(p, q, n, X, T)
      BY <1>1, <2>1, <3>1
    <3> QED BY ONLY <3>2, BetweenIs
  <2>3. JimsUnder(q, n) = JimsUnder(p, g)
    BY <2>1, <2>2
  <2>4. ASSUME NEW b \in p.members \ {n}, Under(p, g, b) \/ Under(p, b, g)
        PROVE  Under(q, n, b) \/ Under(q, b, n)
    <3>1. CASE Under(p, b, g)
      BY <1>1, <2>1, <2>2, <3>1
    <3>2. CASE Under(p, g, b) /\ b # g
      <4>1. \E t \in T : Under(p, t, b)
        BY <1>1, <2>1, <3>2, OrderIs
      <4> QED BY <1>1, <2>2, <4>1
    <3>3. CASE b = g
      BY <1>1, <3>1, <3>3, OrderIs
    <3> QED BY <2>4, <3>1, <3>2, <3>3
  <2> QED BY <1>3, <2>3, <2>4 DEF Fits
<1>5. CASE PutUnder(p, q, n, g) /\ g \notin p.jims
  <2>1. PICK X, T : X = p.lower[g] /\ T = {g} /\ Between(p, q, n, X, T)
    BY <1>1, <1>5, JemBetween
  <2>2. /\ \A x \in Ids \ {n} : Under(q, x, n) <=> \E l \in X : Under(p, x, l)
        /\ \A y \in Ids \ {n} : Under(q, n, y) <=> \E t \in T : Under(p, t, y)
        /\ JimsUnder(q, n) = UNION {JimsUnder(p, l) : l \in X}
    <3>1. X \in SUBSET Ids /\ T \in SUBSET Ids /\ n \notin X /\ n \notin T
      BY <1>1, <1>2, <2>1
    <3>2. /\ Ordered(p) /\ Ordered(q) /\ q.jims = p.jims /\ n \in Ids /\ n \notin p.jims
          /\ Free(p, n) /\ X \in SUBSET Ids /\ T \in SUBSET Ids /\ n \notin X /\ n \notin T
          /\ Between(p, q, n, X, T)
      BY <1>1, <2>1, <3>1
    <3> QED BY ONLY <3>2, BetweenIs
  <2>3. JimsUnder(q, n) = JimsUnder(p, g)
    <3>1. \A l \in X : l \in Ids /\ Under(p, l, g)
      BY <1>1, <2>1, OrderIs
    <3>2. \A l \in X : JimsUnder(p, l) \subseteq JimsUnder(p, g)
      BY <1>1, <3>1, JimsUnderIs
    <3>3. \A j \in JimsUnder(p, g) : \E l \in X : j \in JimsUnder(p, l)
      BY <1>1, <1>5, <2>1, JimsUnderIs
    <3> QED BY <2>2, <3>2, <3>3
  <2>4. ASSUME NEW b \in p.members \ {n}, Under(p, g, b) \/ Under(p, b, g)
        PROVE  Under(q, n, b) \/ Under(q, b, n)
    <3>1. CASE Under(p, g, b)
      BY <1>1, <2>1, <2>2, <3>1
    <3>2. CASE Under(p, b, g) /\ b # g
      <4>1. \E l \in X : Under(p, b, l)
        BY <1>1, <2>1, <3>2, OrderIs
      <4> QED BY <1>1, <2>2, <4>1
    <3>3. CASE b = g
      BY <1>1, <3>1, <3>3, OrderIs
    <3> QED BY <2>4, <3>1, <3>2, <3>3
  <2> QED BY <1>3, <2>3, <2>4 DEF Fits
<1> QED BY <1>4, <1>5

(***************************************************************************)
(* new_jem_state.                                                          *)
(***************************************************************************)
LEMMA JemAt ==
  ASSUME NEW p, Ordered(p), NEW n \in p.members \ Standard, Free(p, n),
         NEW m \in p.members, m # n, NEW q,
         q = link_greatest_jem(p, n, m) \/ q = link_least_jem(p, n, m)
  PROVE  \E g \in p.members :
           /\ n # g /\ JimsUnder(p, g) = JimsUnder(p, m)
           /\ PutOver(p, q, n, g) \/ (PutUnder(p, q, n, g) /\ g \notin p.jims)
<1>1. /\ WellMade(p) /\ p.members \in SUBSET Ids /\ m \in Ids /\ n \in Ids
      /\ p.jims \subseteq p.members \ Standard
      /\ U(p)[n] = {} /\ \A x \in Ids : n \notin U(p)[x]
      /\ p.lower \in [Ids -> SUBSET Ids] /\ \A a, b \in Ids : b \in p.lower[a] <=> a \in U(p)[b]
  BY OrderedIs, WellMadeIs DEF Free, Loose
<1>2. \A x \in Ids : Under(p, x, n) \/ Under(p, n, x) => x = n
  <2>1. p.lower[n] = {}
    BY <1>1
  <2> QED BY <1>1, <2>1, OrderIs
<1>3. PICK g \in p.members : /\ g = greatest_jem(p, m) /\ g # n
                             /\ JimsUnder(p, g) = JimsUnder(p, m)
  <2>1. greatest_jem(p, m) \in p.members /\ Under(p, m, greatest_jem(p, m))
    BY <1>1, GreatestJem DEF Under
  <2> QED BY <1>1, <1>2, <2>1, JemsHaveItsJims
<1>4. PICK l \in p.members : /\ l = least_jem(p, m) /\ l # n
                             /\ JimsUnder(p, l) = JimsUnder(p, m)
  <2>1. least_jem(p, m) \in p.members /\ Under(p, least_jem(p, m), m)
    BY <1>1, LeastJem DEF Under
  <2> QED BY <1>1, <1>2, <2>1, JemsHaveItsJims
<1>5. CASE q = link_greatest_jem(p, n, m)
  <2>1. CASE g # TOP_INDEX
    <3>1. PutOver(p, new_link(transfer_upper_cover(p, g, n), n, g), n, g)
      BY <1>3, <2>1, LinkAbove
    <3> QED BY <1>3, <1>5, <2>1, <3>1 DEF link_greatest_jem
  <2>2. CASE g = TOP_INDEX
    <3>1. PutUnder(p, new_link(transfer_lower_cover(p, g, n), g, n), n, g)
      BY <1>3, <2>2, IdsAre, LinkBelow
    <3>2. g \notin p.jims
      BY <1>1, <2>2, IdsAre
    <3> QED BY <1>3, <1>5, <2>2, <3>1, <3>2 DEF link_greatest_jem
  <2> QED BY <2>1, <2>2
<1>6. CASE q = link_least_jem(p, n, m)
  <2>1. CASE is_jim(p, l) \/ l = BOTTOM_INDEX
    <3>1. l # TOP_INDEX
      BY <1>1, <2>1, IdsAre DEF is_jim
    <3>2. PutOver(p, new_link(transfer_upper_cover(p, l, n), n, l), n, l)
      BY <1>4, <3>1, LinkAbove
    <3> QED BY <1>4, <1>6, <2>1, <3>2 DEF link_least_jem
  <2>2. CASE ~(is_jim(p, l) \/ l = BOTTOM_INDEX)
    <3>1. PutUnder(p, new_link(transfer_lower_cover(p, l, n), l, n), n, l)
      BY <1>4, <2>2, LinkBelow
    <3> QED BY <1>4, <1>6, <2>2, <3>1 DEF link_least_jem, is_jim
  <2> QED BY <2>1, <2>2
<1> QED BY <1>5, <1>6

\* new_jem_state keeps the members comparable.
LEMMA JemComparable ==
  ASSUME NEW p, Ordered(p), NEW n \in p.members \ Standard, Free(p, n), n \notin p.jims,
         ComparableBut(p, n), NEW m \in p.members, m # n, NEW q,
         q = link_greatest_jem(p, n, m) \/ q = link_least_jem(p, n, m)
  PROVE  Comparable(q) /\ JimsUnder(q, n) = JimsUnder(p, m)
<1>1. Ordered(q) /\ SameMembers(p, q) /\ OrderOfOthers(p, q, n)
  BY JemOrdered DEF JemPut
<1>2. PICK g \in p.members :
        /\ n # g /\ JimsUnder(p, g) = JimsUnder(p, m)
        /\ PutOver(p, q, n, g) \/ (PutUnder(p, q, n, g) /\ g \notin p.jims)
  BY JemAt
<1>3. n \in Ids /\ q.members = p.members /\ q.jims = p.jims
  BY <1>1, OrderedIs DEF SameMembers
<1>4. /\ JimsUnder(q, n) = JimsUnder(p, g)
      /\ \A b \in p.members \ {n} : Fits(p, q, n, b)
  BY <1>1, <1>2, <1>3, JemFits
<1>5. Comparable(q)
  BY <1>1, <1>3, <1>4, ComparableWith
<1> QED BY <1>2, <1>4, <1>5

\* The jims below the members of E.
JimsOf(p, E) == UNION {JimsUnder(p, x) : x \in E}
\* The members with no other jims than these.
Within(p, E) == {u \in p.members : JimsUnder(p, u) \subseteq JimsOf(p, E)}

\* compute_down and update_gdown end with just these members.
LEMMA GdownIs ==
  ASSUME NEW p, Ordered(p), NEW E \in SUBSET p.members
  PROVE  /\ compute_down(p, E) = {u \in Ids : \E x \in E : Under(p, u, x)}
         /\ update_gdown(p, compute_down(p, E)) = Within(p, E)
<1> DEFINE D == compute_down(p, E)
           More(S) == S \cup {m \in p.members : ~is_jim(p, m) /\ p.lower[m] \subseteq S}
           step == [S \in SUBSET Ids |-> More(S)]
           Is(grow) == grow = [S \in SUBSET Ids |->
                                 LET T == More(S) IN IF T = S THEN S ELSE grow[T]]
           G == update_gdown(p, D)
<1>1. G = (CHOOSE grow : Is(grow))[D]
  BY DEF update_gdown
<1>2. /\ p.members \in SUBSET Ids /\ p.jims \subseteq p.members
      /\ p.lower \in [Ids -> SUBSET Ids]
      /\ \A a, b \in Ids : b \in p.lower[a] => a \in p.members /\ b \in p.members
  BY OrderedIs, WellMadeIs
<1>3. D = {u \in Ids : \E x \in E : Under(p, u, x)}
  BY <1>2, DownIsUnder DEF compute_down
<1>4. D \in SUBSET p.members
  BY <1>2, <1>3, OrderIs
<1>5. /\ step \in [SUBSET Ids -> SUBSET Ids] /\ \A S \in SUBSET Ids : S \subseteq step[S]
      /\ \A S \in SUBSET Ids : step[S] = More(S)
  BY <1>2
<1> HIDE DEF step
<1>6. ASSUME NEW grow PROVE Is(grow) <=> Saturates(Ids, step, grow)
  <2>1. [S \in SUBSET Ids |-> LET T == More(S) IN IF T = S THEN S ELSE grow[T]]
          = [S \in SUBSET Ids |-> IF step[S] = S THEN S ELSE grow[step[S]]]
    <3> HIDE DEF More
    <3> QED BY <1>5
  <2> QED BY <2>1 DEF Saturates
<1> HIDE DEF Is, G
<1>7. D \in SUBSET Ids
  BY <1>2, <1>4
<1> HIDE DEF D
<1>8. /\ G \in SUBSET Ids /\ D \subseteq G /\ step[G] = G
      /\ \A Z \in SUBSET Ids : D \subseteq Z /\ (\A S \in SUBSET Z : step[S] \subseteq Z)
           => G \subseteq Z
  <2>1. /\ \E grow : Saturates(Ids, step, grow)
        /\ \A grow : Saturates(Ids, step, grow) =>
             /\ grow[D] \in SUBSET Ids /\ D \subseteq grow[D] /\ step[grow[D]] = grow[D]
             /\ \A Z \in SUBSET Ids : D \subseteq Z /\ (\A S \in SUBSET Z : step[S] \subseteq Z)
                  => grow[D] \subseteq Z
    <3>1. IsFiniteSet(Ids) /\ step \in [SUBSET Ids -> SUBSET Ids] /\ D \in SUBSET Ids
          /\ \A S \in SUBSET Ids : S \subseteq step[S]
      BY <1>5, <1>7, IdsAre
    <3> QED BY ONLY <3>1, SaturatedIs
  <2>2. Saturates(Ids, step, CHOOSE grow : Is(grow))
    BY <1>6, <2>1
  <2> QED BY <1>1, <2>1, <2>2
<1>9. G \subseteq Within(p, E)
  <2>1. Within(p, E) \in SUBSET Ids
    BY <1>2 DEF Within
  <2>2. D \subseteq Within(p, E)
    <3> SUFFICES ASSUME NEW u \in D PROVE u \in Within(p, E)
      OBVIOUS
    <3>1. PICK x \in E : Under(p, u, x) /\ u \in Ids /\ x \in Ids
      BY <1>2, <1>3
    <3>2. JimsUnder(p, u) \subseteq JimsUnder(p, x)
      BY <3>1, JimsUnderIs
    <3> QED BY <1>4, <3>2 DEF Within, JimsOf
  <2>3. ASSUME NEW S \in SUBSET Within(p, E) PROVE step[S] \subseteq Within(p, E)
    <3> SUFFICES ASSUME NEW m \in p.members, ~is_jim(p, m), p.lower[m] \subseteq S
                 PROVE  m \in Within(p, E)
      BY <1>5, <2>1
    <3>1. \A j \in JimsUnder(p, m) : \E l \in p.lower[m] : j \in JimsUnder(p, l)
      BY <1>2, JimsUnderIs DEF is_jim
    <3>2. \A l \in p.lower[m] : JimsUnder(p, l) \subseteq JimsOf(p, E)
      BY DEF Within
    <3> QED BY <3>1, <3>2 DEF Within
  <2> QED BY <1>8, <2>1, <2>2, <2>3
<1>10. Within(p, E) \subseteq G
  <2> DEFINE Bad == {u \in Within(p, E) : u \notin G}
  <2> SUFFICES ASSUME Bad # {} PROVE FALSE
    OBVIOUS
  <2>1. Bad \in (SUBSET Ids) \ {{}}
    BY <1>2 DEF Within
  <2>2. PICK u \in Bad : \A x \in Bad : Under(p, x, u) => x = u
    <3> HIDE DEF Bad
    <3> QED BY <2>1, LowestAndHighest
  <2>3. u \in p.members /\ u \in Ids /\ u \notin G /\ JimsUnder(p, u) \subseteq JimsOf(p, E)
    BY <1>2 DEF Within
  <2>4. CASE u \in p.jims
    <3>1. u \in JimsUnder(p, u)
      BY <2>4, JimsUnderIs
    <3>2. PICK x \in E : u \in JimsUnder(p, x)
      BY <2>3, <3>1 DEF JimsOf
    <3>3. Under(p, u, x)
      BY <3>2 DEF JimsUnder
    <3> QED BY <1>3, <1>8, <2>3, <3>3
  <2>5. CASE u \notin p.jims
    <3>1. p.lower[u] \subseteq G
      <4> SUFFICES ASSUME NEW l \in p.lower[u] PROVE l \in G
        OBVIOUS
      <4>1. l \in Ids /\ Under(p, l, u) /\ l # u /\ l \in p.members
        BY <1>2, <2>3, OrderIs
      <4>2. JimsUnder(p, l) \subseteq JimsUnder(p, u)
        BY <2>3, <4>1, JimsUnderIs
      <4>3. l \in Within(p, E)
        BY <2>3, <4>1, <4>2 DEF Within
      <4> QED BY <2>2, <4>1, <4>3
    <3>2. u \in More(G)
      BY <2>3, <2>5, <3>1 DEF is_jim
    <3> QED BY <1>5, <1>8, <2>3, <3>2
  <2> QED BY <2>4, <2>5
<1> QED BY <1>3, <1>9, <1>10 DEF D, G

\* The poset a join is made in, outside the jim edit mode.
Joinable(p) == Ordered(p) /\ Linked(p) /\ Comparable(p) /\ p.jims # {}

\* An atom is below every member but the bottom.
LEMMA AtomBelow ==
  ASSUME NEW p, Joinable(p), NEW x \in p.members, x # BOTTOM_INDEX
  PROVE  \E a \in p.members : is_atom(p, a) /\ Under(p, a, x)
<1>1. /\ Ordered(p) /\ Linked(p) /\ p.jims # {} /\ p.members \in SUBSET Ids
      /\ \A a, b \in Ids : b \in p.lower[a] <=> a \in U(p)[b]
      /\ \A a \in Ids : U(p)[a] \subseteq p.members
  BY OrderedIs DEF Joinable
<1>2. Under(p, BOTTOM_INDEX, x) /\ x \in Ids
  BY <1>1, EndsAre
<1>3. PICK a \in U(p)[BOTTOM_INDEX] : Under(p, a, x)
  BY <1>1, <1>2, IdsAre, OrderIs
<1>4. a \in p.members /\ BOTTOM_INDEX \in p.lower[a]
  BY <1>1, IdsAre
<1> QED BY <1>3, <1>4 DEF is_atom

\* One of the atoms of the expansion is below every member of gdown but the bottom.
LEMMA AtomOfExpansion ==
  ASSUME NEW p, Joinable(p), NEW E \in SUBSET p.members, NEW x \in E, x # BOTTOM_INDEX,
         NEW u \in Within(p, E), u # BOTTOM_INDEX
  PROVE  \E a \in compute_atoms(p, E) : Under(p, a, u)
<1>1. /\ Ordered(p) /\ Comparable(p) /\ p.members \in SUBSET Ids
      /\ p.jims \subseteq p.members \ Standard
  BY OrderedIs, WellMadeIs DEF Joinable
<1>2. \A a, b, c \in Ids : Under(p, a, b) /\ Under(p, b, c) => Under(p, a, c)
  BY <1>1, OrderIs
<1>3. ASSUME NEW a \in p.members, is_atom(p, a), NEW y \in E, Under(p, a, y)
      PROVE  a \in compute_atoms(p, E)
  BY <1>1, <1>3, GdownIs DEF compute_atoms
<1>4. u \in p.members /\ JimsUnder(p, u) \subseteq JimsOf(p, E)
  BY DEF Within
<1>5. ASSUME NEW z \in p.members, z # BOTTOM_INDEX, Under(p, z, u), NEW y \in E, Under(p, z, y)
      PROVE  \E a \in compute_atoms(p, E) : Under(p, a, u)
  <2>1. PICK a \in p.members : is_atom(p, a) /\ Under(p, a, z)
    BY <1>5, AtomBelow
  <2>2. Under(p, a, u) /\ Under(p, a, y)
    BY <1>1, <1>2, <1>4, <1>5, <2>1
  <2> QED BY <1>3, <2>1, <2>2
<1>6. CASE JimsUnder(p, u) # {}
  <2>1. PICK j \in JimsUnder(p, u) : TRUE
    BY <1>6
  <2>2. PICK y \in E : j \in JimsUnder(p, y)
    BY <1>4, <2>1 DEF JimsOf
  <2>3. j \in p.members /\ j # BOTTOM_INDEX /\ Under(p, j, u) /\ Under(p, j, y)
    BY <1>1, <2>1, <2>2, IdsAre DEF JimsUnder
  <2> QED BY <1>5, <2>3
<1>7. CASE JimsUnder(p, u) = {}
  <2>1. Under(p, u, x) \/ Under(p, x, u)
    BY <1>1, <1>4, <1>7 DEF Comparable
  <2>2. Under(p, u, u) /\ Under(p, x, x) /\ x \in p.members
    BY <1>1, <1>4, OrderIs
  <2> QED BY <1>4, <1>5, <2>1, <2>2
<1> QED BY <1>6, <1>7

\* The maximal lower bounds are the maximal members of gdown, and none above the other.
LEMMA MlbIs ==
  ASSUME NEW p, Joinable(p), NEW E \in SUBSET p.members
  PROVE  LET mlb == compute_mlb(p, E) IN
         /\ mlb \subseteq Within(p, E) /\ Within(p, E) \subseteq p.members
         /\ \A m, k \in mlb : Under(p, m, k) => m = k
         /\ mlb = {} => E \subseteq {BOTTOM_INDEX}
         /\ mlb # {} => \A u \in Within(p, E) : \E m \in mlb : Under(p, u, m)
<1> DEFINE mlb == compute_mlb(p, E)
           G == Within(p, E)
           above == UNION {Up(p, a) : a \in compute_atoms(p, E)}
<1>1. /\ Ordered(p) /\ WellMade(p) /\ p.members \in SUBSET Ids /\ U(p) \in [Ids -> SUBSET Ids]
      /\ \A a \in Ids : U(p)[a] = ToSet(p.upper[a]) /\ U(p)[a] \subseteq p.members
      /\ Linked(p) /\ p.jims # {}
  BY OrderedIs, WellMadeIs DEF Joinable
<1>2. /\ compute_down(p, E) = {u \in Ids : \E x \in E : Under(p, u, x)}
      /\ update_gdown(p, compute_down(p, E)) = G
  BY <1>1, GdownIs
<1>3. mlb = {m \in G \cap above : ToSet(p.upper[m]) \cap G = {}}
  BY <1>2 DEF compute_mlb
<1>4. G \subseteq p.members
  BY DEF Within
<1>5. ASSUME NEW a \in p.members, NEW b \in G, Under(p, a, b) PROVE a \in G
  <2>1. JimsUnder(p, a) \subseteq JimsUnder(p, b)
    BY <1>1, <1>4, <1>5, JimsUnderIs
  <2> QED BY <2>1 DEF Within
<1>6. ASSUME NEW m \in mlb, NEW k \in mlb, Under(p, m, k), m # k PROVE FALSE
  <2>1. m \in Ids /\ k \in Ids /\ k \in G /\ U(p)[m] \cap G = {}
    BY <1>1, <1>3, <1>4
  <2>2. PICK c \in U(p)[m] : Under(p, c, k)
    BY <1>1, <1>6, <2>1, OrderIs
  <2>3. c \in G
    BY <1>1, <1>5, <2>1, <2>2
  <2> QED BY <2>1, <2>2, <2>3
<1>7. mlb = {} \/ \E x \in E : x # BOTTOM_INDEX
  <2> SUFFICES ASSUME E \subseteq {BOTTOM_INDEX}, NEW m \in mlb PROVE FALSE
    OBVIOUS
  <2>1. PICK a \in compute_atoms(p, E) : TRUE
    BY <1>3
  <2>2. a \in Ids /\ BOTTOM_INDEX \in p.lower[a] /\ \E x \in E : Under(p, a, x)
    BY <1>2, <2>1 DEF compute_atoms, is_atom
  <2>3. a = BOTTOM_INDEX
    BY <1>1, <2>2, EndsAre
  <2> QED BY <1>1, <2>2, <2>3, OrderIs
<1>8. ASSUME NEW x \in E, x # BOTTOM_INDEX, NEW u \in G PROVE \E m \in mlb : Under(p, u, m)
  <2>1. ASSUME NEW v \in G, v # BOTTOM_INDEX PROVE \E m \in mlb : Under(p, v, m)
    <3> DEFINE S == {w \in G : Under(p, v, w)}
    <3>1. S \in (SUBSET Ids) \ {{}}
      BY <1>1, <1>4, OrderIs
    <3>2. PICK m \in S : \A w \in S : Under(p, m, w) => w = m
      <4> HIDE DEF S
      <4> QED BY <1>1, <3>1, LowestAndHighest
    <3>3. m \in G /\ Under(p, v, m) /\ m \in Ids /\ v \in Ids
      BY <1>1, <1>4
    <3>4. U(p)[m] \cap G = {}
      <4> SUFFICES ASSUME NEW c \in U(p)[m], c \in G PROVE FALSE
        OBVIOUS
      <4>1. c \in Ids /\ Under(p, m, c) /\ m # c
        BY <1>1, <3>3, OrderIs
      <4>2. Under(p, v, c)
        BY <1>1, <3>3, <4>1, OrderIs
      <4> QED BY <3>2, <4>1, <4>2
    <3>5. PICK a \in compute_atoms(p, E) : Under(p, a, v)
      BY <1>8, <2>1, AtomOfExpansion
    <3>6. a \in Ids /\ Under(p, a, m)
      BY <1>1, <1>2, <3>3, <3>5, OrderIs DEF compute_atoms
    <3>7. m \in Up(p, a)
      BY <1>1, <3>3, <3>6, DownIsUnder
    <3>8. m \in mlb
      BY <1>1, <1>3, <3>3, <3>4, <3>7
    <3> QED BY <3>3, <3>8
  <2>2. x \in G
    <3>1. JimsUnder(p, x) \subseteq JimsOf(p, E)
      BY DEF JimsOf
    <3> QED BY <3>1 DEF Within
  <2>3. PICK m \in mlb : Under(p, x, m)
    BY <1>8, <2>1, <2>2
  <2>4. u = BOTTOM_INDEX => Under(p, u, m)
    BY <1>1, <1>3, <1>4, EndsAre
  <2> QED BY <2>1, <2>3, <2>4
<1>9. mlb \subseteq G
  BY <1>3
<1>10. mlb = {} => E \subseteq {BOTTOM_INDEX}
  <2>1. ASSUME NEW x \in E, x # BOTTOM_INDEX PROVE mlb # {}
    <3>1. x \in G
      <4>1. JimsUnder(p, x) \subseteq JimsOf(p, E)
        BY DEF JimsOf
      <4> QED BY <4>1 DEF Within
    <3> QED BY <1>8, <2>1, <3>1
  <2> QED BY <2>1
<1> HIDE DEF mlb, G
<1>11. mlb # {} => \A u \in G : \E m \in mlb : Under(p, u, m)
  BY <1>7, <1>8
<1>12. \A m, k \in mlb : Under(p, m, k) => m = k
  BY <1>6
<1> QED BY <1>4, <1>9, <1>10, <1>11, <1>12 DEF mlb, G

\* They have the jims of the expansion.
LEMMA MlbJims ==
  ASSUME NEW p, Joinable(p), NEW E \in SUBSET p.members, compute_mlb(p, E) # {}
  PROVE  JimsOf(p, compute_mlb(p, E)) = JimsOf(p, E)
<1>1. PICK mlb : mlb = compute_mlb(p, E)
  OBVIOUS
<1>2. /\ mlb \subseteq Within(p, E) /\ Within(p, E) \subseteq p.members
      /\ \A u \in Within(p, E) : \E m \in mlb : Under(p, u, m)
  BY <1>1, MlbIs
<1>3. Ordered(p) /\ p.members \in SUBSET Ids
  BY OrderedIs DEF Joinable
<1>4. JimsOf(p, mlb) \subseteq JimsOf(p, E)
  BY <1>2 DEF JimsOf, Within
<1>5. ASSUME NEW x \in E PROVE JimsUnder(p, x) \subseteq JimsOf(p, mlb)
  <2>1. x \in Within(p, E)
    <3>1. JimsUnder(p, x) \subseteq JimsOf(p, E)
      BY DEF JimsOf
    <3> QED BY <3>1 DEF Within
  <2>2. PICK m \in mlb : Under(p, x, m)
    BY <1>2, <2>1
  <2>3. JimsUnder(p, x) \subseteq JimsUnder(p, m)
    BY <1>2, <1>3, <2>1, <2>2, JimsUnderIs
  <2> QED BY <2>3 DEF JimsOf
<1>6. JimsOf(p, E) \subseteq JimsOf(p, mlb)
  BY <1>5 DEF JimsOf
<1> QED BY <1>1, <1>4, <1>6

\* A member made for a join: the order of the others is as it was.
Extended(p, q, n) ==
  /\ Ordered(q) /\ Free(q, n) /\ LinkedBut(q, n) /\ ComparableBut(q, n)
  /\ n \in q.members \ Standard /\ n \notin p.members /\ n \notin q.jims
  /\ q.members = p.members \cup {n} /\ q.jims = p.jims /\ U(q) = U(p)
  /\ \A a, b : Under(q, a, b) <=> Under(p, a, b)
  /\ \A m : JimsUnder(q, m) = JimsUnder(p, m)

\* new_member does that.
LEMMA ExtendedBy ==
  ASSUME NEW p, Joinable(p), NEW n \in Ids, n = p.next
  PROVE  Extended(p, new_member(p, n, FALSE), n)
<1>1. Ordered(p) /\ Linked(p) /\ Comparable(p) /\ p.jims # {}
  BY DEF Joinable
<1>2. p.jims \subseteq p.members /\ Standard \subseteq p.members
  BY <1>1, OrderedIs, WellMadeIs
<1>3. PICK q : q = new_member(p, n, FALSE)
  OBVIOUS
<1>4. /\ Ordered(q) /\ Free(q, n) /\ U(q) = U(p)
      /\ q.members = p.members \cup {n} /\ n \notin p.members /\ q.jims = p.jims
  BY <1>1, <1>3, MadeOrdered
<1>5. LinkedBut(q, n)
  BY <1>1, <1>4, OthersLinked
<1>6. \A a, b : Under(q, a, b) <=> Under(p, a, b)
  BY <1>4 DEF Under
<1>7. \A m : JimsUnder(q, m) = JimsUnder(p, m)
  BY <1>4, <1>6 DEF JimsUnder
<1>8. ComparableBut(q, n)
  BY <1>1, <1>4, <1>6, <1>7 DEF ComparableBut, Comparable
<1> QED BY <1>2, <1>3, <1>4, <1>5, <1>6, <1>7, <1>8 DEF Extended

(***************************************************************************)
(* What a join leaves: members ordered, linked and comparable as before,   *)
(* and a result with the jims of the expansion.                            *)
(***************************************************************************)
JoinMade(p, E, n, j) ==
  LET q == j.poset IN
  /\ Joinable(q) /\ q.jims = p.jims
  /\ q.members = p.members \/ q.members = p.members \cup {n}
  /\ OrderOfOthers(p, q, n) /\ n \notin p.members
  /\ j.result \in q.members /\ JimsUnder(q, j.result) = JimsOf(p, E)

\* The result is a member there is.
LEMMA SameMade ==
  ASSUME NEW p, Joinable(p), NEW n, n \notin p.members, NEW E, NEW m \in p.members,
         JimsUnder(p, m) = JimsOf(p, E)
  PROVE  JoinMade(p, E, n, Joined(p, m))
BY DEF JoinMade, Joined, OrderOfOthers, OthersKept

\* The result is a new jem of a member with the jims of the expansion.
LEMMA JemMade ==
  ASSUME NEW p, Joinable(p), NEW n \in Ids, n = p.next, NEW E, NEW m \in p.members,
         JimsUnder(p, m) = JimsOf(p, E), NEW greatest
  PROVE  JoinMade(p, E, n, attach_jem(p, m, greatest, n))
<1>1. PICK r : r = new_member(p, n, FALSE)
  OBVIOUS
<1>2. Extended(p, r, n)
  BY <1>1, ExtendedBy
<1>3. /\ Ordered(r) /\ Free(r, n) /\ LinkedBut(r, n) /\ ComparableBut(r, n)
      /\ n \in r.members \ Standard /\ n \notin p.members /\ n \notin r.jims
      /\ r.members = p.members \cup {n} /\ r.jims = p.jims /\ U(r) = U(p)
      /\ \A x : JimsUnder(r, x) = JimsUnder(p, x)
  BY <1>2 DEF Extended
<1>4. PICK q : /\ attach_jem(p, m, greatest, n) = Joined(q, n)
               /\ q = link_greatest_jem(r, n, m) \/ q = link_least_jem(r, n, m)
  BY <1>1 DEF attach_jem
<1>5. m \in r.members /\ m # n
  BY <1>3
<1>6. JemPut(r, q, n)
  BY <1>3, <1>4, <1>5, JemOrdered
<1>7. Comparable(q) /\ JimsUnder(q, n) = JimsUnder(r, m)
  BY <1>3, <1>4, <1>5, JemComparable
<1>8. Ordered(q) /\ Linked(q) /\ q.members = r.members /\ q.jims = r.jims /\ OrderOfOthers(p, q, n)
  BY <1>3, <1>6 DEF JemPut, SameMembers, OrderOfOthers
<1>9. Joinable(q)
  BY <1>3, <1>7, <1>8 DEF Joinable
<1> QED BY <1>3, <1>4, <1>7, <1>8, <1>9 DEF JoinMade, Joined

(***************************************************************************)
(* Two or more maximal lower bounds: the result goes between them and the  *)
(* minimal upper bounds.                                                   *)
(***************************************************************************)
\* No member of M is below another.
Antichain(p, M) == \A m, k \in M : Under(p, m, k) => m = k

\* The minimal upper bounds are above all of M, and below all that are.
LEMMA MubIs ==
  ASSUME NEW p, Joinable(p), NEW M \in SUBSET p.members, Antichain(p, M),
         NEW a \in M, NEW b \in M, a # b
  PROVE  LET mub == compute_mub(p, M) IN
         /\ mub \in SUBSET p.members /\ mub # {} /\ BOTTOM_INDEX \notin mub /\ TOP_INDEX \notin M
         /\ \A m \in M, t \in mub : Under(p, m, t) /\ t # m
         /\ \A u \in p.members : (\A m \in M : Under(p, m, u) /\ u # m)
              => \E t \in mub : Under(p, t, u)
<1> DEFINE bounds == {u \in p.members : \A m \in M : u \in Up(p, m) \ {m}}
           mub == {u \in bounds : Down(p, u) \cap bounds = {u}}
<1>1. compute_mub(p, M) = mub
  BY DEF compute_mub
<1>2. /\ Ordered(p) /\ p.members \in SUBSET Ids /\ Linked(p) /\ p.jims # {}
      /\ TOP_INDEX \in p.members
  BY OrderedIs, WellMadeIs DEF Joinable
<1>3. \A u \in p.members : u \in bounds <=> \A m \in M : Under(p, m, u) /\ u # m
  BY <1>2, DownIsUnder
<1>4. bounds \in SUBSET p.members
  OBVIOUS
<1> HIDE DEF bounds
<1>5. \A t \in bounds : t \in mub <=> \A u \in bounds : Under(p, u, t) => u = t
  <2> SUFFICES ASSUME NEW t \in bounds
               PROVE  t \in mub <=> \A u \in bounds : Under(p, u, t) => u = t
    OBVIOUS
  <2>1. Down(p, t) = {x \in Ids : Under(p, x, t)} /\ Under(p, t, t) /\ t \in Ids
    BY <1>2, <1>4, DownIsUnder, OrderIs
  <2> QED BY <1>2, <1>4, <2>1
<1>6. mub \in SUBSET bounds
  OBVIOUS
<1> HIDE DEF mub
<1>7. \A m \in M, t \in mub : Under(p, m, t) /\ t # m
  BY <1>3, <1>4, <1>6
<1>8. BOTTOM_INDEX \notin mub
  <2> SUFFICES ASSUME BOTTOM_INDEX \in mub PROVE FALSE
    OBVIOUS
  <2>1. Under(p, a, BOTTOM_INDEX) /\ a # BOTTOM_INDEX /\ a \in Ids
    BY <1>2, <1>7
  <2> QED BY <1>2, <2>1, EndsAre
<1>9. TOP_INDEX \notin M
  <2> SUFFICES ASSUME TOP_INDEX \in M PROVE FALSE
    OBVIOUS
  <2>1. Under(p, a, TOP_INDEX) /\ Under(p, b, TOP_INDEX)
    BY <1>2, EndsAre
  <2> QED BY <2>1 DEF Antichain
<1>10. ASSUME NEW u \in bounds PROVE \E t \in mub : Under(p, t, u)
  <2> DEFINE S == {v \in bounds : Under(p, v, u)}
  <2>1. S \in (SUBSET Ids) \ {{}}
    BY <1>2, <1>4, OrderIs
  <2>2. PICK t \in S : \A x \in S : Under(p, x, t) => x = t
    <3> HIDE DEF S
    <3> QED BY <1>2, <2>1, LowestAndHighest
  <2>3. t \in bounds /\ Under(p, t, u) /\ t \in Ids /\ u \in Ids
    BY <1>2, <1>4
  <2>4. ASSUME NEW v \in bounds, Under(p, v, t) PROVE v = t
    <3>1. Under(p, v, u) /\ v \in Ids
      BY <1>2, <1>4, <2>3, <2>4, OrderIs
    <3> QED BY <2>2, <2>4, <3>1
  <2> QED BY <1>5, <2>3, <2>4
<1>11. mub # {}
  <2>1. \A m \in M : Under(p, m, TOP_INDEX) /\ TOP_INDEX # m
    BY <1>2, <1>9, EndsAre
  <2>2. TOP_INDEX \in bounds
    BY <1>2, <1>3, <2>1
  <2> QED BY <1>10, <2>2
<1>12. \A u \in p.members : (\A m \in M : Under(p, m, u) /\ u # m)
         => \E t \in mub : Under(p, t, u)
  BY <1>3, <1>10
<1> QED BY <1>1, <1>4, <1>6, <1>7, <1>8, <1>9, <1>11, <1>12

\* A result linked between them has the jims of the expansion, and is comparable
\* with the members whose jims are among them, or that have them all.
LEMMA ResultMade ==
  ASSUME NEW p, Joinable(p), NEW n \in Ids, n = p.next, NEW E \in SUBSET p.members,
         NEW X, X = compute_mlb(p, E), NEW a \in X, NEW b \in X, a # b
  PROVE  JoinMade(p, E, n,
                  Joined(link_result(new_member(p, n, FALSE), X, compute_mub(p, X), n), n))
<1>1. PICK r : r = new_member(p, n, FALSE)
  OBVIOUS
<1>2. /\ Ordered(r) /\ Free(r, n) /\ LinkedBut(r, n) /\ ComparableBut(r, n)
      /\ n \in r.members \ Standard /\ n \notin p.members /\ n \notin r.jims
      /\ r.members = p.members \cup {n} /\ r.jims = p.jims /\ U(r) = U(p)
      /\ \A x, y : Under(r, x, y) <=> Under(p, x, y)
      /\ \A m : JimsUnder(r, m) = JimsUnder(p, m)
  <2>1. Extended(p, r, n)
    BY <1>1, ExtendedBy
  <2> QED BY <2>1 DEF Extended
<1>3. Ordered(p) /\ p.members \in SUBSET Ids /\ p.jims # {}
  BY OrderedIs DEF Joinable
<1>4. /\ X \subseteq Within(p, E) /\ Within(p, E) \subseteq p.members
      /\ \A m, k \in X : Under(p, m, k) => m = k
      /\ \A u \in Within(p, E) : \E m \in X : Under(p, u, m)
  BY MlbIs
<1>5. JimsOf(p, X) = JimsOf(p, E)
  BY MlbJims
<1>6. PICK T : T = compute_mub(p, X)
  OBVIOUS
<1>7. /\ T \in SUBSET p.members /\ T # {} /\ BOTTOM_INDEX \notin T /\ TOP_INDEX \notin X
      /\ \A m \in X, t \in T : Under(p, m, t) /\ t # m
      /\ \A u \in p.members : (\A m \in X : Under(p, m, u) /\ u # m) => \E t \in T : Under(p, t, u)
  <2>1. X \in SUBSET p.members /\ Antichain(p, X)
    BY <1>4 DEF Antichain
  <2> QED BY <1>6, <2>1, MubIs
<1>8. MayPut(r, n, X, T)
  BY <1>2, <1>4, <1>7 DEF MayPut
<1>9. PICK q : q = link_result(r, X, T, n)
  OBVIOUS
<1>10. Ordered(q) /\ SameMembers(r, q) /\ Between(r, q, n, X, T)
  BY <1>2, <1>8, <1>9, LinkResult
<1>11. Linked(q)
  BY <1>2, <1>7, <1>8, <1>10, LinkedBetween
<1>12. /\ OrderOfOthers(r, q, n)
       /\ \A x \in Ids \ {n} : Under(q, x, n) <=> \E l \in X : Under(r, x, l)
       /\ \A y \in Ids \ {n} : Under(q, n, y) <=> \E t \in T : Under(r, t, y)
       /\ JimsUnder(q, n) = UNION {JimsUnder(r, l) : l \in X}
  <2>1. /\ Ordered(r) /\ Ordered(q) /\ q.jims = r.jims /\ n \in Ids /\ n \notin r.jims
        /\ Free(r, n) /\ X \in SUBSET Ids /\ T \in SUBSET Ids /\ n \notin X /\ n \notin T
        /\ Between(r, q, n, X, T)
    BY <1>2, <1>3, <1>4, <1>7, <1>10 DEF SameMembers
  <2> QED BY ONLY <2>1, BetweenIs
<1>13. JimsUnder(q, n) = JimsOf(p, E)
  BY <1>2, <1>5, <1>12 DEF JimsOf
<1>14. ASSUME NEW u \in r.members \ {n} PROVE Fits(r, q, n, u)
  <2>1. u \in p.members /\ u \in Ids /\ u # n
    BY <1>2, <1>3, <1>14
  <2>2. CASE JimsUnder(p, u) \subseteq JimsOf(p, E)
    <3>1. \E m \in X : Under(p, u, m)
      BY <1>4, <2>1, <2>2 DEF Within
    <3>2. Under(q, u, n)
      BY <1>2, <1>12, <2>1, <3>1
    <3> QED BY <3>2 DEF Fits
  <2>3. CASE JimsOf(p, E) \subseteq JimsUnder(p, u) /\ ~(JimsUnder(p, u) \subseteq JimsOf(p, E))
    <3>1. ASSUME NEW m \in X PROVE Under(p, m, u) /\ u # m
      <4>1. m \in p.members /\ m \in Ids /\ JimsUnder(p, m) \subseteq JimsOf(p, E)
        BY <1>3, <1>4 DEF Within
      <4>2. Under(p, m, u) \/ Under(p, u, m)
        BY <2>1, <2>3, <4>1 DEF Joinable, Comparable
      <4>3. Under(p, u, m) => JimsUnder(p, u) \subseteq JimsUnder(p, m)
        BY <1>3, <2>1, <4>1, JimsUnderIs
      <4> QED BY <2>3, <4>1, <4>2, <4>3
    <3>2. \E t \in T : Under(p, t, u)
      BY <1>7, <2>1, <3>1
    <3>3. Under(q, n, u)
      BY <1>2, <1>12, <2>1, <3>2
    <3> QED BY <3>3 DEF Fits
  <2>4. CASE ~(JimsUnder(p, u) \subseteq JimsOf(p, E)) /\ ~(JimsOf(p, E) \subseteq JimsUnder(p, u))
    BY <1>2, <1>13, <2>4 DEF Fits
  <2> QED BY <2>2, <2>3, <2>4
<1>15. Comparable(q)
  <2>1. /\ Ordered(r) /\ Ordered(q) /\ q.jims = r.jims /\ n \in Ids /\ n \notin r.jims
        /\ OrderOfOthers(r, q, n) /\ ComparableBut(r, n) /\ q.members \subseteq r.members \cup {n}
        /\ \A u \in r.members \ {n} : Fits(r, q, n, u)
    BY <1>2, <1>10, <1>12, <1>14 DEF SameMembers
  <2> QED BY ONLY <2>1, ComparableWith
<1>16. Joinable(q) /\ q.jims = p.jims /\ q.members = p.members \cup {n} /\ OrderOfOthers(p, q, n)
  BY <1>2, <1>3, <1>10, <1>11, <1>12, <1>15 DEF Joinable, SameMembers, OrderOfOthers
<1>17. n \in q.members
  BY <1>2, <1>16
<1>18. JoinMade(p, E, n, Joined(q, n))
  BY <1>2, <1>13, <1>16, <1>17 DEF JoinMade, Joined
<1> QED BY <1>1, <1>6, <1>9, <1>18

(***************************************************************************)
(* The join of any expansion, in each of its cases.                        *)
(***************************************************************************)
LEMMA JoinIs ==
  ASSUME NEW p, Joinable(p), NEW n \in Ids, n = p.next, NEW E \in SUBSET p.members, NEW greatest
  PROVE  JoinMade(p, E, n, join(p, E, greatest, n))
<1>1. PICK mlb : mlb = compute_mlb(p, E)
  OBVIOUS
<1>2. /\ Ordered(p) /\ n \notin p.members /\ BOTTOM_INDEX \in p.members
      /\ JimsUnder(p, BOTTOM_INDEX) = {}
  <2>1. Extended(p, new_member(p, n, FALSE), n)
    BY ExtendedBy
  <2>2. n \notin p.members
    BY <2>1 DEF Extended
  <2>3. Ordered(p)
    BY DEF Joinable
  <2>4. BOTTOM_INDEX \in p.members
    BY <2>3, OrderedIs, WellMadeIs, IdsAre
  <2>5. JimsUnder(p, BOTTOM_INDEX) = {}
    BY <2>3, JimsUnderIs
  <2> QED BY <2>2, <2>3, <2>4, <2>5
<1>3. mlb \subseteq p.members /\ (mlb = {} => E \subseteq {BOTTOM_INDEX})
  BY <1>1, MlbIs
<1>4. CASE mlb = {}
  <2>1. JimsUnder(p, BOTTOM_INDEX) = JimsOf(p, E)
    BY <1>2, <1>3, <1>4 DEF JimsOf
  <2>2. JoinMade(p, E, n, Joined(p, BOTTOM_INDEX))
    BY <1>2, <2>1, SameMade
  <2>3. JoinMade(p, E, n, attach_jem(p, BOTTOM_INDEX, greatest, n))
    BY <1>2, <2>1, JemMade
  <2> QED BY <1>1, <1>4, <2>2, <2>3 DEF join
<1>5. ASSUME NEW m \in mlb, mlb = {m} PROVE JoinMade(p, E, n, join(p, E, greatest, n))
  <2>1. m \in p.members /\ JimsUnder(p, m) = JimsOf(p, E)
    <3>1. JimsOf(p, mlb) = JimsOf(p, E)
      BY <1>1, <1>5, MlbJims
    <3> QED BY <1>3, <1>5, <3>1 DEF JimsOf
  <2>2. JoinMade(p, E, n, Joined(p, m))
    BY <1>2, <2>1, SameMade
  <2>3. JoinMade(p, E, n, attach_jem(p, m, greatest, n))
    BY <1>2, <2>1, JemMade
  <2>4. (CHOOSE k \in mlb : TRUE) = m /\ mlb # {} /\ \E k \in mlb : mlb = {k}
    BY <1>5
  <2>5. join(p, E, greatest, n)
          = IF greatest = "neither" THEN Joined(p, m) ELSE attach_jem(p, m, greatest, n)
    BY <1>1, <2>4 DEF join
  <2> QED BY <2>2, <2>3, <2>5
<1>6. CASE mlb # {} /\ ~\E m \in mlb : mlb = {m}
  <2>1. PICK a \in mlb, b \in mlb : a # b
    BY <1>6
  <2>2. JoinMade(p, E, n,
                 Joined(link_result(new_member(p, n, FALSE), mlb, compute_mub(p, mlb), n), n))
    BY <1>1, <2>1, ResultMade
  <2>3. join(p, E, greatest, n)
          = Joined(link_result(new_member(p, n, FALSE), mlb, compute_mub(p, mlb), n), n)
    BY <1>1, <1>6 DEF join
  <2> QED BY <2>2, <2>3
<1> QED BY <1>4, <1>5, <1>6

\* What a join leaves is the join.
LEMMA MadeIsJoin ==
  ASSUME NEW p, Joinable(p), NEW n, NEW E \in SUBSET p.members, NEW j, JoinMade(p, E, n, j)
  PROVE  IsJoin(p, E, j)
<1>1. PICK q, r : q = j.poset /\ r = j.result
  OBVIOUS
<1>2. /\ Joinable(q) /\ q.jims = p.jims /\ OrderOfOthers(p, q, n) /\ n \notin p.members
      /\ r \in q.members /\ JimsUnder(q, r) = JimsOf(p, E) /\ p.members \subseteq q.members
  BY <1>1 DEF JoinMade
<1>3. /\ Ordered(p) /\ Ordered(q) /\ Comparable(q) /\ p.members \in SUBSET Ids
      /\ q.members \in SUBSET Ids /\ p.jims \in SUBSET Ids /\ n \notin p.jims
  BY <1>2, OrderedIs, WellMadeIs DEF Joinable
<1>4. \A m \in p.members : JimsUnder(q, m) = JimsUnder(p, m)
  BY <1>2, <1>3, JimsKept
<1>5. /\ \A m \in p.members : JimsBelow(p, m) = JimsUnder(p, m)
      /\ \A m \in q.members : JimsBelow(q, m) = JimsUnder(q, m)
  BY <1>3, JimsUnderIs
<1>6. \A a, b \in q.members :
        JimsUnder(q, a) \subseteq JimsUnder(q, b) /\ JimsUnder(q, a) # JimsUnder(q, b) => le(q, b, a)
  BY <1>3, ComparableIs, LeIs DEF Under, Ordered
<1>7. JimsBelow(q, r) = UNION {JimsBelow(p, x) : x \in E}
  BY <1>2, <1>5 DEF JimsOf
<1>8. ASSUME NEW x \in E, JimsBelow(q, x) # JimsBelow(q, r) PROVE le(q, r, x)
  <2>1. JimsUnder(q, x) \subseteq JimsUnder(q, r)
    BY <1>2, <1>4 DEF JimsOf
  <2> QED BY <1>2, <1>5, <1>6, <1>8, <2>1
<1>9. ASSUME NEW u \in p.members, \A x \in E : le(p, u, x), JimsBelow(q, u) # JimsBelow(q, r)
      PROVE  le(q, u, r)
  <2>1. \A x \in E : JimsUnder(p, x) \subseteq JimsUnder(p, u)
    BY <1>3, <1>9, LeIs, JimsUnderIs DEF Under, Ordered
  <2>2. JimsUnder(q, r) \subseteq JimsUnder(q, u)
    BY <1>2, <1>4, <2>1 DEF JimsOf
  <2> QED BY <1>2, <1>5, <1>6, <1>9, <2>2
<1> QED BY <1>1, <1>7, <1>8, <1>9 DEF IsJoin

-----------------------------------------------------------------------------
(***************************************************************************)
(* The clients these proofs are about: as careful as those of              *)
(* PosetMembersProofs, and they neither begin a jim edit mode while the    *)
(* poset has jrms nor make jems in one.  A new jim or link below a jrm     *)
(* changes which jims are below it, and nothing puts it in its place then. *)
(***************************************************************************)
JimsFirst ==
  Careful /\ "edits_under_jrms" \notin Practices /\ "jems_while_editing" \notin Practices

(***************************************************************************)
(* The inductive invariant.  In the jim edit mode there are jims only;     *)
(* outside it the members one of which has all the jims of the other are   *)
(* comparable.  OrderedByJims compares members with different jims alone;  *)
(* join relies on the comparison of join-equivalent members, too.          *)
(***************************************************************************)
JoinerSound ==
  /\ Sound(poset, jim_edit_depth)
  /\ jim_edit_depth # 0 => poset.members \ Standard \subseteq poset.jims
  /\ jim_edit_depth = 0 /\ poset.jims # {} => Comparable(poset)

\* It holds at first.
LEMMA InitJoinerSound == Init => JoinerSound
<1> SUFFICES ASSUME Init PROVE JoinerSound
  OBVIOUS
<1>1. poset.jims = {} /\ jim_edit_depth = 0
  BY DEF Init, initialize_standard_members
<1> QED BY <1>1, InitSound DEF JoinerSound

(***************************************************************************)
(* A join that creates a jrm, or none.                                     *)
(***************************************************************************)
LEMMA JoinedSound ==
  ASSUME JoinerSound, NEW expansion \in SUBSET poset.members, NEW greatest,
         new_joined_jrm_state(expansion, greatest)
  PROVE  /\ Joinable(poset') /\ jim_edit_depth' = jim_edit_depth /\ jim_edit_depth = 0
         /\ KeepsOrder(poset, poset')
<1>1. /\ jim_edit_depth' = jim_edit_depth /\ jim_edit_depth = 0 /\ poset.jims # {}
      /\ \E new \in Ids : /\ new = poset.next
                          /\ poset' = join(poset, expansion, greatest, new).poset
  BY EditDepthAssumption
     DEF JoinerSound, Sound, new_joined_jrm_state, in_jim_edit_mode, FreeId
<1>2. PICK new \in Ids : /\ new = poset.next
                         /\ poset' = join(poset, expansion, greatest, new).poset
  BY <1>1
<1>3. Joinable(poset)
  BY <1>1 DEF JoinerSound, Sound, Joinable
<1>4. JoinMade(poset, expansion, new, join(poset, expansion, greatest, new))
  BY <1>2, <1>3, JoinIs
<1>5. PICK p, q : p = poset /\ q = poset'
  OBVIOUS
<1>6. Joinable(q) /\ OrderOfOthers(p, q, new) /\ new \notin p.members
  BY <1>2, <1>4, <1>5 DEF JoinMade
<1>7. p.members \in SUBSET Ids
  BY <1>3, <1>5, OrderedIs DEF Joinable
<1>8. \A x, y \in Ids \ {new} :
        y \in Above(Ids, U(q), x) <=> y \in Above(Ids, U(p), x)
  BY <1>6 DEF OrderOfOthers, OthersKept
<1>9. KeepsOrder(p, q)
  BY <1>6, <1>7, <1>8 DEF KeepsOrder
<1> QED BY <1>1, <1>5, <1>6, <1>9

\* Every step keeps it, and the order of the members that stay.
LEMMA JoinerStepSound ==
  ASSUME JimsFirst, JoinerSound, JoinerNext
  PROVE  JoinerSound' /\ KeepsOrder(poset, poset')
<1> DEFINE Goal == JoinerSound' /\ KeepsOrder(poset, poset')
<1>1. /\ Ordered(poset) /\ jim_edit_depth \in 0..MaxEditDepth /\ Careful
      /\ Sound(poset, jim_edit_depth)
      /\ (jim_edit_depth = 0 => Linked(poset)) /\ MaxEditDepth \in Nat
      /\ (jim_edit_depth # 0 => poset.members \ Standard \subseteq poset.jims)
      /\ (jim_edit_depth = 0 /\ poset.jims # {} => Comparable(poset))
  BY EditDepthAssumption DEF JoinerSound, Sound, JimsFirst
<1>2. /\ poset.members \in SUBSET Ids /\ poset.jims \subseteq poset.members \ Standard
      /\ BOTTOM_INDEX \in poset.members
  BY <1>1, OrderedIs, WellMadeIs, IdsAre
<1>3. in_jim_edit_mode <=> jim_edit_depth # 0
  BY <1>1 DEF in_jim_edit_mode
<1>4. Next => Sound(poset', jim_edit_depth') /\ KeepsOrder(poset, poset')
  BY <1>1, StepSound
<1>5. CASE begin_jim_edit_mode
  <2>1. Next
    BY <1>5 DEF Next
  <2>2. poset' = poset /\ jim_edit_depth' = jim_edit_depth + 1 /\ (Jrms = {} \/ jim_edit_depth # 0)
    BY <1>3, <1>5 DEF begin_jim_edit_mode, JimsFirst
  <2>3. poset.members \ Standard \subseteq poset.jims /\ jim_edit_depth' # 0
    BY <1>1, <2>2 DEF Jrms, Proper
  <2> QED BY <1>4, <2>1, <2>2, <2>3 DEF JoinerSound
<1>6. CASE end_jim_edit_mode
  <2>1. Next
    BY <1>6 DEF Next
  <2>2. /\ jim_edit_depth # 0 /\ jim_edit_depth' \in 0..MaxEditDepth
        /\ MayEnd(poset, jim_edit_depth') /\ poset' = Ended(poset, jim_edit_depth')
    <3>1. jim_edit_depth # 0 /\ jim_edit_depth' = jim_edit_depth - 1
      BY <1>3, <1>6 DEF end_jim_edit_mode
    <3>2. jim_edit_depth' \in 0..MaxEditDepth
      BY <1>1, <3>1
    <3> QED BY <1>6, <3>1, <3>2 DEF end_jim_edit_mode
  <2>3. PICK depth \in 0..MaxEditDepth : /\ depth = jim_edit_depth' /\ MayEnd(poset, depth)
                                         /\ poset' = Ended(poset, depth)
    BY <2>2
  <2>4. SameMembers(poset, poset')
    BY <1>1, <2>3, EndedSound
  <2>5. poset'.members \ Standard \subseteq poset'.jims
    BY <1>1, <2>2, <2>4 DEF SameMembers
  <2>6. ASSUME jim_edit_depth' = 0, poset'.jims # {} PROVE Comparable(poset')
    <3>1. Ordered(poset') /\ Linked(poset')
      BY <1>4, <2>1, <2>6 DEF Sound
    <3> QED BY <2>5, <2>6, <3>1, OnlyJims
  <2> QED BY <1>4, <2>1, <2>5, <2>6 DEF JoinerSound
<1>7. CASE new_jim_state(FALSE)
  <2>1. Next
    BY <1>7 DEF Next
  <2>2. PICK m \in Ids : m = poset.next /\ poset' = new_member(poset, m, TRUE)
    BY <1>7 DEF new_jim_state, FreeId, Edited
  <2>3. jim_edit_depth' = jim_edit_depth /\ jim_edit_depth # 0
    BY <1>3, <1>7 DEF new_jim_state, MayEdit
  <2>4. poset'.members = poset.members \cup {m} /\ poset'.jims = poset.jims \cup {m}
    <3>1. PICK jim \in BOOLEAN : jim = TRUE
      OBVIOUS
    <3>2. LET q == new_member(poset, m, jim) IN
          /\ q.members = poset.members \cup {m}
          /\ q.jims = IF jim THEN poset.jims \cup {m} ELSE poset.jims
      BY <1>1, <2>2, MadeOrdered
    <3> QED BY <2>2, <3>1, <3>2
  <2>5. poset'.members \ Standard \subseteq poset'.jims
    BY <1>1, <2>3, <2>4
  <2> QED BY <1>4, <2>1, <2>3, <2>5 DEF JoinerSound
<1>8. ASSUME NEW u \in Proper, NEW l \in Proper, create_cover_link(u, l) PROVE Goal
  <2>1. Next
    BY <1>8 DEF Next
  <2>2. /\ poset' = new_link(poset, u, l) /\ jim_edit_depth' = jim_edit_depth
        /\ jim_edit_depth # 0 /\ ~le(poset, u, l) /\ ~le(poset, l, u)
    BY <1>3, <1>8 DEF create_cover_link
  <2>3. /\ u \in poset.members /\ l \in poset.members /\ u \in Ids /\ l \in Ids
        /\ l # TOP_INDEX /\ u # BOTTOM_INDEX /\ WellMade(poset)
    BY <1>1, <1>2, IdsAre, OrderedIs DEF Proper
  <2>4. l \notin Above(Ids, U(poset), u) /\ u \notin U(poset)[l]
    BY <2>2, <2>3, LeIs
  <2>5. SameMembers(poset, poset')
    <3>1. Ordered(poset)
      BY <1>1
    <3>2. SameMembers(poset, new_link(poset, u, l))
      BY ONLY <2>3, <2>4, <3>1, LinkOrdered
    <3> QED BY <2>2, <3>2
  <2>6. poset'.members \ Standard \subseteq poset'.jims
    BY <1>1, <2>2, <2>5 DEF SameMembers
  <2> QED BY <1>4, <2>1, <2>2, <2>6 DEF JoinerSound
<1>9. ASSUME NEW other \in Proper \cup {BOTTOM_INDEX}, NEW greatest \in BOOLEAN,
             new_jem_state(other, greatest)
      PROVE  Goal
  <2>1. other \in poset.members
    BY <1>2 DEF Proper
  <2>2. Next
    BY <1>9, <2>1 DEF Next
  <2>3. /\ poset.jims # {} /\ jim_edit_depth' = jim_edit_depth /\ jim_edit_depth = 0
        /\ \E m \in Ids : /\ m = poset.next
                          /\ LET p == new_member(poset, m, FALSE) IN
                             poset' = IF greatest THEN link_greatest_jem(p, m, other)
                                                  ELSE link_least_jem(p, m, other)
    BY <1>1, <1>3, <1>9 DEF new_jem_state, FreeId, JimsFirst, Careful
  <2>4. Joinable(poset)
    BY <1>1, <2>3 DEF Joinable
  <2>5. PICK m \in Ids : /\ m = poset.next
                         /\ LET p == new_member(poset, m, FALSE) IN
                            poset' = IF greatest THEN link_greatest_jem(p, m, other)
                                                 ELSE link_least_jem(p, m, other)
    BY <2>3
  <2>6. PICK p : p = new_member(poset, m, FALSE)
    OBVIOUS
  <2>7. Extended(poset, p, m)
    BY <2>4, <2>5, <2>6, ExtendedBy
  <2>8. /\ Ordered(p) /\ Free(p, m) /\ ComparableBut(p, m) /\ m \in p.members \ Standard
        /\ m \notin poset.members /\ m \notin p.jims /\ p.members = poset.members \cup {m}
    BY <2>7 DEF Extended
  <2>9. poset' = link_greatest_jem(p, m, other) \/ poset' = link_least_jem(p, m, other)
    BY <2>5, <2>6
  <2>10. other \in p.members /\ other # m
    BY <2>1, <2>8
  <2>11. Comparable(poset')
    BY <2>8, <2>9, <2>10, JemComparable
  <2> QED BY <1>4, <2>2, <2>3, <2>11 DEF JoinerSound
<1>10. ASSUME NEW m \in Proper, delete_jrm_state(m) PROVE Goal
  <2>1. Next
    BY <1>10 DEF Next
  <2>2. PICK lowers \in SetToSeqs(poset.lower[m]) : poset' = delete_state(poset, m, lowers)
    BY <1>10 DEF delete_jrm_state
  <2>3. ~is_jim(poset, m) /\ jim_edit_depth' = jim_edit_depth /\ m \in poset.members \ Standard
    BY <1>10 DEF delete_jrm_state, Proper
  <2>4. jim_edit_depth = 0 /\ m \notin poset.jims
    BY <1>1, <2>3 DEF is_jim
  <2>5. /\ poset'.members = poset.members \ {m} /\ poset'.jims = poset.jims
        /\ OrderOfOthers(poset, poset', m)
    BY <1>1, <2>2, <2>3, JrmDeleted
  <2>6. poset'.jims # {} => Comparable(poset')
    BY <1>1, <2>4, <2>5, ComparableWithout
  <2> QED BY <1>4, <2>1, <2>3, <2>4, <2>6 DEF JoinerSound
<1>11. ASSUME NEW expansion \in Expansions, NEW greatest \in Terns,
              new_joined_jrm_state(expansion, greatest)
       PROVE  Goal
  <2>1. expansion \in SUBSET poset.members
    BY DEF Expansions
  <2>2. /\ Joinable(poset') /\ jim_edit_depth' = jim_edit_depth /\ jim_edit_depth = 0
        /\ KeepsOrder(poset, poset')
    BY <1>11, <2>1, JoinedSound
  <2> QED BY <1>1, <2>2 DEF JoinerSound, Joinable, Sound
<1> QED BY <1>5, <1>6, <1>7, <1>8, <1>9, <1>10, <1>11 DEF JoinerNext

\* It holds always.
LEMMA AlwaysJoinerSound == ASSUME JimsFirst PROVE JoinerSpec => []JoinerSound
<1>1. ASSUME JoinerSound, [JoinerNext]_vars PROVE JoinerSound'
  <2>1. CASE JoinerNext
    BY <1>1, <2>1, JoinerStepSound
  <2>2. CASE UNCHANGED vars
    <3>1. poset' = poset /\ jim_edit_depth' = jim_edit_depth
      BY <2>2 DEF vars
    <3> QED BY <1>1, <3>1 DEF JoinerSound
  <2> QED BY <1>1, <2>1, <2>2
<1> QED BY <1>1, InitJoinerSound, PTL DEF JoinerSpec

-----------------------------------------------------------------------------
(***************************************************************************)
(* The order is that of the lattice the jims generate, whatever is joined, *)
(* made and deleted: the covers alone tell join where its result goes.     *)
(***************************************************************************)
THEOREM JimsOrderMembers == ASSUME JimsFirst PROVE JoinerSpec => []OrderedByJims
<1>1. ASSUME JoinerSound PROVE OrderedByJims
  <2> SUFFICES ASSUME ~in_jim_edit_mode, NEW a \in poset.members, NEW b \in poset.members,
                      JimsBelow(poset, a) # JimsBelow(poset, b),
                      JimsBelow(poset, a) \subseteq JimsBelow(poset, b)
               PROVE  le(poset, b, a)
    BY DEF OrderedByJims
  <2>1. Ordered(poset) /\ WellMade(poset) /\ a \in Ids /\ b \in Ids
    BY <1>1, OrderedIs DEF JoinerSound, Sound
  <2>2. poset.jims # {}
    BY DEF JimsBelow
  <2>3. jim_edit_depth = 0
    BY <1>1, EditDepthAssumption DEF JoinerSound, Sound, in_jim_edit_mode
  <2>4. Comparable(poset)
    BY <1>1, <2>2, <2>3 DEF JoinerSound
  <2>5. JimsUnder(poset, a) \subseteq JimsUnder(poset, b)
        /\ JimsUnder(poset, a) # JimsUnder(poset, b)
    BY <2>1, JimsUnderIs
  <2>6. b \in Above(Ids, U(poset), a)
    BY <2>1, <2>4, <2>5, ComparableIs DEF Under
  <2> QED BY <2>1, <2>6, LeIs
<1> QED BY <1>1, AlwaysJoinerSound, PTL

(***************************************************************************)
(* Whatever set of members a client joins, in whatever order it has        *)
(* created, joined and deleted them, the result is their join.             *)
(***************************************************************************)
THEOREM JoinsAreTheJoins == ASSUME JimsFirst PROVE JoinerSpec => []JoinsAreJoins
<1>1. ASSUME JoinerSound PROVE JoinsAreJoins
  <2> SUFFICES ASSUME ~in_jim_edit_mode, poset.jims # {}, NEW new \in Ids, FreeId(new),
                      NEW expansion \in SUBSET Proper, NEW greatest \in Terns
               PROVE  IsJoin(poset, expansion, join(poset, expansion, greatest, new))
    BY DEF JoinsAreJoins
  <2>1. jim_edit_depth = 0
    BY <1>1, EditDepthAssumption DEF JoinerSound, Sound, in_jim_edit_mode
  <2>2. Joinable(poset)
    BY <1>1, <2>1 DEF JoinerSound, Sound, Joinable
  <2>3. expansion \in SUBSET poset.members /\ new = poset.next
    BY DEF Proper, FreeId
  <2>4. PICK j : j = join(poset, expansion, greatest, new)
    OBVIOUS
  <2>5. JoinMade(poset, expansion, new, j)
    BY <2>2, <2>3, <2>4, JoinIs
  <2> QED BY <2>2, <2>3, <2>4, <2>5, MadeIsJoin
<1> QED BY <1>1, AlwaysJoinerSound, PTL

(***************************************************************************)
(* link_result, which links and unlinks the covers of many members, leaves *)
(* the halves of the cover relation in agreement.                          *)
(***************************************************************************)
THEOREM JoinedHalvesAgree == ASSUME JimsFirst PROVE JoinerSpec => []CoversMatch
<1>1. ASSUME JoinerSound PROVE CoversMatch
  BY <1>1, SoundMatches DEF JoinerSound
<1> QED BY <1>1, AlwaysJoinerSound, PTL

(***************************************************************************)
(* A join leaves the order of the members there were as it is, as making a *)
(* jem and deleting a jrm do.                                              *)
(***************************************************************************)
THEOREM JoinsKeepTheOrder == ASSUME JimsFirst PROVE JoinerSpec => OrderKept
<1> DEFINE Kept == poset'.members # poset.members /\ poset'.jims = poset.jims =>
                     LET common == poset.members \cap poset'.members IN
                     \A m \in common : Up(poset', m) \cap common = Up(poset, m) \cap common
<1>1. ASSUME JoinerSound, [JoinerNext]_vars PROVE [Kept]_vars
  <2> SUFFICES ASSUME JoinerNext PROVE Kept
    BY <1>1
  <2>1. Ordered(poset) /\ Ordered(poset') /\ KeepsOrder(poset, poset')
    BY <1>1, JoinerStepSound DEF JoinerSound, Sound
  <2> QED BY <2>1, OrderIsKept
<1> HIDE DEF Kept
<1>2. JoinerSpec => [][Kept]_vars
  BY <1>1, AlwaysJoinerSound, PTL DEF JoinerSpec
<1> QED BY <1>2 DEF OrderKept, Kept
==============================================================================
