------------------------- MODULE PosetMembersProofs -------------------------
(***************************************************************************)
(* Proofs about the members of a poset, for any number of them: the two    *)
(* halves of the cover relation agree, it has no cycle, and outside the    *)
(* jim edit mode every member is between the bottom and the top.           *)
(***************************************************************************)
EXTENDS PosetMembers, SequenceTheorems, Foundations

-----------------------------------------------------------------------------
(***************************************************************************)
(* Sequences without repetition, as sets.                                  *)
(***************************************************************************)
LEMMA SetOf ==
  ASSUME NEW V, NEW s \in Seq(V)
  PROVE  /\ ToSet(s) \in SUBSET V
         /\ \A e : e \in ToSet(s) <=> \E i \in 1..Len(s) : s[i] = e
         /\ \A e : Contains(s, e) <=> e \in ToSet(s)
         /\ s # << >> <=> ToSet(s) # {}
         /\ s # << >> => Head(s) \in ToSet(s)
<1>1. Len(s) \in Nat /\ DOMAIN s = 1..Len(s) /\ \A i \in 1..Len(s) : s[i] \in V
  BY LenProperties, ElementOfSeq
<1>2. \A e : e \in ToSet(s) <=> \E i \in 1..Len(s) : s[i] = e
  BY <1>1 DEF ToSet
<1>3. s # << >> => Len(s) \in Nat \ {0} /\ 1 \in 1..Len(s) /\ Head(s) = s[1]
  BY <1>1, EmptySeq
<1>4. s = << >> => ToSet(s) = {}
  BY <1>2, EmptySeq
<1> QED BY <1>1, <1>2, <1>3, <1>4 DEF Contains

LEMMA EmptyIs ==
  ASSUME NEW V
  PROVE  << >> \in Seq(V) /\ ToSet(<< >>) = {} /\ IsInjective(<< >>)
<1>1. << >> \in Seq(V) /\ DOMAIN << >> = {}
  OBVIOUS
<1> QED BY <1>1 DEF ToSet, IsInjective

LEMMA SetOfAppend ==
  ASSUME NEW V, NEW s \in Seq(V), NEW e \in V
  PROVE  /\ Append(s, e) \in Seq(V) /\ ToSet(Append(s, e)) = ToSet(s) \cup {e}
         /\ IsInjective(s) /\ e \notin ToSet(s) => IsInjective(Append(s, e))
<1> DEFINE n == Len(s)
<1>1. n \in Nat /\ DOMAIN s = 1..n
  BY LenProperties
<1>2. PICK t \in Seq(V) : /\ t = Append(s, e) /\ Len(t) = n + 1
                          /\ \A i \in 1..n : t[i] = s[i]
                          /\ t[n + 1] = e
  BY AppendProperties
<1>3. DOMAIN t = 1..n + 1
  BY <1>1, <1>2, LenProperties
<1>4. \A i \in 1..n + 1 : i \in 1..n \/ i = n + 1
  BY <1>1
<1>5. \A i \in 1..n : i \in 1..n + 1
  BY <1>1
<1>6. n + 1 \in 1..n + 1
  BY <1>1
<1> HIDE DEF n
<1>7. ToSet(t) = ToSet(s) \cup {e}
  BY <1>1, <1>2, <1>3, <1>4, <1>5, <1>6 DEF ToSet
<1>8. ASSUME IsInjective(s), e \notin ToSet(s) PROVE IsInjective(t)
  <2>1. \A i \in 1..n : s[i] # e
    BY <1>1, <1>8 DEF ToSet
  <2> QED BY <1>1, <1>2, <1>3, <1>4, <1>8, <2>1 DEF IsInjective
<1> QED BY <1>2, <1>7, <1>8

LEMMA SetOfConcat ==
  ASSUME NEW V, NEW s \in Seq(V), NEW t \in Seq(V)
  PROVE  /\ s \o t \in Seq(V) /\ ToSet(s \o t) = ToSet(s) \cup ToSet(t)
         /\ IsInjective(s) /\ IsInjective(t) /\ ToSet(s) \cap ToSet(t) = {}
              => IsInjective(s \o t)
<1> DEFINE n == Len(s)  m == Len(t)
<1>1. n \in Nat /\ m \in Nat /\ DOMAIN s = 1..n /\ DOMAIN t = 1..m
  BY LenProperties
<1>2. PICK r \in Seq(V) : /\ r = s \o t /\ Len(r) = n + m
                          /\ \A i \in 1..n + m : r[i] = IF i <= n THEN s[i] ELSE t[i - n]
  <2>1. /\ s \o t \in Seq(V) /\ Len(s \o t) = Len(s) + Len(t)
        /\ \A i \in 1..Len(s) + Len(t) :
             (s \o t)[i] = IF i <= Len(s) THEN s[i] ELSE t[i - Len(s)]
    BY ConcatProperties
  <2> QED BY <2>1
<1>3. DOMAIN r = 1..n + m
  BY <1>2, LenProperties
<1> HIDE DEF n, m
<1>4. \A i \in 1..n + m : (i \in 1..n /\ r[i] = s[i]) \/ (i - n \in 1..m /\ r[i] = t[i - n])
  BY <1>1, <1>2
<1>5. \A i \in 1..n : i \in 1..n + m /\ r[i] = s[i]
  BY <1>1, <1>2
<1>6. \A i \in 1..m : n + i \in 1..n + m /\ r[n + i] = t[i]
  <2> SUFFICES ASSUME NEW i \in 1..m PROVE n + i \in 1..n + m /\ r[n + i] = t[i]
    OBVIOUS
  <2>1. n + i \in 1..n + m /\ ~(n + i <= n) /\ (n + i) - n = i
    BY <1>1
  <2> QED BY <1>2, <2>1
<1>7. ToSet(r) = ToSet(s) \cup ToSet(t)
  <2>1. \A e : e \in ToSet(r) => e \in ToSet(s) \cup ToSet(t)
    BY <1>1, <1>3, <1>4 DEF ToSet
  <2>2. \A e : e \in ToSet(s) \cup ToSet(t) => e \in ToSet(r)
    BY <1>1, <1>3, <1>5, <1>6 DEF ToSet
  <2> QED BY <2>1, <2>2
<1>8. ASSUME IsInjective(s), IsInjective(t), ToSet(s) \cap ToSet(t) = {} PROVE IsInjective(r)
  <2>1. \A i \in 1..n, j \in 1..m : s[i] # t[j]
    BY <1>1, <1>8 DEF ToSet
  <2>2. \A i, j \in 1..n : s[i] = s[j] => i = j
    BY <1>1, <1>8 DEF IsInjective
  <2>3. \A i, j \in 1..m : t[i] = t[j] => i = j
    BY <1>1, <1>8 DEF IsInjective
  <2>4. ASSUME NEW i \in 1..n + m, NEW j \in 1..n + m, r[i] = r[j] PROVE i = j
    <3>1. i \in Int /\ j \in Int
      BY <1>1
    <3>2. CASE i \in 1..n /\ r[i] = s[i]
      BY <1>4, <2>1, <2>2, <2>4, <3>2
    <3>3. CASE i - n \in 1..m /\ r[i] = t[i - n]
      <4>1. j - n \in 1..m /\ r[j] = t[j - n]
        BY <1>4, <2>1, <2>4, <3>3
      <4>2. i - n = j - n
        BY <2>3, <2>4, <3>3, <4>1
      <4> QED BY <1>1, <3>1, <4>2
    <3> QED BY <1>4, <3>2, <3>3
  <2> QED BY <1>3, <2>4 DEF IsInjective
<1> QED BY <1>2, <1>7, <1>8

LEMMA SetOfRemoveFirst ==
  ASSUME NEW V, NEW s \in Seq(V), IsInjective(s), NEW e
  PROVE  /\ RemoveFirst(s, e) \in Seq(V) /\ IsInjective(RemoveFirst(s, e))
         /\ ToSet(RemoveFirst(s, e)) = ToSet(s) \ {e}
<1> DEFINE n == Len(s)
           I == {i \in 1..Len(s) : s[i] = e}
           k == Min(I)
<1>1. n \in Nat /\ DOMAIN s = 1..n /\ \A i \in 1..n : s[i] \in V
  BY LenProperties, ElementOfSeq
<1>2. CASE I = {}
  <2>1. RemoveFirst(s, e) = s
    BY <1>2 DEF RemoveFirst
  <2>2. e \notin ToSet(s)
    BY <1>1, <1>2 DEF ToSet
  <2> QED BY <2>1, <2>2
<1>3. CASE I # {}
  <2>1. RemoveFirst(s, e) = SubSeq(s, 1, k - 1) \o SubSeq(s, k + 1, n)
    BY <1>3 DEF RemoveFirst, RemoveAt, SelectInSeq
  <2>2. k \in I
    <3>1. I \in SUBSET Int /\ \A x \in I : 1 <= x
      BY <1>1
    <3> HIDE DEF I
    <3> QED BY <1>3, <3>1, MinOfInts
  <2>3. PICK c \in Int : c = k /\ 1 <= c /\ c <= n /\ s[c] = e
    <3>1. k \in 1..n /\ s[k] = e
      BY <2>2
    <3> HIDE DEF k, I, n
    <3> QED BY <1>1, <3>1
  <2> HIDE DEF k, I, n
  <2>4. PICK a \in Seq(V) : a = SubSeq(s, 1, c - 1) /\ Len(a) = c - 1
                            /\ \A i \in 1..c - 1 : a[i] = s[i]
    <3>1. PICK d \in Int : d = c - 1 /\ 0 <= d /\ d - 1 + 1 = d /\ d <= n
      BY <1>1, <2>3
    <3>2. \A i \in 1..d : s[i] \in V /\ 1 + i - 1 = i
      BY <1>1, <3>1
    <3>3. /\ SubSeq(s, 1, d) \in Seq(V)
          /\ Len(SubSeq(s, 1, d)) = IF 1 <= d THEN d - 1 + 1 ELSE 0
          /\ \A i \in 1..d - 1 + 1 : SubSeq(s, 1, d)[i] = s[1 + i - 1]
      BY <3>2, SubSeqProperties
    <3>4. Len(SubSeq(s, 1, d)) = d /\ \A i \in 1..d : SubSeq(s, 1, d)[i] = s[i]
      BY <3>1, <3>2, <3>3
    <3> QED BY <3>1, <3>3, <3>4
  <2>5. PICK b \in Seq(V) : b = SubSeq(s, c + 1, n) /\ Len(b) = n - c
                            /\ \A i \in 1..n - c : b[i] = s[c + i]
    <3>1. PICK d \in Int : d = c + 1 /\ n - d + 1 = n - c
      BY <1>1, <2>3
    <3>2. \A i \in d..n : s[i] \in V
      BY <1>1, <2>3, <3>1
    <3>3. /\ SubSeq(s, d, n) \in Seq(V)
          /\ Len(SubSeq(s, d, n)) = IF d <= n THEN n - d + 1 ELSE 0
          /\ \A i \in 1..n - d + 1 : SubSeq(s, d, n)[i] = s[d + i - 1]
      BY <1>1, <3>2, SubSeqProperties
    <3>4. Len(SubSeq(s, d, n)) = n - c
      BY <1>1, <2>3, <3>1, <3>3
    <3>5. ASSUME NEW i \in 1..n - c PROVE SubSeq(s, d, n)[i] = s[c + i]
      <4>1. i \in 1..n - d + 1 /\ d + i - 1 = c + i
        BY <1>1, <3>1
      <4> QED BY <3>3, <4>1
    <3> QED BY <3>1, <3>3, <3>4, <3>5
  <2>6. RemoveFirst(s, e) = a \o b
    BY <2>1, <2>3, <2>4, <2>5
  <2>7. DOMAIN a = 1..c - 1 /\ DOMAIN b = 1..n - c
    BY <2>4, <2>5, LenProperties
  <2>8. \A i, j \in 1..n : s[i] = s[j] => i = j
    BY <1>1 DEF IsInjective
  <2>9. \A i \in 1..c - 1 : i \in 1..n /\ i # c /\ i < c
    BY <1>1, <2>3
  <2>10. \A i \in 1..n - c : c + i \in 1..n /\ c + i # c /\ c + i > c
    BY <1>1, <2>3
  <2>11. IsInjective(a)
    BY <2>4, <2>7, <2>8, <2>9 DEF IsInjective
  <2>12. IsInjective(b)
    <3>1. ASSUME NEW i \in 1..n - c, NEW j \in 1..n - c, b[i] = b[j] PROVE i = j
      <4>1. c + i = c + j
        BY <2>5, <2>8, <2>10, <3>1
      <4> QED BY <1>1, <2>3, <4>1
    <3> QED BY <2>7, <3>1 DEF IsInjective
  <2>13. c \in 1..n
    BY <1>1, <2>3
  <2>14. \A i \in 1..n : i = c \/ i \in 1..c - 1 \/ (i - c \in 1..n - c /\ c + (i - c) = i)
    BY <1>1, <2>3
  <2>15. ToSet(a) \cap ToSet(b) = {}
    <3>1. ASSUME NEW i \in 1..c - 1, NEW j \in 1..n - c PROVE a[i] # b[j]
      <4>1. i # c + j
        BY <2>3, <2>9, <2>10
      <4> QED BY <2>4, <2>5, <2>8, <2>9, <2>10, <4>1
    <3> QED BY <2>7, <3>1 DEF ToSet
  <2>16. ToSet(a) \cup ToSet(b) = ToSet(s) \ {e}
    <3>1. ASSUME NEW x \in ToSet(a) PROVE x \in ToSet(s) \ {e}
      <4>1. PICK i \in 1..c - 1 : x = a[i]
        BY <2>7 DEF ToSet
      <4> QED BY <1>1, <2>3, <2>4, <2>8, <2>9, <2>13, <4>1 DEF ToSet
    <3>2. ASSUME NEW x \in ToSet(b) PROVE x \in ToSet(s) \ {e}
      <4>1. PICK i \in 1..n - c : x = b[i]
        BY <2>7 DEF ToSet
      <4> QED BY <1>1, <2>3, <2>5, <2>8, <2>10, <2>13, <4>1 DEF ToSet
    <3>3. ASSUME NEW x \in ToSet(s), x # e PROVE x \in ToSet(a) \cup ToSet(b)
      <4>1. PICK i \in 1..n : x = s[i]
        BY <1>1 DEF ToSet
      <4>2. CASE i \in 1..c - 1
        BY <2>4, <2>7, <4>1, <4>2 DEF ToSet
      <4>3. CASE i - c \in 1..n - c /\ c + (i - c) = i
        <5>1. b[i - c] = x
          BY <2>5, <4>1, <4>3
        <5> QED BY <2>7, <4>3, <5>1 DEF ToSet
      <4> QED BY <2>3, <2>14, <3>3, <4>1, <4>2, <4>3
    <3> QED BY <3>1, <3>2, <3>3
  <2> QED BY <2>6, <2>11, <2>12, <2>15, <2>16, SetOfConcat
<1> QED BY <1>2, <1>3

-----------------------------------------------------------------------------
(***************************************************************************)
(* The invariant.  U(p)[x] is the set of the members that cover x.  A      *)
(* poset is well made if its covers match; it is ordered if there is no    *)
(* cycle either, and nothing above the top or below the bottom; and it is  *)
(* linked if every other member has something above and below.             *)
(***************************************************************************)
U(p) == [x \in Ids |-> ToSet(p.upper[x])]

Matches(p) ==
  /\ \A a, b \in Ids : b \in p.lower[a] <=> a \in U(p)[b]
  /\ \A a \in Ids : IsInjective(p.upper[a])
  /\ \A a \in Ids : a \notin p.members => p.lower[a] = {} /\ p.upper[a] = << >>

WellMade(p) ==
  /\ p \in Posets
  /\ Standard \subseteq p.members /\ p.jims \subseteq p.members \ Standard
  /\ \A m \in p.members : m < p.next
  /\ Matches(p)

Ends(p) == U(p)[TOP_INDEX] = {} /\ \A x \in Ids : BOTTOM_INDEX \notin U(p)[x]

Ordered(p) == WellMade(p) /\ NoCycle(Ids, U(p)) /\ Ends(p)

Linked(p) == \A m \in p.members \ Standard :
               U(p)[m] # {} /\ \E x \in p.members : m \in U(p)[x]

SameMembers(p, q) == q.members = p.members /\ q.jims = p.jims /\ q.next = p.next

LEMMA IdsAre ==
  /\ IsFiniteSet(Ids) /\ BOTTOM_INDEX \in Ids /\ TOP_INDEX \in Ids
  /\ BOTTOM_INDEX # TOP_INDEX /\ BOTTOM_INDEX \in Standard /\ TOP_INDEX \in Standard
  /\ Standard = {BOTTOM_INDEX, TOP_INDEX}
<1>1. MaxId \in Int /\ 0 \in Int
  BY MaxIdAssumption
<1>2. IsFiniteSet(0..MaxId)
  BY <1>1, FS_Interval
<1>3. 0 \in 0..MaxId /\ 1 \in 0..MaxId
  BY MaxIdAssumption
<1> QED BY <1>2, <1>3 DEF Ids, BOTTOM_INDEX, TOP_INDEX, Standard

LEMMA WellMadeIs ==
  ASSUME NEW p, WellMade(p)
  PROVE  /\ p.members \in SUBSET Ids /\ Standard \subseteq p.members
         /\ BOTTOM_INDEX \in p.members /\ TOP_INDEX \in p.members
         /\ p.jims \subseteq p.members \ Standard
         /\ p.lower \in [Ids -> SUBSET Ids] /\ p.upper \in [Ids -> Seq(Ids)]
         /\ U(p) \in [Ids -> SUBSET Ids]
         /\ \A a \in Ids : U(p)[a] = ToSet(p.upper[a])
         /\ \A a, b \in Ids : b \in p.lower[a] <=> a \in U(p)[b]
         /\ \A a \in Ids : p.upper[a] = << >> <=> U(p)[a] = {}
         /\ \A a \in Ids : p.upper[a] # << >> => Head(p.upper[a]) \in U(p)[a]
         /\ \A a \in Ids : IsInjective(p.upper[a])
         /\ \A a, b \in Ids : b \in U(p)[a] => a \in p.members /\ b \in p.members
<1>1. /\ p.members \in SUBSET Ids /\ p.jims \in SUBSET Ids
      /\ p.lower \in [Ids -> SUBSET Ids] /\ p.upper \in [Ids -> Seq(Ids)]
  BY DEF WellMade, Posets
<1>2. \A a \in Ids : U(p)[a] = ToSet(p.upper[a])
  BY DEF U
<1>3. ASSUME NEW a \in Ids
      PROVE  /\ p.upper[a] \in Seq(Ids) /\ U(p)[a] \in SUBSET Ids
             /\ p.upper[a] = << >> <=> U(p)[a] = {}
             /\ p.upper[a] # << >> => Head(p.upper[a]) \in U(p)[a]
  <2>1. p.upper[a] \in Seq(Ids)
    BY <1>1
  <2> QED BY <1>2, <2>1, SetOf
<1>4. U(p) \in [Ids -> SUBSET Ids]
  <2>1. U(p) = [a \in Ids |-> U(p)[a]]
    BY DEF U
  <2> QED BY <1>3, <2>1
<1>5. Matches(p)
  BY DEF WellMade
<1>6. ASSUME NEW a \in Ids, NEW b \in Ids, b \in U(p)[a]
      PROVE  a \in p.members /\ b \in p.members
  <2>1. a \in p.lower[b]
    BY <1>5, <1>6 DEF Matches
  <2>2. p.upper[a] # << >>
    BY <1>3, <1>6
  <2> QED BY <1>5, <2>1, <2>2 DEF Matches
<1> QED BY <1>1, <1>2, <1>3, <1>4, <1>5, <1>6, IdsAre DEF WellMade, Matches

(***************************************************************************)
(* A poset with other covers is well made if the covers match.             *)
(***************************************************************************)
Fit(members, lower, upper) ==
  /\ \A a, b \in Ids : b \in lower[a] <=> a \in ToSet(upper[b])
  /\ \A a \in Ids : IsInjective(upper[a])
  /\ \A a, b \in Ids : b \in ToSet(upper[a]) => a \in members /\ b \in members

LEMMA WithCovers ==
  ASSUME NEW p, WellMade(p), NEW q \in Posets, SameMembers(p, q),
         Fit(p.members, q.lower, q.upper)
  PROVE  WellMade(q) /\ \A x \in Ids : U(q)[x] = ToSet(q.upper[x])
<1>0. /\ \A a, b \in Ids : b \in q.lower[a] <=> a \in ToSet(q.upper[b])
      /\ \A a \in Ids : IsInjective(q.upper[a])
      /\ \A a, b \in Ids : b \in ToSet(q.upper[a]) => a \in p.members /\ b \in p.members
  BY DEF Fit
<1>1. q.lower \in [Ids -> SUBSET Ids] /\ q.upper \in [Ids -> Seq(Ids)]
  BY DEF Posets
<1>2. \A x \in Ids : U(q)[x] = ToSet(q.upper[x])
  BY DEF U
<1>3. ASSUME NEW a \in Ids, a \notin p.members PROVE q.lower[a] = {} /\ q.upper[a] = << >>
  <2>1. \A b \in Ids : b \notin ToSet(q.upper[a]) /\ a \notin ToSet(q.upper[b])
    BY <1>0, <1>3
  <2>2. PICK v \in Seq(Ids) : v = q.upper[a]
    BY <1>1
  <2>3. ToSet(v) = {}
    BY <2>1, <2>2, SetOf
  <2>4. v = << >>
    BY <2>3, SetOf
  <2>5. \A b \in Ids : b \notin q.lower[a]
    BY <1>0, <2>1
  <2> QED BY <1>1, <2>2, <2>4, <2>5
<1>4. Matches(q)
  BY <1>0, <1>2, <1>3 DEF Matches, SameMembers
<1> QED BY <1>2, <1>4 DEF WellMade, SameMembers

-----------------------------------------------------------------------------
(***************************************************************************)
(* What the operations do with the covers.                                 *)
(***************************************************************************)
LEMMA NewMember ==
  ASSUME NEW p, WellMade(p), NEW m \in Ids, m = p.next, NEW jim \in BOOLEAN
  PROVE  LET q == new_member(p, m, jim) IN
         /\ WellMade(q) /\ U(q) = U(p) /\ q.members = p.members \cup {m}
         /\ m \notin p.members /\ q.jims = IF jim THEN p.jims \cup {m} ELSE p.jims
         /\ U(p)[m] = {} /\ \A x \in Ids : m \notin U(p)[x]
<1> DEFINE q == new_member(p, m, jim)
<1>1. /\ p \in Posets /\ Standard \subseteq p.members /\ p.jims \subseteq p.members \ Standard
      /\ \A x \in p.members : x < p.next
      /\ Matches(p)
  BY DEF WellMade
<1>2. m \in Int /\ m + 1 \in 2..MaxId + 1 /\ ~(m < m)
  <2>1. p.next \in 2..MaxId + 1
    BY <1>1 DEF Posets
  <2> QED BY <2>1, MaxIdAssumption DEF Ids
<1>3. /\ q.members = p.members \cup {m} /\ q.jims = IF jim THEN p.jims \cup {m} ELSE p.jims
      /\ q.next = m + 1 /\ q.lower = p.lower /\ q.upper = p.upper /\ q \in Posets
  BY <1>1, <1>2 DEF Posets, new_member
<1>4. m \notin p.members
  BY <1>1, <1>2
<1>5. U(q) = U(p)
  BY <1>3 DEF U
<1>6. \A x \in q.members : x < q.next
  <2>1. \A x \in p.members : x \in Int
    BY <1>1 DEF Posets, Ids
  <2>2. \A x \in p.members : x < m + 1
    BY <1>1, <1>2, <2>1
  <2> QED BY <1>2, <1>3, <2>2
<1>7. Matches(q)
  BY <1>1, <1>3, <1>5 DEF Matches
<1>8. WellMade(q)
  BY <1>1, <1>3, <1>4, <1>6, <1>7 DEF WellMade
<1>9. U(p)[m] = {} /\ \A x \in Ids : m \notin U(p)[x]
  BY <1>4, WellMadeIs
<1> QED BY <1>3, <1>4, <1>5, <1>8, <1>9

LEMMA NewLink ==
  ASSUME NEW p, WellMade(p), NEW g \in p.members, NEW l \in p.members, g \notin U(p)[l]
  PROVE  LET q == new_link(p, g, l) IN
         /\ WellMade(q) /\ SameMembers(p, q)
         /\ \A x \in Ids : U(q)[x] = IF x = l THEN U(p)[x] \cup {g} ELSE U(p)[x]
<1> DEFINE q == new_link(p, g, l)
<1>0. PICK L \in [Ids -> SUBSET Ids], V \in [Ids -> Seq(Ids)], W \in [Ids -> SUBSET Ids] :
        L = p.lower /\ V = p.upper /\ W = U(p)
  BY WellMadeIs
<1>a. \A a \in Ids : W[a] = ToSet(V[a]) /\ IsInjective(V[a])
  BY <1>0, WellMadeIs
<1>b. \A a, b \in Ids : b \in L[a] <=> a \in W[b]
  BY <1>0, WellMadeIs
<1>c. \A a, b \in Ids : b \in W[a] => a \in p.members /\ b \in p.members
  BY <1>0, WellMadeIs
<1>1. g \in Ids /\ l \in Ids /\ p \in Posets
  BY WellMadeIs DEF WellMade
<1>2. PICK changed \in Seq(Ids) : /\ changed = Append(V[l], g)
                                  /\ ToSet(changed) = W[l] \cup {g}
                                  /\ IsInjective(changed)
  <2>1. PICK v \in Seq(Ids) : v = V[l] /\ ToSet(v) = W[l] /\ IsInjective(v)
    BY <1>1, <1>a
  <2>2. g \notin ToSet(v)
    BY <1>0, <2>1
  <2>3. /\ Append(v, g) \in Seq(Ids) /\ IsInjective(Append(v, g))
        /\ ToSet(Append(v, g)) = ToSet(v) \cup {g}
    BY <1>1, <2>1, <2>2, SetOfAppend
  <2> QED BY <2>1, <2>3
<1> DEFINE upper == [x \in Ids |-> IF x = l THEN changed ELSE V[x]]
           lower == [x \in Ids |-> IF x = g THEN L[x] \cup {l} ELSE L[x]]
<1>3. q = [p EXCEPT !.lower = lower, !.upper = upper]
  <2>1. upper = [V EXCEPT ![l] = changed] /\ lower = [L EXCEPT ![g] = @ \cup {l}]
    BY <1>1
  <2> QED BY <1>0, <1>1, <1>2, <2>1 DEF new_link, insert_lower_member, insert_upper_member, Posets
<1>4. lower \in [Ids -> SUBSET Ids] /\ upper \in [Ids -> Seq(Ids)]
  BY <1>1
<1>5. /\ \A x \in Ids : ToSet(upper[x]) = IF x = l THEN W[x] \cup {g} ELSE W[x]
      /\ \A x \in Ids : IsInjective(upper[x])
  BY <1>2, <1>a
<1>6. \A x \in Ids : lower[x] = IF x = g THEN L[x] \cup {l} ELSE L[x]
  OBVIOUS
<1> HIDE DEF lower, upper, q
<1>7. \A a, b \in Ids : b \in lower[a] <=> a \in ToSet(upper[b])
  <2> SUFFICES ASSUME NEW a \in Ids, NEW b \in Ids
               PROVE  b \in lower[a] <=> a \in ToSet(upper[b])
    OBVIOUS
  <2>1. b \in L[a] <=> a \in W[b]
    BY <1>b
  <2>2. CASE a = g
    BY <1>5, <1>6, <2>1, <2>2
  <2>3. CASE a # g
    BY <1>5, <1>6, <2>1, <2>3
  <2> QED BY <2>2, <2>3
<1>8. \A a, b \in Ids : b \in ToSet(upper[a]) => a \in p.members /\ b \in p.members
  BY <1>1, <1>5, <1>c
<1>9. WellMade(q) /\ SameMembers(p, q) /\ \A x \in Ids : U(q)[x] = ToSet(upper[x])
  <2>1. Fit(p.members, lower, upper)
    BY <1>5, <1>7, <1>8 DEF Fit
  <2>2. q \in Posets /\ SameMembers(p, q) /\ q.lower = lower /\ q.upper = upper
    BY <1>1, <1>3, <1>4 DEF Posets, SameMembers
  <2> QED BY <2>1, <2>2, WithCovers
<1> QED BY <1>0, <1>5, <1>9 DEF q

LEMMA DeleteLink ==
  ASSUME NEW p, WellMade(p), NEW g \in p.members, NEW l \in p.members
  PROVE  LET q == delete_link(p, g, l) IN
         /\ WellMade(q) /\ SameMembers(p, q)
         /\ \A x \in Ids : U(q)[x] = IF x = l THEN U(p)[x] \ {g} ELSE U(p)[x]
<1> DEFINE q == delete_link(p, g, l)
<1>0. PICK L \in [Ids -> SUBSET Ids], V \in [Ids -> Seq(Ids)], W \in [Ids -> SUBSET Ids] :
        L = p.lower /\ V = p.upper /\ W = U(p)
  BY WellMadeIs
<1>a. \A a \in Ids : W[a] = ToSet(V[a]) /\ IsInjective(V[a])
  BY <1>0, WellMadeIs
<1>b. \A a, b \in Ids : b \in L[a] <=> a \in W[b]
  BY <1>0, WellMadeIs
<1>c. \A a, b \in Ids : b \in W[a] => a \in p.members /\ b \in p.members
  BY <1>0, WellMadeIs
<1>1. g \in Ids /\ l \in Ids /\ p \in Posets
  BY WellMadeIs DEF WellMade
<1>2. PICK changed \in Seq(Ids) : /\ changed = RemoveFirst(V[l], g)
                                  /\ ToSet(changed) = W[l] \ {g}
                                  /\ IsInjective(changed)
  <2>1. V[l] \in Seq(Ids) /\ ToSet(V[l]) = W[l] /\ IsInjective(V[l])
    BY <1>1, <1>a
  <2> QED BY <2>1, SetOfRemoveFirst
<1> DEFINE upper == [x \in Ids |-> IF x = l THEN changed ELSE V[x]]
           lower == [x \in Ids |-> IF x = g THEN L[x] \ {l} ELSE L[x]]
<1>3. q = [p EXCEPT !.lower = lower, !.upper = upper]
  <2>1. upper = [V EXCEPT ![l] = changed] /\ lower = [L EXCEPT ![g] = @ \ {l}]
    BY <1>1
  <2> QED BY <1>0, <1>1, <1>2, <2>1 DEF delete_link, remove_lower_member, remove_upper_member, Posets
<1>4. lower \in [Ids -> SUBSET Ids] /\ upper \in [Ids -> Seq(Ids)]
  BY <1>1
<1>5. /\ \A x \in Ids : ToSet(upper[x]) = IF x = l THEN W[x] \ {g} ELSE W[x]
      /\ \A x \in Ids : IsInjective(upper[x])
  BY <1>2, <1>a
<1>6. \A x \in Ids : lower[x] = IF x = g THEN L[x] \ {l} ELSE L[x]
  OBVIOUS
<1> HIDE DEF lower, upper, q
<1>7. \A a, b \in Ids : b \in lower[a] <=> a \in ToSet(upper[b])
  <2> SUFFICES ASSUME NEW a \in Ids, NEW b \in Ids
               PROVE  b \in lower[a] <=> a \in ToSet(upper[b])
    OBVIOUS
  <2>1. b \in L[a] <=> a \in W[b]
    BY <1>b
  <2>2. CASE a = g
    BY <1>5, <1>6, <2>1, <2>2
  <2>3. CASE a # g
    BY <1>5, <1>6, <2>1, <2>3
  <2> QED BY <2>2, <2>3
<1>8. \A a, b \in Ids : b \in ToSet(upper[a]) => a \in p.members /\ b \in p.members
  BY <1>1, <1>5, <1>c
<1>9. WellMade(q) /\ SameMembers(p, q) /\ \A x \in Ids : U(q)[x] = ToSet(upper[x])
  <2>1. Fit(p.members, lower, upper)
    BY <1>5, <1>7, <1>8 DEF Fit
  <2>2. q \in Posets /\ SameMembers(p, q) /\ q.lower = lower /\ q.upper = upper
    BY <1>1, <1>3, <1>4 DEF Posets, SameMembers
  <2> QED BY <2>1, <2>2, WithCovers
<1> QED BY <1>0, <1>5, <1>9 DEF q

NothingAboveBoth(p, a, b) == U(p)[a] \cap U(p)[b] = {}

UpperMoved(p, q, src, dst) ==
  \A x \in Ids : U(q)[x] = IF x = src THEN {}
                           ELSE IF x = dst THEN U(p)[dst] \cup U(p)[src]
                           ELSE U(p)[x]

LEMMA TransferUpperCover ==
  ASSUME NEW p, WellMade(p), NEW src \in p.members, NEW dst \in p.members, src # dst,
         NothingAboveBoth(p, src, dst)
  PROVE  LET q == transfer_upper_cover(p, src, dst) IN
         WellMade(q) /\ SameMembers(p, q) /\ UpperMoved(p, q, src, dst)
<1> DEFINE q == transfer_upper_cover(p, src, dst)
<1>0. PICK L \in [Ids -> SUBSET Ids], V \in [Ids -> Seq(Ids)], W \in [Ids -> SUBSET Ids] :
        L = p.lower /\ V = p.upper /\ W = U(p)
  BY WellMadeIs
<1>a. \A a \in Ids : W[a] = ToSet(V[a]) /\ IsInjective(V[a])
  BY <1>0, WellMadeIs
<1>b. \A a, b \in Ids : b \in L[a] <=> a \in W[b]
  BY <1>0, WellMadeIs
<1>c. \A a, b \in Ids : b \in W[a] => a \in p.members /\ b \in p.members
  BY <1>0, WellMadeIs
<1>1. src \in Ids /\ dst \in Ids /\ p \in Posets
  BY WellMadeIs DEF WellMade
<1>2. PICK joined \in Seq(Ids) : /\ joined = V[dst] \o V[src]
                                 /\ ToSet(joined) = W[dst] \cup W[src]
                                 /\ IsInjective(joined)
  <2>1. PICK v \in Seq(Ids) : v = V[dst] /\ ToSet(v) = W[dst] /\ IsInjective(v)
    BY <1>1, <1>a
  <2>2. PICK w \in Seq(Ids) : w = V[src] /\ ToSet(w) = W[src] /\ IsInjective(w)
    BY <1>1, <1>a
  <2>3. ToSet(v) \cap ToSet(w) = {}
    BY <1>0, <2>1, <2>2 DEF NothingAboveBoth
  <2>4. v \o w \in Seq(Ids) /\ ToSet(v \o w) = ToSet(v) \cup ToSet(w) /\ IsInjective(v \o w)
    BY <2>1, <2>2, <2>3, SetOfConcat
  <2> QED BY <2>1, <2>2, <2>4
<1>3. PICK none \in Seq(Ids) : none = << >> /\ ToSet(none) = {} /\ IsInjective(none)
  BY EmptyIs
<1> DEFINE upper == [x \in Ids |-> IF x = src THEN none ELSE IF x = dst THEN joined ELSE V[x]]
           lower == [x \in Ids |-> IF x \in W[src] THEN (L[x] \ {src}) \cup {dst} ELSE L[x]]
<1>4. q = [p EXCEPT !.lower = lower, !.upper = upper]
  <2>1. upper = [[V EXCEPT ![dst] = joined] EXCEPT ![src] = none]
    BY <1>1
  <2>2. W[src] = ToSet(p.upper[src]) /\ p.lower = L /\ p.upper = V
    BY <1>0, <1>1, <1>a
  <2>3. lower = [x \in Ids |-> IF x \in ToSet(p.upper[src]) THEN (p.lower[x] \ {src}) \cup {dst}
                               ELSE p.lower[x]]
    BY <2>2
  <2> HIDE DEF lower, upper
  <2>4. DOMAIN p.upper = Ids
    BY <2>2
  <2> QED BY <1>1, <1>2, <1>3, <2>1, <2>2, <2>3, <2>4 DEF transfer_upper_cover, Posets
<1>5. upper \in [Ids -> Seq(Ids)] /\ lower \in [Ids -> SUBSET Ids]
  BY <1>1
<1>6. \A x \in Ids : lower[x] = IF x \in W[src] THEN (L[x] \ {src}) \cup {dst} ELSE L[x]
  OBVIOUS
<1>7. /\ \A x \in Ids : ToSet(upper[x]) = IF x = src THEN {}
                                          ELSE IF x = dst THEN W[dst] \cup W[src]
                                          ELSE W[x]
      /\ \A x \in Ids : IsInjective(upper[x])
  BY <1>2, <1>3, <1>a
<1> HIDE DEF lower, upper, q
<1>8. \A a, b \in Ids : b \in lower[a] <=> a \in ToSet(upper[b])
  <2> SUFFICES ASSUME NEW a \in Ids, NEW b \in Ids
               PROVE  b \in lower[a] <=> a \in ToSet(upper[b])
    OBVIOUS
  <2>1. b \in L[a] <=> a \in W[b]
    BY <1>b
  <2>2. CASE b = src
    BY <1>1, <1>6, <1>7, <2>1, <2>2
  <2>3. CASE b = dst
    BY <1>1, <1>6, <1>7, <2>1, <2>3
  <2>4. CASE b # src /\ b # dst
    BY <1>1, <1>6, <1>7, <2>1, <2>4
  <2> QED BY <2>2, <2>3, <2>4
<1>9. \A a, b \in Ids : b \in ToSet(upper[a]) => a \in p.members /\ b \in p.members
  BY <1>1, <1>7, <1>c
<1>10. WellMade(q) /\ SameMembers(p, q) /\ \A x \in Ids : U(q)[x] = ToSet(upper[x])
  <2>1. Fit(p.members, lower, upper)
    BY <1>7, <1>8, <1>9 DEF Fit
  <2>2. q \in Posets /\ SameMembers(p, q) /\ q.lower = lower /\ q.upper = upper
    BY <1>1, <1>4, <1>5 DEF Posets, SameMembers
  <2> QED BY <2>1, <2>2, WithCovers
<1> QED BY <1>0, <1>7, <1>10 DEF q, UpperMoved

NothingBelowBoth(p, a, b) == \A x \in Ids : ~(a \in U(p)[x] /\ b \in U(p)[x])

LEMMA TransferLowerCover ==
  ASSUME NEW p, WellMade(p), NEW src \in p.members, NEW dst \in p.members, src # dst,
         NothingBelowBoth(p, src, dst)
  PROVE  LET q == transfer_lower_cover(p, src, dst) IN
         /\ WellMade(q) /\ SameMembers(p, q)
         /\ \A x \in Ids : U(q)[x] = IF src \in U(p)[x] THEN (U(p)[x] \ {src}) \cup {dst}
                                     ELSE U(p)[x]
<1> DEFINE q == transfer_lower_cover(p, src, dst)
<1>0. PICK L \in [Ids -> SUBSET Ids], V \in [Ids -> Seq(Ids)], W \in [Ids -> SUBSET Ids] :
        L = p.lower /\ V = p.upper /\ W = U(p)
  BY WellMadeIs
<1>a. \A a \in Ids : W[a] = ToSet(V[a]) /\ IsInjective(V[a])
  BY <1>0, WellMadeIs
<1>b. \A a, b \in Ids : b \in L[a] <=> a \in W[b]
  BY <1>0, WellMadeIs
<1>c. \A a, b \in Ids : b \in W[a] => a \in p.members /\ b \in p.members
  BY <1>0, WellMadeIs
<1>1. src \in Ids /\ dst \in Ids /\ p \in Posets
  BY WellMadeIs DEF WellMade
<1> DEFINE replaced(x) == Append(RemoveFirst(V[x], src), dst)
<1>2. ASSUME NEW x \in Ids, x \in L[src]
      PROVE  /\ replaced(x) \in Seq(Ids) /\ IsInjective(replaced(x))
             /\ ToSet(replaced(x)) = (W[x] \ {src}) \cup {dst}
  <2>1. V[x] \in Seq(Ids) /\ ToSet(V[x]) = W[x] /\ IsInjective(V[x])
    BY <1>a
  <2>2. PICK r \in Seq(Ids) : r = RemoveFirst(V[x], src) /\ IsInjective(r)
                              /\ ToSet(r) = W[x] \ {src}
    BY <2>1, SetOfRemoveFirst
  <2>3. dst \notin ToSet(r)
    <3>1. src \in W[x]
      BY <1>1, <1>2, <1>b
    <3> QED BY <1>0, <2>2, <3>1 DEF NothingBelowBoth
  <2>4. Append(r, dst) \in Seq(Ids) /\ IsInjective(Append(r, dst))
        /\ ToSet(Append(r, dst)) = ToSet(r) \cup {dst}
    BY <1>1, <2>2, <2>3, SetOfAppend
  <2> QED BY <2>2, <2>4
<1> DEFINE upper == [x \in Ids |-> IF x \in L[src] THEN replaced(x) ELSE V[x]]
           lower == [x \in Ids |-> IF x = src THEN {} ELSE IF x = dst THEN L[dst] \cup L[src]
                                   ELSE L[x]]
<1>3. q = [p EXCEPT !.lower = lower, !.upper = upper]
  <2>1. lower = [[L EXCEPT ![dst] = @ \cup L[src]] EXCEPT ![src] = {}]
    BY <1>1
  <2> QED BY <1>0, <1>1, <2>1 DEF transfer_lower_cover, Posets
<1>4. \A x \in Ids : upper[x] = IF x \in L[src] THEN replaced(x) ELSE V[x]
  OBVIOUS
<1>5. upper \in [Ids -> Seq(Ids)] /\ lower \in [Ids -> SUBSET Ids]
  <2> HIDE DEF replaced
  <2> QED BY <1>1, <1>2
<1>6. \A x \in Ids : lower[x] = IF x = src THEN {} ELSE IF x = dst THEN L[dst] \cup L[src]
                                ELSE L[x]
  OBVIOUS
<1> HIDE DEF lower, upper, q, replaced
<1>7. \A x \in Ids : /\ ToSet(upper[x]) = IF src \in W[x] THEN (W[x] \ {src}) \cup {dst} ELSE W[x]
                     /\ IsInjective(upper[x])
  <2> SUFFICES ASSUME NEW x \in Ids
               PROVE  /\ ToSet(upper[x]) = IF src \in W[x] THEN (W[x] \ {src}) \cup {dst} ELSE W[x]
                      /\ IsInjective(upper[x])
    OBVIOUS
  <2>1. x \in L[src] <=> src \in W[x]
    BY <1>1, <1>b
  <2>2. CASE x \in L[src]
    BY <1>2, <1>4, <2>1, <2>2
  <2>3. CASE x \notin L[src]
    BY <1>4, <1>a, <2>1, <2>3
  <2> QED BY <2>2, <2>3
<1>8. \A a, b \in Ids : b \in lower[a] <=> a \in ToSet(upper[b])
  <2> SUFFICES ASSUME NEW a \in Ids, NEW b \in Ids
               PROVE  b \in lower[a] <=> a \in ToSet(upper[b])
    OBVIOUS
  <2>1. (b \in L[a] <=> a \in W[b]) /\ (b \in L[src] <=> src \in W[b])
        /\ (b \in L[dst] <=> dst \in W[b])
    BY <1>1, <1>b
  <2> QED BY <1>1, <1>6, <1>7, <2>1
<1>9. \A a, b \in Ids : b \in ToSet(upper[a]) => a \in p.members /\ b \in p.members
  BY <1>1, <1>7, <1>c
<1>10. WellMade(q) /\ SameMembers(p, q) /\ \A x \in Ids : U(q)[x] = ToSet(upper[x])
  <2>1. Fit(p.members, lower, upper)
    BY <1>7, <1>8, <1>9 DEF Fit
  <2>2. q \in Posets /\ SameMembers(p, q) /\ q.lower = lower /\ q.upper = upper
    BY <1>1, <1>3, <1>5 DEF Posets, SameMembers
  <2> QED BY <2>1, <2>2, WithCovers
<1> QED BY <1>0, <1>7, <1>10 DEF q

LEMMA UnlinkAndDelete ==
  ASSUME NEW p, WellMade(p), NEW m \in p.members \ Standard
  PROVE  LET q == delete_member(unlink(p, m), m) IN
         /\ WellMade(q) /\ q.members = p.members \ {m} /\ q.jims = p.jims \ {m}
         /\ \A x \in Ids : U(q)[x] = IF x = m THEN {} ELSE U(p)[x] \ {m}
<1> DEFINE q == delete_member(unlink(p, m), m)
<1>0. PICK L \in [Ids -> SUBSET Ids], V \in [Ids -> Seq(Ids)], W \in [Ids -> SUBSET Ids] :
        L = p.lower /\ V = p.upper /\ W = U(p)
  BY WellMadeIs
<1>a. \A a \in Ids : W[a] = ToSet(V[a]) /\ IsInjective(V[a])
  BY <1>0, WellMadeIs
<1>b. \A a, b \in Ids : b \in L[a] <=> a \in W[b]
  BY <1>0, WellMadeIs
<1>c. \A a, b \in Ids : b \in W[a] => a \in p.members /\ b \in p.members
  BY <1>0, WellMadeIs
<1>1. m \in Ids /\ p \in Posets
  BY WellMadeIs DEF WellMade
<1>2. PICK none \in Seq(Ids) : none = << >> /\ ToSet(none) = {} /\ IsInjective(none)
  BY EmptyIs
<1> DEFINE removed(x) == RemoveFirst(V[x], m)
           upper == [x \in Ids |-> IF x = m THEN none ELSE IF x \in L[m] THEN removed(x) ELSE V[x]]
           lower == [x \in Ids |-> IF x = m THEN {} ELSE L[x] \ {m}]
<1>3. ASSUME NEW x \in Ids
      PROVE  removed(x) \in Seq(Ids) /\ IsInjective(removed(x)) /\ ToSet(removed(x)) = W[x] \ {m}
  <2>1. V[x] \in Seq(Ids) /\ ToSet(V[x]) = W[x] /\ IsInjective(V[x])
    BY <1>a
  <2> QED BY <2>1, SetOfRemoveFirst
<1>4. \A x \in Ids : upper[x] = IF x = m THEN none ELSE IF x \in L[m] THEN removed(x) ELSE V[x]
  OBVIOUS
<1>5. upper \in [Ids -> Seq(Ids)] /\ lower \in [Ids -> SUBSET Ids]
  <2> HIDE DEF removed
  <2> QED BY <1>1, <1>3
<1>6. \A x \in Ids : lower[x] = IF x = m THEN {} ELSE L[x] \ {m}
  OBVIOUS
<1>7. /\ q.members = p.members \ {m} /\ q.jims = p.jims \ {m} /\ q.next = p.next
      /\ q.lower = lower /\ q.upper = upper /\ q \in Posets
  <2>1. \A x \in Ids : Contains(p.upper[m], x) <=> m \in L[x]
    <3>1. V[m] \in Seq(Ids) /\ W[m] = ToSet(V[m])
      BY <1>1, <1>a
    <3>2. \A x : Contains(V[m], x) <=> x \in W[m]
      BY <3>1, SetOf
    <3> QED BY <1>0, <1>1, <1>b, <3>2
  <2>2. [[x \in Ids |-> IF Contains(p.upper[m], x) THEN L[x] \ {m} ELSE L[x]] EXCEPT ![m] = {}]
          = lower
    <3> DEFINE cut == [x \in Ids |-> IF Contains(p.upper[m], x) THEN L[x] \ {m} ELSE L[x]]
    <3>1. \A x \in Ids : cut[x] = L[x] \ {m}
      BY <2>1
    <3>2. cut = [x \in Ids |-> L[x] \ {m}]
      BY <3>1
    <3> HIDE DEF cut
    <3>3. [cut EXCEPT ![m] = {}] = lower
      BY <1>1, <3>2
    <3> QED BY <3>3 DEF cut
  <2>3. [[x \in Ids |-> IF x \in L[m] THEN removed(x) ELSE V[x]] EXCEPT ![m] = none] = upper
    <3> HIDE DEF removed
    <3> QED BY <1>1
  <2>4. unlink(p, m) = [p EXCEPT !.lower = [x \in Ids |-> IF Contains(p.upper[m], x) THEN L[x] \ {m} ELSE L[x]],
                                 !.upper = [x \in Ids |-> IF x \in L[m] THEN removed(x) ELSE V[x]]]
    BY <1>0 DEF unlink
  <2> HIDE DEF lower, upper, removed
  <2> QED BY <1>1, <1>2, <1>5, <2>2, <2>3, <2>4 DEF delete_member, Posets
<1> HIDE DEF lower, upper, q, removed
<1>8. \A x \in Ids : /\ ToSet(upper[x]) = IF x = m THEN {} ELSE W[x] \ {m}
                     /\ IsInjective(upper[x])
  <2> SUFFICES ASSUME NEW x \in Ids
               PROVE  /\ ToSet(upper[x]) = IF x = m THEN {} ELSE W[x] \ {m}
                      /\ IsInjective(upper[x])
    OBVIOUS
  <2>1. CASE x = m
    BY <1>2, <1>4, <2>1
  <2>2. CASE x # m /\ x \in L[m]
    BY <1>3, <1>4, <2>2
  <2>3. CASE x # m /\ x \notin L[m]
    <3>1. m \notin W[x]
      BY <1>1, <1>b, <2>3
    <3>2. W[x] \ {m} = W[x]
      BY <3>1
    <3> QED BY <1>4, <1>a, <2>3, <3>2
  <2> QED BY <2>1, <2>2, <2>3
<1>9. \A x \in Ids : U(q)[x] = IF x = m THEN {} ELSE W[x] \ {m}
  BY <1>7, <1>8 DEF U
<1>10. Matches(q)
  <2>1. \A a, b \in Ids : b \in q.lower[a] <=> a \in U(q)[b]
    <3>1. ASSUME NEW a \in Ids, NEW b \in Ids PROVE b \in lower[a] <=> a \in U(q)[b]
      <4>1. b \in L[a] <=> a \in W[b]
        BY <1>b
      <4>2. CASE a = m
        BY <1>6, <1>9, <4>1, <4>2
      <4>3. CASE a # m
        BY <1>6, <1>9, <4>1, <4>3
      <4> QED BY <4>2, <4>3
    <3> QED BY <1>7, <3>1
  <2>2. ASSUME NEW a \in Ids, a \notin q.members PROVE q.lower[a] = {} /\ q.upper[a] = << >>
    <3>0. a = m \/ a \notin p.members
      BY <1>7, <2>2
    <3>1. \A b \in Ids : (b \notin W[a] /\ a \notin W[b]) \/ a = m
      BY <1>c, <3>0
    <3>2. U(q)[a] = {}
      BY <1>9, <3>1
    <3>3. q.lower[a] = {}
      <4>1. a = m \/ \A b \in Ids : b \notin L[a]
        BY <1>b, <3>1
      <4>2. a = m \/ L[a] = {}
        BY <4>1
      <4>3. lower[a] = {}
        BY <1>6, <4>2
      <4> QED BY <1>7, <4>3
    <3>4. PICK v \in Seq(Ids) : v = upper[a]
      BY <1>5
    <3>5. ToSet(v) = {}
      BY <1>8, <1>9, <3>2, <3>4
    <3>6. v = << >>
      BY <3>5, SetOf
    <3> QED BY <1>7, <3>3, <3>4, <3>6
  <2>3. \A a \in Ids : IsInjective(q.upper[a])
    BY <1>7, <1>8
  <2> QED BY <2>1, <2>2, <2>3 DEF Matches
<1>11. WellMade(q)
  BY <1>7, <1>10 DEF WellMade
<1> QED BY <1>0, <1>7, <1>9, <1>11 DEF q

-----------------------------------------------------------------------------
(***************************************************************************)
(* le is the order the covers span.                                        *)
(***************************************************************************)
LEMMA UpIsAbove ==
  ASSUME NEW p, WellMade(p), NEW m \in Ids
  PROVE  Up(p, m) = Above(Ids, U(p), m)
<1> DEFINE W == U(p)
           Is(grow) == grow = [S \in SUBSET Ids |->
                                 LET T == S \cup UNION {ToSet(p.upper[x]) : x \in S}
                                 IN IF T = S THEN S ELSE grow[T]]
<1>1. Up(p, m) = (CHOOSE grow : Is(grow))[{m}]
  BY DEF Up, Closure
<1>2. W \in [Ids -> SUBSET Ids] /\ \A x \in Ids : W[x] = ToSet(p.upper[x])
  BY WellMadeIs
<1>3. ASSUME NEW grow PROVE Is(grow) <=> Grows(Ids, W, grow)
  <2>1. \A S \in SUBSET Ids : UNION {ToSet(p.upper[x]) : x \in S} = UNION {W[x] : x \in S}
    BY <1>2
  <2>2. [S \in SUBSET Ids |-> LET T == S \cup UNION {ToSet(p.upper[x]) : x \in S}
                              IN IF T = S THEN S ELSE grow[T]]
          = [S \in SUBSET Ids |-> LET T == S \cup UNION {W[x] : x \in S}
                                  IN IF T = S THEN S ELSE grow[T]]
    BY <2>1
  <2> QED BY <2>2 DEF Grows
<1> HIDE DEF W, Is
<1>4. /\ \E grow : Grows(Ids, W, grow)
      /\ \A grow : Grows(Ids, W, grow) => grow[{m}] = Above(Ids, W, m)
  BY <1>2, IdsAre, GrowIsAbove
<1>5. Is(CHOOSE grow : Is(grow))
  BY <1>3, <1>4
<1> QED BY <1>1, <1>3, <1>4, <1>5 DEF W

LEMMA LeIs ==
  ASSUME NEW p, WellMade(p), NEW g \in Ids, NEW l \in Ids
  PROVE  /\ le(p, g, l) <=> g \in Above(Ids, U(p), l)
         /\ ~le(p, g, l) => g \notin U(p)[l]
<1>1. le(p, g, l) <=> g \in Above(Ids, U(p), l)
  BY UpIsAbove DEF le
<1>2. U(p) \in [Ids -> SUBSET Ids]
  BY WellMadeIs
<1>3. l \in Above(Ids, U(p), l) /\ U(p)[l] \subseteq Above(Ids, U(p), l)
  BY <1>2, AboveIs
<1> QED BY <1>1, <1>3

-----------------------------------------------------------------------------
(***************************************************************************)
(* The jems of m.  Below the greatest jem of a member without a lower      *)
(* cover there is, but for that member, no other like it.                  *)
(***************************************************************************)
LEMMA GreatestJemIn ==
  ASSUME NEW p, WellMade(p), NEW K \in SUBSET p.members, NEW m \in K,
         \A r \in K : \A u \in U(p)[r] : ~is_jim(p, u) /\ p.lower[u] = {r} => u \in K
  PROVE  greatest_jem(p, m) \in K
<1> DEFINE W == U(p)
           next(r) == IF ~upper_is_empty(p, r)
                         THEN LET u == first_upper_member(p, r) IN
                              IF ~is_jim(p, u) /\ lower_is_singleton(p, u) THEN u ELSE r
                         ELSE r
           Is(up) == up = [n \in Nat |-> IF n = 0 THEN m ELSE next(up[n - 1])]
           step == [r \in p.members |-> next(r)]
<1>1. greatest_jem(p, m) = (CHOOSE up : Is(up))[MaxId]
  BY DEF greatest_jem
<1>2. /\ p.members \in SUBSET Ids /\ W \in [Ids -> SUBSET Ids]
      /\ \A a, b \in Ids : b \in p.lower[a] <=> a \in W[b]
      /\ \A a, b \in Ids : b \in W[a] => a \in p.members /\ b \in p.members
  BY WellMadeIs
<1>3. ASSUME NEW r \in p.members
      PROVE  next(r) = r \/ (next(r) \in W[r] /\ lower_is_singleton(p, next(r)))
  <2>1. ~upper_is_empty(p, r) => first_upper_member(p, r) \in W[r]
    BY <1>2, WellMadeIs DEF upper_is_empty, first_upper_member
  <2> QED BY <2>1
<1>4. step \in [p.members -> p.members]
  <2>1. \A r \in p.members : next(r) \in p.members
    <3> HIDE DEF next
    <3> QED BY <1>2, <1>3
  <2> HIDE DEF next
  <2> QED BY <2>1
<1>5. \E up : Is(up)
  <2>0. PICK f : Iterate(f, p.members, m, step)
    <3> HIDE DEF step
    <3> QED BY <1>4, Iterates
  <2>1. f \in [Nat -> p.members] /\ \A n \in Nat : f[n] = IF n = 0 THEN m ELSE step[f[n - 1]]
    BY <2>0 DEF Iterate
  <2>2. \A n \in Nat : n # 0 => n - 1 \in Nat
    OBVIOUS
  <2>3. ASSUME NEW n \in Nat PROVE f[n] = IF n = 0 THEN m ELSE next(f[n - 1])
    <3> HIDE DEF next
    <3>1. CASE n = 0
      BY <2>1, <3>1
    <3>2. CASE n # 0
      <4>1. PICK r \in p.members : r = f[n - 1]
        BY <2>1, <2>2, <3>2
      <4>2. f[n] = step[r]
        BY <2>1, <3>2, <4>1
      <4>3. step[r] = next(r)
        OBVIOUS
      <4> QED BY <3>2, <4>1, <4>2, <4>3
    <3> QED BY <3>1, <3>2
  <2>4. f = [n \in Nat |-> IF n = 0 THEN m ELSE next(f[n - 1])]
    <3> HIDE DEF next
    <3>1. f = [n \in Nat |-> f[n]]
      BY <2>1
    <3>2. [n \in Nat |-> f[n]] = [n \in Nat |-> IF n = 0 THEN m ELSE next(f[n - 1])]
      BY ONLY <2>3, Zenon
    <3> QED BY ONLY <3>1, <3>2, Zenon
  <2> HIDE DEF next
  <2> QED BY <2>4
<1>6. PICK up : Is(up) /\ greatest_jem(p, m) = up[MaxId]
  <2> HIDE DEF Is
  <2> QED BY <1>1, <1>5
<1>7. ASSUME NEW r \in K PROVE next(r) \in K
  <2>1. CASE next(r) # r
    <3>1. next(r) \in W[r] /\ lower_is_singleton(p, next(r)) /\ ~is_jim(p, next(r)) /\ r \in Ids
      BY <1>2, <2>1, WellMadeIs DEF upper_is_empty, first_upper_member
    <3> HIDE DEF next
    <3>2. next(r) \in Ids
      BY <1>2, <3>1
    <3>3. p.lower[next(r)] = {r}
      BY <1>2, <3>1, <3>2 DEF lower_is_singleton
    <3> QED BY <3>1, <3>3
  <2> HIDE DEF next
  <2> QED BY <2>1
<1> HIDE DEF W, next
<1>8. up[0] = m /\ \A n \in Nat : up[n + 1] = next(up[n])
  <2>1. \A n \in Nat : n + 1 \in Nat /\ n + 1 # 0 /\ (n + 1) - 1 = n
    OBVIOUS
  <2>2. \A n \in Nat : up[n] = IF n = 0 THEN m ELSE next(up[n - 1])
    BY <1>6
  <2>3. up[0] = m
    BY <2>2
  <2>4. ASSUME NEW n \in Nat PROVE up[n + 1] = next(up[n])
    <3>1. PICK k \in Nat : k = n + 1 /\ k # 0 /\ k - 1 = n
      BY <2>1
    <3>2. up[k] = next(up[k - 1])
      BY <2>2, <3>1
    <3> QED BY <3>1, <3>2
  <2> QED BY <2>3, <2>4
<1> DEFINE S == {n \in Nat : up[n] \in K}
<1>9. 0 \in S /\ \A n \in Nat : n \in S => n + 1 \in S
  BY <1>7, <1>8
<1>10. MaxId \in S
  <2> HIDE DEF S
  <2> QED BY <1>9, EveryNat, MaxIdAssumption
<1> QED BY <1>6, <1>10

LEMMA GreatestJem ==
  ASSUME NEW p, WellMade(p), NEW m \in p.members
  PROVE  LET g == greatest_jem(p, m) IN
         /\ g \in p.members /\ g \in Above(Ids, U(p), m)
         /\ p.lower[m] = {} =>
              \A x \in Ids : g \in Above(Ids, U(p), x) => x = m \/ p.lower[x] # {}
<1> DEFINE W == U(p)
<1>1. /\ p.members \in SUBSET Ids /\ W \in [Ids -> SUBSET Ids]
      /\ \A a, b \in Ids : b \in p.lower[a] <=> a \in W[b]
      /\ \A a, b \in Ids : b \in W[a] => a \in p.members /\ b \in p.members
  BY WellMadeIs
<1> HIDE DEF W
<1> DEFINE Jem(g) == /\ g \in p.members /\ g \in Above(Ids, W, m)
                     /\ p.lower[m] = {} =>
                          \A x \in Ids : g \in Above(Ids, W, x) => x = m \/ p.lower[x] # {}
           K == {g \in p.members : Jem(g)}
<1>2. m \in Ids /\ m \in Above(Ids, W, m)
  BY <1>1, AboveIs
<1>3. Jem(m)
  <2>1. ASSUME NEW x \in Ids, m \in Above(Ids, W, x), x # m PROVE p.lower[m] # {}
    <3>1. PICK y \in Above(Ids, W, x) : m \in W[y]
      BY <1>1, <2>1, AboveLast
    <3>2. y \in Ids
      BY <1>1, <2>1, AboveIs
    <3> QED BY <1>1, <1>2, <3>1, <3>2
  <2> QED BY <1>2, <2>1
<1>4. ASSUME NEW r \in K, NEW u \in W[r], p.lower[u] = {r} PROVE u \in K
  <2>1. Jem(r)
    OBVIOUS
  <2>2. u \in p.members /\ u \in Above(Ids, W, m) /\ u \in Ids /\ r \in Ids
    BY <1>1, <1>2, <2>1, AboveIs
  <2>3. ASSUME p.lower[m] = {}, NEW x \in Ids, u \in Above(Ids, W, x)
        PROVE  x = m \/ p.lower[x] # {}
    <3>1. CASE x = u
      BY <1>4, <3>1
    <3>2. CASE x # u
      <4>1. PICK y \in Above(Ids, W, x) : u \in W[y]
        BY <1>1, <2>3, <3>2, AboveLast
      <4>2. y \in Ids
        BY <1>1, AboveIs
      <4>3. y = r
        BY <1>1, <1>4, <2>2, <4>1, <4>2
      <4> QED BY <2>1, <2>3, <4>1, <4>3
    <3> QED BY <3>1, <3>2
  <2> QED BY <2>2, <2>3
<1> HIDE DEF Jem
<1>5. greatest_jem(p, m) \in K
  <2>1. K \in SUBSET p.members /\ m \in K
    BY <1>3
  <2> HIDE DEF K
  <2> QED BY <1>4, <2>1, GreatestJemIn DEF W
<1> QED BY <1>5 DEF Jem, W

LEMMA LeastJemIn ==
  ASSUME NEW p, WellMade(p), NEW K \in SUBSET p.members, NEW m \in K,
         \A r \in K : \A u \in Ids : ~is_jim(p, r) /\ p.lower[r] = {u} => u \in K
  PROVE  least_jem(p, m) \in K
<1> DEFINE next(r) == IF ~is_jim(p, r) /\ lower_is_singleton(p, r) THEN lower_member(p, r) ELSE r
           Is(down) == down = [n \in Nat |-> IF n = 0 THEN m ELSE next(down[n - 1])]
           step == [r \in p.members |-> next(r)]
<1>1. least_jem(p, m) = (CHOOSE down : Is(down))[MaxId]
  BY DEF least_jem
<1>2. ASSUME NEW r \in p.members PROVE next(r) = r \/ (next(r) \in p.lower[r] /\ p.lower[r] # {})
  BY DEF lower_is_singleton, lower_member
<1>3. \A r \in p.members : next(r) \in p.members
  <2>1. ASSUME NEW r \in p.members, NEW l \in p.lower[r] PROVE l \in p.members
    <3>1. r \in Ids /\ l \in Ids
      BY WellMadeIs
    <3>2. r \in U(p)[l]
      BY <3>1, WellMadeIs
    <3> QED BY <3>1, <3>2, WellMadeIs
  <2> HIDE DEF next
  <2> QED BY <1>2, <2>1
<1>4. step \in [p.members -> p.members]
  <2> HIDE DEF next
  <2> QED BY <1>3
<1>5. \E down : Is(down)
  <2>1. PICK f : Iterate(f, p.members, m, step)
    <3> HIDE DEF step
    <3> QED BY <1>4, Iterates
  <2>2. f \in [Nat -> p.members] /\ \A n \in Nat : f[n] = IF n = 0 THEN m ELSE step[f[n - 1]]
    BY <2>1 DEF Iterate
  <2>3. \A n \in Nat : n # 0 => n - 1 \in Nat
    OBVIOUS
  <2>4. ASSUME NEW n \in Nat PROVE f[n] = IF n = 0 THEN m ELSE next(f[n - 1])
    <3> HIDE DEF next
    <3>1. CASE n = 0
      BY <2>2, <3>1
    <3>2. CASE n # 0
      <4>1. PICK r \in p.members : r = f[n - 1]
        BY <2>2, <2>3, <3>2
      <4>2. f[n] = step[r]
        BY <2>2, <3>2, <4>1
      <4>3. step[r] = next(r)
        OBVIOUS
      <4> QED BY <3>2, <4>1, <4>2, <4>3
    <3> QED BY <3>1, <3>2
  <2>5. f = [n \in Nat |-> IF n = 0 THEN m ELSE next(f[n - 1])]
    <3> HIDE DEF next
    <3>1. f = [n \in Nat |-> f[n]]
      BY <2>2
    <3>2. [n \in Nat |-> f[n]] = [n \in Nat |-> IF n = 0 THEN m ELSE next(f[n - 1])]
      BY ONLY <2>4, Zenon
    <3> QED BY ONLY <3>1, <3>2, Zenon
  <2> HIDE DEF next
  <2> QED BY <2>5
<1>6. PICK down : Is(down) /\ least_jem(p, m) = down[MaxId]
  <2> HIDE DEF Is
  <2> QED BY <1>1, <1>5
<1>7. down[0] = m /\ \A n \in Nat : down[n + 1] = next(down[n])
  <2> HIDE DEF next
  <2>1. \A n \in Nat : down[n] = IF n = 0 THEN m ELSE next(down[n - 1])
    BY <1>6
  <2>2. down[0] = m
    BY <2>1
  <2>3. ASSUME NEW n \in Nat PROVE down[n + 1] = next(down[n])
    <3>1. PICK k \in Nat : k = n + 1 /\ k # 0 /\ k - 1 = n
      OBVIOUS
    <3>2. down[k] = next(down[k - 1])
      BY <2>1, <3>1
    <3> QED BY <3>1, <3>2
  <2> QED BY <2>2, <2>3
<1>8. ASSUME NEW r \in K PROVE next(r) \in K
  <2>1. next(r) \in Ids
    <3> HIDE DEF next
    <3> QED BY <1>3, WellMadeIs
  <2>2. next(r) = r \/ (~is_jim(p, r) /\ p.lower[r] = {next(r)})
    BY DEF lower_is_singleton, lower_member
  <2> HIDE DEF next
  <2> QED BY <2>1, <2>2
<1> HIDE DEF next
<1> DEFINE S == {n \in Nat : down[n] \in K}
<1>9. 0 \in S /\ \A n \in Nat : n \in S => n + 1 \in S
  BY <1>7, <1>8
<1>10. MaxId \in S
  <2> HIDE DEF S
  <2> QED BY <1>9, EveryNat, MaxIdAssumption
<1> QED BY <1>6, <1>10

LEMMA LeastJem ==
  ASSUME NEW p, WellMade(p), NEW m \in p.members
  PROVE  /\ least_jem(p, m) \in p.members /\ m \in Above(Ids, U(p), least_jem(p, m))
         /\ p.lower[m] = {} => least_jem(p, m) = m
<1> DEFINE K == {l \in p.members : m \in Above(Ids, U(p), l) /\ (p.lower[m] = {} => l = m)}
<1>1. /\ U(p) \in [Ids -> SUBSET Ids] /\ p.members \in SUBSET Ids
      /\ \A a, b \in Ids : b \in p.lower[a] <=> a \in U(p)[b]
      /\ \A a, b \in Ids : b \in U(p)[a] => a \in p.members /\ b \in p.members
  BY WellMadeIs
<1>2. m \in K
  BY <1>1, AboveIs
<1>3. ASSUME NEW r \in K, NEW u \in Ids, p.lower[r] = {u} PROVE u \in K
  <2>1. r \in U(p)[u] /\ r \in Ids
    BY <1>1, <1>3
  <2>2. r \in Above(Ids, U(p), u)
    BY <1>1, <2>1, AboveIs
  <2>3. Above(Ids, U(p), r) \subseteq Above(Ids, U(p), u)
    BY <1>1, <2>1, <2>2, AboveAbove
  <2> QED BY <1>1, <1>3, <2>1, <2>3
<1>4. least_jem(p, m) \in K
  <2>1. K \in SUBSET p.members
    OBVIOUS
  <2> HIDE DEF K
  <2> QED BY <1>2, <1>3, <2>1, LeastJemIn
<1> QED BY <1>4

-----------------------------------------------------------------------------
(***************************************************************************)
(* Links and the order.                                                    *)
(***************************************************************************)
LEMMA OrderedIs ==
  ASSUME NEW p, Ordered(p)
  PROVE  /\ WellMade(p) /\ NoCycle(Ids, U(p)) /\ Ends(p)
         /\ U(p) \in [Ids -> SUBSET Ids] /\ p.members \in SUBSET Ids
         /\ \A a, b \in Ids : b \in p.lower[a] <=> a \in U(p)[b]
         /\ \A a, b \in Ids : b \in U(p)[a] => a \in p.members /\ b \in p.members
         /\ \A a \in Ids : U(p)[a] \subseteq p.members
         /\ \A a \in Ids : a \in Above(Ids, U(p), a) /\ Above(Ids, U(p), a) \in SUBSET Ids
                           /\ U(p)[a] \subseteq Above(Ids, U(p), a)
         /\ \A a \in Ids : a \notin U(p)[a]
         /\ Above(Ids, U(p), TOP_INDEX) = {TOP_INDEX}
         /\ \A a \in Ids : BOTTOM_INDEX \in Above(Ids, U(p), a) => a = BOTTOM_INDEX
<1> DEFINE W == U(p)
<1>1. /\ WellMade(p) /\ NoCycle(Ids, W) /\ Ends(p)
      /\ W \in [Ids -> SUBSET Ids] /\ p.members \in SUBSET Ids
      /\ \A a, b \in Ids : b \in p.lower[a] <=> a \in W[b]
      /\ \A a, b \in Ids : b \in W[a] => a \in p.members /\ b \in p.members
  BY WellMadeIs DEF Ordered
<1>2. W[TOP_INDEX] = {} /\ \A x \in Ids : BOTTOM_INDEX \notin W[x]
  BY <1>1 DEF Ends
<1> HIDE DEF W
<1>3. W \in [Ids -> SUBSET Ids] /\ NoCycle(Ids, W)
  BY <1>1
<1>4. \A a \in Ids : a \in Above(Ids, W, a) /\ Above(Ids, W, a) \in SUBSET Ids
                     /\ W[a] \subseteq Above(Ids, W, a)
  BY <1>3, AboveIs
<1>5. \A a \in Ids : a \notin W[a]
  BY <1>3, <1>4 DEF NoCycle
<1>6. \A x \in Above(Ids, W, TOP_INDEX) : x = TOP_INDEX
  BY <1>2, <1>3, IdsAre, AboveFirst
<1>7. \A a \in Ids : BOTTOM_INDEX \in Above(Ids, W, a) => a = BOTTOM_INDEX
  <2>1. ASSUME NEW a \in Ids, BOTTOM_INDEX \in Above(Ids, W, a), a # BOTTOM_INDEX PROVE FALSE
    <3>1. PICK y \in Above(Ids, W, a) : BOTTOM_INDEX \in W[y]
      BY <1>3, <2>1, AboveLast
    <3> QED BY <1>2, <1>4, <3>1
  <2> QED BY <2>1
<1>8. \A a \in Ids : W[a] \subseteq p.members
  BY <1>1, <1>3
<1> QED BY <1>1, <1>4, <1>5, <1>6, <1>7, <1>8, IdsAre DEF W

LEMMA LinkOrdered ==
  ASSUME NEW p, Ordered(p), NEW g \in p.members, NEW l \in p.members,
         l \notin Above(Ids, U(p), g), g \notin U(p)[l], l # TOP_INDEX, g # BOTTOM_INDEX
  PROVE  LET q == new_link(p, g, l) IN
         /\ Ordered(q) /\ SameMembers(p, q)
         /\ \A x \in Ids : U(q)[x] = IF x = l THEN U(p)[x] \cup {g} ELSE U(p)[x]
         /\ \A a \in Ids : Above(Ids, U(q), a)
                             = Above(Ids, U(p), a) \cup Through(Ids, U(p), {l}, {g}, a)
<1>1. WellMade(p) /\ g \in Ids /\ l \in Ids /\ NoCycle(Ids, U(p)) /\ Ends(p)
  BY OrderedIs
<1>2. PICK q : q = new_link(p, g, l)
  OBVIOUS
<1>3. /\ WellMade(q) /\ SameMembers(p, q)
      /\ \A x \in Ids : U(q)[x] = IF x = l THEN U(p)[x] \cup {g} ELSE U(p)[x]
  BY <1>1, <1>2, NewLink
<1>4. PICK W \in [Ids -> SUBSET Ids], Y \in [Ids -> SUBSET Ids] : W = U(p) /\ Y = U(q)
  BY <1>1, <1>3, WellMadeIs
<1>5. PICK X \in SUBSET Ids, T \in SUBSET Ids : X = {l} /\ T = {g}
  BY <1>1
<1>6. EdgesAdded(Ids, W, Y, X, T)
  BY <1>3, <1>4, <1>5 DEF EdgesAdded
<1>7. /\ \A a \in Ids : Above(Ids, Y, a) = Above(Ids, W, a) \cup Through(Ids, W, X, T, a)
      /\ NoCycle(Ids, W) => NoCycle(Ids, Y)
  BY <1>6, MoreEdges
<1>8. Ends(q)
  BY <1>1, <1>3, IdsAre DEF Ends
<1>9. Ordered(q)
  BY <1>1, <1>3, <1>4, <1>7, <1>8 DEF Ordered
<1> QED BY <1>2, <1>3, <1>4, <1>5, <1>7, <1>9

LEMMA DeleteLinkOrdered ==
  ASSUME NEW p, Ordered(p), NEW g \in p.members, NEW l \in p.members
  PROVE  Ordered(delete_link(p, g, l)) /\ SameMembers(p, delete_link(p, g, l))
<1>1. WellMade(p) /\ NoCycle(Ids, U(p)) /\ Ends(p)
  BY OrderedIs
<1>2. PICK q : q = delete_link(p, g, l)
  OBVIOUS
<1>3. /\ WellMade(q) /\ SameMembers(p, q)
      /\ \A x \in Ids : U(q)[x] = IF x = l THEN U(p)[x] \ {g} ELSE U(p)[x]
  BY <1>1, <1>2, DeleteLink
<1>4. PICK W \in [Ids -> SUBSET Ids], Y \in [Ids -> SUBSET Ids] : W = U(p) /\ Y = U(q)
  BY <1>1, <1>3, WellMadeIs
<1>5. \A x \in Ids : Y[x] \subseteq W[x]
  BY <1>3, <1>4
<1>6. NoCycle(Ids, Y)
  BY <1>1, <1>4, <1>5, FewerEdges
<1>7. Ends(q)
  BY <1>1, <1>3, IdsAre DEF Ends
<1> QED BY <1>2, <1>3, <1>4, <1>6, <1>7 DEF Ordered

LEMMA RestOrdered ==
  ASSUME NEW p, Ordered(p), NEW m \in p.members \ Standard
  PROVE  LET q == delete_member(unlink(p, m), m) IN
         /\ Ordered(q) /\ q.members = p.members \ {m} /\ q.jims = p.jims \ {m}
         /\ \A x \in Ids : U(q)[x] = IF x = m THEN {} ELSE U(p)[x] \ {m}
         /\ \A a \in Ids : Above(Ids, U(q), a) \subseteq Above(Ids, U(p), a)
<1>1. WellMade(p) /\ NoCycle(Ids, U(p)) /\ Ends(p)
  BY OrderedIs
<1>2. PICK q : q = delete_member(unlink(p, m), m)
  OBVIOUS
<1>3. /\ WellMade(q) /\ q.members = p.members \ {m} /\ q.jims = p.jims \ {m}
      /\ \A x \in Ids : U(q)[x] = IF x = m THEN {} ELSE U(p)[x] \ {m}
  BY <1>1, <1>2, UnlinkAndDelete
<1>4. PICK W \in [Ids -> SUBSET Ids], Y \in [Ids -> SUBSET Ids] : W = U(p) /\ Y = U(q)
  BY <1>1, <1>3, WellMadeIs
<1>5. \A x \in Ids : Y[x] \subseteq W[x]
  BY <1>3, <1>4
<1>6. NoCycle(Ids, Y) /\ \A a \in Ids : Above(Ids, Y, a) \subseteq Above(Ids, W, a)
  BY <1>1, <1>4, <1>5, FewerEdges
<1>7. Ends(q)
  BY <1>1, <1>3, IdsAre DEF Ends
<1> QED BY <1>2, <1>3, <1>4, <1>6, <1>7 DEF Ordered

(***************************************************************************)
(* A jem without links put above g, and put below g.                       *)
(***************************************************************************)
Free(p, n) == Loose(Ids, U(p), n)
OrderOfOthers(p, q, n) == OthersKept(Ids, U(p), U(q), n)
PutOver(p, q, n, g) == PutAbove(Ids, U(p), U(q), n, g)
PutUnder(p, q, n, g) == PutBelow(Ids, U(p), U(q), n, g)

LEMMA LinkAbove ==
  ASSUME NEW p, Ordered(p), NEW g \in p.members, g # TOP_INDEX,
         NEW n \in p.members \ Standard, Free(p, n), n # g
  PROVE  LET q == new_link(transfer_upper_cover(p, g, n), n, g) IN
         Ordered(q) /\ SameMembers(p, q) /\ OrderOfOthers(p, q, n) /\ PutOver(p, q, n, g)
<1>1. WellMade(p) /\ g \in Ids /\ n \in Ids /\ n \in p.members /\ NoCycle(Ids, U(p)) /\ Ends(p)
      /\ U(p) \in [Ids -> SUBSET Ids]
  BY OrderedIs
<1>2. PICK r : r = transfer_upper_cover(p, g, n)
  OBVIOUS
<1>3. PICK q : q = new_link(r, n, g)
  OBVIOUS
<1>4. U(p)[n] = {} /\ \A x \in Ids : n \notin U(p)[x]
  BY DEF Free, Loose
<1>5. /\ WellMade(r) /\ SameMembers(p, r)
      /\ \A x \in Ids : U(r)[x] = IF x = g THEN {} ELSE IF x = n THEN U(p)[g] ELSE U(p)[x]
  <2>1. /\ WellMade(r) /\ SameMembers(p, r)
        /\ \A x \in Ids : U(r)[x] = IF x = g THEN {}
                                    ELSE IF x = n THEN U(p)[n] \cup U(p)[g] ELSE U(p)[x]
    <3>1. NothingAboveBoth(p, g, n)
      BY <1>4 DEF NothingAboveBoth
    <3>2. WellMade(r) /\ SameMembers(p, r) /\ UpperMoved(p, r, g, n)
      BY <1>1, <1>2, <3>1, TransferUpperCover
    <3> QED BY <3>2 DEF UpperMoved
  <2>2. U(p)[n] \cup U(p)[g] = U(p)[g]
    BY <1>4
  <2> QED BY <2>1, <2>2
<1>6. /\ WellMade(q) /\ SameMembers(r, q)
      /\ \A x \in Ids : U(q)[x] = IF x = g THEN U(r)[x] \cup {n} ELSE U(r)[x]
  <2>1. n \in r.members /\ g \in r.members /\ n \notin U(r)[g]
    BY <1>1, <1>5 DEF SameMembers
  <2>2. WellMade(r)
    BY <1>5
  <2> QED BY <1>3, <2>1, <2>2, NewLink
<1>7. \A x \in Ids : U(q)[x] = IF x = g THEN {n} ELSE IF x = n THEN U(p)[g] ELSE U(p)[x]
  <2>1. ASSUME NEW x \in Ids
        PROVE  U(q)[x] = IF x = g THEN {n} ELSE IF x = n THEN U(p)[g] ELSE U(p)[x]
    <3>1. CASE x = g
      <4>1. U(r)[x] = {}
        BY <1>5, <3>1
      <4>2. U(q)[x] = {} \cup {n}
        BY <1>6, <3>1, <4>1
      <4> QED BY <3>1, <4>2
    <3>2. CASE x # g
      <4>1. U(q)[x] = U(r)[x]
        BY <1>6, <3>2
      <4>2. U(r)[x] = IF x = n THEN U(p)[g] ELSE U(p)[x]
        BY <1>5, <3>2
      <4> QED BY <3>2, <4>1, <4>2
    <3> QED BY <3>1, <3>2
  <2> QED BY <2>1
<1>8. PICK W \in [Ids -> SUBSET Ids], Y \in [Ids -> SUBSET Ids] : W = U(p) /\ Y = U(q)
  BY <1>1, <1>6, WellMadeIs
<1>9. OthersKept(Ids, W, Y, n) /\ (NoCycle(Ids, W) => NoCycle(Ids, Y))
  <2>1. Loose(Ids, W, n) /\ PutAbove(Ids, W, Y, n, g)
    BY <1>7, <1>8 DEF Free, PutAbove
  <2> QED BY <1>1, <2>1, InsertAbove
<1>10. Ends(q)
  <2>1. \A x \in Ids : BOTTOM_INDEX \notin U(q)[x]
    BY <1>1, <1>7, IdsAre DEF Ends
  <2>2. U(q)[TOP_INDEX] = {}
    BY <1>1, <1>7, IdsAre DEF Ends
  <2> QED BY <2>1, <2>2 DEF Ends
<1>11. Ordered(q) /\ OrderOfOthers(p, q, n)
  BY <1>1, <1>6, <1>8, <1>9, <1>10 DEF Ordered, OrderOfOthers
<1>12. SameMembers(p, q)
  BY <1>5, <1>6 DEF SameMembers
<1> QED BY <1>2, <1>3, <1>7, <1>11, <1>12 DEF PutOver, PutAbove

LEMMA LinkBelow ==
  ASSUME NEW p, Ordered(p), NEW g \in p.members, g # BOTTOM_INDEX,
         NEW n \in p.members \ Standard, Free(p, n), n # g
  PROVE  LET q == new_link(transfer_lower_cover(p, g, n), g, n) IN
         Ordered(q) /\ SameMembers(p, q) /\ OrderOfOthers(p, q, n) /\ PutUnder(p, q, n, g)
<1>1. WellMade(p) /\ g \in Ids /\ n \in Ids /\ n \in p.members /\ NoCycle(Ids, U(p)) /\ Ends(p)
      /\ U(p) \in [Ids -> SUBSET Ids]
  BY OrderedIs
<1>2. PICK r : r = transfer_lower_cover(p, g, n)
  OBVIOUS
<1>3. PICK q : q = new_link(r, g, n)
  OBVIOUS
<1>4. U(p)[n] = {} /\ \A x \in Ids : n \notin U(p)[x]
  BY DEF Free, Loose
<1>5. /\ WellMade(r) /\ SameMembers(p, r)
      /\ \A x \in Ids : U(r)[x] = IF g \in U(p)[x] THEN (U(p)[x] \ {g}) \cup {n} ELSE U(p)[x]
  <2>1. NothingBelowBoth(p, g, n)
    BY <1>4 DEF NothingBelowBoth
  <2> QED BY <1>1, <1>2, <2>1, TransferLowerCover
<1>6. U(r)[n] = {}
  BY <1>1, <1>4, <1>5
<1>7. /\ WellMade(q) /\ SameMembers(r, q)
      /\ \A x \in Ids : U(q)[x] = IF x = n THEN U(r)[x] \cup {g} ELSE U(r)[x]
  <2>1. n \in r.members /\ g \in r.members /\ g \notin U(r)[n]
    BY <1>1, <1>5, <1>6 DEF SameMembers
  <2>2. WellMade(r)
    BY <1>5
  <2> QED BY ONLY <1>3, <2>1, <2>2, NewLink, SMTT(30)
<1>8. \A x \in Ids : U(q)[x] = IF x = n THEN {g}
                               ELSE IF g \in U(p)[x] THEN (U(p)[x] \ {g}) \cup {n} ELSE U(p)[x]
  BY <1>5, <1>6, <1>7
<1>9. PICK W \in [Ids -> SUBSET Ids], Y \in [Ids -> SUBSET Ids] : W = U(p) /\ Y = U(q)
  BY <1>1, <1>7, WellMadeIs
<1>10. OthersKept(Ids, W, Y, n) /\ (NoCycle(Ids, W) => NoCycle(Ids, Y))
  <2>1. Loose(Ids, W, n) /\ PutBelow(Ids, W, Y, n, g)
    BY <1>8, <1>9 DEF Free, PutBelow
  <2> QED BY <1>1, <2>1, InsertBelow
<1>11. Ends(q)
  <2>1. \A x \in Ids : BOTTOM_INDEX \notin U(q)[x]
    BY <1>1, <1>8, IdsAre DEF Ends
  <2>2. U(q)[TOP_INDEX] = {}
    BY <1>1, <1>8, IdsAre DEF Ends
  <2> QED BY <2>1, <2>2 DEF Ends
<1>12. Ordered(q) /\ OrderOfOthers(p, q, n)
  BY <1>1, <1>7, <1>9, <1>10, <1>11 DEF Ordered, OrderOfOthers
<1>13. SameMembers(p, q)
  BY <1>5, <1>7 DEF SameMembers
<1> QED BY <1>2, <1>3, <1>8, <1>12, <1>13 DEF PutUnder, PutBelow

-----------------------------------------------------------------------------
(***************************************************************************)
(* Between the bottom and the top.                                         *)
(***************************************************************************)
LEMMA BetweenThem ==
  ASSUME NEW p, Ordered(p), Linked(p), NEW m \in p.members \ Standard
  PROVE  /\ TOP_INDEX \in Above(Ids, U(p), m) /\ m \in Above(Ids, U(p), BOTTOM_INDEX)
         /\ U(p)[BOTTOM_INDEX] # {} /\ \E x \in p.members : TOP_INDEX \in U(p)[x]
<1>1. PICK W \in [Ids -> SUBSET Ids] : W = U(p)
  BY OrderedIs
<1>2. /\ NoCycle(Ids, W) /\ m \in Ids
      /\ \A a, b \in Ids : b \in W[a] => a \in p.members /\ b \in p.members
      /\ Above(Ids, W, TOP_INDEX) = {TOP_INDEX}
      /\ \A a \in Ids : BOTTOM_INDEX \in Above(Ids, W, a) => a = BOTTOM_INDEX
      /\ \A a \in Ids : Above(Ids, W, a) \in SUBSET Ids
  BY <1>1, OrderedIs
<1>3. m # TOP_INDEX /\ m # BOTTOM_INDEX
  BY IdsAre
<1>4. \A x \in p.members : x = TOP_INDEX \/ x = BOTTOM_INDEX
                           \/ (W[x] # {} /\ \E y \in p.members : x \in W[y])
  BY <1>1, IdsAre DEF Linked
<1>5. TOP_INDEX \in Above(Ids, W, m)
  <2>1. PICK x \in Above(Ids, W, m) : W[x] = {}
    BY <1>2, IdsAre, WaysEnd
  <2>2. x \in p.members
    <3>1. CASE x # m
      <4>1. PICK y \in Above(Ids, W, m) : x \in W[y]
        BY <1>2, <3>1, AboveLast
      <4> QED BY <1>2, <4>1
    <3> QED BY <3>1
  <2>3. x # BOTTOM_INDEX
    BY <1>2, <1>3, <2>1
  <2> QED BY <1>4, <2>1, <2>2, <2>3
<1>6. m \in Above(Ids, W, BOTTOM_INDEX)
  <2>1. PICK x \in Ids : m \in Above(Ids, W, x) /\ \A y \in Ids : x \notin W[y]
    BY <1>2, IdsAre, WaysEnd
  <2>2. x \in p.members
    <3>1. CASE x # m
      <4>1. PICK y \in W[x] : m \in Above(Ids, W, y)
        BY <2>1, <3>1, AboveFirst
      <4> QED BY <1>2, <4>1
    <3> QED BY <3>1
  <2>3. x # TOP_INDEX
    BY <1>2, <1>3, <2>1
  <2>4. p.members \in SUBSET Ids
    BY OrderedIs
  <2> QED BY <1>4, <2>1, <2>2, <2>3, <2>4
<1>7. W[BOTTOM_INDEX] # {}
  <2>1. PICK y \in W[BOTTOM_INDEX] : m \in Above(Ids, W, y)
    BY <1>3, <1>6, IdsAre, AboveFirst
  <2> QED BY <2>1
<1>8. \E x \in p.members : TOP_INDEX \in W[x]
  <2>1. PICK y \in Above(Ids, W, m) : TOP_INDEX \in W[y]
    BY <1>2, <1>3, <1>5, AboveLast
  <2> QED BY <1>2, <2>1, IdsAre
<1> QED BY <1>1, <1>5, <1>6, <1>7, <1>8

(***************************************************************************)
(* The members but n are linked, so that with n put above or below one of  *)
(* them all are.                                                           *)
(***************************************************************************)
LinkedBut(p, n) ==
  \A m \in p.members \ {n} : /\ m # TOP_INDEX => U(p)[m] # {}
                             /\ m # BOTTOM_INDEX => \E x \in p.members : m \in U(p)[x]

LEMMA LinkedAbove ==
  ASSUME NEW p, WellMade(p), NEW q, SameMembers(p, q), NEW g \in p.members, g # TOP_INDEX,
         NEW n \in p.members, n # g, Free(p, n), LinkedBut(p, n), PutOver(p, q, n, g)
  PROVE  Linked(q)
<1> USE DEF PutOver, PutAbove
<1>1. /\ p.members \in SUBSET Ids /\ q.members = p.members
      /\ U(p)[n] = {} /\ \A x \in Ids : n \notin U(p)[x]
  BY WellMadeIs DEF SameMembers, Free, Loose
<1>2. U(q)[g] = {n} /\ U(q)[n] = U(p)[g]
  BY <1>1
<1>3. ASSUME NEW m \in q.members \ Standard
      PROVE  U(q)[m] # {} /\ \E x \in q.members : m \in U(q)[x]
  <2>1. m \in Ids /\ m \in p.members /\ m # TOP_INDEX /\ m # BOTTOM_INDEX
    BY <1>1, IdsAre
  <2>2. U(q)[m] # {}
    <3>1. CASE m = n
      BY <1>2, <3>1 DEF LinkedBut
    <3>2. CASE m = g
      BY <1>2, <3>2
    <3>3. CASE m # g /\ m # n
      BY <2>1, <3>3 DEF LinkedBut
    <3> QED BY <3>1, <3>2, <3>3
  <2>3. \E x \in q.members : m \in U(q)[x]
    <3>1. CASE m = n
      BY <1>1, <1>2, <3>1
    <3>2. CASE m # n
      <4>1. PICK x \in p.members : m \in U(p)[x]
        BY <2>1, <3>2 DEF LinkedBut
      <4>2. x \in Ids /\ x # n
        BY <1>1, <4>1
      <4>3. CASE x = g
        BY <1>1, <1>2, <4>1, <4>3
      <4>4. CASE x # g
        <5>1. U(q)[x] = U(p)[x]
          BY <4>2, <4>4
        <5> QED BY <1>1, <4>1, <5>1
      <4> QED BY <4>3, <4>4
    <3> QED BY <3>1, <3>2
  <2> QED BY <2>2, <2>3
<1> QED BY <1>3 DEF Linked

LEMMA LinkedBelow ==
  ASSUME NEW p, WellMade(p), NEW q, SameMembers(p, q), NEW g \in p.members, g # BOTTOM_INDEX,
         NEW n \in p.members, n # g, Free(p, n), LinkedBut(p, n), PutUnder(p, q, n, g)
  PROVE  Linked(q)
<1> USE DEF PutUnder, PutBelow
<1>1. /\ p.members \in SUBSET Ids /\ q.members = p.members
      /\ U(p)[n] = {} /\ \A x \in Ids : n \notin U(p)[x]
  BY WellMadeIs DEF SameMembers, Free, Loose
<1>2. U(q)[n] = {g}
  BY <1>1
<1>3. \A x \in Ids : g \in U(p)[x] => n \in U(q)[x]
  BY <1>1
<1>4. \A x \in Ids : \A m : m # g /\ m \in U(p)[x] => m \in U(q)[x]
  BY <1>1
<1>5. ASSUME NEW m \in q.members \ Standard
      PROVE  U(q)[m] # {} /\ \E x \in q.members : m \in U(q)[x]
  <2>1. m \in Ids /\ m \in p.members /\ m # TOP_INDEX /\ m # BOTTOM_INDEX
    BY <1>1, IdsAre
  <2>2. U(q)[m] # {}
    <3>1. CASE m = n
      BY <1>2, <3>1
    <3>2. CASE m # n
      <4>1. PICK y : y \in U(p)[m]
        BY <2>1, <3>2 DEF LinkedBut
      <4> QED BY <1>3, <1>4, <2>1, <4>1
    <3> QED BY <3>1, <3>2
  <2>3. \E x \in q.members : m \in U(q)[x]
    <3>1. CASE m = g
      BY <1>1, <1>2, <3>1
    <3>2. CASE m = n
      <4>1. PICK x \in p.members : g \in U(p)[x]
        BY DEF LinkedBut
      <4> QED BY <1>1, <1>3, <3>2, <4>1
    <3>3. CASE m # n /\ m # g
      <4>1. PICK x \in p.members : m \in U(p)[x]
        BY <2>1, <3>3 DEF LinkedBut
      <4> QED BY <1>1, <1>4, <3>3, <4>1
    <3> QED BY <3>1, <3>2, <3>3
  <2> QED BY <2>2, <2>3
<1> QED BY <1>5 DEF Linked

-----------------------------------------------------------------------------
(***************************************************************************)
(* new_jem_state and merge_jem.                                            *)
(***************************************************************************)
JemPut(p, q, n) == /\ Ordered(q) /\ SameMembers(p, q) /\ OrderOfOthers(p, q, n)
                   /\ LinkedBut(p, n) => Linked(q)

LEMMA JemOrdered ==
  ASSUME NEW p, Ordered(p), NEW n \in p.members \ Standard, Free(p, n),
         NEW m \in p.members, m # n, NEW q,
         q = link_greatest_jem(p, n, m) \/ q = link_least_jem(p, n, m)
  PROVE  JemPut(p, q, n)
<1>1. ASSUME NEW g \in p.members, g # n, g # TOP_INDEX,
             q = new_link(transfer_upper_cover(p, g, n), n, g)
      PROVE  JemPut(p, q, n)
  <2>1. Ordered(q) /\ SameMembers(p, q) /\ OrderOfOthers(p, q, n) /\ PutOver(p, q, n, g)
    BY <1>1, LinkAbove
  <2>2. ASSUME LinkedBut(p, n) PROVE Linked(q)
    <3>1. WellMade(p) /\ n \in p.members
      BY OrderedIs
    <3> QED BY <1>1, <2>1, <2>2, <3>1, LinkedAbove
  <2> QED BY <2>1, <2>2 DEF JemPut
<1>2. ASSUME NEW g \in p.members, g # n, g # BOTTOM_INDEX,
             q = new_link(transfer_lower_cover(p, g, n), g, n)
      PROVE  JemPut(p, q, n)
  <2>1. Ordered(q) /\ SameMembers(p, q) /\ OrderOfOthers(p, q, n) /\ PutUnder(p, q, n, g)
    BY <1>2, LinkBelow
  <2>2. ASSUME LinkedBut(p, n) PROVE Linked(q)
    <3>1. WellMade(p) /\ n \in p.members
      BY OrderedIs
    <3> QED BY <1>2, <2>1, <2>2, <3>1, LinkedBelow
  <2> QED BY <2>1, <2>2 DEF JemPut
<1>3. PICK W \in [Ids -> SUBSET Ids] : W = U(p)
  BY OrderedIs
<1>4. /\ m \in Ids /\ n \in Ids /\ p.members \in SUBSET Ids /\ WellMade(p)
      /\ W[n] = {} /\ \A x \in Ids : n \notin W[x]
  BY <1>3, OrderedIs DEF Free, Loose
<1>5. ASSUME NEW g \in p.members, g \in Above(Ids, W, m) PROVE g # n
  <2>1. ASSUME g = n PROVE FALSE
    <3>1. PICK y \in Above(Ids, W, m) : n \in W[y]
      BY <1>4, <1>5, <2>1, AboveLast
    <3>2. y \in Ids
      BY <1>4, AboveIs
    <3> QED BY <1>4, <3>1, <3>2
  <2> QED BY <2>1
<1>6. ASSUME NEW l \in p.members, m \in Above(Ids, W, l) PROVE l # n
  <2>1. ASSUME l = n PROVE FALSE
    <3>1. PICK y \in W[n] : m \in Above(Ids, W, y)
      BY <1>4, <1>6, <2>1, AboveFirst
    <3> QED BY <1>4, <3>1
  <2> QED BY <2>1
<1>7. PICK g \in p.members : g = greatest_jem(p, m) /\ g # n
  <2>1. greatest_jem(p, m) \in p.members /\ greatest_jem(p, m) \in Above(Ids, U(p), m)
    BY <1>4, GreatestJem
  <2> QED BY <1>3, <1>5, <2>1
<1>8. PICK l \in p.members : l = least_jem(p, m) /\ l # n
  <2>1. least_jem(p, m) \in p.members /\ m \in Above(Ids, U(p), least_jem(p, m))
    BY <1>4, LeastJem
  <2> QED BY <1>3, <1>6, <2>1
<1>9. CASE q = link_greatest_jem(p, n, m)
  <2>1. CASE g # TOP_INDEX
    <3>1. q = new_link(transfer_upper_cover(p, g, n), n, g)
      BY <1>7, <1>9, <2>1 DEF link_greatest_jem
    <3> QED BY <1>1, <1>7, <2>1, <3>1
  <2>2. CASE g = TOP_INDEX
    <3>1. q = new_link(transfer_lower_cover(p, g, n), g, n)
      BY <1>7, <1>9, <2>2 DEF link_greatest_jem
    <3> QED BY <1>2, <1>7, <2>2, <3>1, IdsAre
  <2> QED BY <2>1, <2>2
<1>10. CASE q = link_least_jem(p, n, m)
  <2>1. CASE is_jim(p, l) \/ l = BOTTOM_INDEX
    <3>1. q = new_link(transfer_upper_cover(p, l, n), n, l)
      BY <1>8, <1>10, <2>1 DEF link_least_jem
    <3>2. l # TOP_INDEX
      <4>1. p.jims \subseteq p.members \ Standard
        BY <1>4, WellMadeIs
      <4> QED BY <2>1, <4>1, IdsAre DEF is_jim
    <3> QED BY <1>1, <1>8, <3>1, <3>2
  <2>2. CASE ~(is_jim(p, l) \/ l = BOTTOM_INDEX)
    <3>1. q = new_link(transfer_lower_cover(p, l, n), l, n)
      BY <1>8, <1>10, <2>2 DEF link_least_jem
    <3> QED BY <1>2, <1>8, <2>2, <3>1
  <2> QED BY <2>1, <2>2
<1> QED BY <1>9, <1>10

LEMMA MergeOrdered ==
  ASSUME NEW p, Ordered(p), NEW m \in p.members \ Standard, NEW k \in p.members \ Standard,
         m # k, p.lower[m] = {}, p.lower[k] = {}, Separate(m, k), p = poset
  PROVE  Ordered(merge_jems(p, m, k)) /\ SameMembers(p, merge_jems(p, m, k))
<1>1. PICK W \in [Ids -> SUBSET Ids] : W = U(p)
  BY OrderedIs
<1>2. /\ WellMade(p) /\ NoCycle(Ids, W) /\ Ends(p) /\ p.members \in SUBSET Ids
      /\ m \in Ids /\ k \in Ids /\ m \in p.members /\ k \in p.members
      /\ \A a, b \in Ids : b \in p.lower[a] <=> a \in W[b]
      /\ \A a \in Ids : a \in Above(Ids, W, a) /\ W[a] \subseteq Above(Ids, W, a)
  BY <1>1, OrderedIs
<1>3. PICK g1 \in p.members : /\ g1 = greatest_jem(p, m) /\ g1 \in Above(Ids, W, m)
                              /\ \A x \in Ids : g1 \in Above(Ids, W, x) => x = m \/ p.lower[x] # {}
  BY <1>1, <1>2, GreatestJem
<1>4. PICK g2 \in p.members : /\ g2 = greatest_jem(p, k) /\ g2 \in Above(Ids, W, k)
                              /\ \A x \in Ids : g2 \in Above(Ids, W, x) => x = k \/ p.lower[x] # {}
  BY <1>1, <1>2, GreatestJem
<1>5. least_jem(p, m) = m /\ least_jem(p, k) = k
  BY <1>2, LeastJem
<1>6. g1 \in Ids /\ g2 \in Ids /\ g1 # TOP_INDEX /\ g2 # TOP_INDEX /\ W[g1] \cap W[g2] = {}
  <2>1. g1 \in Ids /\ g2 \in Ids
    BY <1>2
  <2>2. W[g1] = ToSet(p.upper[g1]) /\ W[g2] = ToSet(p.upper[g2])
    BY <1>1, <2>1 DEF U
  <2> QED BY <1>3, <1>4, <2>1, <2>2 DEF Separate
<1>7. g1 \notin Above(Ids, W, g2)
  <2>1. Above(Ids, W, g2) \subseteq Above(Ids, W, k)
    BY <1>2, <1>4, AboveAbove
  <2> QED BY <1>2, <1>3, <2>1
<1>8. g2 \notin Above(Ids, W, g1)
  <2>1. Above(Ids, W, g1) \subseteq Above(Ids, W, m)
    BY <1>2, <1>3, AboveAbove
  <2> QED BY <1>2, <1>4, <2>1
<1>9. g2 \notin Above(Ids, W, m) /\ m # g2 /\ g1 # g2
  BY <1>2, <1>4, <1>6, <1>7
<1>10. \A x \in Ids : m \notin W[x]
  BY <1>2
<1>11. PICK q : q = transfer_upper_cover(p, g2, g1)
  OBVIOUS
<1>12. PICK r : r = transfer_lower_cover(q, m, k)
  OBVIOUS
<1>13. PICK s : s = new_link(r, m, g2)
  OBVIOUS
<1>14. merge_jems(p, m, k) = s
  BY <1>3, <1>4, <1>5, <1>9, <1>11, <1>12, <1>13 DEF merge_jems
<1>15. WellMade(q) /\ SameMembers(p, q) /\ UpperMoved(p, q, g2, g1)
  <2>1. NothingAboveBoth(p, g2, g1)
    BY <1>1, <1>6 DEF NothingAboveBoth
  <2> QED BY <1>2, <1>9, <1>11, <2>1, TransferUpperCover
<1>16. \A x \in Ids : U(q)[x] = IF x = g2 THEN {} ELSE IF x = g1 THEN W[g1] \cup W[g2] ELSE W[x]
  BY <1>1, <1>15 DEF UpperMoved
<1>17. \A x \in Ids : m \notin U(q)[x]
  BY <1>6, <1>10, <1>16
<1>18. /\ WellMade(r) /\ SameMembers(q, r)
       /\ \A x \in Ids : U(r)[x] = IF m \in U(q)[x] THEN (U(q)[x] \ {m}) \cup {k} ELSE U(q)[x]
  <2>1. NothingBelowBoth(q, m, k) /\ m \in q.members /\ k \in q.members
    BY <1>2, <1>15, <1>17 DEF NothingBelowBoth, SameMembers
  <2> QED BY <1>12, <1>15, <2>1, TransferLowerCover
<1>19. \A x \in Ids : U(r)[x] = U(q)[x]
  BY <1>17, <1>18
<1>20. /\ WellMade(s) /\ SameMembers(r, s)
       /\ \A x \in Ids : U(s)[x] = IF x = g2 THEN U(r)[x] \cup {m} ELSE U(r)[x]
  <2>1. m \in r.members /\ g2 \in r.members /\ m \notin U(r)[g2] /\ WellMade(r)
    BY <1>2, <1>6, <1>15, <1>17, <1>18, <1>19 DEF SameMembers
  <2> QED BY ONLY <1>13, <2>1, NewLink, SMTT(30)
<1>21. PICK Y \in [Ids -> SUBSET Ids] : Y = U(s)
  BY <1>20, WellMadeIs
<1>22. \A x \in Ids : Y[x] = IF x = g2 THEN {m} ELSE IF x = g1 THEN W[g1] \cup W[g2] ELSE W[x]
  <2>1. ASSUME NEW x \in Ids
        PROVE  Y[x] = IF x = g2 THEN {m} ELSE IF x = g1 THEN W[g1] \cup W[g2] ELSE W[x]
    <3>1. CASE x = g2
      <4>1. U(r)[x] = {}
        BY <1>16, <1>19, <3>1
      <4>2. Y[x] = {} \cup {m}
        BY <1>20, <1>21, <3>1, <4>1
      <4> QED BY <3>1, <4>2
    <3>2. CASE x # g2
      <4>1. Y[x] = U(q)[x]
        BY <1>19, <1>20, <1>21, <3>2
      <4> QED BY <1>16, <3>2, <4>1
    <3> QED BY <3>1, <3>2
  <2> QED BY <2>1
<1>23. NoCycle(Ids, Y)
  <2>1. MovedAbove(Ids, W, Y, g1, g2, m)
    BY <1>22 DEF MovedAbove
  <2> QED BY <1>2, <1>6, <1>7, <1>8, <1>9, <2>1, MoveAbove
<1>24. Ends(s)
  <2>1. W[TOP_INDEX] = {} /\ \A x \in Ids : BOTTOM_INDEX \notin W[x]
    BY <1>1, <1>2 DEF Ends
  <2>2. m # BOTTOM_INDEX
    BY IdsAre
  <2>3. Y[TOP_INDEX] = {}
    BY <1>6, <1>22, <2>1, IdsAre
  <2>4. \A x \in Ids : BOTTOM_INDEX \notin Y[x]
    BY <1>6, <1>22, <2>1, <2>2
  <2> QED BY <1>21, <2>3, <2>4 DEF Ends
<1>25. Ordered(s)
  BY <1>20, <1>21, <1>23, <1>24 DEF Ordered
<1>26. SameMembers(p, s)
  BY <1>15, <1>18, <1>20 DEF SameMembers
<1> QED BY <1>14, <1>25, <1>26

-----------------------------------------------------------------------------
(***************************************************************************)
(* ensure_lattice_invariant.  Throughout it, b is the greatest jem that    *)
(* the bottom had at the beginning: what it is above has a lower cover,    *)
(* but for the bottom, so that no link to b makes a cycle.                 *)
(***************************************************************************)
BottomJem(q, b) ==
  /\ b \in q.members
  /\ \A x \in Ids : b \in Above(Ids, U(q), x) => x = BOTTOM_INDEX \/ q.lower[x] # {}
  /\ b = TOP_INDEX => \A m \in q.members \ Standard : q.lower[m] # {}

MoreLinks(q, r) == \A x \in Ids : U(q)[x] \subseteq U(r)[x] /\ q.lower[x] \subseteq r.lower[x]

Repaired(q, r, b) ==
  Ordered(r) /\ SameMembers(q, r) /\ BottomJem(r, b) /\ MoreLinks(q, r)

top_up(q, m) == IF upper_is_empty(q, m) THEN new_link(q, TOP_INDEX, m) ELSE q
bottom_up(q, m, b) == IF lower_is_empty(q, m) THEN new_link(q, m, b) ELSE q

LEMMA LinkKeepsBottomJem ==
  ASSUME NEW q, Ordered(q), NEW b, BottomJem(q, b),
         NEW g \in q.members, NEW l \in q.members,
         l \notin Above(Ids, U(q), g), g \notin U(q)[l], l # TOP_INDEX, g # BOTTOM_INDEX,
         b \in Above(Ids, U(q), g) => b = TOP_INDEX /\ g = TOP_INDEX
  PROVE  LET r == new_link(q, g, l) IN
         Repaired(q, r, b) /\ g \in U(r)[l] /\ l \in r.lower[g]
<1>1. PICK r : r = new_link(q, g, l)
  OBVIOUS
<1>2. /\ Ordered(r) /\ SameMembers(q, r)
      /\ \A x \in Ids : U(r)[x] = IF x = l THEN U(q)[x] \cup {g} ELSE U(q)[x]
      /\ \A a \in Ids : Above(Ids, U(r), a)
                          = Above(Ids, U(q), a) \cup Through(Ids, U(q), {l}, {g}, a)
  <2>1. /\ Ordered(q) /\ g \in q.members /\ l \in q.members
        /\ l \notin Above(Ids, U(q), g) /\ g \notin U(q)[l]
        /\ l # TOP_INDEX /\ g # BOTTOM_INDEX
    OBVIOUS
  <2> DEFINE n == new_link(q, g, l)
  <2>2. /\ Ordered(n) /\ SameMembers(q, n)
        /\ \A x \in Ids : U(n)[x] = IF x = l THEN U(q)[x] \cup {g} ELSE U(q)[x]
        /\ \A a \in Ids : Above(Ids, U(n), a)
                            = Above(Ids, U(q), a) \cup Through(Ids, U(q), {l}, {g}, a)
    BY ONLY <2>1, LinkOrdered
  <2> HIDE DEF n
  <2> QED BY <1>1, <2>2 DEF n
<1>3. PICK W \in [Ids -> SUBSET Ids], Y \in [Ids -> SUBSET Ids] : W = U(q) /\ Y = U(r)
  BY <1>2, OrderedIs
<1>4. /\ g \in Ids /\ l \in Ids
      /\ \A x, y \in Ids : y \in q.lower[x] <=> x \in W[y]
      /\ \A x, y \in Ids : y \in r.lower[x] <=> x \in Y[y]
      /\ q.lower \in [Ids -> SUBSET Ids] /\ r.lower \in [Ids -> SUBSET Ids]
  BY <1>2, <1>3, OrderedIs, WellMadeIs
<1>5. \A x \in Ids : Y[x] = IF x = l THEN W[x] \cup {g} ELSE W[x]
  BY <1>2, <1>3
<1>6. MoreLinks(q, r)
  <2>1. \A x \in Ids : W[x] \subseteq Y[x]
    BY <1>5
  <2>2. \A x \in Ids : q.lower[x] \subseteq r.lower[x]
    BY <1>4, <2>1
  <2> QED BY <1>3, <2>1, <2>2 DEF MoreLinks
<1>7. g \in Y[l] /\ l \in r.lower[g]
  BY <1>4, <1>5
<1>8. \A x \in Ids : q.lower[x] # {} => r.lower[x] # {}
  BY <1>6 DEF MoreLinks
<1>9. ASSUME NEW x \in Ids, b \in Above(Ids, Y, x) PROVE x = BOTTOM_INDEX \/ r.lower[x] # {}
  <2>1. CASE b \in Above(Ids, W, x)
    BY <1>3, <1>8, <2>1 DEF BottomJem
  <2>2. CASE b \in Through(Ids, W, {l}, {g}, x)
    <3>1. l \in Above(Ids, W, x) /\ b = TOP_INDEX /\ g = TOP_INDEX
      BY <1>3, <2>2 DEF Through
    <3>2. x \in q.members
      <4>1. CASE x # l
        <5>1. PICK y \in W[x] : l \in Above(Ids, W, y)
          BY <1>3, <3>1, <4>1, AboveFirst
        <5>2. y \in Ids
          BY <1>3, <5>1
        <5> QED BY <1>3, <5>1, <5>2, OrderedIs
      <4> QED BY <4>1
    <3>3. CASE x = TOP_INDEX
      BY <1>7, <3>1, <3>3
    <3>4. CASE x # TOP_INDEX /\ x # BOTTOM_INDEX
      <4>1. x \in q.members \ Standard
        BY <3>2, <3>4, IdsAre
      <4> QED BY <1>8, <3>1, <4>1 DEF BottomJem
    <3> QED BY <3>3, <3>4
  <2> QED BY <1>2, <1>3, <1>9, <2>1, <2>2
<1>10. BottomJem(r, b)
  <2>1. b \in r.members
    BY <1>2 DEF BottomJem, SameMembers
  <2>2. ASSUME b = TOP_INDEX, NEW m \in r.members \ Standard PROVE r.lower[m] # {}
    <3>1. m \in q.members \ Standard /\ m \in Ids
      BY <1>2, <2>2, OrderedIs DEF SameMembers
    <3> QED BY <1>8, <2>2, <3>1 DEF BottomJem
  <2> QED BY <1>3, <1>9, <2>1, <2>2 DEF BottomJem
<1> QED BY <1>1, <1>2, <1>3, <1>6, <1>7, <1>10 DEF Repaired

LEMMA BothEndsUp ==
  ASSUME NEW q, Ordered(q), NEW b, BottomJem(q, b), NEW m \in q.members \ Standard
  PROVE  LET r == bottom_up(top_up(q, m), m, b) IN
         Repaired(q, r, b) /\ U(r)[m] # {} /\ r.lower[m] # {}
<1>1. /\ m \in Ids /\ m \in q.members /\ m # TOP_INDEX /\ m # BOTTOM_INDEX
      /\ TOP_INDEX \in q.members /\ WellMade(q)
      /\ Above(Ids, U(q), TOP_INDEX) = {TOP_INDEX}
  BY IdsAre, OrderedIs, WellMadeIs
<1>2. PICK s : s = top_up(q, m)
  OBVIOUS
<1>3. PICK r : r = bottom_up(s, m, b)
  OBVIOUS
<1>4. Repaired(q, s, b) /\ U(s)[m] # {}
  <2>1. upper_is_empty(q, m) <=> U(q)[m] = {}
    BY <1>1, WellMadeIs DEF upper_is_empty
  <2>2. CASE U(q)[m] = {}
    <3>1. s = new_link(q, TOP_INDEX, m)
      BY <1>2, <2>1, <2>2 DEF top_up
    <3>2. /\ m \notin Above(Ids, U(q), TOP_INDEX) /\ TOP_INDEX \notin U(q)[m]
          /\ b \in Above(Ids, U(q), TOP_INDEX) => b = TOP_INDEX /\ TOP_INDEX = TOP_INDEX
      BY <1>1, <2>2
    <3>3. Repaired(q, s, b) /\ TOP_INDEX \in U(s)[m]
      BY <1>1, <3>1, <3>2, IdsAre, LinkKeepsBottomJem
    <3> QED BY <3>3
  <2>3. CASE U(q)[m] # {}
    <3>1. s = q
      BY <1>2, <2>1, <2>3 DEF top_up
    <3> QED BY <2>3, <3>1 DEF Repaired, SameMembers, MoreLinks
  <2> QED BY <2>2, <2>3
<1>5. /\ Ordered(s) /\ BottomJem(s, b) /\ WellMade(s) /\ s.members = q.members
      /\ m \in Above(Ids, U(s), m)
      /\ \A x, y \in Ids : y \in s.lower[x] <=> x \in U(s)[y]
      /\ b \in s.members /\ s.members \in SUBSET Ids
  BY <1>1, <1>4, OrderedIs DEF Repaired, SameMembers, BottomJem
<1>6. Repaired(s, r, b) /\ r.lower[m] # {}
  <2>1. CASE s.lower[m] = {}
    <3>1. r = new_link(s, m, b)
      BY <1>3, <2>1 DEF bottom_up, lower_is_empty
    <3>2. b \notin Above(Ids, U(s), m)
      BY <1>1, <1>5, <2>1 DEF BottomJem
    <3>3. b # TOP_INDEX
      BY <1>5, <2>1 DEF BottomJem
    <3>4. m \notin U(s)[b]
      BY <1>1, <1>5, <2>1
    <3>5. Repaired(s, r, b) /\ b \in r.lower[m]
      <4>1. Ordered(s) /\ BottomJem(s, b) /\ m \in s.members /\ b \in s.members
        BY <1>1, <1>5
      <4>2. b \in Above(Ids, U(s), m) => b = TOP_INDEX /\ m = TOP_INDEX
        BY <3>2
      <4>3. m # BOTTOM_INDEX
        BY <1>1
      <4> QED BY ONLY <3>1, <3>2, <3>3, <3>4, <4>1, <4>2, <4>3, LinkKeepsBottomJem, SMTT(30)
    <3> QED BY <3>5
  <2>2. CASE s.lower[m] # {}
    <3>1. r = s
      BY <1>3, <2>2 DEF bottom_up, lower_is_empty
    <3> QED BY <1>5, <2>2, <3>1 DEF Repaired, SameMembers, MoreLinks
  <2> QED BY <2>1, <2>2
<1>7. Repaired(q, r, b)
  BY <1>4, <1>6 DEF Repaired, SameMembers, MoreLinks
<1>8. U(r)[m] # {}
  BY <1>1, <1>4, <1>6 DEF Repaired, MoreLinks
<1> QED BY <1>2, <1>3, <1>6, <1>7, <1>8

LEMMA LinkType ==
  ASSUME NEW q \in Posets, NEW g \in Ids, NEW l \in Ids
  PROVE  new_link(q, g, l) \in Posets
<1>1. PICK V \in [Ids -> Seq(Ids)], L \in [Ids -> SUBSET Ids] : V = q.upper /\ L = q.lower
  BY DEF Posets
<1>2. Append(V[l], g) \in Seq(Ids)
  OBVIOUS
<1>3. [V EXCEPT ![l] = Append(V[l], g)] \in [Ids -> Seq(Ids)]
  BY <1>2
<1>4. [L EXCEPT ![g] = L[g] \cup {l}] \in [Ids -> SUBSET Ids]
  OBVIOUS
<1> QED BY <1>1, <1>3, <1>4 DEF new_link, insert_upper_member, insert_lower_member, Posets

LEMMA LatticeEnsured ==
  ASSUME NEW p, Ordered(p),
         \/ greatest_jem(p, BOTTOM_INDEX) # TOP_INDEX
         \/ \A m \in p.members \ Standard : ~lower_is_empty(p, m)
  PROVE  LET q == ensure_lattice_invariant(p) IN
         Ordered(q) /\ SameMembers(p, q) /\ Linked(q)
<1> DEFINE b == greatest_jem(p, BOTTOM_INDEX)
           S == p.members \ Standard
           Both(m, q) == bottom_up(top_up(q, m), m, b)
           Is(it) == it = [T \in SUBSET S |->
                             IF T = {} THEN p ELSE Both(Max(T), it[T \ {Max(T)}])]
<1>1. ensure_lattice_invariant(p) = (CHOOSE it : Is(it))[S]
  BY DEF ensure_lattice_invariant, restore_order, FoldInIdOrder, MapThenFoldSet, top_up, bottom_up
<1>2. /\ WellMade(p) /\ p \in Posets /\ BOTTOM_INDEX \in p.members /\ p.members \in SUBSET Ids
      /\ p.lower \in [Ids -> SUBSET Ids]
      /\ \A x, y \in Ids : y \in p.lower[x] <=> x \in U(p)[y]
      /\ \A x \in Ids : BOTTOM_INDEX \notin U(p)[x]
  BY OrderedIs, WellMadeIs DEF WellMade, Ends
<1>3. p.lower[BOTTOM_INDEX] = {}
  BY <1>2, IdsAre
<1>4. BottomJem(p, b)
  <2>1. /\ b \in p.members
        /\ \A x \in Ids : b \in Above(Ids, U(p), x) => x = BOTTOM_INDEX \/ p.lower[x] # {}
    BY <1>2, <1>3, GreatestJem
  <2>2. b = TOP_INDEX => \A m \in p.members \ Standard : p.lower[m] # {}
    BY DEF lower_is_empty
  <2> QED BY <2>1, <2>2 DEF BottomJem
<1>5. b \in Ids /\ S \in SUBSET Ids /\ IsFiniteSet(S) /\ MaxId \in Nat /\ S \in SUBSET (0..MaxId)
  <2>1. b \in Ids /\ S \in SUBSET Ids
    BY <1>2, <1>4 DEF BottomJem
  <2>2. IsFiniteSet(S)
    BY <2>1, IdsAre, FS_Subset
  <2> QED BY <2>1, <2>2, MaxIdAssumption DEF Ids
<1> HIDE DEF b, S
<1>6. ASSUME NEW q \in Posets, NEW m \in S PROVE Both(m, q) \in Posets
  <2>1. m \in Ids
    BY <1>5
  <2>2. PICK r \in Posets : r = top_up(q, m)
    BY <2>1, IdsAre, LinkType DEF top_up
  <2>3. bottom_up(r, m, b) \in Posets
    BY <1>5, <2>1, LinkType DEF bottom_up
  <2> QED BY <2>2, <2>3
<1> HIDE DEF Both
<1>7. \A T \in (SUBSET S) \ {{}} : Max(T) \in T
  BY <1>5, MaxOfNats
<1>8. \E it : Is(it)
  <2> DEFINE g == [q \in Posets |-> [m \in S |-> Both(m, q)]]
  <2>1. g \in [Posets -> [S -> Posets]]
    BY <1>6
  <2>2. \A q \in Posets : \A m \in S : g[q][m] = Both(m, q)
    OBVIOUS
  <2> HIDE DEF g
  <2>3. PICK it \in [SUBSET S -> Posets] : Folded(it, S, p, g)
    BY <1>2, <1>5, <2>1, FoldExists
  <2>4. ASSUME NEW T \in SUBSET S
        PROVE  it[T] = IF T = {} THEN p ELSE Both(Max(T), it[T \ {Max(T)}])
    <3>1. CASE T = {}
      BY <2>3, <3>1 DEF Folded
    <3>2. CASE T # {}
      <4>1. PICK m \in S : m = Max(T)
        BY <1>7, <3>2
      <4>2. PICK q \in Posets : q = it[T \ {m}]
        BY <2>3
      <4>3. it[T] = g[q][m]
        BY <2>3, <3>2, <4>1, <4>2 DEF Folded
      <4> QED BY <2>2, <3>2, <4>1, <4>2, <4>3
    <3> QED BY <3>1, <3>2
  <2>5. it = [T \in SUBSET S |-> it[T]]
    BY <2>3
  <2>6. [T \in SUBSET S |-> it[T]]
          = [T \in SUBSET S |-> IF T = {} THEN p ELSE Both(Max(T), it[T \ {Max(T)}])]
    BY ONLY <2>4, Zenon
  <2>7. Is(it)
    BY ONLY <2>5, <2>6, Zenon
  <2> QED BY <2>7
<1>9. PICK it : Is(it) /\ ensure_lattice_invariant(p) = it[S]
  <2> HIDE DEF Is
  <2> QED BY <1>1, <1>8
<1>10. /\ it[{}] = p
       /\ \A T \in (SUBSET S) \ {{}} : it[T] = Both(Max(T), it[T \ {Max(T)}])
  BY <1>9
<1> DEFINE Good == [T \in SUBSET S |->
                      {q \in Posets : /\ Repaired(p, q, b)
                                      /\ \A m \in T : U(q)[m] # {} /\ q.lower[m] # {}}]
<1>11. it[{}] \in Good[{}]
  BY <1>2, <1>4, <1>10 DEF Repaired, SameMembers, MoreLinks
<1>12. ASSUME NEW T \in (SUBSET S) \ {{}}, it[T \ {Max(T)}] \in Good[T \ {Max(T)}]
       PROVE  it[T] \in Good[T]
  <2>1. PICK m \in T : m = Max(T)
    BY <1>7
  <2>2. m \in S /\ m \in p.members \ Standard /\ T \ {m} \in SUBSET S /\ T \in SUBSET S
    BY <2>1 DEF S
  <2>3. PICK q \in Posets : /\ q = it[T \ {m}] /\ Repaired(p, q, b)
                            /\ \A x \in T \ {m} : U(q)[x] # {} /\ q.lower[x] # {}
    BY <1>12, <2>1, <2>2
  <2>4. PICK r \in Posets : r = Both(m, q)
    BY <1>6, <2>2
  <2>5. it[T] = r
    BY <1>10, <2>1, <2>3, <2>4
  <2>6. Repaired(q, r, b) /\ U(r)[m] # {} /\ r.lower[m] # {}
    <3>1. Ordered(q) /\ BottomJem(q, b) /\ m \in q.members \ Standard
      BY <2>2, <2>3 DEF Repaired, SameMembers
    <3> QED BY <2>4, <3>1, BothEndsUp DEF Both
  <2>7. Repaired(p, r, b)
    BY <2>3, <2>6 DEF Repaired, SameMembers, MoreLinks
  <2>8. \A x \in T : U(r)[x] # {} /\ r.lower[x] # {}
    <3>1. ASSUME NEW x \in T \ {m} PROVE U(r)[x] # {} /\ r.lower[x] # {}
      <4>1. x \in Ids
        BY <1>5
      <4>2. U(q)[x] \subseteq U(r)[x] /\ q.lower[x] \subseteq r.lower[x]
        BY <2>6, <4>1 DEF Repaired, MoreLinks
      <4> QED BY <2>3, <4>2
    <3> QED BY <2>6, <3>1
  <2> QED BY <2>2, <2>5, <2>7, <2>8
<1> HIDE DEF Good
<1>13. it[S] \in Good[S]
  BY <1>5, <1>7, <1>11, <1>12, FoldKeeps
<1>14. PICK q : /\ q = it[S] /\ Repaired(p, q, b)
                /\ \A m \in S : U(q)[m] # {} /\ q.lower[m] # {}
  BY <1>13 DEF Good
<1>15. Linked(q)
  <2>1. q.members = p.members /\ Ordered(q)
    BY <1>14 DEF Repaired, SameMembers
  <2>2. ASSUME NEW m \in S PROVE \E x \in q.members : m \in U(q)[x]
    <3>1. q.lower \in [Ids -> SUBSET Ids] /\ m \in Ids
      BY <1>5, <2>1, OrderedIs, WellMadeIs
    <3>2. PICK x \in Ids : x \in q.lower[m]
      BY <1>14, <3>1
    <3>3. m \in U(q)[x]
      BY <2>1, <3>1, <3>2, OrderedIs
    <3> QED BY <2>1, <3>1, <3>2, <3>3, OrderedIs
  <2> QED BY <1>14, <2>1, <2>2 DEF Linked, S
<1> QED BY <1>9, <1>14, <1>15 DEF Repaired

-----------------------------------------------------------------------------
(***************************************************************************)
(* delete_state.  While the members below m are linked to those above it,  *)
(* nothing is ordered that was not, and a pair that has been visited is    *)
(* ordered.                                                                *)
(***************************************************************************)
Rejoined(p, m, q) ==
  /\ q \in Posets /\ Ordered(q)
  /\ q.members = p.members \ {m} /\ q.jims = p.jims \ {m}
  /\ \A x \in Ids : Above(Ids, U(q), x) \subseteq Above(Ids, U(p), x)
  /\ \A x \in Ids : x # m => U(p)[x] \ {m} \subseteq U(q)[x]

MoreUppers(q, r) == \A x \in Ids : U(q)[x] \subseteq U(r)[x]

relink_one(q, u, l) == IF le(q, u, l) \/ le(q, l, u) THEN q ELSE new_link(q, u, l)
relink_all(q, u, lowers) == FoldLeft(LAMBDA r, l : relink_one(r, u, l), q, lowers)

LEMMA PairRelinked ==
  ASSUME NEW p, Ordered(p), NEW m \in p.members \ Standard, NEW q, Rejoined(p, m, q),
         NEW u \in U(p)[m], NEW l \in Ids, m \in U(p)[l]
  PROVE  LET r == relink_one(q, u, l) IN
         Rejoined(p, m, r) /\ MoreUppers(q, r) /\ u \in Above(Ids, U(r), l)
<1>1. PICK W \in [Ids -> SUBSET Ids], Y \in [Ids -> SUBSET Ids] : W = U(p) /\ Y = U(q)
  BY OrderedIs DEF Rejoined
<1>2. /\ NoCycle(Ids, W) /\ W[TOP_INDEX] = {} /\ \A x \in Ids : BOTTOM_INDEX \notin W[x]
      /\ \A x \in Ids : x \in Above(Ids, W, x) /\ W[x] \subseteq Above(Ids, W, x)
      /\ \A x \in Ids : x \notin W[x]
      /\ m \in Ids /\ u \in Ids /\ u \in p.members /\ l \in p.members
  BY <1>1, OrderedIs DEF Ends
<1>3. /\ Ordered(q) /\ WellMade(q) /\ q.members = p.members \ {m} /\ q.jims = p.jims \ {m}
      /\ \A x \in Ids : Above(Ids, Y, x) \subseteq Above(Ids, W, x)
      /\ \A x \in Ids : x # m => W[x] \ {m} \subseteq Y[x]
  BY <1>1, OrderedIs DEF Rejoined
<1>4. u \in q.members /\ l \in q.members /\ l # TOP_INDEX /\ u # BOTTOM_INDEX
  BY <1>1, <1>2, <1>3
<1>5. u \in Above(Ids, W, l) /\ l \notin Above(Ids, W, u)
  <2>1. u \in Above(Ids, W, m) /\ m \in Above(Ids, W, l)
    BY <1>1, <1>2
  <2>2. Above(Ids, W, m) \subseteq Above(Ids, W, l)
    BY <1>2, <2>1, AboveAbove
  <2>3. ASSUME l \in Above(Ids, W, u) PROVE FALSE
    <3>1. Above(Ids, W, u) \subseteq Above(Ids, W, m)
      BY <1>2, <2>1, AboveAbove
    <3> QED BY <1>1, <1>2, <2>3, <3>1 DEF NoCycle
  <2> QED BY <2>1, <2>2, <2>3
<1>6. PICK r : r = relink_one(q, u, l)
  OBVIOUS
<1>7. l \notin Above(Ids, Y, u)
  BY <1>2, <1>3, <1>5
<1>8. CASE le(q, u, l) \/ le(q, l, u)
  <2>1. r = q
    BY <1>6, <1>8 DEF relink_one
  <2>2. u \in Above(Ids, U(q), l)
    BY <1>1, <1>2, <1>3, <1>7, <1>8, LeIs
  <2> QED BY <1>6, <2>1, <2>2 DEF MoreUppers
<1>9. CASE ~(le(q, u, l) \/ le(q, l, u))
  <2>1. r = new_link(q, u, l)
    BY <1>6, <1>9 DEF relink_one
  <2>2. u \notin U(q)[l]
    BY <1>2, <1>3, <1>9, LeIs
  <2>3. /\ Ordered(r) /\ SameMembers(q, r)
        /\ \A x \in Ids : U(r)[x] = IF x = l THEN U(q)[x] \cup {u} ELSE U(q)[x]
        /\ \A a \in Ids : Above(Ids, U(r), a)
                            = Above(Ids, U(q), a) \cup Through(Ids, U(q), {l}, {u}, a)
    <3>1. l \notin Above(Ids, U(q), u) /\ Ordered(q)
      BY <1>1, <1>3, <1>7
    <3> DEFINE n == new_link(q, u, l)
    <3>2. /\ Ordered(n) /\ SameMembers(q, n)
          /\ \A x \in Ids : U(n)[x] = IF x = l THEN U(q)[x] \cup {u} ELSE U(q)[x]
          /\ \A a \in Ids : Above(Ids, U(n), a)
                              = Above(Ids, U(q), a) \cup Through(Ids, U(q), {l}, {u}, a)
      BY ONLY <1>4, <2>2, <3>1, LinkOrdered
    <3> HIDE DEF n
    <3> QED BY <2>1, <3>2 DEF n
  <2>4. PICK Z \in [Ids -> SUBSET Ids] : Z = U(r)
    BY <2>3, OrderedIs
  <2>5. \A x \in Ids : Z[x] = IF x = l THEN Y[x] \cup {u} ELSE Y[x]
    BY <1>1, <2>3, <2>4
  <2>6. ASSUME NEW a \in Ids, NEW y \in Above(Ids, Z, a) PROVE y \in Above(Ids, W, a)
    <3>1. CASE y \in Above(Ids, Y, a)
      BY <1>3, <3>1
    <3>2. CASE y \in Through(Ids, Y, {l}, {u}, a)
      <4>1. l \in Above(Ids, Y, a) /\ y \in Above(Ids, Y, u)
        BY <3>2 DEF Through
      <4>2. l \in Above(Ids, W, a) /\ y \in Above(Ids, W, u)
        BY <1>2, <1>3, <4>1
      <4>3. Above(Ids, W, u) \subseteq Above(Ids, W, l) /\ Above(Ids, W, l) \subseteq Above(Ids, W, a)
        BY <1>5, <4>2, AboveAbove
      <4> QED BY <4>2, <4>3
    <3> QED BY <1>1, <2>3, <2>4, <2>6, <3>1, <3>2
  <2>7. MoreUppers(q, r)
    BY <1>1, <2>4, <2>5 DEF MoreUppers
  <2>8. u \in Above(Ids, Z, l)
    <3>1. u \in Z[l]
      BY <2>5
    <3> QED BY <3>1, AboveIs
  <2>9. \A x \in Ids : x # m => W[x] \ {m} \subseteq Z[x]
    BY <1>3, <2>5
  <2>10. r \in Posets
    BY <2>3 DEF Ordered, WellMade
  <2>11. Rejoined(p, m, r)
    BY <1>1, <1>3, <2>3, <2>4, <2>6, <2>9, <2>10 DEF Rejoined, SameMembers
  <2> QED BY <1>6, <2>4, <2>7, <2>8, <2>11
<1> QED BY <1>8, <1>9

LEMMA MoreIsAbove ==
  ASSUME NEW q, Ordered(q), NEW r, Ordered(r), MoreUppers(q, r)
  PROVE  \A a \in Ids : Above(Ids, U(q), a) \subseteq Above(Ids, U(r), a)
<1>1. PICK W \in [Ids -> SUBSET Ids], Y \in [Ids -> SUBSET Ids] : W = U(q) /\ Y = U(r)
  BY OrderedIs
<1>2. \A x \in Ids : W[x] \subseteq Y[x]
  BY <1>1 DEF MoreUppers
<1> QED BY <1>1, <1>2, FewerEdges

LEMMA LowersRelinked ==
  ASSUME NEW p, Ordered(p), NEW m \in p.members \ Standard, NEW q, Rejoined(p, m, q),
         NEW u \in U(p)[m], NEW lowers \in Seq(Ids),
         \A i \in 1..Len(lowers) : m \in U(p)[lowers[i]]
  PROVE  LET r == relink_all(q, u, lowers) IN
         /\ Rejoined(p, m, r) /\ MoreUppers(q, r)
         /\ \A i \in 1..Len(lowers) : u \in Above(Ids, U(r), lowers[i])
<1> DEFINE S == 1..Len(lowers)
           One(r, i) == relink_one(r, u, lowers[i])
           Is(it) == it = [T \in SUBSET S |->
                             IF T = {} THEN q ELSE One(it[T \ {Max(T)}], Max(T))]
           R == {r \in Posets : Rejoined(p, m, r)}
<1>1. relink_all(q, u, lowers) = (CHOOSE it : Is(it))[S]
  <2>1. DOMAIN lowers = S
    OBVIOUS
  <2> QED BY <2>1 DEF relink_all, FoldLeft, MapThenFoldSet
<1>2. /\ Len(lowers) \in Nat /\ S \in SUBSET (0..Len(lowers)) /\ IsFiniteSet(S)
      /\ \A i \in S : lowers[i] \in Ids /\ m \in U(p)[lowers[i]]
  <2>1. Len(lowers) \in Nat /\ S \in SUBSET (0..Len(lowers)) /\ \A i \in S : lowers[i] \in Ids
    OBVIOUS
  <2>2. IsFiniteSet(1..Len(lowers))
    BY <2>1, FS_Interval
  <2> QED BY <2>1, <2>2
<1>3. q \in R
  BY DEF Rejoined
<1> HIDE DEF S
<1>4. ASSUME NEW r \in R, NEW i \in S
      PROVE  /\ One(r, i) \in R /\ MoreUppers(r, One(r, i))
             /\ u \in Above(Ids, U(One(r, i)), lowers[i])
  <2>1. PICK l \in Ids : l = lowers[i] /\ m \in U(p)[l]
    BY <1>2
  <2>2. Rejoined(p, m, r)
    OBVIOUS
  <2>3. PICK s : s = relink_one(r, u, l)
    OBVIOUS
  <2>4. Rejoined(p, m, s) /\ MoreUppers(r, s) /\ u \in Above(Ids, U(s), l)
    BY <2>1, <2>2, <2>3, PairRelinked
  <2> QED BY <2>1, <2>3, <2>4 DEF Rejoined
<1> HIDE DEF One, R
<1>5. \A T \in (SUBSET S) \ {{}} : Max(T) \in T
  BY <1>2, MaxOfNats
<1>6. \E it : Is(it)
  <2> DEFINE g == [r \in R |-> [i \in S |-> One(r, i)]]
  <2>1. g \in [R -> [S -> R]]
    BY <1>4
  <2>2. \A r \in R : \A i \in S : g[r][i] = One(r, i)
    OBVIOUS
  <2> HIDE DEF g
  <2>3. PICK it \in [SUBSET S -> R] : Folded(it, S, q, g)
    BY <1>2, <1>3, <2>1, FoldExists
  <2>4. ASSUME NEW T \in SUBSET S
        PROVE  it[T] = IF T = {} THEN q ELSE One(it[T \ {Max(T)}], Max(T))
    <3>1. CASE T = {}
      BY <2>3, <3>1 DEF Folded
    <3>2. CASE T # {}
      <4>1. PICK i \in S : i = Max(T)
        BY <1>5, <3>2
      <4>2. PICK r \in R : r = it[T \ {i}]
        BY <2>3
      <4>3. it[T] = g[r][i]
        BY <2>3, <3>2, <4>1, <4>2 DEF Folded
      <4> QED BY <2>2, <3>2, <4>1, <4>2, <4>3
    <3> QED BY <3>1, <3>2
  <2>5. it = [T \in SUBSET S |-> it[T]]
    BY <2>3
  <2>6. [T \in SUBSET S |-> it[T]]
          = [T \in SUBSET S |-> IF T = {} THEN q ELSE One(it[T \ {Max(T)}], Max(T))]
    BY ONLY <2>4, Zenon
  <2>7. Is(it)
    BY ONLY <2>5, <2>6, Zenon
  <2> QED BY <2>7
<1>7. PICK it : Is(it) /\ relink_all(q, u, lowers) = it[S]
  <2> HIDE DEF Is
  <2> QED BY <1>1, <1>6
<1>8. /\ it[{}] = q
      /\ \A T \in (SUBSET S) \ {{}} : it[T] = One(it[T \ {Max(T)}], Max(T))
  BY <1>7
<1> DEFINE Good == [T \in SUBSET S |->
                      {r \in R : /\ MoreUppers(q, r)
                                 /\ \A i \in T : u \in Above(Ids, U(r), lowers[i])}]
<1>9. it[{}] \in Good[{}]
  BY <1>3, <1>8 DEF MoreUppers
<1>10. ASSUME NEW T \in (SUBSET S) \ {{}}, it[T \ {Max(T)}] \in Good[T \ {Max(T)}]
       PROVE  it[T] \in Good[T]
  <2>1. PICK i \in T : i = Max(T)
    BY <1>5
  <2>2. i \in S /\ T \ {i} \in SUBSET S /\ T \in SUBSET S
    BY <2>1
  <2>3. PICK r \in R : /\ r = it[T \ {i}] /\ MoreUppers(q, r)
                       /\ \A j \in T \ {i} : u \in Above(Ids, U(r), lowers[j])
    BY <1>10, <2>1, <2>2
  <2>4. PICK s \in R : s = One(r, i)
    BY <1>4, <2>2
  <2>5. it[T] = s
    BY <1>8, <2>1, <2>3, <2>4
  <2>6. MoreUppers(r, s) /\ u \in Above(Ids, U(s), lowers[i])
    BY <1>4, <2>2, <2>4
  <2>7. MoreUppers(q, s)
    BY <2>3, <2>6 DEF MoreUppers
  <2>8. \A a \in Ids : Above(Ids, U(r), a) \subseteq Above(Ids, U(s), a)
    BY <2>6, MoreIsAbove DEF R, Rejoined
  <2>9. \A j \in T : u \in Above(Ids, U(s), lowers[j])
    BY <1>2, <2>3, <2>6, <2>8
  <2> QED BY <2>2, <2>5, <2>7, <2>9
<1> HIDE DEF Good
<1>11. it[S] \in Good[S]
  BY <1>2, <1>5, <1>9, <1>10, FoldKeeps
<1> QED BY <1>7, <1>11 DEF Good, R, S

LEMMA Relinked ==
  ASSUME NEW p, Ordered(p), NEW m \in p.members \ Standard, NEW q, Rejoined(p, m, q),
         NEW uppers \in Seq(Ids), \A i \in 1..Len(uppers) : uppers[i] \in U(p)[m],
         NEW lowers \in Seq(Ids), \A i \in 1..Len(lowers) : m \in U(p)[lowers[i]]
  PROVE  LET r == relink(q, uppers, lowers) IN
         /\ Rejoined(p, m, r)
         /\ \A i \in 1..Len(uppers), j \in 1..Len(lowers) : uppers[i] \in Above(Ids, U(r), lowers[j])
<1> DEFINE S == 1..Len(uppers)
           J == 1..Len(lowers)
           One(r, i) == relink_all(r, uppers[i], lowers)
           Is(it) == it = [T \in SUBSET S |->
                             IF T = {} THEN q ELSE One(it[T \ {Max(T)}], Max(T))]
           R == {r \in Posets : Rejoined(p, m, r)}
<1>1. relink(q, uppers, lowers) = (CHOOSE it : Is(it))[S]
  <2>1. DOMAIN uppers = S
    OBVIOUS
  <2> QED BY <2>1 DEF relink, relink_all, relink_one, FoldLeft, MapThenFoldSet
<1>2. /\ Len(uppers) \in Nat /\ S \in SUBSET (0..Len(uppers)) /\ IsFiniteSet(S)
      /\ \A i \in S : uppers[i] \in Ids /\ uppers[i] \in U(p)[m]
      /\ \A j \in J : lowers[j] \in Ids
  <2>1. Len(uppers) \in Nat /\ S \in SUBSET (0..Len(uppers)) /\ \A i \in S : uppers[i] \in Ids
    OBVIOUS
  <2>2. IsFiniteSet(1..Len(uppers))
    BY <2>1, FS_Interval
  <2>3. \A j \in J : lowers[j] \in Ids
    OBVIOUS
  <2> QED BY <2>1, <2>2, <2>3
<1>3. q \in R
  BY DEF Rejoined
<1>4. ASSUME NEW r \in R, NEW i \in S
      PROVE  /\ One(r, i) \in R /\ MoreUppers(r, One(r, i))
             /\ \A j \in J : uppers[i] \in Above(Ids, U(One(r, i)), lowers[j])
  <2>1. PICK u \in U(p)[m] : u = uppers[i]
    BY <1>2
  <2>2. Rejoined(p, m, r)
    OBVIOUS
  <2>3. PICK s : s = relink_all(r, u, lowers)
    OBVIOUS
  <2>4. /\ Rejoined(p, m, s) /\ MoreUppers(r, s)
        /\ \A j \in 1..Len(lowers) : u \in Above(Ids, U(s), lowers[j])
    BY <2>2, <2>3, LowersRelinked
  <2> QED BY <2>1, <2>3, <2>4 DEF Rejoined
<1> HIDE DEF S, J, One, R
<1>5. \A T \in (SUBSET S) \ {{}} : Max(T) \in T
  BY <1>2, MaxOfNats
<1>6. \E it : Is(it)
  <2> DEFINE g == [r \in R |-> [i \in S |-> One(r, i)]]
  <2>1. g \in [R -> [S -> R]]
    BY <1>4
  <2>2. \A r \in R : \A i \in S : g[r][i] = One(r, i)
    OBVIOUS
  <2> HIDE DEF g
  <2>3. PICK it \in [SUBSET S -> R] : Folded(it, S, q, g)
    BY <1>2, <1>3, <2>1, FoldExists
  <2>4. ASSUME NEW T \in SUBSET S
        PROVE  it[T] = IF T = {} THEN q ELSE One(it[T \ {Max(T)}], Max(T))
    <3>1. CASE T = {}
      BY <2>3, <3>1 DEF Folded
    <3>2. CASE T # {}
      <4>1. PICK i \in S : i = Max(T)
        BY <1>5, <3>2
      <4>2. PICK r \in R : r = it[T \ {i}]
        BY <2>3
      <4>3. it[T] = g[r][i]
        BY <2>3, <3>2, <4>1, <4>2 DEF Folded
      <4> QED BY <2>2, <3>2, <4>1, <4>2, <4>3
    <3> QED BY <3>1, <3>2
  <2>5. it = [T \in SUBSET S |-> it[T]]
    BY <2>3
  <2>6. [T \in SUBSET S |-> it[T]]
          = [T \in SUBSET S |-> IF T = {} THEN q ELSE One(it[T \ {Max(T)}], Max(T))]
    BY ONLY <2>4, Zenon
  <2>7. Is(it)
    BY ONLY <2>5, <2>6, Zenon
  <2> QED BY <2>7
<1>7. PICK it : Is(it) /\ relink(q, uppers, lowers) = it[S]
  <2> HIDE DEF Is
  <2> QED BY <1>1, <1>6
<1>8. /\ it[{}] = q
      /\ \A T \in (SUBSET S) \ {{}} : it[T] = One(it[T \ {Max(T)}], Max(T))
  BY <1>7
<1> DEFINE Good == [T \in SUBSET S |->
                      {r \in R : \A i \in T : \A j \in J : uppers[i] \in Above(Ids, U(r), lowers[j])}]
<1>9. it[{}] \in Good[{}]
  BY <1>3, <1>8
<1>10. ASSUME NEW T \in (SUBSET S) \ {{}}, it[T \ {Max(T)}] \in Good[T \ {Max(T)}]
       PROVE  it[T] \in Good[T]
  <2>1. PICK i \in T : i = Max(T)
    BY <1>5
  <2>2. i \in S /\ T \ {i} \in SUBSET S /\ T \in SUBSET S
    BY <2>1
  <2>3. PICK r \in R : /\ r = it[T \ {i}]
                       /\ \A k \in T \ {i} : \A j \in J : uppers[k] \in Above(Ids, U(r), lowers[j])
    BY <1>10, <2>1, <2>2
  <2>4. PICK s \in R : s = One(r, i)
    BY <1>4, <2>2
  <2>5. it[T] = s
    BY <1>8, <2>1, <2>3, <2>4
  <2>6. MoreUppers(r, s) /\ \A j \in J : uppers[i] \in Above(Ids, U(s), lowers[j])
    BY <1>4, <2>2, <2>4
  <2>7. \A a \in Ids : Above(Ids, U(r), a) \subseteq Above(Ids, U(s), a)
    BY <2>6, MoreIsAbove DEF R, Rejoined
  <2>8. \A k \in T : \A j \in J : uppers[k] \in Above(Ids, U(s), lowers[j])
    BY <1>2, <2>3, <2>6, <2>7
  <2> QED BY <2>2, <2>5, <2>8
<1> HIDE DEF Good
<1>11. it[S] \in Good[S]
  BY <1>2, <1>5, <1>9, <1>10, FoldKeeps
<1> QED BY <1>7, <1>11 DEF Good, R, S, J

LEMMA AllListed ==
  ASSUME NEW S \in SUBSET Ids, NEW lowers \in SetToSeqs(S)
  PROVE  /\ lowers \in Seq(Ids) /\ \A i \in 1..Len(lowers) : lowers[i] \in S
         /\ \A x \in S : \E i \in 1..Len(lowers) : lowers[i] = x
<1>1. IsFiniteSet(S)
  BY IdsAre, FS_Subset
<1>2. PICK n \in Nat : n = Cardinality(S)
  BY <1>1, FS_CardinalityType
<1>3. lowers \in [1..n -> S] /\ IsInjective(lowers)
  BY <1>2 DEF SetToSeqs, IsInjective
<1>4. lowers \in Injection(1..n, S)
  BY <1>3 DEF Injection
<1>5. Cardinality(1..n) = n
  BY FS_Interval
<1>6. lowers \in Surjection(1..n, S)
  BY <1>1, <1>2, <1>4, <1>5, FS_Injection
<1>7. \A x \in S : \E i \in 1..n : lowers[i] = x
  BY <1>6 DEF Surjection
<1>8. lowers \in Seq(Ids) /\ Len(lowers) = n
  BY <1>3
<1> QED BY <1>3, <1>7, <1>8

LEMMA JimDeleted ==
  ASSUME NEW p, Ordered(p), NEW m \in p.members \ Standard, is_jim(p, m)
  PROVE  LET r == delete_state(p, m, << >>) IN
         Ordered(r) /\ r.members = p.members \ {m} /\ r.jims = p.jims \ {m}
<1>1. PICK q : q = delete_member(unlink(p, m), m)
  OBVIOUS
<1>2. delete_state(p, m, << >>) = q
  BY <1>1 DEF delete_state
<1> QED BY <1>1, <1>2, RestOrdered

LEMMA JrmDeleted ==
  ASSUME NEW p, Ordered(p), NEW m \in p.members \ Standard, ~is_jim(p, m),
         NEW lowers \in SetToSeqs(p.lower[m])
  PROVE  LET r == delete_state(p, m, lowers) IN
         /\ Ordered(r) /\ r.members = p.members \ {m} /\ r.jims = p.jims
         /\ OrderOfOthers(p, r, m) /\ (Linked(p) => Linked(r))
<1>1. PICK q : q = delete_member(unlink(p, m), m)
  OBVIOUS
<1>2. PICK r : r = relink(q, p.upper[m], lowers)
  OBVIOUS
<1>3. delete_state(p, m, lowers) = r
  BY <1>1, <1>2 DEF delete_state
<1>4. PICK W \in [Ids -> SUBSET Ids] : W = U(p)
  BY OrderedIs
<1>5. /\ WellMade(p) /\ NoCycle(Ids, W) /\ p.members \in SUBSET Ids /\ m \in Ids
      /\ \A x, y \in Ids : y \in p.lower[x] <=> x \in W[y]
      /\ \A x, y \in Ids : y \in W[x] => x \in p.members /\ y \in p.members
      /\ \A x \in Ids : x \in Above(Ids, W, x) /\ W[x] \subseteq Above(Ids, W, x)
      /\ \A x \in Ids : x \notin W[x]
      /\ p.lower \in [Ids -> SUBSET Ids] /\ p.upper \in [Ids -> Seq(Ids)]
      /\ m # TOP_INDEX /\ m # BOTTOM_INDEX
  BY <1>4, OrderedIs, WellMadeIs, IdsAre
<1>6. PICK uppers \in Seq(Ids) : uppers = p.upper[m] /\ ToSet(uppers) = W[m]
  BY <1>4, <1>5, WellMadeIs
<1>7. /\ \A i \in 1..Len(uppers) : uppers[i] \in W[m]
      /\ \A u \in W[m] : \E i \in 1..Len(uppers) : uppers[i] = u
  BY <1>6, SetOf
<1>8. /\ lowers \in Seq(Ids) /\ \A i \in 1..Len(lowers) : m \in W[lowers[i]]
      /\ \A l \in Ids : m \in W[l] => \E i \in 1..Len(lowers) : lowers[i] = l
  <2>1. PICK S \in SUBSET Ids : S = p.lower[m]
    BY <1>5
  <2>2. /\ lowers \in Seq(Ids) /\ \A i \in 1..Len(lowers) : lowers[i] \in S
        /\ \A x \in S : \E i \in 1..Len(lowers) : lowers[i] = x
    BY <2>1, AllListed
  <2>3. \A l \in Ids : l \in S <=> m \in W[l]
    BY <1>5, <2>1
  <2> QED BY <2>2, <2>3
<1>9. Rejoined(p, m, q)
  <2>1. /\ Ordered(q) /\ q.members = p.members \ {m} /\ q.jims = p.jims \ {m}
        /\ \A x \in Ids : U(q)[x] = IF x = m THEN {} ELSE U(p)[x] \ {m}
        /\ \A a \in Ids : Above(Ids, U(q), a) \subseteq Above(Ids, U(p), a)
    <3> DEFINE n == delete_member(unlink(p, m), m)
    <3>1. Ordered(p)
      OBVIOUS
    <3>2. /\ Ordered(n) /\ n.members = p.members \ {m} /\ n.jims = p.jims \ {m}
          /\ \A x \in Ids : U(n)[x] = IF x = m THEN {} ELSE U(p)[x] \ {m}
          /\ \A a \in Ids : Above(Ids, U(n), a) \subseteq Above(Ids, U(p), a)
      BY ONLY <3>1, RestOrdered
    <3> HIDE DEF n
    <3> QED BY <1>1, <3>2 DEF n
  <2>2. q \in Posets
    BY <2>1 DEF Ordered, WellMade
  <2>3. \A x \in Ids : x # m => U(p)[x] \ {m} \subseteq U(q)[x]
    BY <2>1
  <2> QED BY <2>1, <2>2, <2>3 DEF Rejoined
<1>10. /\ Rejoined(p, m, r)
       /\ \A i \in 1..Len(uppers), j \in 1..Len(lowers) :
            uppers[i] \in Above(Ids, U(r), lowers[j])
  BY <1>2, <1>4, <1>6, <1>7, <1>8, <1>9, Relinked
<1>11. PICK Y \in [Ids -> SUBSET Ids] : Y = U(r)
  BY <1>10, OrderedIs DEF Rejoined
<1>12. \A u \in W[m], l \in Ids : m \in W[l] => u \in Above(Ids, Y, l)
  BY <1>7, <1>8, <1>10, <1>11
<1>13. /\ Ordered(r) /\ r.members = p.members \ {m} /\ r.jims = p.jims
       /\ \A x \in Ids : Above(Ids, Y, x) \subseteq Above(Ids, W, x)
       /\ \A x \in Ids : x # m => W[x] \ {m} \subseteq Y[x]
       /\ \A x, y \in Ids : y \in Y[x] => x \in r.members /\ y \in r.members
  <2>1. p.jims \ {m} = p.jims
    BY DEF is_jim
  <2> QED BY <1>4, <1>10, <1>11, <2>1, OrderedIs DEF Rejoined
<1>14. OthersKept(Ids, W, Y, m)
  <2>1. ASSUME NEW x \in Ids, NEW y \in Ids, x # m, y # m, y \in Above(Ids, W, x)
        PROVE  y \in Above(Ids, Y, x)
    <3> DEFINE A == Above(Ids, Y, x)
               S == A \cup {z \in {m} : \E l \in A : m \in W[l]}
    <3>1. A \in SUBSET Ids /\ x \in A /\ \A z \in A : Y[z] \subseteq A
      BY AboveIs
    <3>2. m \notin A
      <4>1. ASSUME m \in A PROVE FALSE
        <5>1. PICK z \in A : m \in Y[z]
          BY <2>1, <4>1, AboveLast
        <5> QED BY <1>5, <1>13, <3>1, <5>1
      <4> QED BY <4>1
    <3>3. S \in SUBSET Ids /\ x \in S
      BY <1>5, <3>1
    <3>4. ASSUME NEW z \in S PROVE W[z] \subseteq S
      <4>1. CASE z \in A
        <5>1. W[z] \ {m} \subseteq A
          BY <1>13, <3>1, <3>2, <4>1
        <5> QED BY <4>1, <5>1
      <4>2. CASE z = m /\ \E l \in A : m \in W[l]
        <5>1. PICK l \in A : m \in W[l]
          BY <4>2
        <5>2. W[m] \subseteq Above(Ids, Y, l)
          BY <1>12, <3>1, <5>1
        <5>3. Above(Ids, Y, l) \subseteq A
          BY <3>1, <5>1, AboveAbove
        <5> QED BY <4>2, <5>2, <5>3
      <4> QED BY <4>1, <4>2
    <3>5. Above(Ids, W, x) \subseteq S
      <4>1. Closed(W, S)
        BY <3>4 DEF Closed
      <4> HIDE DEF S
      <4> QED BY <3>3, <4>1, AboveIs
    <3> QED BY <2>1, <3>5
  <2> QED BY <1>13, <2>1 DEF OthersKept
<1>15. ASSUME Linked(p) PROVE Linked(r)
  <2> SUFFICES ASSUME NEW x \in r.members \ Standard
               PROVE  Y[x] # {} /\ \E y \in r.members : x \in Y[y]
    BY <1>11 DEF Linked
  <2>1. x \in Ids /\ x \in p.members \ Standard /\ x # m
    BY <1>5, <1>13
  <2>2. \A z \in p.members \ Standard : W[z] # {} /\ \E y \in p.members : z \in W[y]
    BY <1>4, <1>15 DEF Linked
  <2>3. Y[x] # {}
    <3>1. CASE W[x] \ {m} # {}
      BY <1>13, <2>1, <3>1
    <3>2. CASE W[x] \ {m} = {}
      <4>1. m \in W[x]
        BY <2>1, <2>2, <3>2
      <4>2. PICK u \in W[m] : u \in Above(Ids, Y, x)
        BY <1>12, <2>1, <2>2, <4>1
      <4>3. u # x
        <5>1. u \in Above(Ids, W, m)
          BY <1>5
        <5> QED BY <1>5, <2>1, <4>1, <5>1 DEF NoCycle
      <4>4. PICK y \in Y[x] : u \in Above(Ids, Y, y)
        BY <2>1, <4>2, <4>3, AboveFirst
      <4> QED BY <4>4
    <3> QED BY <3>1, <3>2
  <2>4. \E y \in r.members : x \in Y[y]
    <3>1. PICK y \in p.members : x \in W[y]
      BY <2>1, <2>2
    <3>2. CASE y # m
      BY <1>5, <1>13, <2>1, <3>1, <3>2
    <3>3. CASE y = m
      <4>1. PICK l \in Ids : m \in W[l]
        BY <1>5, <2>2
      <4>2. x \in Above(Ids, Y, l)
        BY <1>12, <3>1, <3>3, <4>1
      <4>3. x # l
        <5>1. x \in Above(Ids, W, m)
          BY <1>5, <3>1, <3>3
        <5> QED BY <1>5, <4>1, <5>1 DEF NoCycle
      <4>4. PICK z \in Above(Ids, Y, l) : x \in Y[z]
        BY <4>1, <4>2, <4>3, AboveLast
      <4>5. z \in Ids
        BY <4>1, <4>4, AboveIs
      <4> QED BY <1>13, <2>1, <4>4, <4>5
    <3> QED BY <3>2, <3>3
  <2> QED BY <2>3, <2>4
<1> QED BY <1>3, <1>4, <1>11, <1>13, <1>14, <1>15 DEF OrderOfOthers

-----------------------------------------------------------------------------
(***************************************************************************)
(* The inductive invariant, of clients that do not merge jems below which  *)
(* there are members and do not let the jems of the bottom meet the top:   *)
(* the poset is ordered always, and linked outside the jim edit mode.      *)
(***************************************************************************)
Careful == "merge" \notin Practices /\ "bottom_meets_top" \notin Practices

Sound(p, depth) ==
  Ordered(p) /\ depth \in 0..MaxEditDepth /\ (depth = 0 => Linked(p))

(***************************************************************************)
(* A step that adds or deletes a jrm keeps the order of the others.        *)
(***************************************************************************)
KeepsOrder(p, q) ==
  q.members # p.members /\ q.jims = p.jims =>
    \A x, y \in p.members \cap q.members :
      y \in Above(Ids, U(q), x) <=> y \in Above(Ids, U(p), x)

LEMMA InitSound == Init => Sound(poset, jim_edit_depth)
<1> SUFFICES ASSUME Init PROVE Sound(poset, jim_edit_depth)
  OBVIOUS
<1>1. PICK none \in Seq(Ids) : none = << >> /\ ToSet(none) = {} /\ IsInjective(none)
  BY EmptyIs
<1>2. PICK p : p = initialize_standard_members
  OBVIOUS
<1>3. /\ p.members = Standard /\ p.jims = {} /\ p.next = 2
      /\ p.lower = [m \in Ids |-> {}] /\ p.upper = [m \in Ids |-> none]
      /\ p = [members |-> p.members, jims |-> p.jims, next |-> p.next,
              lower |-> p.lower, upper |-> p.upper]
  BY <1>1, <1>2 DEF initialize_standard_members
<1>4. p \in Posets
  <2>1. Standard \in SUBSET Ids /\ 2 \in 2..MaxId + 1
    BY IdsAre, MaxIdAssumption
  <2>2. p.lower \in [Ids -> SUBSET Ids] /\ p.upper \in [Ids -> Seq(Ids)]
    BY <1>1, <1>3
  <2> QED BY <1>3, <2>1, <2>2 DEF Posets
<1>5. \A x \in Ids : U(p)[x] = {}
  BY <1>1, <1>3 DEF U
<1>6. Matches(p)
  BY <1>1, <1>3, <1>5 DEF Matches
<1>7. WellMade(p)
  BY <1>3, <1>4, <1>6 DEF WellMade, Standard, BOTTOM_INDEX, TOP_INDEX
<1>8. Ordered(p)
  BY <1>5, <1>7, IdsAre DEF Ordered, NoCycle, Ends
<1>9. Linked(p)
  BY <1>3 DEF Linked
<1> QED BY <1>2, <1>8, <1>9, EditDepthAssumption DEF Init, Sound

(***************************************************************************)
(* The end of a jim edit mode, and what is done in one or as one.          *)
(***************************************************************************)
LEMMA EndedSound ==
  ASSUME Careful, NEW p, Ordered(p), NEW depth \in 0..MaxEditDepth, MayEnd(p, depth)
  PROVE  LET q == Ended(p, depth) IN SameMembers(p, q) /\ Sound(q, depth)
<1>1. PICK q : q = Ended(p, depth)
  OBVIOUS
<1>2. depth \in Nat /\ (depth = 0 <=> ~(depth > 0))
  BY EditDepthAssumption
<1>3. CASE depth = 0
  <2>1. q = ensure_lattice_invariant(p)
    BY <1>1, <1>3 DEF Ended
  <2>2. \/ greatest_jem(p, BOTTOM_INDEX) # TOP_INDEX
        \/ \A m \in p.members \ Standard : ~lower_is_empty(p, m)
    BY <1>2, <1>3 DEF MayEnd, Careful
  <2>3. Ordered(q) /\ SameMembers(p, q) /\ Linked(q)
    BY <2>1, <2>2, LatticeEnsured
  <2> QED BY <1>1, <2>3 DEF Sound
<1>4. CASE depth # 0
  <2>1. q = p
    BY <1>1, <1>4 DEF Ended
  <2> QED BY <1>1, <1>4, <2>1 DEF Sound, SameMembers
<1> QED BY <1>3, <1>4

LEMMA EditedSound ==
  ASSUME Careful, NEW p, Ordered(p), jim_edit_depth \in 0..MaxEditDepth,
         NEW auto \in BOOLEAN, MayEdit(p, auto)
  PROVE  LET q == Edited(p, auto) IN SameMembers(p, q) /\ Sound(q, jim_edit_depth)
<1>1. CASE auto
  BY <1>1, EndedSound DEF MayEdit, Edited
<1>2. CASE ~auto
  <2>1. Edited(p, auto) = p /\ jim_edit_depth # 0
    BY <1>2, EditDepthAssumption DEF MayEdit, Edited, in_jim_edit_mode
  <2> QED BY <2>1 DEF Sound, SameMembers
<1> QED BY <1>1, <1>2

(***************************************************************************)
(* A member that has just been made has no links.                          *)
(***************************************************************************)
LEMMA MadeOrdered ==
  ASSUME NEW p, Ordered(p), NEW m \in Ids, m = p.next, NEW jim \in BOOLEAN
  PROVE  LET q == new_member(p, m, jim) IN
         /\ Ordered(q) /\ Free(q, m) /\ U(q) = U(p)
         /\ q.members = p.members \cup {m} /\ m \notin p.members
         /\ q.jims = IF jim THEN p.jims \cup {m} ELSE p.jims
<1>1. WellMade(p) /\ NoCycle(Ids, U(p)) /\ Ends(p)
  BY OrderedIs
<1>2. PICK q : q = new_member(p, m, jim)
  OBVIOUS
<1>3. /\ WellMade(q) /\ U(q) = U(p) /\ q.members = p.members \cup {m}
      /\ m \notin p.members /\ q.jims = IF jim THEN p.jims \cup {m} ELSE p.jims
      /\ U(p)[m] = {} /\ \A x \in Ids : m \notin U(p)[x]
  <2> DEFINE n == new_member(p, m, jim)
  <2>1. WellMade(p) /\ m = p.next
    BY <1>1
  <2>2. /\ WellMade(n) /\ U(n) = U(p) /\ n.members = p.members \cup {m}
        /\ m \notin p.members /\ n.jims = IF jim THEN p.jims \cup {m} ELSE p.jims
        /\ U(p)[m] = {} /\ \A x \in Ids : m \notin U(p)[x]
    BY ONLY <2>1, NewMember
  <2> HIDE DEF n
  <2> QED BY <1>2, <2>2 DEF n
<1>4. Ordered(q) /\ Free(q, m)
  BY <1>1, <1>3 DEF Ordered, Ends, Free, Loose
<1> QED BY <1>2, <1>3, <1>4

LEMMA OthersLinked ==
  ASSUME NEW p, Ordered(p), Linked(p), p.jims # {}, NEW m \in Ids, NEW q,
         q.members = p.members \cup {m}, m \notin p.members, U(q) = U(p)
  PROVE  LinkedBut(q, m)
<1>1. PICK jim \in p.members \ Standard : TRUE
  BY OrderedIs, WellMadeIs
<1>2. U(p)[BOTTOM_INDEX] # {} /\ \E x \in p.members : TOP_INDEX \in U(p)[x]
  BY <1>1, BetweenThem
<1>3. ASSUME NEW x \in p.members
      PROVE  /\ x # TOP_INDEX => U(p)[x] # {}
             /\ x # BOTTOM_INDEX => \E y \in p.members : x \in U(p)[y]
  BY <1>2, IdsAre DEF Linked
<1> QED BY <1>3 DEF LinkedBut

LEMMA StepSound ==
  ASSUME Careful, Sound(poset, jim_edit_depth), Next
  PROVE  Sound(poset', jim_edit_depth') /\ KeepsOrder(poset, poset')
<1>1. Ordered(poset) /\ jim_edit_depth \in 0..MaxEditDepth
      /\ (jim_edit_depth = 0 => Linked(poset)) /\ MaxEditDepth \in Nat
  BY EditDepthAssumption DEF Sound
<1>2. /\ poset.members \in SUBSET Ids /\ poset.jims \subseteq poset.members \ Standard
      /\ WellMade(poset)
  BY <1>1, OrderedIs, WellMadeIs
<1>3. in_jim_edit_mode <=> jim_edit_depth # 0
  BY <1>1 DEF in_jim_edit_mode
<1>4. CASE begin_jim_edit_mode
  <2>1. poset' = poset /\ jim_edit_depth' \in 0..MaxEditDepth /\ jim_edit_depth' # 0
    BY <1>1, <1>4 DEF begin_jim_edit_mode
  <2> QED BY <1>1, <2>1 DEF Sound, KeepsOrder
<1>5. CASE end_jim_edit_mode
  <2>1. jim_edit_depth' = jim_edit_depth - 1 /\ jim_edit_depth' \in 0..MaxEditDepth
    BY <1>1, <1>5 DEF end_jim_edit_mode, in_jim_edit_mode
  <2>2. PICK depth \in 0..MaxEditDepth : /\ depth = jim_edit_depth' /\ MayEnd(poset, depth)
                                         /\ poset' = Ended(poset, depth)
    BY <1>5, <2>1 DEF end_jim_edit_mode
  <2>3. SameMembers(poset, poset') /\ Sound(poset', depth)
    BY <1>1, <2>2, EndedSound
  <2> QED BY <2>2, <2>3 DEF KeepsOrder, SameMembers
<1>6. ASSUME NEW auto \in BOOLEAN, new_jim_state(auto)
      PROVE  Sound(poset', jim_edit_depth') /\ KeepsOrder(poset, poset')
  <2>1. PICK m \in Ids : /\ m = poset.next
                         /\ MayEdit(new_member(poset, m, TRUE), auto)
                         /\ poset' = Edited(new_member(poset, m, TRUE), auto)
    BY <1>6 DEF new_jim_state, FreeId
  <2>2. PICK p : p = new_member(poset, m, TRUE)
    OBVIOUS
  <2>3. Ordered(p) /\ m \notin poset.members /\ p.jims = poset.jims \cup {m}
    <3> DEFINE n == new_member(poset, m, TRUE)
    <3>1. Ordered(poset) /\ m = poset.next
      BY <1>1, <2>1
    <3>2. /\ Ordered(n) /\ m \notin poset.members
          /\ n.jims = IF TRUE THEN poset.jims \cup {m} ELSE poset.jims
      BY ONLY <3>1, MadeOrdered
    <3> HIDE DEF n
    <3> QED BY <2>2, <3>2 DEF n
  <2>4. SameMembers(p, poset') /\ Sound(poset', jim_edit_depth)
    BY <1>1, <2>1, <2>2, <2>3, EditedSound
  <2>5. poset'.jims # poset.jims
    BY <1>2, <2>3, <2>4 DEF SameMembers
  <2> QED BY <1>6, <2>4, <2>5 DEF new_jim_state, KeepsOrder
<1>7. CASE new_jrm_state
  <2>1. PICK m \in Ids : m = poset.next /\ poset' = new_member(poset, m, FALSE)
    BY <1>7 DEF new_jrm_state, FreeId
  <2>2. Ordered(poset') /\ U(poset') = U(poset)
    BY <1>1, <2>1, MadeOrdered
  <2>3. jim_edit_depth' = jim_edit_depth /\ jim_edit_depth # 0
    BY <1>3, <1>7 DEF new_jrm_state
  <2> QED BY <1>1, <2>2, <2>3 DEF Sound, KeepsOrder
<1>8. ASSUME NEW other \in poset.members, NEW greatest \in BOOLEAN,
             new_jem_state(other, greatest)
      PROVE  Sound(poset', jim_edit_depth') /\ KeepsOrder(poset, poset')
  <2>1. /\ poset.jims # {} /\ jim_edit_depth' = jim_edit_depth
        /\ \E m \in Ids : /\ m = poset.next
                          /\ LET p == new_member(poset, m, FALSE) IN
                             poset' = IF greatest THEN link_greatest_jem(p, m, other)
                                                  ELSE link_least_jem(p, m, other)
    BY <1>8 DEF new_jem_state, FreeId, Careful
  <2>2. PICK m \in Ids : /\ m = poset.next
                         /\ LET p == new_member(poset, m, FALSE) IN
                            poset' = IF greatest THEN link_greatest_jem(p, m, other)
                                                 ELSE link_least_jem(p, m, other)
    BY <2>1
  <2>3. PICK p : p = new_member(poset, m, FALSE)
    OBVIOUS
  <2>4. /\ Ordered(p) /\ Free(p, m) /\ U(p) = U(poset)
        /\ p.members = poset.members \cup {m} /\ m \notin poset.members /\ p.jims = poset.jims
    BY <1>1, <2>2, <2>3, MadeOrdered
  <2>5. poset' = link_greatest_jem(p, m, other) \/ poset' = link_least_jem(p, m, other)
    BY <2>2, <2>3
  <2>6. m \in p.members \ Standard /\ other \in p.members /\ other # m
    BY <1>2, <2>4 DEF WellMade
  <2>7. JemPut(p, poset', m)
    BY <2>4, <2>5, <2>6, JemOrdered
  <2>8. ASSUME jim_edit_depth = 0 PROVE Linked(poset')
    <3>1. LinkedBut(p, m)
      BY <1>1, <2>1, <2>4, <2>8, OthersLinked
    <3> QED BY <2>7, <3>1 DEF JemPut
  <2>9. KeepsOrder(poset, poset')
    <3>1. \A x, y \in Ids : x # m /\ y # m =>
            (y \in Above(Ids, U(poset'), x) <=> y \in Above(Ids, U(poset), x))
      BY <2>4, <2>7 DEF JemPut, OrderOfOthers, OthersKept
    <3> QED BY <1>2, <2>4, <3>1 DEF KeepsOrder
  <2> QED BY <1>1, <2>1, <2>7, <2>8, <2>9 DEF Sound, JemPut
<1>9. ASSUME NEW u \in Proper, NEW l \in Proper, create_cover_link(u, l)
      PROVE  Sound(poset', jim_edit_depth') /\ KeepsOrder(poset, poset')
  <2>1. /\ poset' = new_link(poset, u, l) /\ jim_edit_depth' = jim_edit_depth
        /\ jim_edit_depth # 0 /\ ~le(poset, u, l) /\ ~le(poset, l, u)
    BY <1>3, <1>9 DEF create_cover_link
  <2>2. /\ u \in poset.members /\ l \in poset.members /\ u \in Ids /\ l \in Ids
        /\ l # TOP_INDEX /\ u # BOTTOM_INDEX
    BY <1>2, IdsAre DEF Proper
  <2>3. l \notin Above(Ids, U(poset), u) /\ u \notin U(poset)[l]
    BY <1>2, <2>1, <2>2, LeIs
  <2>4. Ordered(poset') /\ SameMembers(poset, poset')
    <3>1. Ordered(poset)
      BY <1>1
    <3>2. Ordered(new_link(poset, u, l)) /\ SameMembers(poset, new_link(poset, u, l))
      BY ONLY <2>2, <2>3, <3>1, LinkOrdered
    <3> QED BY <2>1, <3>2
  <2> QED BY <1>1, <2>1, <2>4 DEF Sound, KeepsOrder, SameMembers
<1>10. ASSUME NEW u \in Proper, NEW l \in Proper, delete_cover_link(u, l)
       PROVE  Sound(poset', jim_edit_depth') /\ KeepsOrder(poset, poset')
  <2>1. /\ poset' = delete_link(poset, u, l) /\ jim_edit_depth' = jim_edit_depth
        /\ jim_edit_depth # 0
    BY <1>3, <1>10 DEF delete_cover_link
  <2>2. u \in poset.members /\ l \in poset.members
    BY DEF Proper
  <2>3. Ordered(poset') /\ SameMembers(poset, poset')
    BY <1>1, <2>1, <2>2, DeleteLinkOrdered
  <2> QED BY <1>1, <2>1, <2>3 DEF Sound, KeepsOrder, SameMembers
<1>11. ASSUME NEW m \in Proper, NEW jem \in Proper, merge_jem(m, jem)
       PROVE  Sound(poset', jim_edit_depth') /\ KeepsOrder(poset, poset')
  <2>1. /\ poset' = merge_jems(poset, m, jem) /\ jim_edit_depth' = jim_edit_depth
        /\ m # jem /\ Separate(m, jem) /\ poset.lower[m] = {} /\ poset.lower[jem] = {}
    BY <1>11 DEF merge_jem, Careful, Separate, lower_is_equal, lower_is_empty
  <2>2. m \in poset.members \ Standard /\ jem \in poset.members \ Standard
    BY DEF Proper
  <2>3. Ordered(poset') /\ SameMembers(poset, poset')
    BY <1>1, <2>1, <2>2, MergeOrdered
  <2>4. jim_edit_depth # 0
    <3>1. ASSUME Linked(poset) PROVE FALSE
      <4>1. PICK x \in poset.members : m \in U(poset)[x]
        BY <2>2, <3>1 DEF Linked
      <4>2. x \in poset.lower[m]
        BY <1>1, <1>2, <2>2, <4>1, OrderedIs
      <4> QED BY <2>1, <4>2
    <3> QED BY <1>1, <3>1
  <2> QED BY <1>1, <2>1, <2>3, <2>4 DEF Sound, KeepsOrder, SameMembers
<1>12. ASSUME NEW m \in Proper, NEW auto \in BOOLEAN, delete_jim_state(m, auto)
       PROVE  Sound(poset', jim_edit_depth') /\ KeepsOrder(poset, poset')
  <2>1. PICK p : p = delete_state(poset, m, << >>)
    OBVIOUS
  <2>2. /\ is_jim(poset, m) /\ MayEdit(p, auto) /\ poset' = Edited(p, auto)
        /\ jim_edit_depth' = jim_edit_depth
    BY <1>12, <2>1 DEF delete_jim_state
  <2>3. m \in poset.members \ Standard
    BY DEF Proper
  <2>4. Ordered(p) /\ p.jims = poset.jims \ {m}
    BY <1>1, <2>1, <2>2, <2>3, JimDeleted
  <2>5. SameMembers(p, poset') /\ Sound(poset', jim_edit_depth)
    BY <1>1, <2>2, <2>4, EditedSound
  <2>6. poset'.jims # poset.jims
    BY <2>2, <2>4, <2>5 DEF SameMembers, is_jim
  <2> QED BY <2>2, <2>5, <2>6 DEF KeepsOrder
<1>13. ASSUME NEW m \in Proper, delete_jrm_state(m)
       PROVE  Sound(poset', jim_edit_depth') /\ KeepsOrder(poset, poset')
  <2>1. PICK lowers \in SetToSeqs(poset.lower[m]) : poset' = delete_state(poset, m, lowers)
    BY <1>13 DEF delete_jrm_state
  <2>2. ~is_jim(poset, m) /\ jim_edit_depth' = jim_edit_depth
    BY <1>13 DEF delete_jrm_state
  <2>3. m \in poset.members \ Standard
    BY DEF Proper
  <2>4. /\ Ordered(poset') /\ poset'.members = poset.members \ {m} /\ poset'.jims = poset.jims
        /\ OrderOfOthers(poset, poset', m) /\ (Linked(poset) => Linked(poset'))
    BY <1>1, <2>1, <2>2, <2>3, JrmDeleted
  <2>5. KeepsOrder(poset, poset')
    <3>1. \A x, y \in Ids : x # m /\ y # m =>
            (y \in Above(Ids, U(poset'), x) <=> y \in Above(Ids, U(poset), x))
      BY <2>4 DEF OrderOfOthers, OthersKept
    <3> QED BY <1>2, <2>4, <3>1 DEF KeepsOrder
  <2> QED BY <1>1, <2>2, <2>4, <2>5 DEF Sound
<1> QED BY <1>4, <1>5, <1>6, <1>7, <1>8, <1>9, <1>10, <1>11, <1>12, <1>13 DEF Next

-----------------------------------------------------------------------------
(***************************************************************************)
(* Whatever its clients create, link, merge and delete, the poset stays    *)
(* ordered, and linked outside the jim edit mode.                          *)
(***************************************************************************)
LEMMA AlwaysSound == ASSUME Careful PROVE Spec => []Sound(poset, jim_edit_depth)
<1>1. ASSUME Sound(poset, jim_edit_depth), [Next]_vars
      PROVE  Sound(poset, jim_edit_depth)'
  <2>1. CASE Next
    BY <1>1, <2>1, StepSound
  <2>2. CASE UNCHANGED vars
    <3>1. poset' = poset /\ jim_edit_depth' = jim_edit_depth
      BY <2>2 DEF vars
    <3> QED BY <1>1, <3>1
  <2> QED BY <1>1, <2>1, <2>2
<1> QED BY <1>1, InitSound, PTL DEF Spec

(***************************************************************************)
(* The poset is a poset: its members and jims are as declared, and the     *)
(* standard members are never deleted.                                     *)
(***************************************************************************)
THEOREM MembersTyped == ASSUME Careful PROVE Spec => []TypeOK
<1>1. Sound(poset, jim_edit_depth) => TypeOK
  BY DEF Sound, Ordered, WellMade, TypeOK
<1> QED BY <1>1, AlwaysSound, PTL

(***************************************************************************)
(* In an ordered poset the halves of the cover relation agree.             *)
(***************************************************************************)
LEMMA SoundMatches == ASSUME Sound(poset, jim_edit_depth) PROVE CoversMatch
<1>1. WellMade(poset)
  BY DEF Sound, Ordered
<1>2. ASSUME NEW a \in Ids, NEW b \in Ids
      PROVE  b \in poset.lower[a] <=> Contains(poset.upper[b], a)
  <2>1. PICK v \in Seq(Ids) : v = poset.upper[b] /\ U(poset)[b] = ToSet(v)
    BY <1>1, WellMadeIs
  <2>2. Contains(v, a) <=> a \in ToSet(v)
    BY SetOf
  <2> QED BY <1>1, <2>1, <2>2, WellMadeIs
<1>3. Matches(poset)
  BY <1>1 DEF WellMade
<1> QED BY <1>2, <1>3 DEF CoversMatch, LinksOnce, Matches

(***************************************************************************)
(* The two halves of the cover relation, which every operation changes by  *)
(* separate calls, agree.                                                  *)
(***************************************************************************)
THEOREM HalvesAgree == ASSUME Careful PROVE Spec => []CoversMatch
BY SoundMatches, AlwaysSound, PTL

(***************************************************************************)
(* No sequence of links, transfers of covers, deletions and repairs makes  *)
(* a cycle, on which le and the traversals would not return.               *)
(***************************************************************************)
THEOREM NeverACycle == ASSUME Careful PROVE Spec => []Acyclic
<1>1. ASSUME Sound(poset, jim_edit_depth) PROVE Acyclic
  <2>1. Ordered(poset) /\ WellMade(poset) /\ NoCycle(Ids, U(poset))
    BY <1>1, OrderedIs DEF Sound
  <2>2. ASSUME NEW a \in poset.members, NEW b \in poset.members, Contains(poset.upper[a], b)
        PROVE  ~le(poset, a, b)
    <3>1. a \in Ids /\ b \in Ids
      BY <2>1, OrderedIs
    <3>2. PICK v \in Seq(Ids) : v = poset.upper[a] /\ U(poset)[a] = ToSet(v)
      BY <2>1, <3>1, WellMadeIs
    <3>3. b \in U(poset)[a]
      BY <2>2, <3>2, SetOf
    <3>4. a \notin Above(Ids, U(poset), b)
      BY <2>1, <3>1, <3>3 DEF NoCycle
    <3> QED BY <2>1, <3>1, <3>4, LeIs
  <2> QED BY <2>2 DEF Acyclic
<1> QED BY <1>1, AlwaysSound, PTL

(***************************************************************************)
(* Outside the jim edit mode every member is between the bottom and the    *)
(* top: new_jem_state and the deletion of a jrm need no repair, and the    *)
(* one repair at the end of an edit is enough.                             *)
(***************************************************************************)
THEOREM AlwaysBounded == ASSUME Careful PROVE Spec => []Bounded
<1>1. ASSUME Sound(poset, jim_edit_depth) PROVE Bounded
  <2> SUFFICES ASSUME ~in_jim_edit_mode, NEW m \in Proper
               PROVE  le(poset, TOP_INDEX, m) /\ le(poset, m, BOTTOM_INDEX)
    BY DEF Bounded
  <2>1. Ordered(poset) /\ Linked(poset) /\ WellMade(poset)
    BY <1>1, EditDepthAssumption, OrderedIs DEF Sound, in_jim_edit_mode
  <2>2. m \in poset.members \ Standard /\ m \in Ids
    BY <2>1, OrderedIs DEF Proper
  <2>3. TOP_INDEX \in Above(Ids, U(poset), m) /\ m \in Above(Ids, U(poset), BOTTOM_INDEX)
    BY <2>1, <2>2, BetweenThem
  <2> QED BY <2>1, <2>2, <2>3, IdsAre, LeIs
<1> QED BY <1>1, AlwaysSound, PTL

(***************************************************************************)
(* The order of the members two posets have in common, as Up has it.       *)
(***************************************************************************)
LEMMA OrderIsKept ==
  ASSUME Ordered(poset), Ordered(poset'), KeepsOrder(poset, poset')
  PROVE  poset'.members # poset.members /\ poset'.jims = poset.jims =>
           LET common == poset.members \cap poset'.members IN
           \A m \in common : Up(poset', m) \cap common = Up(poset, m) \cap common
<1>1. PICK p, q : p = poset /\ q = poset'
  OBVIOUS
<1>2. /\ WellMade(p) /\ WellMade(q) /\ p.members \in SUBSET Ids
      /\ q.members # p.members /\ q.jims = p.jims =>
           \A x, y \in p.members \cap q.members :
             y \in Above(Ids, U(q), x) <=> y \in Above(Ids, U(p), x)
  BY <1>1, OrderedIs DEF KeepsOrder
<1>3. ASSUME q.members # p.members, q.jims = p.jims, NEW m \in p.members \cap q.members
      PROVE  Up(q, m) \cap (p.members \cap q.members) = Up(p, m) \cap (p.members \cap q.members)
  <2>1. Up(p, m) = Above(Ids, U(p), m) /\ Up(q, m) = Above(Ids, U(q), m)
    BY <1>2, UpIsAbove
  <2> QED BY <1>2, <1>3, <2>1
<1> QED BY <1>1, <1>3

(***************************************************************************)
(* Creating or deleting a jrm leaves the order of the other members as it  *)
(* is, whatever the order in which delete_state visits the covers.         *)
(***************************************************************************)
THEOREM JrmsKeepTheOrder == ASSUME Careful PROVE Spec => OrderKept
<1> DEFINE Kept == poset'.members # poset.members /\ poset'.jims = poset.jims =>
                     LET common == poset.members \cap poset'.members IN
                     \A m \in common : Up(poset', m) \cap common = Up(poset, m) \cap common
<1>1. ASSUME Sound(poset, jim_edit_depth), [Next]_vars PROVE [Kept]_vars
  <2> SUFFICES ASSUME Next PROVE Kept
    BY <1>1
  <2>1. Ordered(poset) /\ Ordered(poset') /\ KeepsOrder(poset, poset')
    BY <1>1, StepSound DEF Sound
  <2> QED BY <2>1, OrderIsKept
<1> HIDE DEF Kept
<1>2. Spec => [][Kept]_vars
  BY <1>1, AlwaysSound, PTL DEF Spec
<1> QED BY <1>2 DEF OrderKept, Kept
=============================================================================
