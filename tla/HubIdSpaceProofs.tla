-------------------------- MODULE HubIdSpaceProofs --------------------------
(***************************************************************************)
(* Proofs about the interval set, for every range of integers, and about   *)
(* the hub id space made of it, for any size of the reserved terms and any *)
(* number of ids and terms.  A client that allocates ids after it extended *)
(* a term is left out: what then goes wrong is shown by a run.             *)
(***************************************************************************)
EXTENDS HubIdSpace, Foundations

-----------------------------------------------------------------------------
(***************************************************************************)
(* The interval set, for every range of integers.                          *)
(***************************************************************************)

(***************************************************************************)
(* The invariant of an interval set with keys in lo..hi: nothing is in the *)
(* set before the first end, and after each end membership changes.        *)
(***************************************************************************)
Intervals(s, lo, hi) ==
  /\ s \in [DOMAIN s -> BOOLEAN]
  /\ DOMAIN s \subseteq lo..hi
  /\ ~contains_member(s, lo)
  /\ \A k \in DOMAIN s : contains_member(s, k + 1) = ~s[k]

(***************************************************************************)
(* lower_bound finds the first end that is not before x.                   *)
(***************************************************************************)
LEMMA LowerBoundExists ==
  ASSUME NEW s, DOMAIN s \in SUBSET Int, NEW x \in Int,
         NEW k \in DOMAIN s, x <= k
  PROVE  \E j \in DOMAIN s : IsLowerBound(s, j, x) /\ j <= k
<1> DEFINE S == {j \in DOMAIN s : j >= x}
<1>1. S \in SUBSET Int /\ S # {} /\ \A j \in S : x <= j
  OBVIOUS
<1>2. Min(S) \in S /\ \A j \in S : Min(S) <= j
  <2> HIDE DEF S
  <2> QED BY <1>1, MinOfInts
<1>3. IsLowerBound(s, Min(S), x) /\ Min(S) <= k
  BY <1>2 DEF IsLowerBound
<1> QED BY <1>2, <1>3

LEMMA LowerBoundTells ==
  ASSUME NEW s, DOMAIN s \in SUBSET Int, NEW x \in Int,
         NEW k, IsLowerBound(s, k, x)
  PROVE  contains_member(s, x) <=> s[k]
<1>1. ASSUME NEW j, IsLowerBound(s, j, x) PROVE j = k
  BY <1>1 DEF IsLowerBound
<1> QED BY <1>1 DEF contains_member, IsLowerBound

LEMMA EndTells ==
  ASSUME NEW s, DOMAIN s \in SUBSET Int, NEW k \in DOMAIN s
  PROVE  contains_member(s, k) <=> s[k]
<1>1. IsLowerBound(s, k, k)
  BY DEF IsLowerBound
<1> QED BY <1>1, LowerBoundTells

(***************************************************************************)
(* Membership is the same at x and at y when no end is in between, and     *)
(* nothing is in the set after the last end.                               *)
(***************************************************************************)
LEMMA SameWithin ==
  ASSUME NEW s, DOMAIN s \in SUBSET Int, NEW x \in Int, NEW y \in Int, x <= y,
         \A k \in DOMAIN s : ~(x <= k /\ k < y)
  PROVE  contains_member(s, x) <=> contains_member(s, y)
<1>1. ASSUME NEW k PROVE IsLowerBound(s, k, x) <=> IsLowerBound(s, k, y)
  BY DEF IsLowerBound
<1> QED BY <1>1 DEF contains_member

LEMMA NothingAfter ==
  ASSUME NEW s, DOMAIN s \in SUBSET Int, NEW x \in Int, \A k \in DOMAIN s : k < x
  PROVE  ~contains_member(s, x)
BY DEF contains_member, IsLowerBound

(***************************************************************************)
(* Two sets with the same ends from x on have the same members from x on.  *)
(***************************************************************************)
LEMMA SameEndsSameMembers ==
  ASSUME NEW s, NEW r, DOMAIN s \in SUBSET Int, DOMAIN r \in SUBSET Int, NEW x \in Int,
         \A k \in Int : k >= x => (k \in DOMAIN s <=> k \in DOMAIN r),
         \A k \in DOMAIN s : k >= x => r[k] = s[k]
  PROVE  contains_member(s, x) <=> contains_member(r, x)
<1>1. ASSUME NEW k PROVE IsLowerBound(s, k, x) <=> IsLowerBound(r, k, x)
  BY DEF IsLowerBound
<1>2. ASSUME NEW k, IsLowerBound(s, k, x)
      PROVE  k \in DOMAIN s /\ k \in DOMAIN r /\ s[k] = r[k]
  BY <1>2 DEF IsLowerBound
<1> QED BY <1>1, <1>2 DEF contains_member

(***************************************************************************)
(* The intervals of such a set alternate.                                  *)
(***************************************************************************)
LEMMA IntervalsAlternate ==
  ASSUME NEW s, NEW lo \in Int, NEW hi \in Int, Intervals(s, lo, hi)
  PROVE  Alternates(s)
<1> DEFINE D == DOMAIN s
<1>0. D \in SUBSET Int /\ (\A k \in D : lo <= k /\ k <= hi /\ s[k] \in BOOLEAN)
  BY DEF Intervals
<1>1. ASSUME ~is_empty(s) PROVE ~s[Min(D)] /\ s[Max(D)]
  <2>1. D # {}
    BY <1>1 DEF is_empty
  <2>2. Min(D) \in D /\ (\A k \in D : Min(D) <= k) /\ Max(D) \in D /\ (\A k \in D : k <= Max(D))
    BY <1>0, <2>1, MinOfInts, MaxOfInts
  <2>3. ~s[Min(D)]
    <3>1. IsLowerBound(s, Min(D), lo)
      BY <1>0, <2>2 DEF IsLowerBound
    <3> QED BY <1>0, <3>1, LowerBoundTells DEF Intervals
  <2>4. s[Max(D)]
    <3>1. ~contains_member(s, Max(D) + 1)
      BY <1>0, <2>2, NothingAfter
    <3> QED BY <1>0, <2>2, <3>1 DEF Intervals
  <2> QED BY <2>3, <2>4
<1>2. ASSUME NEW k \in D, NEW j \in D, k < j, \A i \in D : i <= k \/ i >= j
      PROVE  s[k] # s[j]
  <2>1. IsLowerBound(s, j, k + 1)
    BY <1>0, <1>2 DEF IsLowerBound
  <2>2. contains_member(s, k + 1) <=> s[j]
    BY <1>0, <2>1, LowerBoundTells
  <2> QED BY <1>0, <2>2 DEF Intervals
<1> QED BY <1>1, <1>2 DEF Alternates

(***************************************************************************)
(* What put_left and put_right do to the ends: b - 1 is an end exactly     *)
(* when the id before b is not what b..e becomes, e when the one after e   *)
(* is not.                                                                 *)
(***************************************************************************)
LEMMA PutLeft ==
  ASSUME NEW s, NEW lo \in Int, NEW hi \in Int, Intervals(s, lo, hi),
         NEW b \in Int, NEW v \in BOOLEAN
  PROVE  LET l == put_left(s, b, v) IN
         /\ DOMAIN l \in SUBSET Int
         /\ \A k \in Int \ {b - 1} : (k \in DOMAIN l <=> k \in DOMAIN s)
         /\ \A k \in DOMAIN l \ {b - 1} : l[k] = s[k]
         /\ b - 1 \in DOMAIN l <=> contains_member(s, b - 1) = ~v
         /\ b - 1 \in DOMAIN l => l[b - 1] = ~v
<1>0. DOMAIN s \in SUBSET Int /\ \A k \in DOMAIN s : s[k] \in BOOLEAN
  BY DEF Intervals
<1>1. CASE b - 1 \in DOMAIN s
  <2>1. contains_member(s, b - 1) <=> s[b - 1]
    BY <1>0, <1>1, EndTells
  <2>2. CASE s[b - 1] = v
    BY <1>0, <1>1, <2>1, <2>2 DEF put_left, Erase, Restrict
  <2>3. CASE s[b - 1] # v
    <3>1. put_left(s, b, v) = s
      BY <1>1, <2>3 DEF put_left
    <3>2. contains_member(s, b - 1) = ~v /\ s[b - 1] = ~v
      <4>1. contains_member(s, b - 1) \in BOOLEAN
        BY DEF contains_member
      <4> QED BY <1>0, <1>1, <2>1, <2>3, <4>1
    <3> QED BY <1>0, <1>1, <3>1, <3>2
  <2> QED BY <2>2, <2>3
<1>2. CASE b - 1 \notin DOMAIN s
  <2>1. contains_member(s, b - 1) <=> contains_member(s, b)
    <3>1. b - 1 \in Int /\ b - 1 <= b /\ \A k \in DOMAIN s : ~(b - 1 <= k /\ k < b)
      BY <1>0, <1>2
    <3> QED BY <1>0, <3>1, SameWithin
  <2>2. contains_member(s, b) \in BOOLEAN /\ contains_member(s, b - 1) \in BOOLEAN
    BY DEF contains_member
  <2>3. CASE contains_member(s, b) = v
    BY <1>0, <1>2, <2>1, <2>3 DEF put_left
  <2>4. CASE contains_member(s, b) # v
    <3>1. put_left(s, b, v) = Put(s, b - 1, ~v)
      BY <1>2, <2>4 DEF put_left
    <3>2. contains_member(s, b - 1) = ~v
      BY <2>1, <2>2, <2>4
    <3> QED BY <1>0, <1>2, <3>1, <3>2 DEF Put
  <2> QED BY <2>3, <2>4
<1> QED BY <1>1, <1>2

LEMMA PutRight ==
  ASSUME NEW s, NEW lo \in Int, NEW hi \in Int, Intervals(s, lo, hi),
         NEW e \in Int, NEW v \in BOOLEAN,
         NEW l, DOMAIN l \in SUBSET Int,
         \A k \in Int : k >= e => (k \in DOMAIN l <=> k \in DOMAIN s),
         \A k \in DOMAIN l : k >= e => l[k] = s[k]
  PROVE  LET r == put_right(l, e, v) IN
         /\ DOMAIN r \in SUBSET Int
         /\ \A k \in Int \ {e} : (k \in DOMAIN r <=> k \in DOMAIN l)
         /\ \A k \in DOMAIN r \ {e} : r[k] = l[k]
         /\ e \in DOMAIN r <=> contains_member(s, e + 1) = ~v
         /\ e \in DOMAIN r => r[e] = v
<1>0. /\ DOMAIN s \in SUBSET Int /\ \A k \in DOMAIN s : s[k] \in BOOLEAN
      /\ \A k \in DOMAIN s : contains_member(s, k + 1) = ~s[k]
  BY DEF Intervals
<1>1. contains_member(l, e) <=> contains_member(s, e)
  BY <1>0, SameEndsSameMembers
<1>2. /\ contains_member(l, e) \in BOOLEAN /\ contains_member(s, e) \in BOOLEAN
      /\ contains_member(s, e + 1) \in BOOLEAN
  BY DEF contains_member
<1>3. e \in DOMAIN s <=> e \in DOMAIN l
  OBVIOUS
<1>4. CASE e \in DOMAIN s
  <2>1. /\ contains_member(s, e) <=> s[e]
        /\ contains_member(s, e + 1) = ~s[e]
        /\ l[e] = s[e]
    BY <1>0, <1>3, <1>4, EndTells
  <2>2. CASE s[e] = v
    <3>1. put_right(l, e, v) = l
      BY <1>0, <1>1, <1>2, <1>4, <2>1, <2>2 DEF put_right
    <3> QED BY <1>3, <1>4, <2>1, <2>2, <3>1
  <2>3. CASE s[e] # v
    <3>1. put_right(l, e, v) = Erase(l, {e})
      BY <1>0, <1>1, <1>2, <1>3, <1>4, <2>1, <2>3 DEF put_right
    <3>2. contains_member(s, e + 1) = v
      BY <1>0, <1>4, <2>1, <2>3
    <3> QED BY <1>3, <1>4, <3>1, <3>2 DEF Erase, Restrict
  <2> QED BY <2>2, <2>3
<1>5. CASE e \notin DOMAIN s
  <2>1. contains_member(s, e) <=> contains_member(s, e + 1)
    <3>1. e + 1 \in Int /\ e <= e + 1 /\ \A k \in DOMAIN s : ~(e <= k /\ k < e + 1)
      BY <1>0, <1>5
    <3> QED BY <1>0, <3>1, SameWithin
  <2>2. CASE contains_member(s, e) = v
    <3>1. put_right(l, e, v) = l
      BY <1>1, <1>2, <2>2 DEF put_right
    <3> QED BY <1>2, <1>3, <1>5, <2>1, <2>2, <3>1
  <2>3. CASE contains_member(s, e) # v
    <3>1. put_right(l, e, v) = Put(l, e, v)
      BY <1>1, <1>2, <1>3, <1>5, <2>3 DEF put_right
    <3>2. contains_member(s, e + 1) = ~v
      BY <1>2, <2>1, <2>3
    <3> QED BY <1>3, <1>5, <3>1, <3>2 DEF Put
  <2> QED BY <2>2, <2>3
<1> QED BY <1>4, <1>5

(***************************************************************************)
(* The ends after b..e was put in the set or taken out.                    *)
(***************************************************************************)
EndsAfterPut(s, b, e, v, r) ==
  /\ DOMAIN r \in SUBSET Int
  /\ \A k \in Int : k < b - 1 \/ k > e => (k \in DOMAIN r <=> k \in DOMAIN s)
  /\ \A k \in DOMAIN r : k < b - 1 \/ k > e => r[k] = s[k]
  /\ \A k \in b..e - 1 : k \notin DOMAIN r
  /\ b - 1 \in DOMAIN r <=> contains_member(s, b - 1) = ~v
  /\ b - 1 \in DOMAIN r => r[b - 1] = ~v
  /\ e \in DOMAIN r <=> contains_member(s, e + 1) = ~v
  /\ e \in DOMAIN r => r[e] = v

LEMMA PutEnds ==
  ASSUME NEW s, NEW lo \in Int, NEW hi \in Int, Intervals(s, lo, hi),
         NEW b \in Int, NEW e \in Int, b <= e, NEW v \in BOOLEAN
  PROVE  EndsAfterPut(s, b, e, v, put_interval(s, b, e, v))
<1> DEFINE l == put_left(s, b, v)
           m == put_right(l, e, v)
           r == put_interval(s, b, e, v)
<1>1. /\ DOMAIN l \in SUBSET Int
      /\ \A k \in Int \ {b - 1} : (k \in DOMAIN l <=> k \in DOMAIN s)
      /\ \A k \in DOMAIN l \ {b - 1} : l[k] = s[k]
      /\ b - 1 \in DOMAIN l <=> contains_member(s, b - 1) = ~v
      /\ b - 1 \in DOMAIN l => l[b - 1] = ~v
  BY PutLeft
<1>2. /\ DOMAIN m \in SUBSET Int
      /\ \A k \in Int \ {e} : (k \in DOMAIN m <=> k \in DOMAIN l)
      /\ \A k \in DOMAIN m \ {e} : m[k] = l[k]
      /\ e \in DOMAIN m <=> contains_member(s, e + 1) = ~v
      /\ e \in DOMAIN m => m[e] = v
  <2> HIDE DEF l
  <2>1. /\ \A k \in Int : k >= e => (k \in DOMAIN l <=> k \in DOMAIN s)
        /\ \A k \in DOMAIN l : k >= e => l[k] = s[k]
    BY <1>1
  <2> QED BY <1>1, <2>1, PutRight
<1>3. r = [k \in DOMAIN m \ (b..e - 1) |-> m[k]]
  BY DEF put_interval, Erase, Restrict
<1> HIDE DEF l, m, r
<1>4. DOMAIN r = DOMAIN m \ (b..e - 1) /\ \A k \in DOMAIN r : r[k] = m[k]
  BY <1>3
<1>5. /\ \A k \in Int : k < b - 1 \/ k > e => (k \in DOMAIN r <=> k \in DOMAIN s)
      /\ \A k \in DOMAIN r : k < b - 1 \/ k > e => r[k] = s[k]
  BY <1>1, <1>2, <1>4
<1>6. /\ b - 1 \in DOMAIN r <=> contains_member(s, b - 1) = ~v
      /\ b - 1 \in DOMAIN r => r[b - 1] = ~v
  BY <1>1, <1>2, <1>4
<1>7. /\ e \in DOMAIN r <=> contains_member(s, e + 1) = ~v
      /\ e \in DOMAIN r => r[e] = v
  BY <1>2, <1>4
<1>8. DOMAIN r \in SUBSET Int /\ \A k \in b..e - 1 : k \notin DOMAIN r
  BY <1>2, <1>4
<1> QED BY <1>5, <1>6, <1>7, <1>8 DEF r, EndsAfterPut

(***************************************************************************)
(* Put changes the membership of b..e and of nothing else, and the set is  *)
(* again one of intervals that alternate.                                  *)
(***************************************************************************)
THEOREM PutMembers ==
  ASSUME NEW s, NEW lo \in Int, NEW hi \in Int, Intervals(s, lo, hi),
         NEW b \in Int, NEW e \in Int, b <= e, NEW v \in BOOLEAN, NEW x \in Int
  PROVE  contains_member(put_interval(s, b, e, v), x) =
           IF x \in b..e THEN v ELSE contains_member(s, x)
<1> DEFINE r == put_interval(s, b, e, v)
<1>0. DOMAIN s \in SUBSET Int /\ (\A k \in DOMAIN s : s[k] \in BOOLEAN)
  BY DEF Intervals
<1>1. /\ DOMAIN r \in SUBSET Int
      /\ \A k \in Int : k < b - 1 \/ k > e => (k \in DOMAIN r <=> k \in DOMAIN s)
      /\ \A k \in DOMAIN r : k < b - 1 \/ k > e => r[k] = s[k]
      /\ \A k \in b..e - 1 : k \notin DOMAIN r
      /\ b - 1 \in DOMAIN r <=> contains_member(s, b - 1) = ~v
      /\ b - 1 \in DOMAIN r => r[b - 1] = ~v
      /\ e \in DOMAIN r <=> contains_member(s, e + 1) = ~v
      /\ e \in DOMAIN r => r[e] = v
  <2> HIDE DEF r
  <2>1. EndsAfterPut(s, b, e, v, r)
    BY PutEnds DEF r
  <2> QED BY <2>1 DEF EndsAfterPut
<1>2. \A y : contains_member(s, y) \in BOOLEAN /\ contains_member(r, y) \in BOOLEAN
  BY DEF contains_member
<1> HIDE DEF r
<1>3. ASSUME NEW y \in Int, y > e PROVE contains_member(r, y) = contains_member(s, y)
  <2>1. /\ \A k \in Int : k >= y => (k \in DOMAIN s <=> k \in DOMAIN r)
        /\ \A k \in DOMAIN s : k >= y => r[k] = s[k]
    BY <1>0, <1>1, <1>3
  <2> QED BY <1>0, <1>1, <1>2, <2>1, SameEndsSameMembers
<1>4. ASSUME NEW y \in b..e PROVE contains_member(r, y) = v
  <2>1. contains_member(r, e) = v
    <3>1. CASE e \in DOMAIN r
      BY <1>1, <1>2, <3>1, EndTells
    <3>2. CASE e \notin DOMAIN r
      <4>1. e + 1 \in Int /\ e <= e + 1 /\ \A k \in DOMAIN r : ~(e <= k /\ k < e + 1)
        BY <1>1, <3>2
      <4>2. contains_member(r, e) <=> contains_member(r, e + 1)
        BY <1>1, <4>1, SameWithin
      <4>3. contains_member(r, e + 1) = contains_member(s, e + 1)
        BY <1>3
      <4>4. contains_member(s, e + 1) = v
        BY <1>1, <1>2, <3>2
      <4> QED BY <1>2, <4>2, <4>3, <4>4
    <3> QED BY <3>1, <3>2
  <2>2. \A k \in DOMAIN r : ~(y <= k /\ k < e)
    BY <1>1
  <2>3. contains_member(r, y) <=> contains_member(r, e)
    BY <1>1, <2>2, SameWithin
  <2> QED BY <1>2, <2>1, <2>3
<1>5. contains_member(r, b - 1) = contains_member(s, b - 1)
  <2>1. CASE b - 1 \in DOMAIN r
    BY <1>1, <1>2, <2>1, EndTells
  <2>2. CASE b - 1 \notin DOMAIN r
    <3>1. b - 1 \in Int /\ b - 1 <= b /\ \A k \in DOMAIN r : ~(b - 1 <= k /\ k < b)
      BY <1>1, <2>2
    <3>2. contains_member(r, b - 1) <=> contains_member(r, b)
      BY <1>1, <3>1, SameWithin
    <3>3. contains_member(r, b) = v
      BY <1>4
    <3>4. contains_member(s, b - 1) = v
      BY <1>1, <1>2, <2>2
    <3> QED BY <1>2, <3>2, <3>3, <3>4
  <2> QED BY <2>1, <2>2
<1>6. ASSUME NEW y \in Int, y < b - 1 PROVE contains_member(r, y) = contains_member(s, y)
  <2>1. CASE \E k \in DOMAIN s : y <= k /\ k < b - 1
    <3>1. PICK k \in DOMAIN s : IsLowerBound(s, k, y) /\ k < b - 1
      BY <1>0, <2>1, LowerBoundExists
    <3>2. IsLowerBound(r, k, y) /\ r[k] = s[k]
      <4>1. k \in Int /\ k >= y /\ \A j \in DOMAIN s : j >= y => j >= k
        BY <1>0, <3>1 DEF IsLowerBound
      <4>2. k \in DOMAIN r /\ r[k] = s[k]
        BY <1>1, <3>1, <4>1
      <4>3. \A j \in DOMAIN r : j >= y => j >= k
        BY <1>1, <3>1, <4>1
      <4> QED BY <4>1, <4>2, <4>3 DEF IsLowerBound
    <3>3. contains_member(s, y) <=> s[k]
      BY <1>0, <3>1, LowerBoundTells
    <3>4. contains_member(r, y) <=> r[k]
      BY <1>1, <3>2, LowerBoundTells
    <3> QED BY <1>0, <1>2, <3>2, <3>3, <3>4
  <2>2. CASE ~\E k \in DOMAIN s : y <= k /\ k < b - 1
    <3>1. contains_member(s, y) <=> contains_member(s, b - 1)
      BY <1>0, <1>6, <2>2, SameWithin
    <3>2. \A k \in DOMAIN r : ~(y <= k /\ k < b - 1)
      BY <1>1, <2>2
    <3>3. contains_member(r, y) <=> contains_member(r, b - 1)
      BY <1>1, <1>6, <3>2, SameWithin
    <3> QED BY <1>2, <1>5, <3>1, <3>3
  <2> QED BY <2>1, <2>2
<1>7. CASE x \in b..e
  BY <1>4, <1>7 DEF r
<1>8. CASE x > e
  BY <1>3, <1>8 DEF r
<1>9. CASE x < b
  <2>1. x = b - 1 \/ x < b - 1
    BY <1>9
  <2>2. contains_member(r, x) = contains_member(s, x)
    BY <1>5, <1>6, <2>1
  <2> QED BY <1>9, <2>2 DEF r
<1> QED BY <1>7, <1>8, <1>9

LEMMA InsertMembers ==
  ASSUME NEW s, NEW lo \in Int, NEW hi \in Int, Intervals(s, lo, hi),
         NEW b \in Int, NEW e \in Int, b <= e, NEW x \in Int
  PROVE  contains_member(insert_interval(s, b, e), x) <=> x \in b..e \/ contains_member(s, x)
<1>1. ASSUME NEW v \in BOOLEAN, v
      PROVE  contains_member(put_interval(s, b, e, v), x) <=> x \in b..e \/ contains_member(s, x)
  <2>1. contains_member(put_interval(s, b, e, v), x) =
          IF x \in b..e THEN v ELSE contains_member(s, x)
    BY PutMembers
  <2>2. CASE x \in b..e
    BY <1>1, <2>1, <2>2
  <2>3. CASE x \notin b..e
    BY <2>1, <2>3
  <2> QED BY <2>2, <2>3
<1> QED BY <1>1 DEF insert_interval

LEMMA RemoveMembers ==
  ASSUME NEW s, NEW lo \in Int, NEW hi \in Int, Intervals(s, lo, hi),
         NEW b \in Int, NEW e \in Int, b <= e, NEW x \in Int
  PROVE  contains_member(remove_interval(s, b, e), x) <=> x \notin b..e /\ contains_member(s, x)
<1>1. ASSUME NEW v \in BOOLEAN, ~v
      PROVE  contains_member(put_interval(s, b, e, v), x) <=> x \notin b..e /\ contains_member(s, x)
  <2>1. contains_member(put_interval(s, b, e, v), x) =
          IF x \in b..e THEN v ELSE contains_member(s, x)
    BY PutMembers
  <2>2. CASE x \in b..e
    BY <1>1, <2>1, <2>2
  <2>3. CASE x \notin b..e
    BY <2>1, <2>3
  <2> QED BY <2>2, <2>3
<1> QED BY <1>1 DEF remove_interval

THEOREM PutIntervals ==
  ASSUME NEW s, NEW lo \in Int, NEW hi \in Int, Intervals(s, lo, hi),
         NEW b \in Int, NEW e \in Int, lo < b, b <= e, e <= hi, NEW v \in BOOLEAN
  PROVE  Intervals(put_interval(s, b, e, v), lo, hi)
<1> DEFINE r == put_interval(s, b, e, v)
<1>0. /\ DOMAIN s \subseteq lo..hi
      /\ \A k \in DOMAIN s : s[k] \in BOOLEAN /\ contains_member(s, k + 1) = ~s[k]
      /\ ~contains_member(s, lo)
  BY DEF Intervals
<1>1. /\ DOMAIN r \in SUBSET Int
      /\ \A k \in Int : k < b - 1 \/ k > e => (k \in DOMAIN r <=> k \in DOMAIN s)
      /\ \A k \in DOMAIN r : k < b - 1 \/ k > e => r[k] = s[k]
      /\ \A k \in b..e - 1 : k \notin DOMAIN r
      /\ b - 1 \in DOMAIN r <=> contains_member(s, b - 1) = ~v
      /\ b - 1 \in DOMAIN r => r[b - 1] = ~v
      /\ e \in DOMAIN r <=> contains_member(s, e + 1) = ~v
      /\ e \in DOMAIN r => r[e] = v
  <2> HIDE DEF r
  <2>1. EndsAfterPut(s, b, e, v, r)
    BY PutEnds DEF r
  <2> QED BY <2>1 DEF EndsAfterPut
<1>2. \A x \in Int : contains_member(r, x) = IF x \in b..e THEN v ELSE contains_member(s, x)
  BY PutMembers
<1>9. r = [k \in DOMAIN r |-> r[k]]
  BY DEF put_interval, Erase, Restrict
<1>3. \A y : contains_member(s, y) \in BOOLEAN /\ contains_member(r, y) \in BOOLEAN
  BY DEF contains_member
<1> HIDE DEF r
<1>4. ASSUME NEW k \in DOMAIN r
      PROVE  k \in lo..hi /\ r[k] \in BOOLEAN /\ contains_member(r, k + 1) = ~r[k]
  <2>1. k \in Int /\ (k < b - 1 \/ k = b - 1 \/ k = e \/ k > e)
    BY <1>1
  <2>2. CASE k < b - 1 \/ k > e
    <3>1. k \in DOMAIN s /\ r[k] = s[k] /\ k + 1 \in Int /\ k + 1 \notin b..e
      BY <1>1, <2>1, <2>2
    <3> QED BY <1>0, <1>2, <3>1
  <2>3. CASE k = b - 1
    <3>1. r[k] = ~v /\ k \in lo..hi
      BY <1>1, <2>3
    <3>2. contains_member(r, k + 1) = v
      BY <1>2, <2>3
    <3> QED BY <3>1, <3>2
  <2>4. CASE k = e
    <3>1. r[k] = v /\ contains_member(s, k + 1) = ~v /\ k \in lo..hi
      BY <1>1, <2>4
    <3>2. contains_member(r, k + 1) = contains_member(s, k + 1)
      BY <1>2, <2>4
    <3> QED BY <3>1, <3>2
  <2> QED BY <2>1, <2>2, <2>3, <2>4
<1>5. ~contains_member(r, lo)
  BY <1>0, <1>2
<1>6. r \in [DOMAIN r -> BOOLEAN]
  BY <1>4, <1>9
<1>7. DOMAIN r \subseteq lo..hi
  BY <1>4
<1>8. Intervals(r, lo, hi)
  BY <1>4, <1>5, <1>6, <1>7 DEF Intervals
<1> QED BY <1>8 DEF r

(***************************************************************************)
(* The first and the last member.                                          *)
(***************************************************************************)
THEOREM MemberExtrema ==
  ASSUME NEW s, NEW lo \in Int, NEW hi \in Int, Intervals(s, lo, hi),
         NEW S, S # {}, S \subseteq lo..hi,
         \A x \in lo..hi : contains_member(s, x) <=> x \in S
  PROVE  first_member(s) = Min(S) /\ last_member(s) = Max(S)
<1> DEFINE D == DOMAIN s
<1>0. /\ D \in SUBSET Int /\ (\A k \in D : lo <= k /\ k <= hi)
      /\ \A k \in D : s[k] \in BOOLEAN /\ contains_member(s, k + 1) = ~s[k]
      /\ ~contains_member(s, lo)
  BY DEF Intervals
<1>1. D # {}
  BY DEF contains_member
<1> DEFINE m == Min(D)
           M == Max(D)
<1>2. m \in D /\ (\A k \in D : m <= k) /\ M \in D /\ (\A k \in D : k <= M)
  BY <1>0, <1>1, MinOfInts, MaxOfInts
<1>3. Alternates(s)
  BY IntervalsAlternate
<1>4. ~s[m] /\ s[M]
  BY <1>1, <1>3 DEF Alternates, is_empty
<1>5. S \in SUBSET Int /\ (\A x \in S : lo <= x /\ x <= hi)
  OBVIOUS
<1> HIDE DEF m, M
<1>7. m + 1 \in S
  <2>1. contains_member(s, m + 1)
    BY <1>0, <1>2, <1>4
  <2>2. PICK k \in D : k >= m + 1
    BY <2>1 DEF contains_member, IsLowerBound
  <2>3. m + 1 \in lo..hi
    BY <1>0, <1>2, <2>2
  <2> QED BY <2>1, <2>3
<1>8. \A x \in S : m + 1 <= x
  <2>1. ASSUME NEW x \in S, x <= m PROVE FALSE
    <3>1. IsLowerBound(s, m, x)
      BY <1>0, <1>2, <2>1, <1>5 DEF IsLowerBound
    <3>2. contains_member(s, x) <=> s[m]
      BY <1>0, <3>1, <1>5, LowerBoundTells
    <3> QED BY <1>4, <3>2
  <2> QED BY <2>1, <1>5, <1>0, <1>2
<1>9. M \in S
  <2>1. contains_member(s, M)
    BY <1>0, <1>2, <1>4, EndTells
  <2> QED BY <1>0, <1>2, <2>1
<1>10. \A x \in S : x <= M
  <2>1. ASSUME NEW x \in S, M < x PROVE FALSE
    <3>1. \A k \in D : k < x
      BY <1>0, <1>2, <1>5, <2>1
    <3>2. ~contains_member(s, x)
      BY <1>0, <1>5, <3>1, NothingAfter
    <3> QED BY <3>2
  <2> QED BY <2>1, <1>5, <1>0, <1>2
<1>11. m + 1 = Min(S)
  BY <1>5, <1>7, <1>8, MinIs
<1>12. M = Max(S)
  BY <1>5, <1>9, <1>10, MaxIs
<1> QED BY <1>11, <1>12 DEF first_member, last_member, m, M

(***************************************************************************)
(* member_ct counts the members in b..e.                                   *)
(***************************************************************************)
THEOREM MemberCount ==
  ASSUME NEW s, NEW lo \in Int, NEW hi \in Int, Intervals(s, lo, hi),
         NEW b \in Int, NEW e \in Int
  PROVE  member_ct(s, b, e) = Cardinality({x \in b..e : contains_member(s, x)})
<1> DEFINE D == DOMAIN s
           before(k) == {b} \cup {j + 1 : j \in {j \in D : j < k}}
           since(k) == Max(before(k))
           until(k) == Min({k, e})
           K == {k \in D : s[k] /\ since(k) <= until(k)}
           c(T) == CHOOSE x \in T : TRUE
           Sum(h) == h = [T \in SUBSET K |->
                            IF T = {} THEN 0
                            ELSE (until(c(T)) - since(c(T)) + 1) + h[T \ {c(T)}]]
           In(T) == {x \in b..e : \E k \in T : IsLowerBound(s, k, x)}
           g == [T \in SUBSET K |-> Cardinality(In(T))]
<1>0. D \in SUBSET Int /\ D \subseteq lo..hi /\ (\A k \in D : lo <= k /\ k <= hi)
  BY DEF Intervals
<1>1. member_ct(s, b, e) = (CHOOSE h : Sum(h))[K]
  BY DEF member_ct, MapThenSumSet, MapThenFoldSet
<1>2. ASSUME NEW k \in D
      PROVE  /\ since(k) \in Int /\ until(k) \in Int
             /\ since(k)..until(k) = {x \in b..e : IsLowerBound(s, k, x)}
  <2>1. /\ before(k) \in SUBSET Int /\ before(k) # {}
        /\ \A x \in before(k) : x <= IF b <= k THEN k ELSE b
        /\ IF b <= k THEN k \in Int ELSE b \in Int
    BY <1>0
  <2>2. since(k) \in before(k) /\ (\A x \in before(k) : x <= since(k))
    <3> HIDE DEF before
    <3>1. CASE b <= k
      BY <1>0, <2>1, <3>1, MaxOfInts
    <3>2. CASE ~(b <= k)
      BY <1>0, <2>1, <3>2, MaxOfInts
    <3> QED BY <3>1, <3>2
  <2>3. since(k) \in Int
    BY <2>1, <2>2
  <2>4. b <= since(k) /\ (\A j \in D : j < k => j + 1 <= since(k))
    <3>1. b \in before(k) /\ \A j \in D : j < k => j + 1 \in before(k)
      OBVIOUS
    <3> HIDE DEF since, before
    <3> QED BY <2>2, <3>1
  <2>5. since(k) = b \/ \E j \in D : j < k /\ since(k) = j + 1
    <3> HIDE DEF since
    <3> QED BY <2>2
  <2>6. until(k) = IF k <= e THEN k ELSE e
    <3>1. {k, e} \in SUBSET Int /\ k \in {k, e} /\ e \in {k, e} /\ k \in Int
      BY <1>0
    <3>2. CASE k <= e
      <4>1. \A x \in {k, e} : k <= x
        BY <3>1, <3>2
      <4> QED BY <3>1, <3>2, <4>1, MinIs
    <3>3. CASE ~(k <= e)
      <4>1. \A x \in {k, e} : e <= x
        BY <3>1, <3>3
      <4> QED BY <3>1, <3>3, <4>1, MinIs
    <3> QED BY <3>2, <3>3
  <2> HIDE DEF since, until
  <2>7. ASSUME NEW x \in Int
        PROVE  since(k) <= x /\ x <= until(k) <=> b <= x /\ x <= e /\ IsLowerBound(s, k, x)
    <3>1. IsLowerBound(s, k, x) <=> x <= k /\ \A j \in D : j < k => j < x
      BY <1>0 DEF IsLowerBound
    <3>2. since(k) <= x <=> b <= x /\ \A j \in D : j < k => j < x
      BY <1>0, <2>3, <2>4, <2>5
    <3>3. x <= until(k) <=> x <= k /\ x <= e
      BY <1>0, <2>6
    <3> QED BY <3>1, <3>2, <3>3
  <2>8. until(k) \in Int
    BY <1>0, <2>6
  <2> QED BY <2>3, <2>7, <2>8
<1>3. \A T \in SUBSET K : IsFiniteSet(In(T)) /\ Cardinality(In(T)) \in Nat
  <2> SUFFICES ASSUME NEW T \in SUBSET K
               PROVE  IsFiniteSet(In(T)) /\ Cardinality(In(T)) \in Nat
    OBVIOUS
  <2>1. IsFiniteSet(b..e) /\ In(T) \in SUBSET (b..e)
    BY FS_Interval
  <2> HIDE DEF In
  <2> QED BY <2>1, FS_Subset, FS_CardinalityType
<1>4. ASSUME NEW T \in SUBSET K, T # {}
      PROVE  /\ c(T) \in T /\ T \ {c(T)} \in SUBSET K
             /\ g[T] = (until(c(T)) - since(c(T)) + 1) + g[T \ {c(T)}]
  <2>1. c(T) \in T /\ T \ {c(T)} \in SUBSET K
    BY <1>4
  <2> DEFINE k == c(T)
             U == T \ {k}
             R == since(k)..until(k)
  <2>2. k \in D /\ since(k) <= until(k)
    BY <2>1
  <2>3. R = {x \in b..e : IsLowerBound(s, k, x)} /\ since(k) \in Int /\ until(k) \in Int
    BY <1>2, <2>2
  <2>4. In(T) = In(U) \cup R /\ In(U) \cap R = {}
    <3> HIDE DEF c, since, until, K
    <3>1. In(T) = In(U) \cup {x \in b..e : IsLowerBound(s, k, x)}
      BY <2>1
    <3>2. In(U) \cap {x \in b..e : IsLowerBound(s, k, x)} = {}
      <4>1. \A x \in b..e : \A j : IsLowerBound(s, k, x) /\ IsLowerBound(s, j, x) => j = k
        BY <1>0 DEF IsLowerBound
      <4> QED BY <4>1
    <3> QED BY <2>3, <3>1, <3>2
  <2>5. IsFiniteSet(R) /\ Cardinality(R) = until(k) - since(k) + 1
    <3> HIDE DEF since, until, c
    <3> QED BY <2>2, <2>3, FS_Interval
  <2>6. Cardinality(In(T)) = Cardinality(In(U)) + Cardinality(R)
    <3>1. IsFiniteSet(In(U)) /\ Cardinality(In(U)) \in Nat
      BY <1>3, <2>1
    <3> HIDE DEF In, U, R, k, c, since, until, K
    <3>2. Cardinality(In(U) \cup R) = Cardinality(In(U)) + Cardinality(R) - Cardinality(In(U) \cap R)
      BY <2>5, <3>1, FS_Union
    <3>3. Cardinality(In(U) \cap R) = 0
      BY <2>4, FS_EmptySet
    <3>4. Cardinality(R) \in Nat
      BY <2>5, FS_CardinalityType
    <3> QED BY <2>4, <3>1, <3>2, <3>3, <3>4
  <2>7. g[T] = Cardinality(In(T)) /\ g[U] = Cardinality(In(U)) /\ Cardinality(In(U)) \in Nat
    BY <1>3, <2>1
  <2> HIDE DEF g, In, K, since, until, c
  <2>8. g[T] = (until(k) - since(k) + 1) + g[U]
    BY <2>3, <2>5, <2>6, <2>7
  <2> QED BY <2>1, <2>8
<1>5. g[{}] = 0
  <2>1. In({}) = {}
    OBVIOUS
  <2> HIDE DEF In
  <2> QED BY <2>1, FS_EmptySet
<1>6. Sum(g)
  <2>1. \A T \in SUBSET K : g[T] = IF T = {} THEN 0
                                    ELSE (until(c(T)) - since(c(T)) + 1) + g[T \ {c(T)}]
    BY <1>4, <1>5
  <2>2. g = [T \in SUBSET K |-> g[T]]
    OBVIOUS
  <2> HIDE DEF g, K, c, since, until
  <2> QED BY <2>1, <2>2
<1>7. ASSUME NEW h, Sum(h) PROVE \A T \in SUBSET K : h[T] = g[T]
  <2> DEFINE Bad == {T \in SUBSET K : h[T] # g[T]}
             Less == StrictSubsetOrdering(K)
  <2>1. SUFFICES ASSUME Bad # {} PROVE FALSE
    OBVIOUS
  <2>2. IsFiniteSet(K)
    <3>1. K \in SUBSET (lo..hi) /\ IsFiniteSet(lo..hi)
      BY <1>0, FS_Interval
    <3> HIDE DEF K
    <3> QED BY <3>1, FS_Subset
  <2> HIDE DEF K, g, c, since, until
  <2>3. Bad \subseteq FiniteSubsetsOf(K)
    BY <2>2, FS_FiniteSubsetsOfFinite
  <2>4. PICK T \in Bad : \A U \in Bad : ~(<<U, T>> \in Less)
    <3>1. IsWellFoundedOn(Less, FiniteSubsetsOf(K))
      BY FS_StrictSubsetOrderingWellFounded
    <3> HIDE DEF Bad, Less
    <3> QED BY <2>1, <2>3, <3>1, WFMin
  <2>5. CASE T = {}
    BY <1>5, <1>7, <2>5
  <2>6. CASE T # {}
    <3>1. c(T) \in T /\ T \ {c(T)} \in SUBSET K
      BY <1>4, <2>6
    <3>2. <<T \ {c(T)}, T>> \in Less
      BY <3>1 DEF StrictSubsetOrdering
    <3>3. h[T \ {c(T)}] = g[T \ {c(T)}]
      <4> HIDE DEF Less
      <4> QED BY <2>4, <3>1, <3>2
    <3>4. h[T] = (until(c(T)) - since(c(T)) + 1) + h[T \ {c(T)}]
      BY <1>7, <2>6
    <3>5. g[T] = (until(c(T)) - since(c(T)) + 1) + g[T \ {c(T)}]
      BY <1>4, <2>6
    <3> QED BY <3>3, <3>4, <3>5
  <2> QED BY <2>5, <2>6
<1>8. (CHOOSE h : Sum(h))[K] = g[K]
  <2> HIDE DEF K, g, c, since, until
  <2> DEFINE h == CHOOSE h : Sum(h)
  <2>1. Sum(h)
    <3> HIDE DEF Sum
    <3> QED BY <1>6
  <2> HIDE DEF h, Sum
  <2>2. h[K] = g[K]
    BY <1>7, <2>1
  <2> QED BY <2>2 DEF h
<1>9. In(K) = {x \in b..e : contains_member(s, x)}
  <2>1. ASSUME NEW x \in b..e, NEW k, IsLowerBound(s, k, x), s[k] PROVE k \in K
    <3>1. k \in D
      BY <2>1 DEF IsLowerBound
    <3>2. x \in since(k)..until(k) /\ since(k) \in Int /\ until(k) \in Int
      BY <1>2, <2>1, <3>1
    <3>3. since(k) <= until(k)
      <4> HIDE DEF since, until
      <4> QED BY <3>2
    <3> QED BY <2>1, <3>1, <3>3
  <2>2. \A k \in K : k \in D /\ s[k]
    OBVIOUS
  <2> HIDE DEF K
  <2> QED BY <2>1, <2>2 DEF contains_member
<1>10. g[K] = Cardinality(In(K))
  OBVIOUS
<1> HIDE DEF K, g, In, Sum
<1> QED BY <1>1, <1>8, <1>9, <1>10

-----------------------------------------------------------------------------
(***************************************************************************)
(* The hub id space.                                                       *)
(***************************************************************************)
\* The clients these proofs are about.
NothingAfterExtending == "goes_on_after_extending" \notin Practices

(***************************************************************************)
(* The interval set m shows the ids in I.                                  *)
(***************************************************************************)
Shows(m, I) ==
  /\ Intervals(m, -1, MaxId)
  /\ I \subseteq Ids
  /\ \A x \in Ids : contains_member(m, x) <=> x \in I

LEMMA ShowsInserted ==
  ASSUME NEW m, NEW I, Shows(m, I), NEW b \in Int, NEW e \in Int, 0 <= b, b <= e, e <= MaxId
  PROVE  Shows(insert_interval(m, b, e), I \cup b..e)
<1>1. MaxId \in Int /\ -1 \in Int /\ -1 < b
  BY SizesAssumption
<1>2. Intervals(insert_interval(m, b, e), -1, MaxId)
  BY <1>1, PutIntervals DEF Shows, insert_interval
<1>3. ASSUME NEW x \in Int
      PROVE  contains_member(insert_interval(m, b, e), x) <=> x \in b..e \/ contains_member(m, x)
  BY <1>1, InsertMembers DEF Shows
<1>4. I \cup b..e \subseteq Ids
  BY <1>1 DEF Shows, Ids
<1> QED BY <1>1, <1>2, <1>3, <1>4 DEF Shows, Ids

LEMMA ShowsRemoved ==
  ASSUME NEW m, NEW I, Shows(m, I), NEW b \in Int, NEW e \in Int, 0 <= b, b <= e, e <= MaxId
  PROVE  Shows(remove_interval(m, b, e), I \ b..e)
<1>1. MaxId \in Int /\ -1 \in Int /\ -1 < b
  BY SizesAssumption
<1>2. Intervals(remove_interval(m, b, e), -1, MaxId)
  BY <1>1, PutIntervals DEF Shows, remove_interval
<1>3. ASSUME NEW x \in Int
      PROVE  contains_member(remove_interval(m, b, e), x) <=> x \notin b..e /\ contains_member(m, x)
  BY <1>1, RemoveMembers DEF Shows
<1> QED BY <1>1, <1>2, <1>3 DEF Shows, Ids

LEMMA ShownExtrema ==
  ASSUME NEW m, NEW I, Shows(m, I), I # {}
  PROVE  first_member(m) = Min(I) /\ last_member(m) = Max(I)
<1>1. MaxId \in Int /\ -1 \in Int
  BY SizesAssumption
<1>2. I \subseteq -1..MaxId
  BY <1>1 DEF Shows, Ids
<1>3. \A x \in -1..MaxId : contains_member(m, x) <=> x \in I
  <2>1. ~contains_member(m, -1) /\ -1 \notin I
    BY DEF Shows, Intervals, Ids
  <2>2. \A x \in -1..MaxId : x = -1 \/ x \in Ids
    BY <1>1 DEF Ids
  <2> QED BY <2>1, <2>2 DEF Shows
<1> QED BY <1>1, <1>2, <1>3, MemberExtrema DEF Shows

LEMMA ShownCount ==
  ASSUME NEW m, NEW I, Shows(m, I), NEW b \in Int, NEW e \in Int, 0 <= b, e <= MaxId
  PROVE  member_ct(m, b, e) = Cardinality(I \cap b..e)
<1>1. MaxId \in Int /\ -1 \in Int
  BY SizesAssumption
<1>2. member_ct(m, b, e) = Cardinality({x \in b..e : contains_member(m, x)})
  BY <1>1, MemberCount DEF Shows
<1>3. {x \in b..e : contains_member(m, x)} = I \cap b..e
  BY <1>1 DEF Shows, Ids
<1> QED BY <1>2, <1>3

(***************************************************************************)
(* The members: what the id space keeps of them is right.                  *)
(***************************************************************************)
Extrema ==
  IF ids = {} THEN begin = Unknown /\ end = Unknown
              ELSE begin = Min(ids) /\ end = Max(ids) + 1

Kept ==
  /\ Shows(members, ids)
  /\ ct = Cardinality(ids)
  /\ Extrema

LEMMA IdsFinite ==
  ASSUME NEW I, I \subseteq Ids
  PROVE  /\ IsFiniteSet(I) /\ Cardinality(I) \in Nat
         /\ Cardinality(I) = 0 <=> I = {}
<1>1. IsFiniteSet(Ids)
  BY SizesAssumption, FS_Interval DEF Ids
<1>2. IsFiniteSet(I)
  BY <1>1, FS_Subset
<1> QED BY <1>2, FS_CardinalityType, FS_EmptySet

LEMMA PutKeeps ==
  ASSUME NEW m, NEW n, put_members(m, n), Shows(m, ids'), n = Cardinality(ids')
  PROVE  Kept'
<1>1. n = 0 <=> ids' = {}
  BY IdsFinite DEF Shows
<1>2. ids' # {} => first_member(m) = Min(ids') /\ last_member(m) = Max(ids')
  BY ShownExtrema
<1>3. members' = m /\ ct' = n
  BY DEF put_members
<1>4. Shows(members, ids)'
  BY <1>3 DEF Shows, Ids
<1>5. Extrema'
  BY <1>1, <1>2 DEF Extrema, put_members, update_extrema, Unknown
<1> QED BY <1>3, <1>4, <1>5 DEF Kept

LEMMA KeptMeansMembersAreIds ==
  ASSUME Kept
  PROVE  MembersAreIds
<1>1. Alternates(members)
  BY SizesAssumption, IntervalsAlternate DEF Kept, Shows
<1> QED BY <1>1 DEF Kept, Shows, MembersAreIds, Extrema, contains

-----------------------------------------------------------------------------
(***************************************************************************)
(* The terms.  Disjoint, they contain all the ids that were given out, and *)
(* what the map _sum_to_term_map has for a term it has at its end.         *)
(***************************************************************************)
Extent ==
  /\ term_id_begin \in Nat /\ term_id_end \in 0..MaxTerms /\ term_id_begin <= term_id_end
  /\ DOMAIN terms \subseteq term_id_begin..term_id_end - 1
  /\ term_id_begin < term_id_end => {term_id_begin, term_id_end - 1} \subseteq DOMAIN terms

IsTerm(t) ==
  /\ t \in [begin : Ids, end : 1..MaxId + 1, reserved : BOOLEAN, next : 0..MaxId + 1]
  /\ t.begin < t.end /\ t.begin <= t.next /\ t.next <= t.end

AreTerms == \A i \in DOMAIN terms : IsTerm(terms[i])

Disjoint == \A i, j \in DOMAIN terms :
  i # j => terms[i].end <= terms[j].begin \/ terms[j].end <= terms[i].begin

\* A term that was extended is the only one.
OneIfExtended == \A i \in DOMAIN terms : terms[i].end > next_id =>
  DOMAIN terms = {i} /\ terms[i].begin = 0 /\ ~terms[i].reserved /\ 0 < next_id

\* A reserved term gives its ids out in order.
NextIsFresh ==
  /\ reserved_term \in DOMAIN terms \cup {Unknown}
  /\ reserved_term # Unknown => terms[reserved_term].reserved
  /\ \A i \in DOMAIN terms : terms[i].reserved =>
       \A x \in used : IsIn(x, i) => x < terms[i].next

UsedAreInTerms ==
  /\ next_id \in 0..MaxId + 1
  /\ ids \subseteq used /\ used \subseteq Ids
  /\ \A x \in used : \E i \in DOMAIN terms : IsIn(x, i)

TermsInv ==
  Extent /\ AreTerms /\ Disjoint /\ OneIfExtended /\ NextIsFresh /\ UsedAreInTerms

\* Where the map has a term: extend_last_term leaves its key behind.
KeyOf(t, n) == IF t.end > n THEN n ELSE t.end

MapTells ==
  /\ DOMAIN sum_to_term_map \subseteq 0..next_id \cup {LastKey}
  /\ LastKey \in DOMAIN sum_to_term_map /\ sum_to_term_map[LastKey] = Unknown
  /\ \A k \in DOMAIN sum_to_term_map : sum_to_term_map[k] # Unknown =>
       sum_to_term_map[k] \in DOMAIN terms /\ k = KeyOf(terms[sum_to_term_map[k]], next_id)

(***************************************************************************)
(* A step that makes a term over b..e - 1, of which the ids in S are given *)
(* out, and n is next.                                                     *)
(***************************************************************************)
MakesTerm(b, e, r, n, S) ==
  /\ IsTerm([begin |-> b, end |-> e, reserved |-> r, next |-> n])
  /\ S \subseteq b..e - 1 /\ (r => \A x \in S : x < n)
  /\ ~Extended /\ interval_is_available(b, e) /\ term_id_end \in TermIds
  /\ DOMAIN terms' = DOMAIN terms \cup {term_id_end}
  /\ \A i \in DOMAIN terms : i # term_id_end => terms'[i] = terms[i]
  /\ terms'[term_id_end] = [begin |-> b, end |-> e, reserved |-> r, next |-> n]
  /\ sum_to_term_map' = add_term(b, e, r).map
  /\ next_id' = IF e > next_id THEN e ELSE next_id
  /\ term_id_begin' = term_id_begin /\ term_id_end' = term_id_end + 1
  /\ reserved_term' = reserved_term \/ (reserved_term' = term_id_end /\ r)
  /\ ids' = ids \cup S /\ used' = used \cup S

LEMMA MakesTermTerms ==
  ASSUME TermsInv, NEW b, NEW e, NEW r, NEW n, NEW S, MakesTerm(b, e, r, n, S)
  PROVE  TermsInv'
<1> DEFINE new == term_id_end
<1>0. /\ MaxId \in Nat /\ MaxTerms \in Nat
      /\ b \in Nat /\ e \in Nat /\ n \in Nat /\ r \in BOOLEAN /\ next_id \in Nat
      /\ b < e /\ e <= MaxId + 1 /\ b <= n /\ n <= e
  BY SizesAssumption DEF MakesTerm, IsTerm, Ids, TermsInv, UsedAreInTerms
<1>1. /\ new \in Nat /\ new \notin DOMAIN terms /\ \A i \in DOMAIN terms : i \in Nat
      /\ new < MaxTerms
  BY SizesAssumption DEF TermsInv, Extent, MakesTerm, TermIds
<1>2. /\ DOMAIN terms' = DOMAIN terms \cup {new}
      /\ \A i \in DOMAIN terms : terms'[i] = terms[i]
      /\ terms'[new].begin = b /\ terms'[new].end = e
      /\ terms'[new].reserved = r /\ terms'[new].next = n
      /\ IsTerm(terms'[new])
  BY <1>1 DEF MakesTerm
<1>3. \A i \in DOMAIN terms : /\ terms[i].begin \in Nat /\ terms[i].end \in Nat
                              /\ terms[i].begin < terms[i].end /\ terms[i].end <= next_id
                              /\ terms[i].end <= b \/ terms[i].begin >= e
  <2>1. \A i \in DOMAIN terms : terms[i].begin \in Nat /\ terms[i].end \in Nat
                                /\ terms[i].begin < terms[i].end
    BY <1>0 DEF TermsInv, AreTerms, IsTerm, Ids
  <2>2. \A i \in DOMAIN terms : ~(terms[i].end > next_id)
    BY DEF MakesTerm, Extended
  <2> QED BY <1>0, <2>1, <2>2 DEF MakesTerm, interval_is_available
<1>4. next_id' \in Nat /\ next_id <= next_id' /\ e <= next_id' /\ next_id' <= MaxId + 1
  BY <1>0 DEF MakesTerm, TermsInv, UsedAreInTerms
<1>5. Extent'
  <2>1. term_id_begin' = term_id_begin /\ term_id_end' = new + 1
    BY DEF MakesTerm
  <2> QED BY <1>0, <1>1, <1>2, <2>1 DEF TermsInv, Extent
<1>6. AreTerms'
  BY <1>2 DEF TermsInv, AreTerms, IsTerm, Ids
<1>7. Disjoint'
  BY <1>0, <1>1, <1>2, <1>3 DEF TermsInv, Disjoint
<1>8. OneIfExtended'
  BY <1>0, <1>2, <1>3, <1>4 DEF OneIfExtended
<1>9. used' = used \cup S /\ ids' = ids \cup S /\ \A x \in S : x \in Nat /\ b <= x /\ x < e
  BY <1>0 DEF MakesTerm
<1>10. NextIsFresh'
  <2>1. reserved_term' \in DOMAIN terms' \cup {Unknown}
    BY <1>2 DEF TermsInv, NextIsFresh, MakesTerm
  <2>2. reserved_term' # Unknown => terms'[reserved_term'].reserved
    BY <1>1, <1>2 DEF TermsInv, NextIsFresh, MakesTerm, Unknown
  <2>3. ASSUME NEW i \in DOMAIN terms', terms'[i].reserved, NEW x \in used',
               terms'[i].begin <= x, x < terms'[i].end
        PROVE  x < terms'[i].next
    <3>1. CASE x \in S /\ i = new
      BY <1>2, <2>3, <3>1 DEF MakesTerm
    <3>2. CASE x \in S /\ i # new
      BY <1>0, <1>2, <1>3, <1>9, <2>3, <3>2
    <3>3. CASE x \in used /\ i # new
      BY <1>2, <2>3, <3>3 DEF TermsInv, NextIsFresh, IsIn
    <3>4. CASE x \in used /\ i = new
      <4>1. PICK j \in DOMAIN terms : terms[j].begin <= x /\ x < terms[j].end
        BY <3>4 DEF TermsInv, UsedAreInTerms, IsIn
      <4>2. x \in Int
        BY <3>4 DEF TermsInv, UsedAreInTerms, Ids
      <4> QED BY <1>0, <1>2, <1>3, <2>3, <3>4, <4>1, <4>2
    <3> QED BY <1>9, <3>1, <3>2, <3>3, <3>4
  <2> QED BY <2>1, <2>2, <2>3 DEF NextIsFresh, IsIn, Unknown
<1>11. UsedAreInTerms'
  <2>1. \A x \in S : x \in Ids
    BY <1>0, <1>9 DEF Ids
  <2>2. ids' \subseteq used' /\ used' \subseteq Ids
    BY <1>9, <2>1 DEF TermsInv, UsedAreInTerms
  <2>3. ASSUME NEW x \in used'
        PROVE  \E i \in DOMAIN terms' : terms'[i].begin <= x /\ x < terms'[i].end
    <3>1. CASE x \in S
      BY <1>2, <1>9, <3>1
    <3>2. CASE x \in used
      BY <1>2, <3>2 DEF TermsInv, UsedAreInTerms, IsIn
    <3> QED BY <1>9, <3>1, <3>2
  <2> QED BY <1>0, <1>4, <2>2, <2>3 DEF UsedAreInTerms, IsIn, Ids
<1> QED BY <1>5, <1>6, <1>7, <1>8, <1>10, <1>11 DEF TermsInv

LEMMA MakesTermMap ==
  ASSUME TermsInv, MapTells, NEW b, NEW e, NEW r, NEW n, NEW S, MakesTerm(b, e, r, n, S)
  PROVE  MapTells'
<1> DEFINE new == term_id_end
           map == sum_to_term_map
<1>0. /\ MaxId \in Nat /\ b \in Nat /\ e \in Nat /\ next_id \in Nat
      /\ b < e /\ e <= MaxId + 1 /\ next_id <= MaxId + 1
  BY SizesAssumption DEF MakesTerm, IsTerm, Ids, TermsInv, UsedAreInTerms
<1>1. /\ new \in Nat /\ new \notin DOMAIN terms /\ \A i \in DOMAIN terms : i \in Nat
      /\ DOMAIN terms' = DOMAIN terms \cup {new}
      /\ \A i \in DOMAIN terms : terms'[i] = terms[i]
      /\ terms'[new].end = e
  BY SizesAssumption DEF TermsInv, Extent, MakesTerm, TermIds
<1>2. /\ next_id' \in Nat /\ next_id <= next_id' /\ e <= next_id'
  BY <1>0 DEF MakesTerm
<1>3. /\ \A i \in DOMAIN terms : /\ KeyOf(terms[i], next_id) = terms[i].end
                                 /\ KeyOf(terms'[i], next_id') = terms[i].end
      /\ KeyOf(terms'[new], next_id') = e
  <2>1. \A i \in DOMAIN terms : ~(terms[i].end > next_id) /\ terms[i].end \in Nat
    BY <1>0 DEF MakesTerm, Extended, TermsInv, AreTerms, IsTerm
  <2> QED BY <1>0, <1>1, <1>2, <2>1 DEF KeyOf
<1>4. /\ DOMAIN map' = DOMAIN map \cup {b, e}
      /\ map'[e] = new
      /\ \A k \in DOMAIN map' \ {e} : map'[k] = IF k \in DOMAIN map THEN map[k] ELSE Unknown
  BY <1>0 DEF MakesTerm, add_term, Put
<1>5. DOMAIN map' \subseteq 0..next_id' \cup {LastKey}
  BY <1>0, <1>2, <1>4 DEF MapTells
<1>6. LastKey \in DOMAIN map' /\ map'[LastKey] = Unknown
  <2>1. LastKey # e
    BY <1>0 DEF LastKey
  <2> QED BY <1>4, <2>1 DEF MapTells
<1>7. ASSUME NEW k \in DOMAIN map', map'[k] # Unknown
      PROVE  map'[k] \in DOMAIN terms' /\ k = KeyOf(terms'[map'[k]], next_id')
  <2>1. CASE k = e
    BY <1>1, <1>3, <1>4, <2>1
  <2>2. CASE k # e
    <3>1. k \in DOMAIN map /\ map'[k] = map[k]
      BY <1>4, <1>7, <2>2
    <3>2. map[k] \in DOMAIN terms /\ k = KeyOf(terms[map[k]], next_id)
      BY <1>7, <3>1 DEF MapTells
    <3> QED BY <1>1, <1>3, <3>1, <3>2
  <2> QED BY <2>1, <2>2
<1> QED BY <1>5, <1>6, <1>7 DEF MapTells, LastKey, Unknown

(***************************************************************************)
(* A step that gives the id x out of the reserved term i there is.         *)
(***************************************************************************)
LEMMA TermFields ==
  ASSUME NEW t, IsTerm(t)
  PROVE  /\ t.begin \in Nat /\ t.end \in Nat /\ t.next \in Nat /\ t.reserved \in BOOLEAN
         /\ t.begin < t.end /\ t.begin <= t.next /\ t.next <= t.end /\ t.end <= MaxId + 1
BY SizesAssumption DEF IsTerm, Ids

LEMMA NewHubIdTerm ==
  ASSUME NEW t, IsTerm(t), NEW x \in Ids, x < t.end
  PROVE  /\ IsTerm(new_hub_id(t, x))
         /\ new_hub_id(t, x).begin = t.begin /\ new_hub_id(t, x).end = t.end
         /\ new_hub_id(t, x).reserved = t.reserved
         /\ new_hub_id(t, x).next = IF t.next <= x THEN x + 1 ELSE t.next
<1>1. x \in Nat /\ MaxId \in Nat
  BY SizesAssumption DEF Ids
<1>2. new_hub_id(t, x) = [begin |-> t.begin, end |-> t.end, reserved |-> t.reserved,
                          next |-> IF t.next <= x THEN x + 1 ELSE t.next]
  BY DEF new_hub_id, IsTerm
<1>3. IF t.next <= x THEN x + 1 \in 0..MaxId + 1 /\ t.begin <= x + 1 /\ x + 1 <= t.end
                     ELSE TRUE
  BY <1>1, TermFields
<1> QED BY <1>1, <1>2, <1>3, TermFields DEF IsTerm

LEMMA GiveFromOldTerms ==
  ASSUME TermsInv, NEW i \in DOMAIN terms, NEW x \in Ids,
         terms[i].reserved, IsIn(x, i), GiveFromOld(i, x)
  PROVE  TermsInv' /\ (MapTells => MapTells')
<1>0. /\ MaxId \in Nat /\ x \in Nat /\ x <= MaxId
      /\ used' = used \cup {x} /\ ids' = ids \cup {x}
      /\ UNCHANGED <<term_id_begin, term_id_end, reserved_term, next_id, sum_to_term_map>>
  BY SizesAssumption DEF GiveFromOld, GiveFrom, Ids, Given
<1>1. /\ DOMAIN terms' = DOMAIN terms
      /\ \A j \in DOMAIN terms : j # i => terms'[j] = terms[j]
      /\ terms'[i] = new_hub_id(terms[i], x)
  BY DEF GiveFromOld, GiveFrom
<1>2. /\ IsTerm(terms[i]) /\ terms[i].begin <= x /\ x < terms[i].end
      /\ \A j \in DOMAIN terms : IsTerm(terms[j])
  BY DEF TermsInv, AreTerms, IsIn
<1>3. /\ terms'[i].begin = terms[i].begin /\ terms'[i].end = terms[i].end
      /\ terms'[i].reserved = terms[i].reserved
      /\ terms'[i].next = IF terms[i].next <= x THEN x + 1 ELSE terms[i].next
      /\ IsTerm(terms'[i])
  <2> DEFINE t == terms[i]
  <2>1. IsTerm(t) /\ x < t.end /\ terms'[i] = new_hub_id(t, x)
    BY <1>1, <1>2
  <2> HIDE DEF t
  <2>2. /\ IsTerm(new_hub_id(t, x))
        /\ new_hub_id(t, x).begin = t.begin /\ new_hub_id(t, x).end = t.end
        /\ new_hub_id(t, x).reserved = t.reserved
        /\ new_hub_id(t, x).next = IF t.next <= x THEN x + 1 ELSE t.next
    BY <2>1, NewHubIdTerm
  <2> QED BY <2>1, <2>2 DEF t
<1>4. \A j \in DOMAIN terms : /\ terms'[j].begin = terms[j].begin /\ terms'[j].end = terms[j].end
                              /\ terms'[j].reserved = terms[j].reserved
                              /\ terms[j].begin \in Nat /\ terms[j].end \in Nat
  BY <1>1, <1>2, <1>3, TermFields
<1>5. Extent'
  BY <1>0, <1>1 DEF TermsInv, Extent
<1>6. AreTerms'
  BY <1>1, <1>2, <1>3 DEF AreTerms
<1>7. Disjoint' /\ OneIfExtended'
  BY <1>0, <1>1, <1>4 DEF TermsInv, Disjoint, OneIfExtended
<1>8. UsedAreInTerms'
  <2>1. \A y \in used' : \E j \in DOMAIN terms : terms[j].begin <= y /\ y < terms[j].end
    BY <1>0, <1>2 DEF TermsInv, UsedAreInTerms, IsIn
  <2> QED BY <1>0, <1>1, <1>4, <2>1 DEF TermsInv, UsedAreInTerms, IsIn
<1>9. NextIsFresh'
  <2>1. reserved_term' \in DOMAIN terms' \cup {Unknown}
    BY <1>0, <1>1 DEF TermsInv, NextIsFresh
  <2>2. reserved_term' # Unknown => terms'[reserved_term'].reserved
    BY <1>0, <1>1, <1>4 DEF TermsInv, NextIsFresh
  <2>3. ASSUME NEW j \in DOMAIN terms, terms[j].reserved, NEW y \in used',
               terms[j].begin <= y, y < terms[j].end
        PROVE  y < terms'[j].next
    <3>1. y \in used => y < terms[j].next
      BY <2>3 DEF TermsInv, NextIsFresh, IsIn
    <3>2. CASE j = i
      <4>1. y \in used \/ y = x
        BY <1>0
      <4>2. y \in Int /\ terms[i].next \in Nat /\ (y \in used => y < terms[i].next)
        BY <1>0, <1>2, <3>1, <3>2, <4>1, TermFields DEF TermsInv, UsedAreInTerms, Ids
      <4> QED BY <1>0, <1>3, <3>2, <4>1, <4>2
    <3>3. CASE j # i
      <4>1. y # x
        BY <1>0, <1>2, <1>4, <2>3, <3>3 DEF TermsInv, Disjoint
      <4> QED BY <1>0, <1>1, <2>3, <3>1, <3>3, <4>1
    <3> QED BY <3>2, <3>3
  <2> QED BY <1>1, <1>4, <2>1, <2>2, <2>3 DEF NextIsFresh, IsIn, Unknown
<1>10. MapTells => MapTells'
  <2>1. \A j \in DOMAIN terms : KeyOf(terms'[j], next_id') = KeyOf(terms[j], next_id)
    BY <1>0, <1>4 DEF KeyOf
  <2> QED BY <1>0, <1>1, <2>1 DEF MapTells, LastKey, Unknown
<1> QED BY <1>5, <1>6, <1>7, <1>8, <1>9, <1>10 DEF TermsInv

(***************************************************************************)
(* A step that removes a term: the extent shrinks to the terms there are,  *)
(* and the ids of the term are nobody's.                                   *)
(***************************************************************************)
LEMMA RemoveTermTerms ==
  ASSUME TermsInv, NEW i \in DOMAIN terms, remove_term(i), ~Extended
  PROVE  TermsInv'
<1> DEFINE rest == DOMAIN terms \ {i}
           b == terms[i].begin
           e == terms[i].end
<1>1. /\ DOMAIN terms' = rest /\ \A j \in rest : terms'[j] = terms[j]
      /\ UNCHANGED <<next_id, reserved_term>>
      /\ ids' = ids \ (b..e - 1) /\ used' = used \ (b..e - 1)
      /\ ~terms[i].reserved
  BY DEF remove_term, Erase, Restrict, Taken
<1>2. /\ \A j \in DOMAIN terms : j \in Nat /\ IsTerm(terms[j])
      /\ \A j \in DOMAIN terms : ~(terms[j].end > next_id)
      /\ term_id_begin \in Nat /\ term_id_end \in Nat /\ term_id_end <= MaxTerms
      /\ \A j \in DOMAIN terms : term_id_begin <= j /\ j <= term_id_end - 1
      /\ MaxTerms \in Nat
  BY SizesAssumption DEF TermsInv, Extent, AreTerms, Extended
<1>3. rest # {} => /\ Min(rest) \in rest /\ Max(rest) \in rest
                   /\ \A j \in rest : Min(rest) <= j /\ j <= Max(rest)
  <2> DEFINE hi == term_id_end - 1
  <2>1. rest \in SUBSET Int /\ hi \in Int /\ (\A j \in rest : term_id_begin <= j /\ j <= hi)
    BY <1>2
  <2> HIDE DEF rest, hi
  <2>2. SUFFICES ASSUME rest # {} PROVE /\ Min(rest) \in rest /\ Max(rest) \in rest
                                        /\ \A j \in rest : Min(rest) <= j /\ j <= Max(rest)
    OBVIOUS
  <2>3. Min(rest) \in rest /\ \A j \in rest : Min(rest) <= j
    BY <1>2, <2>1, <2>2, MinOfInts
  <2>4. Max(rest) \in rest /\ \A j \in rest : j <= Max(rest)
    BY <1>2, <2>1, <2>2, MaxOfInts
  <2> QED BY <2>3, <2>4
<1>4. Extent'
  <2>0. term_id_begin < term_id_end /\ term_id_begin \in DOMAIN terms
        /\ term_id_end - 1 \in DOMAIN terms
    BY <1>2 DEF TermsInv, Extent
  <2>1. CASE i # term_id_begin /\ i # term_id_end - 1
    <3>1. term_id_begin' = term_id_begin /\ term_id_end' = term_id_end
      BY <2>1 DEF remove_term
    <3> QED BY <1>1, <1>2, <2>0, <2>1, <3>1 DEF Extent
  <2>2. CASE i # term_id_begin /\ i = term_id_end - 1
    <3>1. term_id_begin' = term_id_begin /\ term_id_end' = Max(rest) + 1
      <4>1. term_id_begin' = term_id_begin
        BY <2>2 DEF remove_term
      <4>2. term_id_end' = end_of(rest)
        BY <2>2 DEF remove_term
      <4> QED BY <4>1, <4>2 DEF end_of
    <3>2. rest # {} /\ term_id_begin \in rest
      BY <2>0, <2>2
    <3> DEFINE M == Max(rest)
    <3>3. M \in rest /\ M \in Nat /\ term_id_begin <= M /\ M <= term_id_end - 1
          /\ \A j \in rest : j <= M
      BY <1>2, <1>3, <3>2
    <3> HIDE DEF M
    <3>4. term_id_end' = M + 1
      BY <3>1 DEF M
    <3>5. /\ term_id_end' - 1 = M /\ term_id_end' \in 0..MaxTerms
          /\ DOMAIN terms' \subseteq term_id_begin..M /\ {term_id_begin, M} \subseteq DOMAIN terms'
      BY <1>1, <1>2, <3>2, <3>3, <3>4
    <3>6. term_id_begin' \in Nat /\ term_id_begin' <= term_id_end'
      BY <1>2, <3>1, <3>3, <3>4
    <3> QED BY <3>1, <3>5, <3>6 DEF Extent
  <2>3. CASE i = term_id_begin /\ i = term_id_end - 1
    <3>1. term_id_begin' = term_id_end /\ term_id_end' = term_id_end
      BY <2>3 DEF remove_term
    <3>2. rest = {}
      BY <1>2, <2>3
    <3> QED BY <1>1, <1>2, <3>1, <3>2 DEF Extent
  <2>4. CASE i = term_id_begin /\ i # term_id_end - 1
    <3>1. term_id_begin' = Min(rest) /\ term_id_end' = term_id_end
      BY <2>4 DEF remove_term
    <3>2. rest # {} /\ term_id_end - 1 \in rest
      BY <2>0, <2>4
    <3> DEFINE m == Min(rest)
    <3>3. m \in rest /\ m \in Nat /\ m <= term_id_end - 1 /\ \A j \in rest : m <= j
      BY <1>2, <1>3, <3>2
    <3> HIDE DEF m
    <3>4. term_id_begin' = m
      BY <3>1 DEF m
    <3>5. /\ term_id_end' \in 0..MaxTerms /\ term_id_begin' <= term_id_end'
          /\ DOMAIN terms' \subseteq m..term_id_end - 1 /\ {m, term_id_end - 1} \subseteq DOMAIN terms'
      BY <1>1, <1>2, <3>1, <3>2, <3>3, <3>4
    <3> QED BY <3>1, <3>3, <3>4, <3>5 DEF Extent
  <2> QED BY <2>1, <2>2, <2>3, <2>4
<1>5. AreTerms' /\ Disjoint' /\ OneIfExtended'
  BY <1>1, <1>2 DEF TermsInv, AreTerms, Disjoint, OneIfExtended
<1>6. NextIsFresh'
  <2>1. reserved_term # i
    BY <1>1, <1>2 DEF TermsInv, NextIsFresh, Unknown
  <2> QED BY <1>1, <2>1 DEF TermsInv, NextIsFresh, IsIn, Unknown
<1>7. UsedAreInTerms'
  <2>1. ASSUME NEW x \in used'
        PROVE  \E j \in rest : terms[j].begin <= x /\ x < terms[j].end
    <3>1. x \in used /\ x \notin b..e - 1 /\ x \in Int
      <4>1. x \in used /\ x \notin b..e - 1
        BY <1>1
      <4>2. used \subseteq Ids
        BY DEF TermsInv, UsedAreInTerms
      <4>3. x \in Int
        BY <4>1, <4>2 DEF Ids
      <4> QED BY <4>1, <4>3
    <3>2. PICK j \in DOMAIN terms : terms[j].begin <= x /\ x < terms[j].end
      BY <3>1 DEF TermsInv, UsedAreInTerms, IsIn
    <3>3. j # i
      <4>1. b \in Int /\ e \in Int
        BY <1>2, TermFields
      <4> QED BY <3>1, <3>2, <4>1
    <3> QED BY <3>2, <3>3
  <2>2. \A x \in used' : \E j \in DOMAIN terms' : terms'[j].begin <= x /\ x < terms'[j].end
    BY <1>1, <2>1
  <2> QED BY <1>1, <2>2 DEF TermsInv, UsedAreInTerms, IsIn
<1> QED BY <1>4, <1>5, <1>6, <1>7 DEF TermsInv

LEMMA RemoveTermMap ==
  ASSUME TermsInv, MapTells, NEW i \in DOMAIN terms, remove_term(i), ~Extended
  PROVE  MapTells'
<1> DEFINE map == sum_to_term_map
           b == terms[i].begin
           e == terms[i].end
<1>1. /\ DOMAIN terms' = DOMAIN terms \ {i}
      /\ \A j \in DOMAIN terms \ {i} : terms'[j] = terms[j]
      /\ next_id' = next_id
      /\ map' = without_term(terms[i])
  BY DEF remove_term, Erase, Restrict
<1>2. /\ b \in Nat /\ e \in Nat /\ b < e /\ e <= next_id /\ next_id \in Nat
      /\ next_id <= MaxId + 1 /\ MaxId \in Nat
  <2>1. IsTerm(terms[i]) /\ ~(e > next_id) /\ next_id \in 0..MaxId + 1 /\ MaxId \in Nat
    BY SizesAssumption DEF TermsInv, AreTerms, Extended, UsedAreInTerms
  <2> QED BY <2>1, TermFields
<1>3. e # LastKey /\ b # LastKey
  BY <1>2 DEF LastKey
<1>4. /\ DOMAIN map' \subseteq DOMAIN map \cup {e}
      /\ DOMAIN map \ {b} \subseteq DOMAIN map'
      /\ \A k \in DOMAIN map' : map'[k] = IF k = e THEN Unknown ELSE map[k]
  BY <1>1 DEF without_term, Put, Erase, Restrict
<1>5. DOMAIN map' \subseteq 0..next_id' \cup {LastKey}
  BY <1>1, <1>2, <1>4 DEF MapTells
<1>6. LastKey \in DOMAIN map' /\ map'[LastKey] = Unknown
  BY <1>3, <1>4 DEF MapTells
<1>7. ASSUME NEW k \in DOMAIN map', map'[k] # Unknown
      PROVE  map'[k] \in DOMAIN terms' /\ k = KeyOf(terms'[map'[k]], next_id')
  <2>1. k # e /\ k \in DOMAIN map /\ map'[k] = map[k]
    BY <1>4, <1>7
  <2>2. map[k] \in DOMAIN terms /\ k = KeyOf(terms[map[k]], next_id)
    BY <1>7, <2>1 DEF MapTells
  <2>3. KeyOf(terms[i], next_id) = e
    BY <1>2 DEF KeyOf
  <2>4. map[k] # i
    BY <2>1, <2>2, <2>3
  <2> QED BY <1>1, <2>1, <2>2, <2>4
<1> QED BY <1>5, <1>6, <1>7 DEF MapTells, LastKey, Unknown

(***************************************************************************)
(* The term that extend_last_term extends is the only one, and all its ids *)
(* and no others are given out.                                            *)
(***************************************************************************)
LEMMA ExtendsTheOnlyTerm ==
  ASSUME TermsInv, NEW n \in 1..MaxId + 1, extend_last_term(n)
  PROVE  LET last == term_id_end - 1 IN
         /\ DOMAIN terms = {last} /\ terms[last].begin = 0 /\ ~terms[last].reserved
         /\ IsTerm(terms[last]) /\ next_id <= terms[last].end /\ 0 < next_id
         /\ ids = 0..terms[last].end - 1 /\ terms[last].end < n
<1> DEFINE last == term_id_end - 1
           e == terms[last].end
<1>1. /\ last \in DOMAIN terms /\ terms[last].begin = 0 /\ ~terms[last].reserved
      /\ IsTerm(terms[last]) /\ next_id <= e /\ 0..(e - 0) - 1 \subseteq ids /\ n > e - 0
  BY DEF extend_last_term, TermsInv, AreTerms
<1>2. e \in Nat /\ 0 < e /\ next_id \in Nat /\ n \in Nat
  BY <1>1, SizesAssumption, TermFields DEF TermsInv, UsedAreInTerms
<1>3. DOMAIN terms = {last} /\ 0 < next_id
  <2>1. CASE Extended
    BY <1>1, <2>1 DEF Extended, TermsInv, OneIfExtended
  <2>2. CASE ~Extended
    <3>1. ASSUME NEW j \in DOMAIN terms PROVE j = last
      <4>1. IsTerm(terms[j]) /\ ~(terms[j].end > next_id)
        BY <2>2 DEF Extended, TermsInv, AreTerms
      <4>2. /\ terms[j].begin \in Nat /\ terms[j].end \in Nat /\ terms[j].begin < terms[j].end
            /\ terms[j].end <= next_id
        BY <1>2, <4>1, TermFields
      <4> QED BY <1>1, <1>2, <4>2 DEF TermsInv, Disjoint
    <3>2. ~(e > next_id)
      BY <1>1, <2>2 DEF Extended
    <3>3. DOMAIN terms = {last}
      BY <1>1, <3>1
    <3> QED BY <1>2, <3>2, <3>3
  <2> QED BY <2>1, <2>2
<1>4. ids = 0..e - 1
  <2>1. \A x \in ids : x \in Nat /\ x < e
    BY <1>1, <1>3 DEF TermsInv, UsedAreInTerms, IsIn, Ids
  <2>2. (e - 0) - 1 = e - 1
    BY <1>2
  <2>3. \A x \in 0..e - 1 : x \in ids
    BY <1>1, <2>2
  <2>4. \A x \in ids : x \in 0..e - 1
    BY <1>2, <2>1
  <2> QED BY <2>3, <2>4
<1> QED BY <1>1, <1>2, <1>3, <1>4

LEMMA ExtendTerms ==
  ASSUME TermsInv, NEW n \in 1..MaxId + 1, extend_last_term(n)
  PROVE  TermsInv' /\ (MapTells => MapTells')
<1> DEFINE last == term_id_end - 1
           e == terms[last].end
<1>1. /\ DOMAIN terms = {last} /\ terms[last].begin = 0 /\ ~terms[last].reserved
      /\ IsTerm(terms[last]) /\ next_id <= e /\ 0 < next_id /\ e < n
  BY ExtendsTheOnlyTerm
<1>2. /\ DOMAIN terms' = {last}
      /\ terms' = [terms EXCEPT ![last].end = n]
      /\ UNCHANGED <<term_id_begin, term_id_end, next_id, reserved_term, sum_to_term_map>>
      /\ ids' = ids \cup 0..n - 1 /\ used' = used \cup 0..n - 1
  BY <1>1 DEF extend_last_term, Given
<1>3. /\ MaxId \in Nat /\ n \in Nat /\ n <= MaxId + 1 /\ next_id \in Nat
      /\ e \in Nat /\ terms[last].next \in Nat /\ terms[last].next <= e
  BY <1>1, SizesAssumption, TermFields DEF TermsInv, UsedAreInTerms
<1>4. terms'[last] = [begin |-> 0, end |-> n, reserved |-> FALSE, next |-> terms[last].next]
  BY <1>1, <1>2 DEF IsTerm
<1>5. /\ terms'[last].begin = 0 /\ terms'[last].end = n /\ terms'[last].reserved = FALSE
      /\ IsTerm(terms'[last])
  BY <1>3, <1>4, <1>1 DEF IsTerm, Ids
<1>6. Extent'
  BY <1>1, <1>2 DEF TermsInv, Extent
<1>7. AreTerms' /\ Disjoint'
  BY <1>2, <1>5 DEF AreTerms, Disjoint
<1>8. OneIfExtended'
  BY <1>1, <1>2, <1>5 DEF OneIfExtended
<1>9. NextIsFresh'
  BY <1>1, <1>2, <1>5 DEF TermsInv, NextIsFresh, Unknown
<1>10. UsedAreInTerms'
  <2>1. \A x \in used : x \in Nat /\ x < e
    BY <1>1 DEF TermsInv, UsedAreInTerms, IsIn, Ids
  <2>2. \A x \in used' : x \in Nat /\ 0 <= x /\ x < n
    BY <1>1, <1>2, <1>3, <2>1
  <2>3. ids' \subseteq used' /\ used' \subseteq Ids
    BY <1>2, <1>3, <2>2 DEF TermsInv, UsedAreInTerms, Ids
  <2> QED BY <1>2, <1>5, <2>2, <2>3 DEF TermsInv, UsedAreInTerms, IsIn
<1>11. MapTells => MapTells'
  <2>1. KeyOf(terms'[last], next_id') = KeyOf(terms[last], next_id)
    BY <1>1, <1>2, <1>3, <1>5 DEF KeyOf
  <2> QED BY <1>1, <1>2, <2>1 DEF MapTells, LastKey, Unknown
<1> QED BY <1>6, <1>7, <1>8, <1>9, <1>10, <1>11 DEF TermsInv

-----------------------------------------------------------------------------
(***************************************************************************)
(* The members after ids were given out or taken back.                     *)
(***************************************************************************)
LEMMA KeptGiven ==
  ASSUME Kept, NEW b \in Int, NEW e \in Int, 0 <= b, b <= e, e <= MaxId,
         ids \cap b..e = {}, ids' = ids \cup b..e,
         put_members(insert_interval(members, b, e), ct + (e - b + 1))
  PROVE  Kept' /\ Cardinality(ids' \ ids) = ct' - ct
<1>1. Shows(insert_interval(members, b, e), ids')
  BY ShowsInserted DEF Kept
<1>2. IsFiniteSet(ids) /\ Cardinality(ids) \in Nat
  BY IdsFinite DEF Kept, Shows
<1>3. IsFiniteSet(b..e) /\ Cardinality(b..e) = e - b + 1
  BY FS_Interval
<1>4. Cardinality(ids') = Cardinality(ids) + Cardinality(b..e)
  <2>1. Cardinality(ids \cup b..e) = Cardinality(ids) + Cardinality(b..e) - Cardinality(ids \cap b..e)
    BY <1>2, <1>3, FS_Union
  <2>2. Cardinality(ids \cap b..e) = 0
    BY FS_EmptySet
  <2> QED BY <1>2, <1>3, <2>1, <2>2
<1>5. Cardinality(ids') = ct + (e - b + 1)
  BY <1>3, <1>4 DEF Kept
<1>6. ids' \ ids = b..e
  OBVIOUS
<1>7. ct' = ct + (e - b + 1) /\ ct \in Nat
  BY <1>2 DEF put_members, Kept
<1>8. Kept'
  <2> DEFINE n == ct + (e - b + 1)
             m == insert_interval(members, b, e)
  <2>1. Shows(m, ids') /\ n = Cardinality(ids') /\ put_members(m, n)
    BY <1>1, <1>5
  <2> HIDE DEF m, n
  <2> QED BY <2>1, PutKeeps
<1>9. Cardinality(ids' \ ids) = e - b + 1
  BY <1>3, <1>6
<1>10. ct' - ct = e - b + 1
  BY <1>7
<1> QED BY <1>8, <1>9, <1>10

LEMMA KeptTaken ==
  ASSUME Kept, NEW b \in Int, NEW e \in Int, 0 <= b, b <= e, e <= MaxId,
         ids' = ids \ b..e,
         put_members(remove_interval(members, b, e), ct - Cardinality(ids \cap b..e))
  PROVE  Kept'
<1>1. Shows(remove_interval(members, b, e), ids')
  BY ShowsRemoved DEF Kept
<1>2. IsFiniteSet(ids)
  BY IdsFinite DEF Kept, Shows
<1>3. Cardinality(ids') = ct - Cardinality(ids \cap b..e)
  BY <1>2, FS_Difference DEF Kept
<1> QED BY <1>1, <1>3, PutKeeps

(***************************************************************************)
(* Nobody has an id of an interval that is available.                      *)
(***************************************************************************)
LEMMA AvailableIsUnused ==
  ASSUME TermsInv, NEW b \in Int, NEW e \in Int, interval_is_available(b, e)
  PROVE  used \cap b..e - 1 = {} /\ ids \cap b..e - 1 = {}
<1>1. ASSUME NEW x \in used, x \in b..e - 1 PROVE FALSE
  <2>1. PICK i \in DOMAIN terms : terms[i].begin <= x /\ x < terms[i].end
    BY DEF TermsInv, UsedAreInTerms, IsIn
  <2>2. terms[i].begin \in Int /\ terms[i].end \in Int
    BY TermFields DEF TermsInv, AreTerms
  <2> QED BY <1>1, <2>1, <2>2 DEF interval_is_available
<1>2. used \cap b..e - 1 = {}
  BY <1>1
<1> QED BY <1>2 DEF TermsInv, UsedAreInTerms

LEMMA AfterNextIsAvailable ==
  ASSUME TermsInv, ~Extended, NEW b \in Int, next_id <= b, NEW e \in Int
  PROVE  interval_is_available(b, e)
<1>1. ASSUME NEW i \in DOMAIN terms PROVE terms[i].end <= b
  <2>1. terms[i].end \in Int /\ next_id \in Int
    BY TermFields DEF TermsInv, AreTerms, UsedAreInTerms
  <2> QED BY <2>1 DEF Extended
<1> QED BY <1>1 DEF interval_is_available

(***************************************************************************)
(* Every operation is one of those steps.                                  *)
(***************************************************************************)
LEMMA NewTermGives ==
  ASSUME NEW b, NEW e, NEW r, NEW x, b <= x
  PROVE  new_hub_id(Term(b, e, r), x) = [begin |-> b, end |-> e, reserved |-> r, next |-> x + 1]
<1> DEFINE t == Term(b, e, r)
<1>1. t.next <= x
  BY DEF Term
<1>2. new_hub_id(t, x) = [t EXCEPT !.next = x + 1]
  BY <1>1 DEF new_hub_id
<1> QED BY <1>2 DEF Term

LEMMA GiveFromNewMakes ==
  ASSUME TermsInv, ~Extended, NEW b \in Nat, NEW x \in b..b + RESERVED_TERM_SIZE - 1,
         interval_is_available(b, b + RESERVED_TERM_SIZE), GiveFromNew(b, x)
  PROVE  MakesTerm(b, b + RESERVED_TERM_SIZE, TRUE, x + 1, {x})
<1> DEFINE e == b + RESERVED_TERM_SIZE
           new == term_id_end
           t == [begin |-> b, end |-> e, reserved |-> TRUE, next |-> x + 1]
<1>1. /\ RESERVED_TERM_SIZE \in Nat /\ MaxId \in Nat /\ e \in Nat /\ e <= MaxId + 1
      /\ new \in TermIds /\ x \in Nat /\ b <= x /\ x < e
  BY SizesAssumption DEF GiveFromNew, Fits
<1>2. /\ terms' = [Put(terms, new, Term(b, e, TRUE)) EXCEPT ![new] = new_hub_id(@, x)]
      /\ sum_to_term_map' = add_term(b, e, TRUE).map
      /\ next_id' = IF e > next_id THEN e ELSE next_id
      /\ ids' = ids \cup {x} /\ used' = used \cup {x}
      /\ reserved_term' = new /\ term_id_end' = new + 1 /\ term_id_begin' = term_id_begin
  BY DEF GiveFromNew, GiveFrom, add_term, Given
<1>3. new_hub_id(Term(b, e, TRUE), x) = t
  <2>1. b <= x
    BY <1>1
  <2> QED BY <2>1, NewTermGives
<1>4. /\ DOMAIN terms' = DOMAIN terms \cup {new}
      /\ \A i \in DOMAIN terms : i # new => terms'[i] = terms[i]
      /\ terms'[new] = t
  <2> HIDE DEF t
  <2> QED BY <1>2, <1>3 DEF Put
<1>5. IsTerm(t)
  BY <1>1 DEF IsTerm, Ids
<1>6. {x} \subseteq b..e - 1 /\ \A y \in {x} : y < x + 1
  BY <1>1
<1> QED BY <1>1, <1>2, <1>4, <1>5, <1>6 DEF MakesTerm

LEMMA NewPrimaryTermMakes ==
  ASSUME TermsInv, ~Extended, NEW b \in Nat, NEW n \in 1..MaxSize, NEW e, e = b + n,
         new_primary_term_at(b, n)
  PROVE  MakesTerm(b, e, FALSE, b, b..e - 1)
<1> DEFINE new == term_id_end
           t == [begin |-> b, end |-> e, reserved |-> FALSE, next |-> b]
<1>1. /\ MaxId \in Nat /\ n \in Nat /\ e \in Nat /\ e <= MaxId + 1 /\ b < e /\ new \in TermIds
  BY SizesAssumption DEF new_primary_term_at, Fits
<1>2. /\ terms' = Put(terms, new, Term(b, e, FALSE))
      /\ sum_to_term_map' = add_term(b, e, FALSE).map
      /\ next_id' = IF e > next_id THEN e ELSE next_id
      /\ ids' = ids \cup b..e - 1 /\ used' = used \cup b..e - 1
      /\ reserved_term' = reserved_term /\ term_id_end' = new + 1 /\ term_id_begin' = term_id_begin
      /\ interval_is_available(b, e)
  BY DEF new_primary_term_at, add_term, Given
<1>3. Term(b, e, FALSE) = t
  BY DEF Term
<1>4. /\ DOMAIN terms' = DOMAIN terms \cup {new}
      /\ \A i \in DOMAIN terms : i # new => terms'[i] = terms[i]
      /\ terms'[new] = t
  <2> HIDE DEF t
  <2> QED BY <1>2, <1>3 DEF Put
<1>5. IsTerm(t)
  BY <1>1 DEF IsTerm, Ids
<1> QED BY <1>1, <1>2, <1>4, <1>5 DEF MakesTerm

-----------------------------------------------------------------------------
(***************************************************************************)
(* The inductive invariant, and each operation keeps it.  FreshStep is     *)
(* what FreshIds says of a step.                                           *)
(***************************************************************************)
HubInv == Kept /\ TermsInv /\ MapTells

FreshStep ==
  /\ (ids' \ ids) \cap used = {}
  /\ Cardinality(ids' \ ids) = ct' - ct

LEMMA GivenOne ==
  ASSUME Kept, NEW x \in Ids, x \notin ids, Given({x}),
         put_members(insert_member(members, x), ct + 1)
  PROVE  Kept' /\ Cardinality(ids' \ ids) = ct' - ct
<1>1. x \in Int /\ 0 <= x /\ x <= MaxId /\ MaxId \in Int
  BY SizesAssumption DEF Ids
<1>2. x..x = {x} /\ x - x + 1 = 1
  BY <1>1
<1>3. ids \cap x..x = {} /\ ids' = ids \cup x..x
  BY <1>2 DEF Given
<1>4. put_members(insert_interval(members, x, x), ct + (x - x + 1))
  BY <1>2 DEF insert_member
<1> QED BY <1>1, <1>3, <1>4, KeptGiven

LEMMA ReservedBegin ==
  ASSUME NEW x \in Nat
  PROVE  /\ reserved_begin(x) \in Nat /\ reserved_begin(x) <= x
         /\ x < reserved_begin(x) + RESERVED_TERM_SIZE
BY SizesAssumption DEF reserved_begin

LEMMA NewReservedBegin ==
  ASSUME TermsInv
  PROVE  new_reserved_begin \in Nat /\ next_id <= new_reserved_begin
<1>1. next_id \in Nat /\ RESERVED_TERM_SIZE \in Nat \ {0}
  BY SizesAssumption DEF TermsInv, UsedAreInTerms
<1> DEFINE x == next_id + RESERVED_TERM_SIZE - 1
<1>2. x \in Nat
  BY <1>1
<1>3. reserved_begin(x) \in Nat /\ x < reserved_begin(x) + RESERVED_TERM_SIZE
  BY <1>2, ReservedBegin
<1> QED BY <1>1, <1>3 DEF new_reserved_begin

LEMMA OldTermKeeps ==
  ASSUME HubInv, NEW i \in DOMAIN terms, NEW x \in Ids, x \notin ids,
         terms[i].reserved, IsIn(x, i), GiveFromOld(i, x)
  PROVE  HubInv' /\ Cardinality(ids' \ ids) = ct' - ct
<1>1. TermsInv' /\ MapTells'
  BY GiveFromOldTerms DEF HubInv
<1>2. Kept' /\ Cardinality(ids' \ ids) = ct' - ct
  BY GivenOne DEF HubInv, GiveFromOld, GiveFrom
<1> QED BY <1>1, <1>2 DEF HubInv

LEMMA NewTermKeeps ==
  ASSUME HubInv, ~Extended, NEW b \in Nat, NEW x \in b..b + RESERVED_TERM_SIZE - 1,
         interval_is_available(b, b + RESERVED_TERM_SIZE), GiveFromNew(b, x)
  PROVE  HubInv' /\ x \notin used /\ Cardinality(ids' \ ids) = ct' - ct
<1>1. MakesTerm(b, b + RESERVED_TERM_SIZE, TRUE, x + 1, {x})
  BY GiveFromNewMakes DEF HubInv
<1>2. TermsInv' /\ MapTells'
  BY <1>1, MakesTermTerms, MakesTermMap DEF HubInv
<1>3. RESERVED_TERM_SIZE \in Int /\ MaxId \in Int /\ b + RESERVED_TERM_SIZE <= MaxId + 1
  BY SizesAssumption DEF GiveFromNew, Fits
<1>4. x \in Ids
  BY <1>3 DEF Ids
<1>5. x \notin used /\ x \notin ids
  BY <1>3, AvailableIsUnused DEF HubInv
<1>6. Kept' /\ Cardinality(ids' \ ids) = ct' - ct
  BY <1>4, <1>5, GivenOne DEF HubInv, GiveFromNew, GiveFrom
<1> QED BY <1>2, <1>5, <1>6 DEF HubInv

LEMMA NewIdKeeps ==
  ASSUME HubInv, NothingAfterExtending, new_id
  PROVE  HubInv' /\ FreshStep
<1>1. ~Extended
  BY DEF new_id, MayChangeTerms, NothingAfterExtending
<1>2. CASE reserved_term # Unknown /\ terms[reserved_term].next < terms[reserved_term].end
  <2> DEFINE i == reserved_term
             x == terms[i].next
  <2>1. i \in DOMAIN terms /\ terms[i].reserved /\ IsTerm(terms[i])
    BY <1>2 DEF HubInv, TermsInv, NextIsFresh, AreTerms
  <2>2. x \in Ids /\ IsIn(x, i)
    BY <1>2, <2>1, TermFields, SizesAssumption DEF IsIn, Ids
  <2>3. x \notin used
    <3>1. ~(x < x)
      BY <2>2 DEF Ids
    <3> QED BY <2>1, <2>2, <3>1 DEF HubInv, TermsInv, NextIsFresh
  <2>4. x \notin ids
    BY <2>3 DEF HubInv, TermsInv, UsedAreInTerms
  <2>5. GiveFromOld(i, x)
    BY <1>2 DEF new_id
  <2>6. ids' = ids \cup {x}
    BY <2>5 DEF GiveFromOld, GiveFrom, Given
  <2>7. HubInv' /\ Cardinality(ids' \ ids) = ct' - ct
    BY <2>1, <2>2, <2>4, <2>5, OldTermKeeps
  <2> QED BY <2>3, <2>6, <2>7 DEF FreshStep
<1>3. CASE ~(reserved_term # Unknown /\ terms[reserved_term].next < terms[reserved_term].end)
  <2> DEFINE b == new_reserved_begin
  <2>1. b \in Nat /\ next_id <= b
    BY NewReservedBegin DEF HubInv
  <2>2. b \in b..b + RESERVED_TERM_SIZE - 1 /\ b + RESERVED_TERM_SIZE \in Int
    BY <2>1, SizesAssumption
  <2>3. interval_is_available(b, b + RESERVED_TERM_SIZE)
    BY <1>1, <2>1, <2>2, AfterNextIsAvailable DEF HubInv
  <2>4. GiveFromNew(b, b)
    BY <1>3 DEF new_id
  <2>5. HubInv' /\ b \notin used /\ Cardinality(ids' \ ids) = ct' - ct
    BY <1>1, <2>1, <2>2, <2>3, <2>4, NewTermKeeps
  <2>6. ids' = ids \cup {b}
    BY <2>4 DEF GiveFromNew, GiveFrom, Given
  <2> QED BY <2>5, <2>6 DEF FreshStep
<1> QED BY <1>2, <1>3

\* What term_id finds is a term, or nothing.
LEMMA TermIdIsTerm ==
  ASSUME TermsInv, MapTells, NEW x \in Ids, term_id(x) # Unknown
  PROVE  term_id(x) \in DOMAIN terms
<1> DEFINE above == {k \in DOMAIN sum_to_term_map : k > x}
           m == Min(above)
<1>1. MaxId \in Nat /\ x \in Nat /\ x <= MaxId /\ next_id \in Nat
  BY SizesAssumption DEF Ids, TermsInv, UsedAreInTerms
<1>2. above \in SUBSET Int /\ LastKey \in above /\ \A k \in above : x <= k
  BY <1>1 DEF MapTells, LastKey
<1>3. m \in above
  BY <1>1, <1>2, MinOfInts
<1> QED BY <1>3 DEF term_id, MapTells

LEMMA NewIdAtKeeps ==
  ASSUME HubInv, NothingAfterExtending, NEW x \in Ids, new_id_at(x)
  PROVE  HubInv'
<1>1. ~Extended
  BY DEF new_id_at, MayChangeTerms, NothingAfterExtending
<1>2. x \notin ids
  BY DEF HubInv, Kept, Shows, new_id_at, contains
<1>3. CASE term_id(x) # Unknown
  <2> DEFINE i == term_id(x)
  <2>1. i \in DOMAIN terms
    BY <1>3, TermIdIsTerm DEF HubInv
  <2>2. terms[i].reserved /\ x \in terms[i].begin..terms[i].end - 1
    BY <1>3 DEF new_id_at, is_valid_reserved_id
  <2>3. GiveFromOld(i, x)
    BY <1>3 DEF new_id_at
  <2> HIDE DEF i
  <2>4. IsIn(x, i)
    <3>1. terms[i].begin \in Int /\ terms[i].end \in Int
      BY <2>1, TermFields DEF HubInv, TermsInv, AreTerms
    <3> QED BY <2>2, <3>1 DEF IsIn
  <2> QED BY <1>2, <2>1, <2>2, <2>3, <2>4, OldTermKeeps
<1>4. CASE term_id(x) = Unknown
  <2> DEFINE b == reserved_begin(x)
  <2>1. interval_is_available(b, b + RESERVED_TERM_SIZE) /\ GiveFromNew(b, x)
    BY <1>4 DEF new_id_at, is_valid_reserved_id
  <2>2. x \in Nat /\ RESERVED_TERM_SIZE \in Nat
    BY SizesAssumption DEF Ids
  <2>3. b \in Nat /\ b <= x /\ x < b + RESERVED_TERM_SIZE
    BY <2>2, ReservedBegin
  <2> HIDE DEF b
  <2>4. x \in b..b + RESERVED_TERM_SIZE - 1
    BY <2>2, <2>3
  <2> QED BY <1>1, <2>1, <2>3, <2>4, NewTermKeeps
<1> QED BY <1>3, <1>4

LEMMA DeleteIdKeeps ==
  ASSUME HubInv, NEW x \in Ids, delete_id(x)
  PROVE  HubInv'
<1>1. x \in Int /\ 0 <= x /\ x <= MaxId /\ MaxId \in Int
  BY SizesAssumption DEF Ids
<1>2. x \in ids
  BY DEF HubInv, Kept, Shows, delete_id, contains
<1>3. x..x = {x} /\ ids \cap x..x = {x} /\ Cardinality({x}) = 1
  <2>1. x..x = {x}
    BY <1>1
  <2>2. Cardinality({x}) = 1
    BY FS_Singleton
  <2> QED BY <1>2, <2>1, <2>2
<1>4. ids' = ids \ x..x
  BY <1>3 DEF delete_id, Taken
<1>5. put_members(remove_interval(members, x, x), ct - Cardinality(ids \cap x..x))
  BY <1>3 DEF delete_id, remove_member
<1>6. Kept'
  BY <1>1, <1>4, <1>5, KeptTaken DEF HubInv
<1>7. TermsInv'
  BY DEF HubInv, TermsInv, Extent, AreTerms, Disjoint, OneIfExtended, NextIsFresh, UsedAreInTerms,
         IsIn, delete_id, Taken, term_vars
<1>8. MapTells'
  BY DEF HubInv, MapTells, delete_id, term_vars
<1> QED BY <1>6, <1>7, <1>8 DEF HubInv

LEMMA NewPrimaryTermKeeps ==
  ASSUME HubInv, NothingAfterExtending, NEW b \in Nat, NEW n \in 1..MaxSize,
         new_primary_term_at(b, n)
  PROVE  HubInv' /\ FreshStep
<1>0. b \in Int /\ n \in Int /\ 1 <= n /\ MaxId \in Int
  BY SizesAssumption
<1>1. PICK e \in Int : e = b + n
  BY <1>0
<1>2. ~Extended
  BY DEF new_primary_term_at, MayChangeTerms, NothingAfterExtending
<1>3. MakesTerm(b, e, FALSE, b, b..e - 1)
  BY <1>1, <1>2, NewPrimaryTermMakes DEF HubInv
<1>4. TermsInv' /\ MapTells'
  BY <1>3, MakesTermTerms, MakesTermMap DEF HubInv
<1>5. used \cap b..e - 1 = {} /\ ids \cap b..e - 1 = {}
  BY <1>0, <1>3, AvailableIsUnused DEF HubInv, MakesTerm
<1>6. e - 1 \in Int /\ b <= e - 1 /\ e - 1 <= MaxId /\ (e - 1) - b + 1 = n /\ b + n - 1 = e - 1
  BY <1>0, <1>1 DEF new_primary_term_at, Fits
<1>7. ids' = ids \cup b..e - 1
  BY <1>3 DEF MakesTerm
<1>8. put_members(insert_interval(members, b, e - 1), ct + ((e - 1) - b + 1))
  BY <1>6 DEF new_primary_term_at
<1>9. Kept' /\ Cardinality(ids' \ ids) = ct' - ct
  <2>1. PICK l \in Int : l = e - 1
    BY <1>6
  <2>2. /\ Kept /\ 0 <= b /\ b <= l /\ l <= MaxId /\ ids \cap b..l = {} /\ ids' = ids \cup b..l
        /\ put_members(insert_interval(members, b, l), ct + (l - b + 1))
    BY <1>0, <1>5, <1>6, <1>7, <1>8, <2>1 DEF HubInv
  <2> QED BY <1>0, <2>2, KeptGiven
<1>10. (ids' \ ids) \cap used = {}
  BY <1>5, <1>7
<1> QED BY <1>4, <1>9, <1>10 DEF HubInv, FreshStep

LEMMA RemoveTermKeeps ==
  ASSUME HubInv, NothingAfterExtending, NEW i \in DOMAIN terms, remove_term(i)
  PROVE  HubInv'
<1> DEFINE b == terms[i].begin
           e == terms[i].end
<1>1. ~Extended
  BY DEF remove_term, MayChangeTerms, NothingAfterExtending
<1>2. TermsInv' /\ MapTells'
  BY <1>1, RemoveTermTerms, RemoveTermMap DEF HubInv
<1>3. /\ b \in Int /\ e - 1 \in Int /\ 0 <= b /\ b <= e - 1 /\ e - 1 <= MaxId
  BY SizesAssumption, TermFields DEF HubInv, TermsInv, AreTerms
<1>4. /\ ids' = ids \ b..e - 1
      /\ put_members(remove_interval(members, b, e - 1), ct - member_ct(members, b, e - 1))
  BY DEF remove_term, Taken
<1> HIDE DEF b, e
<1>5. member_ct(members, b, e - 1) = Cardinality(ids \cap b..e - 1)
  BY <1>3, ShownCount DEF HubInv, Kept
<1>6. Kept'
  BY <1>3, <1>4, <1>5, KeptTaken DEF HubInv
<1> QED BY <1>2, <1>6 DEF HubInv

LEMMA ExtendKeeps ==
  ASSUME HubInv, NEW n \in 1..MaxId + 1, extend_last_term(n)
  PROVE  HubInv'
<1> DEFINE last == term_id_end - 1
           e == terms[last].end
<1>1. TermsInv' /\ MapTells'
  BY ExtendTerms DEF HubInv
<1>2. /\ IsTerm(terms[last]) /\ terms[last].begin = 0 /\ ids = 0..e - 1 /\ e < n
  BY ExtendsTheOnlyTerm DEF HubInv
<1>3. /\ MaxId \in Int /\ n \in Int /\ n - 1 \in Int /\ 0 <= n - 1 /\ n - 1 <= MaxId /\ e \in Nat
      /\ e - 0 = e
  BY <1>2, SizesAssumption, TermFields
<1>4. put_members(insert_interval(members, 0, n - 1), ct + (n - (e - terms[last].begin)))
  BY DEF extend_last_term
<1>5. ids' = ids \cup 0..n - 1
  BY DEF extend_last_term, Given
<1> HIDE DEF e
<1>6. ids' = 0..n - 1
  BY <1>2, <1>3, <1>5
<1>7. Shows(insert_interval(members, 0, n - 1), ids')
  BY <1>3, <1>5, ShowsInserted DEF HubInv, Kept
<1>8. Cardinality(ids) = e /\ Cardinality(ids') = n
  BY <1>2, <1>3, <1>6, FS_Interval
<1>9. ct + (n - (e - terms[last].begin)) = Cardinality(ids')
  BY <1>2, <1>3, <1>8 DEF HubInv, Kept
<1>10. Kept'
  BY <1>4, <1>7, <1>9, PutKeeps
<1> QED BY <1>1, <1>10 DEF HubInv

LEMMA HubInvInit ==
  ASSUME Init
  PROVE  HubInv
<1>1. MaxId \in Nat /\ MaxTerms \in Nat
  BY SizesAssumption
<1>2. Shows(members, ids)
  BY <1>1 DEF Init, Shows, Intervals, clear, Ids, contains_member
<1>3. Cardinality(ids) = 0
  BY FS_EmptySet DEF Init
<1>4. Kept
  BY <1>2, <1>3 DEF Init, Kept, Extrema
<1>5. TermsInv
  BY <1>1 DEF Init, TermsInv, Extent, AreTerms, Disjoint, OneIfExtended, NextIsFresh, UsedAreInTerms
<1>6. MapTells
  BY <1>1 DEF Init, MapTells, LastKey
<1> QED BY <1>4, <1>5, <1>6 DEF HubInv

LEMMA HubInvUnchanged ==
  ASSUME HubInv, UNCHANGED vars
  PROVE  HubInv'
<1>1. Kept'
  BY DEF HubInv, Kept, Shows, Extrema, Ids, vars
<1>2. TermsInv'
  BY DEF HubInv, TermsInv, Extent, AreTerms, Disjoint, OneIfExtended, NextIsFresh, UsedAreInTerms,
         IsIn, vars, term_vars
<1>3. MapTells'
  BY DEF HubInv, MapTells, vars, term_vars
<1> QED BY <1>1, <1>2, <1>3 DEF HubInv

LEMMA HubInvNext ==
  ASSUME HubInv, NothingAfterExtending, [Next]_vars
  PROVE  HubInv'
<1>0. MaxId \in Nat /\ next_id \in Nat
  BY SizesAssumption DEF HubInv, TermsInv, UsedAreInTerms
<1>1. CASE new_id
  BY <1>1, NewIdKeeps
<1>2. CASE \E x \in Ids : new_id_at(x)
  BY <1>2, NewIdAtKeeps
<1>3. CASE \E x \in Ids : delete_id(x)
  BY <1>3, DeleteIdKeeps
<1>4. CASE \E n \in 1..MaxSize : new_primary_term(n)
  BY <1>0, <1>4, NewPrimaryTermKeeps DEF new_primary_term
<1>5. CASE \E b \in Ids, n \in 1..MaxSize : new_primary_term_at(b, n)
  BY <1>0, <1>5, NewPrimaryTermKeeps DEF Ids
<1>6. CASE \E i \in DOMAIN terms : remove_term(i)
  BY <1>6, RemoveTermKeeps
<1>7. CASE \E n \in 1..MaxId + 1 : extend_last_term(n)
  BY <1>7, ExtendKeeps
<1>8. CASE UNCHANGED vars
  BY <1>8, HubInvUnchanged
<1> QED BY <1>1, <1>2, <1>3, <1>4, <1>5, <1>6, <1>7, <1>8 DEF Next

-----------------------------------------------------------------------------
(***************************************************************************)
(* The id space keeps the invariant for ever, of which the first three     *)
(* properties are parts.                                                   *)
(***************************************************************************)
LEMMA HubInvAlways ==
  ASSUME NothingAfterExtending
  PROVE  Spec => []HubInv
<1>1. Init => HubInv
  BY HubInvInit
<1>2. HubInv /\ [Next]_vars => HubInv'
  BY HubInvNext
<1> QED BY <1>1, <1>2, PTL DEF Spec

(***************************************************************************)
(* TypeOK for any sizes: the extent of the terms, that the loops over them *)
(* rely on, is right whatever terms are made, extended and removed.        *)
(***************************************************************************)
THEOREM ExtentIsRight ==
  ASSUME NothingAfterExtending
  PROVE  Spec => []TypeOK
<1>1. HubInv => TypeOK
  <2> SUFFICES ASSUME HubInv PROVE TypeOK
    OBVIOUS
  <2>1. \A k \in DOMAIN members : k \in -1..MaxId /\ members[k] \in BOOLEAN
    BY SizesAssumption DEF HubInv, Kept, Shows, Intervals
  <2>2. DOMAIN sum_to_term_map \subseteq 0..MaxId + 1 \cup {LastKey}
    BY SizesAssumption DEF HubInv, MapTells, TermsInv, UsedAreInTerms
  <2>3. \A i \in DOMAIN terms : terms[i] \in
          [begin : Ids, end : 1..MaxId + 1, reserved : BOOLEAN, next : 0..MaxId + 1]
    BY DEF HubInv, TermsInv, AreTerms, IsTerm
  <2>4. /\ DOMAIN terms \subseteq term_id_begin..term_id_end - 1
        /\ term_id_begin < term_id_end => {term_id_begin, term_id_end - 1} \subseteq DOMAIN terms
    BY DEF HubInv, TermsInv, Extent
  <2>5. reserved_term \in DOMAIN terms \cup {Unknown} /\ ids \subseteq used /\ used \subseteq Ids
    BY DEF HubInv, TermsInv, NextIsFresh, UsedAreInTerms
  <2> QED BY <2>1, <2>2, <2>3, <2>4, <2>5 DEF TypeOK
<1> QED BY <1>1, HubInvAlways, PTL

(***************************************************************************)
(* MembersAreIds for any sizes: the interval set, the count and the        *)
(* extrema all say which ids were given out and not taken back.            *)
(***************************************************************************)
THEOREM MembersAreRight ==
  ASSUME NothingAfterExtending
  PROVE  Spec => []MembersAreIds
<1>1. HubInv => MembersAreIds
  BY KeptMeansMembersAreIds DEF HubInv
<1> QED BY <1>1, HubInvAlways, PTL

(***************************************************************************)
(* FreshIds for any sizes: a client that does not ask for an id by number  *)
(* gets ids that never were given out.                                     *)
(***************************************************************************)
THEOREM NextIdsAreFresh ==
  ASSUME NothingAfterExtending
  PROVE  Spec => FreshIds
<1>1. HubInv /\ [Next]_vars =>
        [new_id \/ (\E n \in 1..MaxSize : new_primary_term(n))
           => /\ (ids' \ ids) \cap used = {}
              /\ Cardinality(ids' \ ids) = ct' - ct]_vars
  <2> SUFFICES ASSUME HubInv, new_id \/ (\E n \in 1..MaxSize : new_primary_term(n))
               PROVE  FreshStep
    BY DEF FreshStep
  <2>1. CASE new_id
    BY <2>1, NewIdKeeps
  <2>2. CASE \E n \in 1..MaxSize : new_primary_term(n)
    <3>1. next_id \in Nat
      BY SizesAssumption DEF HubInv, TermsInv, UsedAreInTerms
    <3> QED BY <2>2, <3>1, NewPrimaryTermKeeps DEF new_primary_term
  <2> QED BY <2>1, <2>2
<1> QED BY <1>1, HubInvAlways, PTL DEF Spec, FreshIds

-----------------------------------------------------------------------------
(***************************************************************************)
(* The other way round: every term has the key of its begin and that of    *)
(* its end in the map, and no key between them.  A term that is made over  *)
(* the end of a removed one has such a key, so that here no client does    *)
(* that.                                                                   *)
(***************************************************************************)
NothingOverRemoved == "reuses_removed" \notin Practices

HasKeys(map, b, key, i) ==
  /\ b \in DOMAIN map /\ key \in DOMAIN map /\ map[key] = i
  /\ \A k \in DOMAIN map : k <= b \/ k >= key

MapKeys == \A i \in DOMAIN terms :
  HasKeys(sum_to_term_map, terms[i].begin, KeyOf(terms[i], next_id), i)

LEMMA KeyOfTerm ==
  ASSUME TermsInv, NEW i \in DOMAIN terms
  PROVE  /\ KeyOf(terms[i], next_id) \in Nat /\ terms[i].begin < KeyOf(terms[i], next_id)
         /\ KeyOf(terms[i], next_id) <= terms[i].end /\ KeyOf(terms[i], next_id) <= next_id
         /\ ~Extended => KeyOf(terms[i], next_id) = terms[i].end
<1>1. IsTerm(terms[i]) /\ next_id \in Nat
  BY SizesAssumption DEF TermsInv, AreTerms, UsedAreInTerms
<1>2. terms[i].end > next_id => terms[i].begin = 0 /\ 0 < next_id
  BY DEF TermsInv, OneIfExtended
<1>3. ~Extended => ~(terms[i].end > next_id)
  BY DEF Extended
<1> QED BY <1>1, <1>2, <1>3, TermFields DEF KeyOf

LEMMA FindsTerm ==
  ASSUME TermsInv, MapTells, MapKeys
  PROVE  TermsFound
<1> DEFINE map == sum_to_term_map
<1>1. ASSUME NEW x \in 0..next_id - 1
      PROVE  IF term_id(x) = Unknown
                THEN \A j \in DOMAIN terms : ~IsIn(x, j)
                ELSE term_id(x) \in DOMAIN terms /\ IsIn(x, term_id(x))
  <2> DEFINE above == {k \in DOMAIN map : k > x}
             m == Min(above)
  <2>1. MaxId \in Nat /\ next_id \in Nat /\ next_id <= MaxId + 1 /\ x \in Nat /\ x < next_id
    BY SizesAssumption DEF TermsInv, UsedAreInTerms
  <2>2. above \in SUBSET Int /\ LastKey \in above /\ \A k \in above : x <= k
    BY <2>1 DEF MapTells, LastKey
  <2>3. m \in above /\ \A k \in above : m <= k
    BY <2>1, <2>2, MinOfInts
  <2>4. term_id(x) = map[m]
    BY DEF term_id
  <2> HIDE DEF m
  <2>5. m \in DOMAIN map /\ m \in Int /\ m > x
    BY <2>2, <2>3
  <2>6. ASSUME map[m] = Unknown, NEW j \in DOMAIN terms, IsIn(x, j) PROVE FALSE
    <3> DEFINE key == KeyOf(terms[j], next_id)
    <3>1. key = terms[j].end \/ key = next_id
      BY DEF KeyOf
    <3>2. key \in Nat /\ key \in DOMAIN map /\ map[key] = j /\ (m <= terms[j].begin \/ m >= key)
          /\ terms[j].begin \in Nat
      BY <2>5, KeyOfTerm, TermFields DEF MapKeys, HasKeys, TermsInv, AreTerms
    <3> HIDE DEF key
    <3>3. terms[j].begin <= x /\ x < terms[j].end
      BY <2>6 DEF IsIn
    <3>4. key > x
      BY <2>1, <3>1, <3>3
    <3>5. m <= key
      BY <2>3, <3>2, <3>4
    <3>6. m = key
      BY <2>1, <2>5, <3>2, <3>3, <3>5
    <3>7. j # Unknown
      BY DEF TermsInv, Extent, Unknown
    <3> QED BY <2>6, <3>2, <3>6, <3>7
  <2>7. ASSUME map[m] # Unknown PROVE map[m] \in DOMAIN terms /\ IsIn(x, map[m])
    <3> DEFINE i == map[m]
               key == KeyOf(terms[i], next_id)
    <3>1. i \in DOMAIN terms /\ m = key
      BY <2>5, <2>7 DEF MapTells
    <3> HIDE DEF i
    <3>2. terms[i].begin \in Nat /\ terms[i].begin < key /\ key <= terms[i].end /\ terms[i].end \in Nat
          /\ terms[i].begin \in DOMAIN map
      BY <3>1, KeyOfTerm, TermFields DEF MapKeys, HasKeys, TermsInv, AreTerms
    <3> HIDE DEF key
    <3>3. x < terms[i].end
      BY <2>1, <2>5, <3>1, <3>2
    <3>4. terms[i].begin <= x
      BY <2>1, <2>3, <2>5, <3>1, <3>2
    <3>5. i \in DOMAIN terms /\ IsIn(x, i)
      BY <3>1, <3>3, <3>4 DEF IsIn
    <3> QED BY <3>5 DEF i
  <2> QED BY <2>4, <2>6, <2>7
<1>2. \A x \in ids : \E i \in DOMAIN terms : IsIn(x, i)
  BY DEF TermsInv, UsedAreInTerms
<1>3. \A i, j \in DOMAIN terms :
        i # j => terms[i].end <= terms[j].begin \/ terms[j].end <= terms[i].begin
  BY DEF TermsInv, Disjoint
<1> QED BY <1>1, <1>2, <1>3 DEF TermsFound

LEMMA MakesTermKeys ==
  ASSUME TermsInv, MapTells, MapKeys, NEW b, NEW e, NEW r, NEW n, NEW S, MakesTerm(b, e, r, n, S),
         DOMAIN sum_to_term_map \cap (b + 1)..(e - 1) = {}
  PROVE  MapKeys'
<1> DEFINE new == term_id_end
           map == sum_to_term_map
<1>0. /\ MaxId \in Nat /\ b \in Nat /\ e \in Nat /\ next_id \in Nat
      /\ b < e /\ e <= MaxId + 1 /\ next_id <= MaxId + 1
  BY SizesAssumption DEF MakesTerm, IsTerm, Ids, TermsInv, UsedAreInTerms
<1>1. /\ new \in Nat /\ new \notin DOMAIN terms /\ \A i \in DOMAIN terms : i \in Nat
      /\ DOMAIN terms' = DOMAIN terms \cup {new}
      /\ \A i \in DOMAIN terms : terms'[i] = terms[i]
      /\ terms'[new].begin = b /\ terms'[new].end = e
  BY SizesAssumption DEF TermsInv, Extent, MakesTerm, TermIds
<1>2. /\ next_id' \in Nat /\ next_id <= next_id' /\ e <= next_id'
  BY <1>0 DEF MakesTerm
<1>3. \A k \in DOMAIN map : k \in Int
  BY <1>0 DEF MapTells, LastKey
<1>4. /\ DOMAIN map' = DOMAIN map \cup {b, e}
      /\ map'[e] = new
      /\ \A k \in DOMAIN map' \ {e} : map'[k] = IF k \in DOMAIN map THEN map[k] ELSE Unknown
  BY <1>0 DEF MakesTerm, add_term, Put
<1>5. ASSUME NEW i \in DOMAIN terms PROVE HasKeys(map', terms'[i].begin, KeyOf(terms'[i], next_id'), i)
  <2> DEFINE key == terms[i].end
  <2>1. /\ key \in Nat /\ terms[i].begin \in Nat /\ terms[i].begin < key /\ key <= next_id
        /\ KeyOf(terms[i], next_id) = key
    BY KeyOfTerm, TermFields DEF TermsInv, AreTerms, MakesTerm
  <2>2. KeyOf(terms'[i], next_id') = key /\ terms'[i].begin = terms[i].begin
    BY <1>0, <1>1, <1>2, <2>1 DEF KeyOf
  <2>3. key <= b \/ terms[i].begin >= e
    BY DEF MakesTerm, interval_is_available
  <2>4. /\ terms[i].begin \in DOMAIN map /\ key \in DOMAIN map /\ map[key] = i
        /\ \A k \in DOMAIN map : k <= terms[i].begin \/ k >= key
    BY <2>1 DEF MapKeys, HasKeys
  <2>5. key # e
    BY <1>0, <2>1, <2>3
  <2>6. \A k \in DOMAIN map' : k <= terms[i].begin \/ k >= key
    BY <1>0, <1>4, <2>1, <2>3, <2>4
  <2>7. terms[i].begin \in DOMAIN map' /\ key \in DOMAIN map' /\ map'[key] = i
    BY <1>4, <2>4, <2>5
  <2> QED BY <2>2, <2>6, <2>7 DEF HasKeys
<1>6. HasKeys(map', terms'[new].begin, KeyOf(terms'[new], next_id'), new)
  <2>1. KeyOf(terms'[new], next_id') = e
    BY <1>0, <1>1, <1>2 DEF KeyOf
  <2>2. \A k \in DOMAIN map' : k <= b \/ k >= e
    <3>1. \A k \in DOMAIN map : k <= b \/ k >= e
      BY <1>0, <1>3
    <3> QED BY <1>0, <1>4, <3>1
  <2>3. b \in DOMAIN map' /\ e \in DOMAIN map' /\ map'[e] = new
    BY <1>4
  <2> QED BY <1>1, <2>1, <2>2, <2>3 DEF HasKeys
<1>7. ASSUME NEW i \in DOMAIN terms'
      PROVE  HasKeys(map', terms'[i].begin, KeyOf(terms'[i], next_id'), i)
  BY <1>1, <1>5, <1>6
<1> QED BY <1>7 DEF MapKeys

LEMMA GiveFromOldKeys ==
  ASSUME TermsInv, MapKeys, NEW i \in DOMAIN terms, NEW x \in Ids, IsIn(x, i), GiveFromOld(i, x)
  PROVE  MapKeys'
<1>1. /\ terms' = [terms EXCEPT ![i] = new_hub_id(terms[i], x)]
      /\ sum_to_term_map' = sum_to_term_map /\ next_id' = next_id
  BY DEF GiveFromOld, GiveFrom
<1>2. IsTerm(terms[i]) /\ x < terms[i].end
  BY DEF TermsInv, AreTerms, IsIn
<1>3. /\ DOMAIN terms' = DOMAIN terms
      /\ \A j \in DOMAIN terms : terms'[j].begin = terms[j].begin /\ terms'[j].end = terms[j].end
  BY <1>1, <1>2, NewHubIdTerm
<1> QED BY <1>1, <1>3 DEF MapKeys, KeyOf

LEMMA RemoveTermKeys ==
  ASSUME TermsInv, MapTells, MapKeys, ~Extended, NEW i \in DOMAIN terms, remove_term(i)
  PROVE  MapKeys'
<1> DEFINE map == sum_to_term_map
           b == terms[i].begin
           e == terms[i].end
           ended == Put(map, e, Unknown)
<1>1. /\ DOMAIN terms' = DOMAIN terms \ {i}
      /\ \A j \in DOMAIN terms \ {i} : terms'[j] = terms[j]
      /\ next_id' = next_id
      /\ map' = without_term(terms[i])
  BY DEF remove_term, Erase, Restrict
<1>2. \A j \in DOMAIN terms : /\ terms[j].begin \in Nat /\ terms[j].end \in Nat
                              /\ terms[j].begin < terms[j].end
                              /\ KeyOf(terms[j], next_id) = terms[j].end
  BY KeyOfTerm, TermFields DEF TermsInv, AreTerms
<1>3. \A j \in DOMAIN terms : HasKeys(map, terms[j].begin, terms[j].end, j)
  BY <1>2 DEF MapKeys
<1>4. e \in DOMAIN map
  BY <1>3 DEF HasKeys
<1>5. /\ DOMAIN ended = DOMAIN map
      /\ \A k \in DOMAIN map : ended[k] = IF k = e THEN Unknown ELSE map[k]
  BY <1>4 DEF Put
<1>6. /\ DOMAIN map' = IF ended[b] = Unknown THEN DOMAIN map \ {b} ELSE DOMAIN map
      /\ \A k \in DOMAIN map' : map'[k] = ended[k]
  <2> HIDE DEF ended
  <2>1. map' = IF ended[b] = Unknown THEN Erase(ended, {b}) ELSE ended
    BY <1>1 DEF without_term, ended
  <2> QED BY <1>5, <2>1 DEF Erase, Restrict
<1> HIDE DEF ended
<1>7. ASSUME NEW j \in DOMAIN terms'
      PROVE  HasKeys(map', terms'[j].begin, KeyOf(terms'[j], next_id'), j)
  <2> DEFINE bj == terms[j].begin
             ej == terms[j].end
  <2>1. j \in DOMAIN terms /\ j # i /\ terms'[j] = terms[j]
    BY <1>1
  <2>2. KeyOf(terms'[j], next_id') = ej /\ terms'[j].begin = bj
    BY <1>1, <1>2, <2>1
  <2>3. b \in Nat /\ e \in Nat /\ b < e /\ bj \in Nat /\ ej \in Nat /\ bj < ej
    BY <1>2, <2>1
  <2>4. ej <= b \/ e <= bj
    BY <2>1 DEF TermsInv, Disjoint
  <2>5. bj # b /\ ej # e
    BY <2>3, <2>4
  <2>6. /\ bj \in DOMAIN map /\ ej \in DOMAIN map /\ map[ej] = j
        /\ \A k \in DOMAIN map : k <= bj \/ k >= ej
    BY <1>3, <2>1 DEF HasKeys
  <2>7. ended[ej] = j /\ j # Unknown
    BY <1>5, <2>1, <2>5, <2>6 DEF TermsInv, Extent, Unknown
  <2>8. ej \in DOMAIN map' /\ map'[ej] = j /\ bj \in DOMAIN map'
    BY <1>6, <2>5, <2>6, <2>7
  <2>9. \A k \in DOMAIN map' : k <= bj \/ k >= ej
    BY <1>6, <2>6
  <2> QED BY <2>2, <2>8, <2>9 DEF HasKeys
<1> QED BY <1>7 DEF MapKeys

LEMMA ExtendKeys ==
  ASSUME TermsInv, MapKeys, NEW n \in 1..MaxId + 1, extend_last_term(n)
  PROVE  MapKeys'
<1> DEFINE last == term_id_end - 1
<1>1. /\ DOMAIN terms = {last} /\ next_id <= terms[last].end /\ terms[last].end < n
      /\ IsTerm(terms[last])
  BY ExtendsTheOnlyTerm
<1>2. /\ terms' = [terms EXCEPT ![last].end = n]
      /\ UNCHANGED <<next_id, sum_to_term_map>>
  BY DEF extend_last_term
<1>3. /\ DOMAIN terms' = {last} /\ terms'[last].begin = terms[last].begin /\ terms'[last].end = n
  BY <1>1, <1>2 DEF IsTerm
<1>4. terms[last].end \in Nat /\ next_id \in Nat /\ n \in Nat
  BY <1>1, SizesAssumption, TermFields DEF TermsInv, UsedAreInTerms
<1>5. KeyOf(terms'[last], next_id') = KeyOf(terms[last], next_id)
  BY <1>1, <1>2, <1>3, <1>4 DEF KeyOf
<1> QED BY <1>1, <1>2, <1>3, <1>5 DEF MapKeys

LEMMA NewIdKeys ==
  ASSUME HubInv, MapKeys, ~Extended, NEW b \in Nat, NEW x \in b..b + RESERVED_TERM_SIZE - 1,
         interval_is_available(b, b + RESERVED_TERM_SIZE), GiveFromNew(b, x),
         DOMAIN sum_to_term_map \cap (b + 1)..(b + RESERVED_TERM_SIZE - 1) = {}
  PROVE  MapKeys'
<1>1. PICK e \in Int : e = b + RESERVED_TERM_SIZE
  BY SizesAssumption
<1>2. MakesTerm(b, e, TRUE, x + 1, {x})
  BY <1>1, GiveFromNewMakes DEF HubInv
<1>3. DOMAIN sum_to_term_map \cap (b + 1)..(e - 1) = {}
  BY <1>1, SizesAssumption
<1> QED BY <1>2, <1>3, MakesTermKeys DEF HubInv

LEMMA NewPrimaryTermKeys ==
  ASSUME HubInv, MapKeys, NothingAfterExtending, NothingOverRemoved,
         NEW b \in Nat, NEW n \in 1..MaxSize, new_primary_term_at(b, n)
  PROVE  MapKeys'
<1>1. PICK e \in Int : e = b + n
  BY SizesAssumption
<1>2. ~Extended
  BY DEF new_primary_term_at, MayChangeTerms, NothingAfterExtending
<1>3. MakesTerm(b, e, FALSE, b, b..e - 1)
  BY <1>1, <1>2, NewPrimaryTermMakes DEF HubInv
<1>4. DOMAIN sum_to_term_map \cap (b + 1)..(e - 1) = {}
  BY <1>1 DEF new_primary_term_at, NoKeysIn, NothingOverRemoved
<1> QED BY <1>3, <1>4, MakesTermKeys DEF HubInv

LEMMA MapKeysNext ==
  ASSUME HubInv, MapKeys, NothingAfterExtending, NothingOverRemoved, [Next]_vars
  PROVE  MapKeys'
<1>0. MaxId \in Nat /\ next_id \in Nat
  BY SizesAssumption DEF HubInv, TermsInv, UsedAreInTerms
<1>1. ASSUME new_id PROVE MapKeys'
  <2>1. ~Extended
    BY <1>1 DEF new_id, MayChangeTerms, NothingAfterExtending
  <2>2. CASE reserved_term # Unknown /\ terms[reserved_term].next < terms[reserved_term].end
    <3> DEFINE i == reserved_term
               x == terms[i].next
    <3>1. i \in DOMAIN terms /\ IsTerm(terms[i])
      BY <2>2 DEF HubInv, TermsInv, NextIsFresh, AreTerms
    <3>2. x \in Ids /\ IsIn(x, i)
      BY <2>2, <3>1, TermFields, SizesAssumption DEF IsIn, Ids
    <3>3. GiveFromOld(i, x)
      BY <1>1, <2>2 DEF new_id
    <3> QED BY <3>1, <3>2, <3>3, GiveFromOldKeys DEF HubInv
  <2>3. CASE ~(reserved_term # Unknown /\ terms[reserved_term].next < terms[reserved_term].end)
    <3>1. PICK b \in Nat : b = new_reserved_begin /\ next_id <= b
      BY NewReservedBegin DEF HubInv
    <3>2. b \in b..b + RESERVED_TERM_SIZE - 1 /\ b + RESERVED_TERM_SIZE \in Int
      BY SizesAssumption
    <3>3. interval_is_available(b, b + RESERVED_TERM_SIZE)
      BY <2>1, <3>1, <3>2, AfterNextIsAvailable DEF HubInv
    <3>4. GiveFromNew(b, b)
      BY <1>1, <2>3, <3>1 DEF new_id
    <3>5. DOMAIN sum_to_term_map \cap (b + 1)..(b + RESERVED_TERM_SIZE - 1) = {}
      <4>1. b + RESERVED_TERM_SIZE <= MaxId + 1
        BY <3>4 DEF GiveFromNew, Fits
      <4>2. \A k \in DOMAIN sum_to_term_map : k \in 0..next_id \/ k = MaxId + 2
        BY DEF HubInv, MapTells, LastKey
      <4>3. ASSUME NEW k \in DOMAIN sum_to_term_map, k \in (b + 1)..(b + RESERVED_TERM_SIZE - 1)
            PROVE  FALSE
        BY <1>0, <3>1, <3>2, <4>1, <4>2, <4>3, SizesAssumption
      <4> QED BY <4>3
    <3> QED BY <2>1, <3>2, <3>3, <3>4, <3>5, NewIdKeys
  <2> QED BY <2>2, <2>3
<1>2. ASSUME NEW x \in Ids, new_id_at(x) PROVE MapKeys'
  <2>1. ~Extended
    BY <1>2 DEF new_id_at, MayChangeTerms, NothingAfterExtending
  <2>2. CASE term_id(x) # Unknown
    <3>1. PICK i \in DOMAIN terms : i = term_id(x)
      BY <2>2, TermIdIsTerm DEF HubInv
    <3>2. x \in terms[i].begin..terms[i].end - 1
      BY <1>2, <2>2, <3>1 DEF new_id_at, is_valid_reserved_id
    <3>3. GiveFromOld(i, x)
      BY <1>2, <2>2, <3>1 DEF new_id_at
    <3>4. IsIn(x, i)
      <4>1. terms[i].begin \in Int /\ terms[i].end \in Int
        BY TermFields DEF HubInv, TermsInv, AreTerms
      <4> QED BY <3>2, <4>1 DEF IsIn
    <3> QED BY <3>3, <3>4, GiveFromOldKeys DEF HubInv
  <2>3. CASE term_id(x) = Unknown
    <3>1. x \in Nat /\ RESERVED_TERM_SIZE \in Nat
      BY SizesAssumption DEF Ids
    <3>2. PICK b \in Nat : b = reserved_begin(x) /\ b <= x /\ x < b + RESERVED_TERM_SIZE
      BY <3>1, ReservedBegin
    <3>3. interval_is_available(b, b + RESERVED_TERM_SIZE) /\ GiveFromNew(b, x)
      BY <1>2, <2>3, <3>2 DEF new_id_at, is_valid_reserved_id
    <3>4. DOMAIN sum_to_term_map \cap (b + 1)..(b + RESERVED_TERM_SIZE - 1) = {}
      <4>1. NoKeysIn(b, b + RESERVED_TERM_SIZE)
        BY <1>2, <2>3, <3>2 DEF new_id_at
      <4> QED BY <4>1, SizesAssumption DEF NoKeysIn, NothingOverRemoved
    <3>5. x \in b..b + RESERVED_TERM_SIZE - 1
      BY <3>1, <3>2
    <3> QED BY <2>1, <3>3, <3>4, <3>5, NewIdKeys
  <2> QED BY <2>2, <2>3
<1>3. ASSUME NEW x \in Ids, delete_id(x) PROVE MapKeys'
  BY <1>3 DEF delete_id, term_vars, MapKeys
<1>4. CASE \E n \in 1..MaxSize : new_primary_term(n)
  BY <1>0, <1>4, NewPrimaryTermKeys DEF new_primary_term
<1>5. CASE \E b \in Ids, n \in 1..MaxSize : new_primary_term_at(b, n)
  BY <1>0, <1>5, NewPrimaryTermKeys DEF Ids
<1>6. ASSUME NEW i \in DOMAIN terms, remove_term(i) PROVE MapKeys'
  <2>1. ~Extended
    BY <1>6 DEF remove_term, MayChangeTerms, NothingAfterExtending
  <2> QED BY <1>6, <2>1, RemoveTermKeys DEF HubInv
<1>7. CASE \E n \in 1..MaxId + 1 : extend_last_term(n)
  BY <1>7, ExtendKeys DEF HubInv
<1>8. CASE UNCHANGED vars
  BY <1>8 DEF vars, term_vars, MapKeys
<1> QED BY <1>1, <1>2, <1>3, <1>4, <1>5, <1>6, <1>7, <1>8 DEF Next

(***************************************************************************)
(* TermsFound for any sizes: terms that are disjoint contain the ids that  *)
(* were given out, and _sum_to_term_map finds for every id the term it is  *)
(* in.  It takes that no term is made over the end of a removed one: the   *)
(* key that remove_term left there would be found before that of the term. *)
(***************************************************************************)
THEOREM MapFindsTerms ==
  ASSUME NothingAfterExtending, NothingOverRemoved
  PROVE  Spec => []TermsFound
<1>1. Init => MapKeys
  BY DEF Init, MapKeys
<1>2. HubInv /\ MapKeys /\ [Next]_vars => MapKeys'
  BY MapKeysNext
<1>3. HubInv /\ MapKeys => TermsFound
  BY FindsTerm DEF HubInv
<1> QED BY <1>1, <1>2, <1>3, HubInvAlways, PTL DEF Spec
=============================================================================
