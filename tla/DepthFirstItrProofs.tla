------------------------ MODULE DepthFirstItrProofs ------------------------
(***************************************************************************)
(* Proofs about the depth first iterators, for any graph, filter and       *)
(* order: the stacks always hold a way from the anchor to the current      *)
(* member, and all below a member is postvisited before it is.             *)
(***************************************************************************)
EXTENDS DepthFirstItr, SequenceTheorems, Foundations

-----------------------------------------------------------------------------
(***************************************************************************)
(* Sequences.                                                              *)
(***************************************************************************)
LEMMA FrontAndLast ==
  ASSUME NEW S, NEW s \in Seq(S), s # << >>
  PROVE  /\ Len(s) \in Nat \ {0}
         /\ Front(s) \in Seq(S) /\ Len(Front(s)) = Len(s) - 1
         /\ \A i \in 1..Len(s) - 1 : Front(s)[i] = s[i]
         /\ Last(s) = s[Len(s)] /\ Last(s) \in S
<1>1. Len(s) \in Nat \ {0} /\ \A i \in 1..Len(s) : s[i] \in S
  OBVIOUS
<1>2. SubSeq(s, 1, Len(s) - 1) \in Seq(S) /\ Len(SubSeq(s, 1, Len(s) - 1)) = Len(s) - 1
      /\ \A i \in 1..Len(s) - 1 : SubSeq(s, 1, Len(s) - 1)[i] = s[i]
  <2>1. PICK n \in Int : n = Len(s) - 1 /\ 0 <= n /\ n - 1 + 1 = n
    BY <1>1
  <2>2. \A i \in 1..n : s[i] \in S /\ 1 + i - 1 = i
    BY <1>1, <2>1
  <2>3. /\ SubSeq(s, 1, n) \in Seq(S)
        /\ Len(SubSeq(s, 1, n)) = IF 1 <= n THEN n - 1 + 1 ELSE 0
        /\ \A i \in 1..n - 1 + 1 : SubSeq(s, 1, n)[i] = s[1 + i - 1]
    BY <2>2, SubSeqProperties
  <2>4. Len(SubSeq(s, 1, n)) = n /\ \A i \in 1..n : SubSeq(s, 1, n)[i] = s[i]
    BY <2>1, <2>2, <2>3
  <2> QED BY <2>1, <2>3, <2>4
<1> QED BY <1>1, <1>2 DEF Front, Last

LEMMA ToSetTail ==
  ASSUME NEW S, NEW s \in Seq(S), s # << >>, IsInjective(s)
  PROVE  /\ Head(s) \in ToSet(s) /\ Head(s) \in S
         /\ Tail(s) \in Seq(S) /\ IsInjective(Tail(s)) /\ ToSet(Tail(s)) \subseteq ToSet(s)
BY DEF ToSet, IsInjective

LEMMA ToSetHead ==
  ASSUME NEW S, NEW s \in Seq(S), s # << >>
  PROVE  ToSet(s) = {Head(s)} \cup ToSet(Tail(s))
<1>1. Len(s) \in Nat \ {0} /\ Head(s) = s[1] /\ Len(Tail(s)) = Len(s) - 1
      /\ \A i \in 1..Len(s) - 1 : Tail(s)[i] = s[i + 1]
  OBVIOUS
<1>2. ToSet(s) = {s[i] : i \in 1..Len(s)} /\ ToSet(Tail(s)) = {Tail(s)[i] : i \in 1..Len(s) - 1}
  <2>1. DOMAIN s = 1..Len(s) /\ DOMAIN Tail(s) = 1..Len(s) - 1
    BY <1>1
  <2> QED BY <2>1 DEF ToSet
<1>3. ASSUME NEW x PROVE x \in ToSet(s) <=> x = Head(s) \/ x \in ToSet(Tail(s))
  <2>1. ASSUME NEW i \in 1..Len(s), i # 1 PROVE s[i] \in ToSet(Tail(s))
    <3>1. i - 1 \in 1..Len(s) - 1 /\ (i - 1) + 1 = i
      BY <1>1, <2>1
    <3> QED BY <1>1, <1>2, <3>1
  <2>2. ASSUME NEW i \in 1..Len(s) - 1 PROVE Tail(s)[i] \in ToSet(s)
    <3>1. i + 1 \in 1..Len(s)
      BY <1>1
    <3> QED BY <1>1, <1>2, <3>1
  <2>3. s[1] \in ToSet(s)
    BY <1>1, <1>2
  <2> QED BY <1>1, <1>2, <2>1, <2>2, <2>3
<1> QED BY <1>3

LEMMA OneBefore ==
  ASSUME NEW S, NEW a \in S, NEW s \in Seq(S)
  PROVE  /\ <<a>> \o s \in Seq(S) /\ Len(<<a>> \o s) = Len(s) + 1 /\ (<<a>> \o s)[1] = a
         /\ \A i \in 1..Len(s) : (<<a>> \o s)[i + 1] = s[i]
<1>1. <<a>> \in Seq(S) /\ Len(<<a>>) = 1 /\ <<a>>[1] = a
  OBVIOUS
<1>2. PICK t \in Seq(S) : t = <<a>> /\ Len(t) = 1 /\ t[1] = a
  BY <1>1
<1>3. /\ t \o s \in Seq(S) /\ Len(t \o s) = Len(t) + Len(s)
      /\ \A i \in 1..Len(t) + Len(s) :
           (t \o s)[i] = IF i <= Len(t) THEN t[i] ELSE s[i - Len(t)]
  BY ConcatProperties
<1>4. Len(s) \in Nat
  OBVIOUS
<1>5. Len(t \o s) = Len(s) + 1 /\ (t \o s)[1] = a
  BY <1>2, <1>3, <1>4
<1>6. ASSUME NEW i \in 1..Len(s) PROVE (t \o s)[i + 1] = s[i]
  <2>1. i + 1 \in 1..1 + Len(s) /\ ~(i + 1 <= 1) /\ (i + 1) - 1 = i
    BY <1>4
  <2> QED BY <1>2, <1>3, <2>1
<1> QED BY <1>2, <1>3, <1>5, <1>6

-----------------------------------------------------------------------------
(***************************************************************************)
(* The stacks.  On(tail, i) is the i-th member on the path whose iterators *)
(* are on tail, the anchor being the one before the first.  Every iterator *)
(* is over what is left of the cover of the member before it.              *)
(***************************************************************************)
On(tail, i) == IF i = 0 THEN Anchor ELSE Head(tail[i])

IteratorOver(cover, s, m) ==
  s \in Seq(Members) /\ IsInjective(s) /\ ToSet(s) \subseteq ToSet(cover[m])

PathInv ==
  /\ path_tail \in Seq(Seq(Members))
  /\ \A i \in 1..Len(path_tail) :
       path_tail[i] # << >> /\ IteratorOver(setup.cover, path_tail[i], On(path_tail, i - 1))
  /\ IteratorOver(setup.cover, path_head, On(path_tail, Len(path_tail)))
  /\ path_head = << >> => path_tail = << >>
  /\ index = IF path_head = << >> THEN Anchor ELSE Head(path_head)
  /\ IteratorOver(setup.cover, path_head_lc, index)

\* The filtered stack has the members on path_tail that pass, in their order:
\* p[k] is the place of the k-th.
FilteredAt(filter, f, tail, p) ==
  /\ p \in [1..Len(f) -> 1..Len(tail)]
  /\ \A k \in 1..Len(f) : f[k] = Head(tail[p[k]])
  /\ \A k, l \in 1..Len(f) : k < l => p[k] < p[l]
  /\ \A i \in 1..Len(tail) : Head(tail[i]) \in filter <=> \E k \in 1..Len(f) : p[k] = i

FilteredInv ==
  /\ filtered_path_tail \in Seq(setup.filter)
  /\ \E p : FilteredAt(setup.filter, filtered_path_tail, path_tail, p)

States == {"NOT_A_STATE", "INIT_COVER_ITERATOR", "TEST_HAS_VISITED", "INC_COVER_ITERATOR", "DESCEND",
           "TEST_PATH_TAIL", "ASCEND", "FINISH", "EXECUTE_PREVISIT_ACTION", "EXECUTE_LINK_ACTION",
           "EXECUTE_POSTVISIT_ACTION"}

\* Where the machine stops, and what the client was told then.
Stops == {<<"NOT_A_STATE", "NOT_AN_ACTION">>, <<"INIT_COVER_ITERATOR", "PREVISIT_ACTION">>,
          <<"INC_COVER_ITERATOR", "LINK_ACTION">>, <<"TEST_PATH_TAIL", "POSTVISIT_ACTION">>}

ControlInv ==
  /\ setup \in Setups /\ visited \subseteq Members /\ state \in States
  /\ ~running => <<state, action>> \in Stops
  /\ running => state # "NOT_A_STATE"
  /\ xtruncate \in BOOLEAN /\ (xtruncate => running /\ state = "INIT_COVER_ITERATOR")
  /\ state \in {"TEST_HAS_VISITED", "INC_COVER_ITERATOR", "DESCEND", "EXECUTE_LINK_ACTION"}
       => path_head_lc # << >>
  /\ state = "FINISH" => index = Anchor
  /\ state = "ASCEND" => index # Anchor

DoneInv == index = NoIndex /\ path_tail = << >> /\ filtered_path_tail = << >>

DfsInv ==
  /\ ControlInv
  /\ IF is_done THEN DoneInv ELSE PathInv /\ FilteredInv

-----------------------------------------------------------------------------
(***************************************************************************)
(* A path never comes back to a member it has been at, as no member is     *)
(* below itself.  So it never comes back to the anchor.                    *)
(***************************************************************************)
LEMMA SetupIs ==
  ASSUME setup \in Setups
  PROVE  /\ order \in Orders /\ setup.filter \subseteq Members
         /\ setup.cover \in [Members -> Seq(Members)]
         /\ \A m \in Members : IsInjective(setup.cover[m])
         /\ \A M \in (SUBSET Members) \ {{}} : \E m \in M : ToSet(setup.cover[m]) \cap M = {}
         /\ Anchor \in Members /\ NoIndex \notin Members /\ IsFiniteSet(Members)
BY SetupsAssumption DEF order

LEMMA PathNeverReturns ==
  ASSUME setup \in Setups, NEW tail \in Seq(Seq(Members)),
         \A i \in 1..Len(tail) : tail[i] # << >> /\ IteratorOver(setup.cover, tail[i], On(tail, i - 1)),
         NEW m \in ToSet(setup.cover[On(tail, Len(tail))]), NEW k \in 0..Len(tail)
  PROVE  m # On(tail, k)
<1> SUFFICES ASSUME m = On(tail, k) PROVE FALSE
  OBVIOUS
<1> DEFINE M == {x \in Members : \E j \in k..Len(tail) : x = On(tail, j)}
<1>1. \A j \in 0..Len(tail) : On(tail, j) \in Members
  <2> SUFFICES ASSUME NEW j \in 0..Len(tail) PROVE On(tail, j) \in Members
    OBVIOUS
  <2>1. j # 0 => j \in 1..Len(tail) /\ tail[j] \in Seq(Members) /\ tail[j] # << >>
    OBVIOUS
  <2> QED BY <2>1, SetupIs DEF On
<1>2. ASSUME NEW j \in k..Len(tail)
      PROVE  ToSet(setup.cover[On(tail, j)]) \cap M # {}
  <2>1. CASE j = Len(tail)
    <3>1. k \in k..Len(tail) /\ m \in Members
      BY <1>1
    <3>2. m \in M
      BY <3>1
    <3> QED BY <2>1, <3>2
  <2>2. CASE j < Len(tail)
    <3>1. /\ j + 1 \in 1..Len(tail) /\ (j + 1) - 1 = j /\ On(tail, j + 1) = Head(tail[j + 1])
          /\ tail[j + 1] \in Seq(Members) /\ j + 1 \in k..Len(tail)
      BY <2>2 DEF On
    <3>2. On(tail, j + 1) \in ToSet(setup.cover[On(tail, j)])
      BY <3>1, ToSetTail DEF IteratorOver
    <3>3. On(tail, j + 1) \in M
      BY <1>1, <3>1
    <3> QED BY <3>2, <3>3
  <2> QED BY <2>1, <2>2
<1>3. M \in (SUBSET Members) \ {{}}
  BY <1>1
<1>4. \A x \in M : ToSet(setup.cover[x]) \cap M # {}
  BY <1>2
<1> HIDE DEF M
<1> QED BY <1>3, <1>4, SetupIs

LEMMA NotAnchorAgain ==
  ASSUME setup \in Setups, NEW tail \in Seq(Seq(Members)), NEW s \in Seq(Members), s # << >>,
         \A i \in 1..Len(tail) : tail[i] # << >> /\ IteratorOver(setup.cover, tail[i], On(tail, i - 1)),
         IteratorOver(setup.cover, s, On(tail, Len(tail)))
  PROVE  Head(s) # Anchor
<1>1. Head(s) \in ToSet(setup.cover[On(tail, Len(tail))])
  BY ToSetTail DEF IteratorOver
<1>2. Head(s) # On(tail, 0)
  <2>1. 0 \in 0..Len(tail)
    OBVIOUS
  <2> QED BY <1>1, <2>1, PathNeverReturns
<1> QED BY <1>2 DEF On

LEMMA PathLeavesAnchor ==
  ASSUME setup \in Setups, PathInv
  PROVE  /\ index \in Members
         /\ index = Anchor <=> path_head = << >>
         /\ \A i \in 1..Len(path_tail) : Head(path_tail[i]) # Anchor /\ Head(path_tail[i]) \in Members
<1>1. path_head # << >> => Head(path_head) # Anchor /\ Head(path_head) \in Members
  BY NotAnchorAgain, ToSetTail DEF PathInv, IteratorOver
<1>2. ASSUME NEW i \in 1..Len(path_tail)
      PROVE  Head(path_tail[i]) # Anchor /\ Head(path_tail[i]) \in Members
  <2> DEFINE t == SubSeq(path_tail, 1, i - 1)
  <2>1. /\ t \in Seq(Seq(Members)) /\ Len(t) = i - 1
        /\ \A j \in 1..i - 1 : t[j] = path_tail[j]
    BY DEF PathInv
  <2> HIDE DEF t
  <2>2. \A j \in 0..i - 1 : On(t, j) = On(path_tail, j)
    BY <2>1 DEF On
  <2>3. ASSUME NEW j \in 1..Len(t) PROVE t[j] # << >> /\ IteratorOver(setup.cover, t[j], On(t, j - 1))
    <3>1. j \in 1..Len(path_tail) /\ t[j] = path_tail[j] /\ j - 1 \in 0..i - 1
      BY <2>1
    <3>2. On(t, j - 1) = On(path_tail, j - 1)
      BY <2>2, <3>1
    <3> QED BY <3>1, <3>2 DEF PathInv
  <2>4. IteratorOver(setup.cover, path_tail[i], On(t, Len(t))) /\ path_tail[i] # << >>
        /\ path_tail[i] \in Seq(Members)
    BY <2>1, <2>2 DEF PathInv
  <2> QED BY <2>1, <2>3, <2>4, NotAnchorAgain, ToSetTail DEF IteratorOver
<1> QED BY <1>1, <1>2, SetupIs DEF PathInv

-----------------------------------------------------------------------------
(***************************************************************************)
(* The transitions.                                                        *)
(***************************************************************************)
LEMMA Transitions ==
  /\ entered \in {"EXECUTE_PREVISIT_ACTION", "INIT_COVER_ITERATOR"}
  /\ finished \in {"EXECUTE_POSTVISIT_ACTION", "TEST_PATH_TAIL"}
  /\ followed \in {"EXECUTE_LINK_ACTION", "INC_COVER_ITERATOR"}
BY DEF entered, finished, followed

LEMMA EmptyIterator ==
  ASSUME NEW cover, NEW m
  PROVE  IteratorOver(cover, << >>, m)
BY DEF IteratorOver, IsInjective, ToSet

LEMMA PathUnchanged ==
  ASSUME UNCHANGED <<setup, index, paths>>
  PROVE  (PathInv => PathInv') /\ (FilteredInv => FilteredInv')
<1>1. PathInv => PathInv'
  BY DEF paths, PathInv, IteratorOver
<1>2. FilteredInv => FilteredInv'
  BY DEF paths, FilteredInv
<1> QED BY <1>1, <1>2

\* The iterator over the current cover is a new one.
LEMMA OnlyCoverChanges ==
  ASSUME UNCHANGED <<setup, index, path_head, path_tail, filtered_path_tail>>,
         IteratorOver(setup.cover, path_head_lc', index)
  PROVE  (PathInv => PathInv') /\ (FilteredInv => FilteredInv')
<1>1. PathInv => PathInv'
  BY DEF PathInv, IteratorOver
<1>2. FilteredInv => FilteredInv'
  BY DEF FilteredInv
<1> QED BY <1>1, <1>2

LEMMA ResetKeeps ==
  ASSUME DfsInv, NEW markers \in BOOLEAN, reset(markers)
  PROVE  DfsInv'
<1>1. /\ setup' = setup /\ state' = entered /\ index' = Anchor
      /\ visited' = (IF markers THEN {} ELSE visited) \cup {Anchor}
      /\ path_head_lc' = << >> /\ path_head' = << >> /\ path_tail' = << >>
      /\ filtered_path_tail' = << >> /\ xtruncate' = FALSE /\ running' = TRUE
  BY DEF reset, first
<1>2. setup \in Setups /\ visited \subseteq Members /\ Anchor \in Members
  BY SetupIs DEF DfsInv, ControlInv
<1>3. ControlInv'
  BY <1>1, <1>2, Transitions DEF ControlInv, States
<1>4. PathInv'
  BY <1>1, EmptyIterator DEF PathInv
<1>5. FilteredInv'
  <2>1. [k \in 1..0 |-> 0] \in [1..0 -> 1..0]
    OBVIOUS
  <2>2. FilteredAt(setup.filter, << >>, << >>, [k \in 1..0 |-> 0])
    BY <2>1 DEF FilteredAt
  <2> QED BY <1>1, <2>2 DEF FilteredInv
<1>6. ~is_done'
  BY <1>1, Transitions DEF is_done
<1> QED BY <1>3, <1>4, <1>5, <1>6 DEF DfsInv

LEMMA NextKeeps ==
  ASSUME DfsInv, NEW truncate \in BOOLEAN, next(truncate)
  PROVE  DfsInv'
<1>1. UNCHANGED <<setup, state, action, index, paths, visited>> /\ xtruncate' = truncate /\ running' = TRUE
  BY DEF next
<1>2. truncate => state = "INIT_COVER_ITERATOR"
  BY DEF next, DfsInv, ControlInv, Stops
<1>3. ControlInv'
  BY <1>1, <1>2 DEF next, DfsInv, ControlInv, is_done, paths
<1>4. ~is_done /\ ~is_done'
  BY <1>1 DEF next, is_done
<1> QED BY <1>1, <1>3, <1>4, PathUnchanged DEF DfsInv

LEMMA InitCoverKeeps ==
  ASSUME DfsInv, init_cover_iterator
  PROVE  DfsInv'
<1>1. /\ UNCHANGED <<setup, action, index, path_head, path_tail, filtered_path_tail, visited, running>>
      /\ path_head_lc' = (IF xtruncate THEN << >> ELSE setup.cover[index])
      /\ xtruncate' = FALSE /\ running
      /\ state' = IF path_head_lc' # << >> THEN "TEST_HAS_VISITED" ELSE finished
  BY DEF init_cover_iterator, At, GoTo, Rest
<1>2. ~is_done
  BY DEF init_cover_iterator, At, is_done
<1>3. index \in Members /\ setup \in Setups
  BY <1>2, PathLeavesAnchor DEF DfsInv, ControlInv
<1>4. IteratorOver(setup.cover, setup.cover[index], index)
  BY <1>3, SetupIs DEF IteratorOver
<1>5. IteratorOver(setup.cover, path_head_lc', index)
  BY <1>1, <1>4, EmptyIterator
<1>6. ControlInv'
  BY <1>1, Transitions DEF DfsInv, ControlInv, States
<1>7. ~is_done'
  BY <1>1, Transitions DEF is_done
<1> QED BY <1>1, <1>2, <1>5, <1>6, <1>7, OnlyCoverChanges DEF DfsInv

LEMMA TestVisitedKeeps ==
  ASSUME DfsInv, test_has_visited
  PROVE  DfsInv'
<1>1. /\ UNCHANGED <<setup, action, index, paths, visited, xtruncate, running>> /\ running
      /\ state = "TEST_HAS_VISITED" /\ state' \in {followed, "DESCEND"}
  BY DEF test_has_visited, At, GoTo, Rest
<1>2. ControlInv'
  BY <1>1, Transitions DEF DfsInv, ControlInv, States, paths
<1>3. ~is_done /\ ~is_done'
  BY <1>1, Transitions DEF is_done
<1> QED BY <1>1, <1>2, <1>3, PathUnchanged DEF DfsInv

LEMMA IncCoverKeeps ==
  ASSUME DfsInv, inc_cover_iterator
  PROVE  DfsInv'
<1>1. /\ UNCHANGED <<setup, action, index, path_head, path_tail, filtered_path_tail, visited, xtruncate, running>>
      /\ running /\ state = "INC_COVER_ITERATOR" /\ path_head_lc' = Tail(path_head_lc)
      /\ state' = IF path_head_lc' # << >> THEN "TEST_HAS_VISITED" ELSE finished
  BY DEF inc_cover_iterator, At, GoTo, Rest
<1>2. ~is_done /\ ~is_done'
  BY <1>1, Transitions DEF is_done
<1>3. path_head_lc # << >> /\ IteratorOver(setup.cover, path_head_lc, index)
  BY <1>1, <1>2 DEF DfsInv, ControlInv, PathInv
<1>4. IteratorOver(setup.cover, path_head_lc', index)
  BY <1>1, <1>3, ToSetTail DEF IteratorOver
<1>5. ControlInv'
  BY <1>1, Transitions DEF DfsInv, ControlInv, States
<1> QED BY <1>1, <1>2, <1>4, <1>5, OnlyCoverChanges DEF DfsInv

LEMMA TestTailKeeps ==
  ASSUME DfsInv, test_path_tail
  PROVE  DfsInv'
<1>1. /\ UNCHANGED <<setup, action, index, paths, visited, xtruncate, running>> /\ running
      /\ state = "TEST_PATH_TAIL" /\ state' = IF index = Anchor THEN "FINISH" ELSE "ASCEND"
  BY DEF test_path_tail, At, GoTo, Rest
<1>2. ControlInv'
  BY <1>1 DEF DfsInv, ControlInv, States, paths
<1>3. ~is_done /\ ~is_done'
  BY <1>1 DEF is_done
<1> QED BY <1>1, <1>2, <1>3, PathUnchanged DEF DfsInv

LEMMA ExecuteKeeps ==
  ASSUME DfsInv, execute_previsit_action \/ execute_link_action \/ execute_postvisit_action
  PROVE  DfsInv'
<1>1. PICK from, what, to :
        /\ execute(from, what, to)
        /\ \/ from = "EXECUTE_PREVISIT_ACTION" /\ what = "PREVISIT_ACTION" /\ to = "INIT_COVER_ITERATOR"
           \/ from = "EXECUTE_LINK_ACTION" /\ what = "LINK_ACTION" /\ to = "INC_COVER_ITERATOR"
           \/ from = "EXECUTE_POSTVISIT_ACTION" /\ what = "POSTVISIT_ACTION" /\ to = "TEST_PATH_TAIL"
  BY DEF execute_previsit_action, execute_link_action, execute_postvisit_action
<1>2. /\ UNCHANGED <<setup, index, paths, visited, xtruncate>> /\ running
      /\ state = from /\ state' = to
      /\ \/ action' = what /\ running' = FALSE
         \/ action' = action /\ running' = running
  BY <1>1 DEF execute, At, GoTo
<1>3. ControlInv'
  BY <1>1, <1>2 DEF DfsInv, ControlInv, States, Stops, paths
<1>4. ~is_done /\ ~is_done'
  BY <1>1, <1>2 DEF is_done
<1> QED BY <1>2, <1>3, <1>4, PathUnchanged DEF DfsInv

LEMMA FinishKeeps ==
  ASSUME DfsInv, finish
  PROVE  DfsInv'
<1>1. /\ UNCHANGED <<setup, paths, visited, xtruncate>> /\ running /\ state = "FINISH"
      /\ state' = "NOT_A_STATE" /\ action' = "NOT_AN_ACTION" /\ index' = NoIndex /\ running' = FALSE
  BY DEF finish, At, GoTo
<1>2. ControlInv'
  BY <1>1 DEF DfsInv, ControlInv, States, Stops, paths
<1>3. index = Anchor /\ PathInv /\ FilteredInv /\ setup \in Setups
  BY <1>1 DEF DfsInv, ControlInv, is_done
<1>4. path_tail = << >>
  BY <1>3, PathLeavesAnchor DEF PathInv
<1>5. filtered_path_tail = << >>
  <2>1. PICK p : p \in [1..Len(filtered_path_tail) -> 1..0]
    BY <1>3, <1>4 DEF FilteredInv, FilteredAt
  <2>2. Len(filtered_path_tail) = 0
    <3>1. Len(filtered_path_tail) \in Nat
      BY <1>3 DEF FilteredInv
    <3>2. \A k \in 1..Len(filtered_path_tail) : FALSE
      BY <2>1
    <3> QED BY <3>1, <3>2
  <2> QED BY <1>3, <2>2 DEF FilteredInv
<1> QED BY <1>1, <1>2, <1>4, <1>5 DEF DfsInv, DoneInv, is_done, paths

-----------------------------------------------------------------------------
(***************************************************************************)
(* The two steps that move along the path.                                 *)
(***************************************************************************)
LEMMA DescendPath ==
  ASSUME setup \in Setups, PathInv, path_head_lc # << >>, descend
  PROVE  PathInv'
<1> DEFINE n == Len(path_tail)
<1>1. /\ setup' = setup /\ path_head' = path_head_lc /\ path_head_lc' = << >>
      /\ index' = Head(path_head_lc)
      /\ path_tail' = IF index # Anchor THEN Append(path_tail, path_head) ELSE path_tail
  BY DEF descend, Rest
<1>2. /\ path_tail \in Seq(Seq(Members)) /\ n \in Nat /\ path_head \in Seq(Members)
      /\ IteratorOver(setup.cover, path_head_lc, index)
      /\ \A m : IteratorOver(setup.cover, path_head_lc', m)
  BY <1>1, EmptyIterator DEF PathInv, IteratorOver
<1>3. CASE index = Anchor
  <2>1. path_tail = << >> /\ path_tail' = path_tail
    BY <1>1, <1>3, PathLeavesAnchor DEF PathInv
  <2>2. IteratorOver(setup.cover, path_head', On(path_tail', Len(path_tail')))
    BY <1>1, <1>2, <1>3, <2>1 DEF On
  <2> QED BY <1>1, <1>2, <2>1, <2>2 DEF PathInv
<1>4. CASE index # Anchor
  <2>1. path_head # << >> /\ index = Head(path_head)
    BY <1>4, PathLeavesAnchor DEF PathInv
  <2>2. /\ path_tail' \in Seq(Seq(Members)) /\ Len(path_tail') = n + 1
        /\ \A i \in 1..n : path_tail'[i] = path_tail[i]
        /\ path_tail'[n + 1] = path_head
    BY <1>1, <1>2, <1>4
  <2>3. /\ \A i \in 0..n : On(path_tail', i) = On(path_tail, i)
        /\ On(path_tail', n + 1) = index
    BY <1>2, <2>1, <2>2 DEF On
  <2>4. ASSUME NEW i \in 1..n + 1
        PROVE  path_tail'[i] # << >> /\ IteratorOver(setup.cover, path_tail'[i], On(path_tail', i - 1))
    <3>1. i - 1 \in 0..n /\ On(path_tail', i - 1) = On(path_tail, i - 1)
      BY <1>2, <2>3
    <3>2. CASE i \in 1..n
      BY <2>2, <3>1, <3>2 DEF PathInv
    <3>3. CASE i = n + 1
      <4>1. i - 1 = n
        BY <1>2, <3>3
      <4> QED BY <2>1, <2>2, <3>1, <3>3, <4>1 DEF PathInv
    <3> QED BY <1>2, <3>2, <3>3
  <2>5. IteratorOver(setup.cover, path_head', On(path_tail', n + 1))
    BY <1>1, <1>2, <2>3
  <2>6. \A i \in 1..Len(path_tail') :
          path_tail'[i] # << >> /\ IteratorOver(setup.cover, path_tail'[i], On(path_tail', i - 1))
    BY <1>1, <2>2, <2>4 DEF IteratorOver
  <2>7. IteratorOver(setup.cover, path_head', On(path_tail', Len(path_tail')))
    BY <1>1, <2>2, <2>5 DEF IteratorOver
  <2> QED BY <1>1, <1>2, <2>2, <2>6, <2>7 DEF PathInv
<1> QED BY <1>3, <1>4

LEMMA FilteredAppend ==
  ASSUME NEW filter, NEW f \in Seq(filter), NEW tail \in Seq(Seq(Members)), NEW s \in Seq(Members),
         NEW p, FilteredAt(filter, f, tail, p)
  PROVE  \E q : FilteredAt(filter, IF Head(s) \in filter THEN Append(f, Head(s)) ELSE f,
                           Append(tail, s), q)
<1> DEFINE n == Len(tail)
           m == Len(f)
           t == Append(tail, s)
<1>0. n = Len(tail) /\ m = Len(f)
  OBVIOUS
<1>1. /\ n \in Nat /\ m \in Nat /\ Len(t) = n + 1 /\ t[n + 1] = s
      /\ \A i \in 1..n : t[i] = tail[i]
  OBVIOUS
<1>2. /\ p \in [1..m -> 1..n]
      /\ \A k \in 1..m : f[k] = Head(tail[p[k]])
      /\ \A k, l \in 1..m : k < l => p[k] < p[l]
      /\ \A i \in 1..n : Head(tail[i]) \in filter <=> \E k \in 1..m : p[k] = i
  BY DEF FilteredAt
<1> HIDE DEF t, n, m
<1>3. CASE Head(s) \in filter
  <2> DEFINE g == Append(f, Head(s))
             q == [k \in 1..m + 1 |-> IF k = m + 1 THEN n + 1 ELSE p[k]]
  <2>1. Len(g) = m + 1 /\ g[m + 1] = Head(s) /\ \A k \in 1..m : g[k] = f[k]
    BY <1>3 DEF m
  <2>2. q \in [1..m + 1 -> 1..n + 1] /\ q[m + 1] = n + 1 /\ \A k \in 1..m : q[k] = p[k]
    BY <1>1, <1>2
  <2> HIDE DEF g, q
  <2>0. /\ \A k \in 1..m + 1 : k = m + 1 \/ k \in 1..m
        /\ \A k \in 1..m : k < m + 1 /\ p[k] \in 1..n /\ p[k] < n + 1
    BY <1>1, <1>2
  <2>3. ASSUME NEW k \in 1..m + 1 PROVE g[k] = Head(t[q[k]])
    <3>1. CASE k = m + 1
      BY <1>1, <2>1, <2>2, <3>1
    <3>2. CASE k \in 1..m
      <4>1. g[k] = f[k] /\ q[k] = p[k] /\ p[k] \in 1..n
        BY <2>0, <2>1, <2>2, <3>2
      <4>2. t[p[k]] = tail[p[k]]
        BY <1>1, <4>1
      <4> QED BY <1>2, <3>2, <4>1, <4>2
    <3> QED BY <2>0, <3>1, <3>2
  <2>4. ASSUME NEW k \in 1..m + 1, NEW l \in 1..m + 1, k < l PROVE q[k] < q[l]
    <3>1. k \in 1..m
      BY <1>1, <2>4
    <3>2. CASE l = m + 1
      BY <2>0, <2>2, <3>1, <3>2
    <3>3. CASE l \in 1..m
      BY <1>2, <2>2, <2>4, <3>1, <3>3
    <3> QED BY <2>0, <3>2, <3>3
  <2>5. ASSUME NEW i \in 1..n + 1
        PROVE  Head(t[i]) \in filter <=> \E k \in 1..m + 1 : q[k] = i
    <3>1. CASE i = n + 1
      BY <1>1, <1>3, <2>2, <3>1
    <3>2. CASE i \in 1..n
      <4>1. i # n + 1 /\ t[i] = tail[i]
        BY <1>1, <3>2
      <4>2. \A k \in 1..m + 1 : q[k] = i => k \in 1..m
        BY <2>0, <2>2, <4>1
      <4>3. \A k \in 1..m : k \in 1..m + 1
        BY <1>1
      <4> QED BY <1>2, <2>2, <3>2, <4>1, <4>2, <4>3
    <3> QED BY <1>1, <3>1, <3>2
  <2>6. FilteredAt(filter, g, t, q)
    BY <1>1, <2>1, <2>2, <2>3, <2>4, <2>5 DEF FilteredAt
  <2> QED BY <1>3, <2>6 DEF g, t
<1>4. CASE Head(s) \notin filter
  <2>1. p \in [1..m -> 1..n + 1]
    BY <1>1, <1>2
  <2>2. \A k \in 1..m : f[k] = Head(t[p[k]])
    BY <1>1, <1>2
  <2>3. ASSUME NEW i \in 1..n + 1
        PROVE  Head(t[i]) \in filter <=> \E k \in 1..m : p[k] = i
    <3>1. CASE i = n + 1
      BY <1>1, <1>2, <1>4, <3>1
    <3>2. CASE i \in 1..n
      BY <1>1, <1>2, <3>2
    <3> QED BY <1>1, <3>1, <3>2
  <2>4. FilteredAt(filter, f, t, p)
    BY <1>0, <1>1, <1>2, <2>1, <2>2, <2>3 DEF FilteredAt
  <2> QED BY <1>4, <2>4 DEF t
<1> QED BY <1>3, <1>4

LEMMA FilteredFront ==
  ASSUME NEW filter, NEW f \in Seq(filter), NEW tail \in Seq(Seq(Members)), tail # << >>,
         NEW p, FilteredAt(filter, f, tail, p)
  PROVE  LET top == Head(Last(tail)) IN
         \E q : FilteredAt(filter, IF f # << >> /\ Last(f) = top THEN Front(f) ELSE f, Front(tail), q)
<1> DEFINE n == Len(tail)
           m == Len(f)
           t == Front(tail)
           top == Head(Last(tail))
<1>0. n = Len(tail) /\ m = Len(f)
  OBVIOUS
<1>1. /\ n \in Nat \ {0} /\ m \in Nat /\ Len(t) = n - 1 /\ top = Head(tail[n])
      /\ \A i \in 1..n - 1 : t[i] = tail[i]
      /\ \A k \in 1..m : f[k] \in filter
  <2>1. /\ n \in Nat \ {0} /\ Len(t) = n - 1 /\ Last(tail) = tail[n]
        /\ \A i \in 1..n - 1 : t[i] = tail[i]
    BY FrontAndLast
  <2>2. m \in Nat /\ \A k \in 1..m : f[k] \in filter
    OBVIOUS
  <2> QED BY <2>1, <2>2
<1>2. /\ p \in [1..m -> 1..n]
      /\ \A k \in 1..m : f[k] = Head(tail[p[k]])
      /\ \A k, l \in 1..m : k < l => p[k] < p[l]
      /\ \A i \in 1..n : Head(tail[i]) \in filter <=> \E k \in 1..m : p[k] = i
  BY DEF FilteredAt
<1>3. m = 0 <=> f = << >>
  OBVIOUS
<1> HIDE DEF t, n, m, top
<1>4. CASE Head(tail[n]) \in filter
  <2>1. PICK k \in 1..m : p[k] = n
    BY <1>1, <1>2, <1>4
  <2>2. k = m
    <3>1. m \in 1..m /\ p[m] <= n
      BY <1>1, <1>2, <2>1
    <3> QED BY <1>1, <1>2, <2>1, <3>1
  <2>3. f # << >> /\ Last(f) = top
    <3>1. f # << >> /\ f[m] = top
      BY <1>1, <1>2, <1>3, <2>1, <2>2
    <3> QED BY <1>0, <3>1, FrontAndLast
  <2> DEFINE g == Front(f)
             q == [j \in 1..m - 1 |-> p[j]]
  <2>4. Len(g) = m - 1 /\ \A j \in 1..m - 1 : g[j] = f[j]
    BY <1>0, <2>3, FrontAndLast
  <2>5. ASSUME NEW j \in 1..m - 1 PROVE p[j] \in 1..n - 1
    <3>1. j \in 1..m /\ m \in 1..m /\ j < m
      BY <1>1
    <3>2. p[j] \in 1..n /\ p[j] < p[m] /\ p[m] = n
      BY <1>2, <2>1, <2>2, <3>1
    <3> QED BY <1>1, <3>2
  <2>6. q \in [1..m - 1 -> 1..n - 1] /\ \A j \in 1..m - 1 : q[j] = p[j]
    BY <2>5
  <2> HIDE DEF g, q
  <2>7. ASSUME NEW j \in 1..m - 1 PROVE g[j] = Head(t[q[j]])
    <3>1. g[j] = f[j] /\ q[j] = p[j] /\ j \in 1..m
      BY <1>1, <2>4, <2>6
    <3>2. t[p[j]] = tail[p[j]]
      BY <1>1, <2>5
    <3> QED BY <1>2, <3>1, <3>2
  <2>8. \A j, l \in 1..m - 1 : j < l => q[j] < q[l]
    BY <1>1, <1>2, <2>6
  <2>9. ASSUME NEW i \in 1..n - 1
        PROVE  Head(t[i]) \in filter <=> \E j \in 1..m - 1 : q[j] = i
    <3>1. i # n /\ i \in 1..n /\ t[i] = tail[i]
      BY <1>1
    <3>2. Head(tail[i]) \in filter <=> \E j \in 1..m : p[j] = i
      BY <1>2, <3>1
    <3>3. \A j \in 1..m : p[j] = i => j \in 1..m - 1
      BY <1>1, <2>1, <2>2, <3>1
    <3>4. \A j \in 1..m - 1 : j \in 1..m
      BY <1>1
    <3> QED BY <2>6, <3>1, <3>2, <3>3, <3>4
  <2>10. FilteredAt(filter, g, t, q)
    BY <1>1, <2>4, <2>6, <2>7, <2>8, <2>9 DEF FilteredAt
  <2> QED BY <2>3, <2>10 DEF g, t, top
<1>5. CASE Head(tail[n]) \notin filter
  <2>1. ~(f # << >> /\ Last(f) = top)
    BY <1>0, <1>1, <1>3, <1>5, FrontAndLast
  <2>2. \A k \in 1..m : p[k] \in 1..n - 1
    <3>1. \A k \in 1..m : p[k] \in 1..n /\ p[k] # n
      BY <1>1, <1>2, <1>5
    <3> QED BY <1>1, <3>1
  <2>3. p \in [1..m -> 1..n - 1]
    BY <1>2, <2>2
  <2>4. \A k \in 1..m : f[k] = Head(t[p[k]])
    BY <1>1, <1>2, <2>2
  <2>5. ASSUME NEW i \in 1..n - 1
        PROVE  Head(t[i]) \in filter <=> \E k \in 1..m : p[k] = i
    <3>1. i \in 1..n /\ t[i] = tail[i]
      BY <1>1
    <3> QED BY <1>2, <3>1
  <2>6. FilteredAt(filter, f, t, p)
    BY <1>0, <1>1, <1>2, <2>3, <2>4, <2>5 DEF FilteredAt
  <2> QED BY <2>1, <2>6 DEF t, top
<1> QED BY <1>4, <1>5

LEMMA DescendKeeps ==
  ASSUME DfsInv, descend
  PROVE  DfsInv'
<1>1. /\ setup' = setup /\ action' = action /\ running' = running /\ running /\ state = "DESCEND"
      /\ xtruncate' = xtruncate /\ visited' = visited \cup {Head(path_head_lc)}
      /\ path_tail' = (IF index # Anchor THEN Append(path_tail, path_head) ELSE path_tail)
      /\ filtered_path_tail' = IF index # Anchor /\ Head(path_head) \in setup.filter
                                 THEN Append(filtered_path_tail, Head(path_head))
                                 ELSE filtered_path_tail
      /\ path_head_lc' = << >> /\ state' = entered
  BY DEF descend, At, GoTo, Rest
<1>2. ~is_done /\ ~is_done'
  BY <1>1, Transitions DEF is_done
<1>3. /\ setup \in Setups /\ PathInv /\ FilteredInv /\ path_head_lc # << >>
      /\ path_head_lc \in Seq(Members) /\ path_head \in Seq(Members)
      /\ path_tail \in Seq(Seq(Members)) /\ filtered_path_tail \in Seq(setup.filter)
  BY <1>1, <1>2 DEF DfsInv, ControlInv, PathInv, IteratorOver, FilteredInv
<1>4. ControlInv'
  BY <1>1, <1>3, Transitions DEF DfsInv, ControlInv, States
<1>5. PathInv'
  BY <1>3, DescendPath
<1>6. FilteredInv'
  <2>1. CASE index = Anchor
    BY <1>1, <1>3, <2>1 DEF FilteredInv
  <2>2. CASE index # Anchor
    <3>1. PICK p : FilteredAt(setup.filter, filtered_path_tail, path_tail, p)
      BY <1>3 DEF FilteredInv
    <3>2. \E q : FilteredAt(setup.filter, IF Head(path_head) \in setup.filter
                                            THEN Append(filtered_path_tail, Head(path_head))
                                            ELSE filtered_path_tail,
                            Append(path_tail, path_head), q)
      BY <1>3, <3>1, FilteredAppend
    <3>3. \E q : FilteredAt(setup.filter, filtered_path_tail', path_tail', q)
      BY <1>1, <2>2, <3>2
    <3>4. filtered_path_tail' \in Seq(setup.filter)
      <4>1. CASE Head(path_head) \in setup.filter
        <5>1. filtered_path_tail' = Append(filtered_path_tail, Head(path_head))
          BY <1>1, <2>2, <4>1
        <5> QED BY <1>3, <4>1, <5>1
      <4>2. CASE Head(path_head) \notin setup.filter
        BY <1>1, <1>3, <4>2
      <4> QED BY <4>1, <4>2
    <3> QED BY <1>1, <3>3, <3>4 DEF FilteredInv
  <2> QED BY <2>1, <2>2
<1> QED BY <1>2, <1>4, <1>5, <1>6 DEF DfsInv

LEMMA AscendKeeps ==
  ASSUME DfsInv, ascend
  PROVE  DfsInv'
<1>1. /\ setup' = setup /\ action' = action /\ running' = running /\ running /\ state = "ASCEND"
      /\ xtruncate' = xtruncate /\ visited' = visited
      /\ path_head_lc' = path_head /\ state' = followed
  BY DEF ascend, At, GoTo, Rest
<1>2. ~is_done /\ ~is_done'
  BY <1>1, Transitions DEF is_done
<1>3. setup \in Setups /\ PathInv /\ FilteredInv /\ index # Anchor
  BY <1>1, <1>2 DEF DfsInv, ControlInv
<1>4. path_head # << >>
  BY <1>3 DEF PathInv
<1>5. ControlInv'
  BY <1>1, <1>4, Transitions DEF DfsInv, ControlInv, States
<1>6. CASE path_tail = << >>
  <2>1. /\ path_head' = << >> /\ index' = Anchor
        /\ path_tail' = path_tail /\ filtered_path_tail' = filtered_path_tail
    BY <1>6 DEF ascend
  <2>2. IteratorOver(setup.cover, path_head, Anchor)
    BY <1>3, <1>6 DEF PathInv, On
  <2>3. PathInv'
    BY <1>1, <1>6, <2>1, <2>2, EmptyIterator DEF PathInv
  <2>4. FilteredInv'
    BY <1>1, <1>3, <2>1 DEF FilteredInv
  <2> QED BY <1>2, <1>5, <2>3, <2>4 DEF DfsInv
<1>7. CASE path_tail # << >>
  <2> DEFINE n == Len(path_tail)
  <2>1. /\ path_head' = Last(path_tail) /\ path_tail' = Front(path_tail)
        /\ index' = Head(Last(path_tail))
        /\ filtered_path_tail' = unfiltered(Head(Last(path_tail)))
    BY <1>7 DEF ascend, unfiltered
  <2>2. /\ path_tail \in Seq(Seq(Members)) /\ filtered_path_tail \in Seq(setup.filter)
    BY <1>3 DEF PathInv, FilteredInv
  <2>3. /\ n \in Nat \ {0} /\ path_tail' \in Seq(Seq(Members)) /\ Len(path_tail') = n - 1
        /\ \A i \in 1..n - 1 : path_tail'[i] = path_tail[i]
        /\ path_head' = path_tail[n] /\ index' = Head(path_tail[n])
    BY <1>7, <2>1, <2>2, FrontAndLast
  <2>4. /\ path_tail[n] # << >> /\ IteratorOver(setup.cover, path_tail[n], On(path_tail, n - 1))
        /\ IteratorOver(setup.cover, path_head, On(path_tail, n))
        /\ On(path_tail, n) = Head(path_tail[n])
    BY <1>3, <2>3 DEF PathInv, On
  <2>5. \A i \in 0..n - 1 : On(path_tail', i) = On(path_tail, i)
    BY <2>3 DEF On
  <2>6. ASSUME NEW i \in 1..n - 1
        PROVE  path_tail'[i] # << >> /\ IteratorOver(setup.cover, path_tail'[i], On(path_tail', i - 1))
    <3>1. i \in 1..n /\ i - 1 \in 0..n - 1
      BY <2>3
    <3> QED BY <1>3, <2>3, <2>5, <3>1 DEF PathInv
  <2>7. IteratorOver(setup.cover, path_head', On(path_tail', n - 1))
    <3>1. n - 1 \in 0..n - 1
      BY <2>3
    <3> QED BY <2>3, <2>4, <2>5, <3>1
  <2>8. IteratorOver(setup.cover, path_head_lc', index')
    BY <1>1, <2>3, <2>4
  <2>9. PathInv'
    BY <1>1, <2>3, <2>4, <2>6, <2>7, <2>8 DEF PathInv
  <2>10. FilteredInv'
    <3>1. PICK p : FilteredAt(setup.filter, filtered_path_tail, path_tail, p)
      BY <1>3 DEF FilteredInv
    <3>2. \E q : FilteredAt(setup.filter, unfiltered(Head(Last(path_tail))), Front(path_tail), q)
      BY <1>7, <2>2, <3>1, FilteredFront DEF unfiltered
    <3>3. \E q : FilteredAt(setup.filter, filtered_path_tail', path_tail', q)
      BY <2>1, <3>2
    <3>4. filtered_path_tail' \in Seq(setup.filter)
      BY <2>1, <2>2, FrontAndLast DEF unfiltered
    <3> QED BY <1>1, <3>3, <3>4 DEF FilteredInv
  <2> QED BY <1>2, <1>5, <2>9, <2>10 DEF DfsInv
<1> QED BY <1>6, <1>7

-----------------------------------------------------------------------------
(***************************************************************************)
(* What the invariant says of the path from the anchor on.                 *)
(***************************************************************************)
LEMMA WholePath ==
  ASSUME setup \in Setups, PathInv
  PROVE  LET whole == <<Anchor>> \o path   n == Len(path_tail) IN
         /\ n \in Nat /\ whole \in Seq(Members) /\ Len(whole) = Len(path) + 1
         /\ Len(path) = IF path_head = << >> THEN 0 ELSE n + 1
         /\ \A i \in 1..n + 1 : whole[i] = On(path_tail, i - 1)
         /\ path_head # << >> => whole[n + 2] = Head(path_head)
<1> DEFINE n == Len(path_tail)
           t == [i \in DOMAIN path_tail |-> Head(path_tail[i])]
           h == IF path_head = << >> THEN << >> ELSE <<Head(path_head)>>
           whole == <<Anchor>> \o path
<1>1. /\ n \in Nat /\ DOMAIN path_tail = 1..n /\ Anchor \in Members
      /\ \A i \in 1..n : Head(path_tail[i]) \in Members
      /\ path_head # << >> => Head(path_head) \in Members
      /\ path_head = << >> => n = 0
  BY SetupIs, PathLeavesAnchor DEF PathInv
<1>2. t \in Seq(Members) /\ Len(t) = n /\ \A i \in 1..n : t[i] = Head(path_tail[i])
  BY <1>1, IsASeq
<1>3. /\ h \in Seq(Members) /\ Len(h) = (IF path_head = << >> THEN 0 ELSE 1)
      /\ path_head # << >> => h[1] = Head(path_head)
  BY <1>1
<1>4. path = t \o h
  BY DEF path
<1> HIDE DEF t, h
<1>5. /\ path \in Seq(Members) /\ Len(path) = n + Len(h)
      /\ \A i \in 1..n : path[i] = t[i]
      /\ path_head # << >> => path[n + 1] = h[1]
  BY <1>1, <1>2, <1>3, <1>4
<1>6. /\ whole \in Seq(Members) /\ Len(whole) = Len(path) + 1 /\ whole[1] = Anchor
      /\ \A i \in 1..Len(path) : whole[i + 1] = path[i]
  <2>1. PICK s \in Seq(Members) : s = path
    BY <1>5
  <2>2. /\ <<Anchor>> \o s \in Seq(Members) /\ Len(<<Anchor>> \o s) = Len(s) + 1
        /\ (<<Anchor>> \o s)[1] = Anchor
        /\ \A i \in 1..Len(s) : (<<Anchor>> \o s)[i + 1] = s[i]
    BY <1>1, OneBefore
  <2> QED BY <2>1, <2>2
<1>7. Len(path) = IF path_head = << >> THEN 0 ELSE n + 1
  BY <1>1, <1>3, <1>5
<1>8. ASSUME NEW i \in 1..n + 1 PROVE whole[i] = On(path_tail, i - 1)
  <2>1. CASE i = 1
    BY <1>6, <2>1 DEF On
  <2>2. CASE i # 1
    <3>1. i - 1 \in 1..n /\ (i - 1) + 1 = i /\ i - 1 # 0
      BY <1>1, <2>2
    <3>2. i - 1 \in 1..Len(path)
      BY <1>1, <1>7, <3>1
    <3>3. whole[i] = path[i - 1] /\ path[i - 1] = Head(path_tail[i - 1])
      BY <1>2, <1>5, <1>6, <3>1, <3>2
    <3> QED BY <3>1, <3>3 DEF On
  <2> QED BY <2>1, <2>2
<1>9. ASSUME path_head # << >> PROVE whole[n + 2] = Head(path_head)
  <2>1. n + 1 \in 1..Len(path) /\ (n + 1) + 1 = n + 2
    BY <1>1, <1>7, <1>9
  <2> QED BY <1>3, <1>5, <1>6, <1>9, <2>1
<1> HIDE DEF whole
<1>10. /\ n \in Nat /\ whole \in Seq(Members) /\ Len(whole) = Len(path) + 1
       /\ Len(path) = IF path_head = << >> THEN 0 ELSE n + 1
       /\ \A i \in 1..n + 1 : whole[i] = On(path_tail, i - 1)
       /\ path_head # << >> => whole[n + 2] = Head(path_head)
  BY <1>1, <1>6, <1>7, <1>8, <1>9
<1> QED BY <1>10 DEF whole

LEMMA GreaterIsNearest ==
  ASSUME setup \in Setups, PathInv, FilteredInv, NEW whole, whole = <<Anchor>> \o path,
         action # "LINK_ACTION"
  PROVE  greater = LET above == {i \in 1..Len(path) :
                                   whole[i] \in setup.filter /\ whole[i] # Anchor}
                   IN IF above = {} THEN NoIndex ELSE whole[Max(above)]
<1> DEFINE above == {i \in 1..Len(path) : whole[i] \in setup.filter /\ whole[i] # Anchor}
           f == filtered_path_tail
<1>1. PICK n : n = Len(path_tail)
  OBVIOUS
<1>2. /\ n \in Nat /\ Len(path) = (IF path_head = << >> THEN 0 ELSE n + 1)
      /\ \A i \in 1..n + 1 : whole[i] = On(path_tail, i - 1)
  BY <1>1, WholePath
<1>3. greater = IF f = << >> THEN NoIndex ELSE Last(f)
  BY DEF greater
<1>4. PICK m, p : m = Len(f) /\ FilteredAt(setup.filter, f, path_tail, p)
  BY DEF FilteredInv
<1>5. /\ p \in [1..m -> 1..n]
      /\ \A k \in 1..m : f[k] = Head(path_tail[p[k]])
      /\ \A k, l \in 1..m : k < l => p[k] < p[l]
      /\ \A i \in 1..n : Head(path_tail[i]) \in setup.filter <=> \E k \in 1..m : p[k] = i
  BY <1>1, <1>4 DEF FilteredAt
<1>6. f \in Seq(setup.filter) /\ m \in Nat /\ (m = 0 <=> f = << >>)
  BY <1>4 DEF FilteredInv
<1>7. \A i \in 1..n : Head(path_tail[i]) # Anchor
  BY <1>1, PathLeavesAnchor
<1>8. path_head = << >> => n = 0
  BY <1>1 DEF PathInv
<1>9. \A k \in 1..m : /\ p[k] + 1 \in above /\ whole[p[k] + 1] = f[k]
  <2> SUFFICES ASSUME NEW k \in 1..m PROVE p[k] + 1 \in above /\ whole[p[k] + 1] = f[k]
    OBVIOUS
  <2>1. p[k] \in 1..n /\ p[k] # 0 /\ p[k] + 1 \in 1..n + 1 /\ (p[k] + 1) - 1 = p[k]
    BY <1>2, <1>5
  <2>2. Len(path) = n + 1
    BY <1>2, <1>8, <2>1
  <2>3. whole[p[k] + 1] = Head(path_tail[p[k]])
    BY <1>2, <2>1 DEF On
  <2> QED BY <1>5, <1>7, <2>1, <2>2, <2>3
<1>10. ASSUME NEW i \in above PROVE \E k \in 1..m : i = p[k] + 1
  <2>1. i \in 1..Len(path) /\ whole[i] \in setup.filter /\ whole[i] # Anchor
    OBVIOUS
  <2>2. i \in 1..n + 1
    BY <1>2, <2>1
  <2>3. i # 1
    BY <1>2, <2>1, <2>2 DEF On
  <2>4. i - 1 \in 1..n /\ (i - 1) + 1 = i /\ i - 1 # 0
    BY <1>2, <2>2, <2>3
  <2>5. whole[i] = Head(path_tail[i - 1])
    BY <1>2, <2>2, <2>4 DEF On
  <2>6. PICK k \in 1..m : p[k] = i - 1
    BY <1>5, <2>1, <2>4, <2>5
  <2> QED BY <2>4, <2>6
<1>11. above \in SUBSET Int
  BY <1>2
<1> HIDE DEF above
<1>12. CASE m = 0
  <2>1. above = {}
    BY <1>10, <1>12
  <2> QED BY <1>3, <1>6, <1>12, <2>1 DEF above
<1>13. CASE m # 0
  <2>1. m \in 1..m /\ f # << >>
    BY <1>6, <1>13
  <2>2. \A i \in above : i <= p[m] + 1
    <3> SUFFICES ASSUME NEW k \in 1..m PROVE p[k] + 1 <= p[m] + 1
      BY <1>10
    <3>1. k = m \/ p[k] < p[m]
      BY <1>5, <1>6, <2>1
    <3>2. p[k] \in Int /\ p[m] \in Int
      <4>1. p[k] \in 1..n /\ p[m] \in 1..n
        BY <1>5, <2>1
      <4> QED BY <1>2, <4>1
    <3> QED BY <3>1, <3>2
  <2>3. p[m] + 1 \in above
    BY <1>9, <2>1
  <2>4. Max(above) = p[m] + 1
    BY <1>11, <2>2, <2>3, MaxIs
  <2>5. whole[Max(above)] = f[m]
    BY <1>9, <2>1, <2>4
  <2>6. Last(f) = f[m]
    BY <1>4, <1>6, <2>1, FrontAndLast
  <2>7. above # {}
    BY <2>3
  <2> QED BY <1>3, <2>1, <2>5, <2>6, <2>7 DEF above
<1> QED BY <1>12, <1>13

LEMMA PathIsRight ==
  ASSUME DfsInv
  PROVE  PathLeadsToIndex
<1> SUFFICES ASSUME ~is_done PROVE PathLeadsToIndex
  BY DEF PathLeadsToIndex
<1>1. setup \in Setups /\ PathInv /\ FilteredInv
  BY DEF DfsInv, ControlInv
<1>2. PICK whole : whole = <<Anchor>> \o path
  OBVIOUS
<1>3. PICK n : n = Len(path_tail)
  OBVIOUS
<1>4. /\ n \in Nat /\ whole \in Seq(Members) /\ Len(whole) = Len(path) + 1
      /\ Len(path) = (IF path_head = << >> THEN 0 ELSE n + 1)
      /\ \A i \in 1..n + 1 : whole[i] = On(path_tail, i - 1)
      /\ path_head # << >> => whole[n + 2] = Head(path_head)
  BY <1>1, <1>2, <1>3, WholePath
<1>5. index = Last(whole)
  <2>1. Last(whole) = whole[Len(path) + 1]
    BY <1>4 DEF Last
  <2>2. CASE path_head = << >>
    <3>1. Last(whole) = whole[1] /\ whole[1] = Anchor
      BY <1>4, <2>1, <2>2 DEF On
    <3> QED BY <1>1, <2>2, <3>1 DEF PathInv
  <2>3. CASE path_head # << >>
    <3>1. Len(path) + 1 = n + 2
      BY <1>4, <2>3
    <3> QED BY <1>1, <1>4, <2>1, <2>3, <3>1 DEF PathInv
  <2> QED BY <2>2, <2>3
<1>6. ASSUME NEW i \in 1..Len(path)
      PROVE  whole[i + 1] \in ToSet(setup.cover[whole[i]])
  <2>1. path_head # << >> /\ i \in 1..n + 1
    BY <1>4
  <2>2. whole[i] = On(path_tail, i - 1)
    BY <1>4, <2>1
  <2>3. CASE i \in 1..n
    <3>1. path_tail[i] # << >> /\ IteratorOver(setup.cover, path_tail[i], On(path_tail, i - 1))
      BY <1>1, <1>3, <2>3 DEF PathInv
    <3>2. i + 1 \in 1..n + 1 /\ (i + 1) - 1 = i /\ i # 0
      BY <1>4, <2>3
    <3>3. whole[i + 1] = Head(path_tail[i])
      BY <1>4, <3>2 DEF On
    <3> QED BY <2>2, <3>1, <3>3, ToSetTail DEF IteratorOver
  <2>4. CASE i = n + 1
    <3>1. i - 1 = n /\ i + 1 = n + 2
      BY <1>4, <2>4
    <3>2. IteratorOver(setup.cover, path_head, On(path_tail, n))
      BY <1>1, <1>3 DEF PathInv
    <3>3. whole[i + 1] = Head(path_head)
      BY <1>4, <2>1, <3>1
    <3> QED BY <2>1, <2>2, <3>1, <3>2, <3>3, ToSetTail DEF IteratorOver
  <2> QED BY <1>4, <2>1, <2>3, <2>4
<1>7. action # "LINK_ACTION" =>
        greater = LET above == {i \in 1..Len(path) :
                                  whole[i] \in setup.filter /\ whole[i] # Anchor}
                  IN IF above = {} THEN NoIndex ELSE whole[Max(above)]
  BY <1>1, <1>2, GreaterIsNearest
<1> QED BY <1>2, <1>5, <1>6, <1>7 DEF PathLeadsToIndex

LEMMA TypesAreRight ==
  ASSUME DfsInv
  PROVE  TypeOK
<1>1. CASE is_done
  <2>1. DoneInv /\ ControlInv
    BY <1>1 DEF DfsInv
  <2> QED BY <1>1, <2>1 DEF ControlInv, DoneInv, TypeOK, ToSet, is_done
<1>2. CASE ~is_done
  <2>1. ControlInv /\ PathInv /\ FilteredInv /\ setup \in Setups
    BY <1>2 DEF DfsInv, ControlInv
  <2>2. index \in Members /\ index # NoIndex /\ setup.filter \subseteq Members
    BY <2>1, SetupIs, PathLeavesAnchor
  <2>3. ASSUME NEW i \in DOMAIN path_tail
        PROVE  path_tail[i] # << >> /\ IsInjective(path_tail[i])
    <3>1. path_tail \in Seq(Seq(Members))
      BY <2>1 DEF PathInv
    <3>2. DOMAIN path_tail = 1..Len(path_tail)
      BY <3>1
    <3>3. i \in 1..Len(path_tail)
      BY <3>2
    <3> QED BY <2>1, <3>3 DEF PathInv, IteratorOver
  <2>4. ToSet(filtered_path_tail) \subseteq Members
    BY <2>1, <2>2 DEF FilteredInv, ToSet
  <2> QED BY <2>1, <2>2, <2>3, <2>4 DEF ControlInv, TypeOK
<1> QED BY <1>1, <1>2

-----------------------------------------------------------------------------
(***************************************************************************)
(* The invariant is inductive.                                             *)
(***************************************************************************)
LEMMA DfsInvAlways == Spec => []DfsInv
<1>1. Init => DfsInv
  BY DEF Init, DfsInv, ControlInv, DoneInv, is_done, States, Stops
<1>2. DfsInv /\ [Next]_vars => DfsInv'
  <2> SUFFICES ASSUME DfsInv, [Next]_vars PROVE DfsInv'
    OBVIOUS
  <2>1. CASE \E markers \in BOOLEAN : reset(markers)
    BY <2>1, ResetKeeps
  <2>2. CASE \E truncate \in BOOLEAN : next(truncate)
    BY <2>2, NextKeeps
  <2>3. CASE Step
    BY <2>3, InitCoverKeeps, TestVisitedKeeps, IncCoverKeeps, DescendKeeps, TestTailKeeps,
       AscendKeeps, FinishKeeps, ExecuteKeeps DEF Step
  <2>4. CASE UNCHANGED vars
    <3>1. UNCHANGED <<setup, index, paths, state, action, running, visited, xtruncate>>
      BY <2>4 DEF vars
    <3>2. ControlInv'
      BY <3>1 DEF DfsInv, ControlInv, paths
    <3>3. is_done' = is_done /\ (DoneInv => DoneInv')
      BY <3>1 DEF is_done, DoneInv, paths
    <3> QED BY <3>1, <3>2, <3>3, PathUnchanged DEF DfsInv
  <2> QED BY <2>1, <2>2, <2>3, <2>4 DEF Next
<1> QED BY <1>1, <1>2, PTL DEF Spec

(***************************************************************************)
(* TypeOK for any graph and order: no state of the machine takes the head  *)
(* of a cover that is at its end, and a truncation asked for is always     *)
(* used up by the member it was asked for.                                 *)
(***************************************************************************)
THEOREM NoEmptyCoverIsRead == Spec => []TypeOK
<1>1. DfsInv => TypeOK
  BY TypesAreRight
<1> QED BY <1>1, DfsInvAlways, PTL

(***************************************************************************)
(* PathLeadsToIndex for any graph, filter and order: the stacks hold a way *)
(* through the covers to the current member, and greater_index() is the    *)
(* nearest member above it that passes the filter.                         *)
(***************************************************************************)
THEOREM StacksHoldThePath == Spec => []PathLeadsToIndex
<1>1. DfsInv => PathLeadsToIndex
  BY PathIsRight
<1> QED BY <1>1, DfsInvAlways, PTL

-----------------------------------------------------------------------------
(***************************************************************************)
(* path_head is the top of a stack whose rest is path_tail.                *)
(***************************************************************************)
Stack == IF path_head = << >> THEN << >> ELSE Append(path_tail, path_head)

IsStack(stack, lc, m) ==
  /\ stack \in Seq(Seq(Members))
  /\ \A i \in 1..Len(stack) :
       stack[i] # << >> /\ IteratorOver(setup.cover, stack[i], On(stack, i - 1))
  /\ m = On(stack, Len(stack))
  /\ IteratorOver(setup.cover, lc, m)

LEMMA StackIs ==
  ASSUME setup \in Setups, PathInv
  PROVE  IsStack(Stack, path_head_lc, index)
<1>1. CASE path_head = << >>
  BY <1>1 DEF PathInv, Stack, IsStack, On
<1>2. CASE path_head # << >>
  <2> DEFINE n == Len(path_tail)
  <2>1. PICK s : s = Append(path_tail, path_head)
    OBVIOUS
  <2>2. /\ path_tail \in Seq(Seq(Members)) /\ path_head \in Seq(Members) /\ n \in Nat
        /\ index = Head(path_head) /\ IteratorOver(setup.cover, path_head_lc, index)
        /\ IteratorOver(setup.cover, path_head, On(path_tail, n))
    BY <1>2 DEF PathInv, IteratorOver
  <2>3. /\ s \in Seq(Seq(Members)) /\ Len(s) = n + 1 /\ s[n + 1] = path_head
        /\ \A i \in 1..n : s[i] = path_tail[i]
    BY <2>1, <2>2
  <2>4. \A i \in 0..n : On(s, i) = On(path_tail, i)
    <3>1. \A i \in 0..n : i # 0 => i \in 1..n
      BY <2>2
    <3>2. \A i \in 1..n : s[i] = path_tail[i]
      BY <2>3
    <3> QED BY ONLY <3>1, <3>2 DEF On
  <2>5. ASSUME NEW i \in 1..n + 1
        PROVE  s[i] # << >> /\ IteratorOver(setup.cover, s[i], On(s, i - 1))
    <3>1. i - 1 \in 0..n
      BY <2>2
    <3>2. CASE i \in 1..n
      BY <2>3, <2>4, <3>1, <3>2 DEF PathInv
    <3>3. CASE i = n + 1
      <4>1. i - 1 = n
        BY <2>2, <3>3
      <4> QED BY <1>2, <2>2, <2>3, <2>4, <3>1, <3>3, <4>1
    <3> QED BY <2>2, <3>2, <3>3
  <2>6. On(s, n + 1) = index
    BY <2>2, <2>3 DEF On
  <2>7. Stack = s
    BY <1>2, <2>1 DEF Stack
  <2> HIDE DEF n
  <2> QED BY <2>2, <2>3, <2>5, <2>6, <2>7 DEF IsStack
<1> QED BY <1>1, <1>2

LEMMA StackDescends ==
  ASSUME DfsInv, descend
  PROVE  /\ path_head_lc # << >> /\ PathInv /\ setup \in Setups
         /\ Stack' = Append(Stack, path_head_lc)
<1>1. ~is_done /\ path_head_lc # << >> /\ path_head' = path_head_lc
      /\ path_tail' = IF index # Anchor THEN Append(path_tail, path_head) ELSE path_tail
  BY DEF descend, At, is_done, DfsInv, ControlInv
<1>2. PathInv /\ setup \in Setups
  BY <1>1 DEF DfsInv, ControlInv
<1>3. index = Anchor <=> path_head = << >>
  BY <1>2, PathLeavesAnchor
<1>4. path_head = << >> => path_tail = << >>
  BY <1>2 DEF PathInv
<1> QED BY <1>1, <1>2, <1>3, <1>4 DEF Stack

LEMMA StackAscends ==
  ASSUME DfsInv, ascend
  PROVE  LET n == Len(Stack) IN
         /\ n \in Nat \ {0} /\ path_head_lc' = Stack[n] /\ index' = On(Stack, n - 1)
         /\ Stack' \in Seq(Seq(Members)) /\ Len(Stack') = n - 1
         /\ \A i \in 1..n - 1 : Stack'[i] = Stack[i]
<1> DEFINE n == Len(path_tail)
<1>1. ~is_done /\ index # Anchor /\ path_head_lc' = path_head
  BY DEF ascend, At, is_done, DfsInv, ControlInv
<1>2. PathInv /\ setup \in Setups
  BY <1>1 DEF DfsInv, ControlInv
<1>3. path_head # << >> /\ path_tail \in Seq(Seq(Members)) /\ path_head \in Seq(Members) /\ n \in Nat
  BY <1>1, <1>2, PathLeavesAnchor DEF PathInv, IteratorOver
<1>4. /\ Len(Stack) = n + 1 /\ Stack[n + 1] = path_head
      /\ \A i \in 1..n : Stack[i] = path_tail[i]
  BY <1>3 DEF Stack
<1>5. CASE path_tail = << >>
  <2>1. path_head' = << >> /\ index' = Anchor
    BY <1>5 DEF ascend
  <2>2. n = 0 /\ Stack' = << >>
    BY <1>5, <2>1 DEF Stack
  <2> QED BY <1>1, <1>4, <2>1, <2>2 DEF On
<1>6. CASE path_tail # << >>
  <2>1. /\ path_head' = Last(path_tail) /\ path_tail' = Front(path_tail)
        /\ index' = Head(Last(path_tail))
    BY <1>6 DEF ascend
  <2>2. /\ n \in Nat \ {0} /\ path_tail' \in Seq(Seq(Members)) /\ Len(path_tail') = n - 1
        /\ \A i \in 1..n - 1 : path_tail'[i] = path_tail[i]
        /\ path_head' = path_tail[n] /\ index' = Head(path_tail[n])
        /\ path_head' \in Seq(Members)
    BY <1>3, <1>6, <2>1, FrontAndLast
  <2>3. path_tail[n] # << >>
    BY <1>2, <2>2 DEF PathInv
  <2>4. Stack' = Append(path_tail', path_head')
    BY <2>2, <2>3 DEF Stack
  <2>5. /\ Stack' \in Seq(Seq(Members)) /\ Len(Stack') = n
        /\ \A i \in 1..n - 1 : Stack'[i] = path_tail[i]
        /\ Stack'[n] = path_tail[n]
    BY <2>2, <2>4
  <2>6. \A i \in 1..n : Stack'[i] = Stack[i]
    <3>1. \A i \in 1..n : i \in 1..n - 1 \/ i = n
      BY <2>2
    <3> QED BY <1>4, <2>5, <3>1
  <2>7. index' = On(Stack, n)
    BY <1>4, <2>2 DEF On
  <2> HIDE DEF n
  <2>8. n + 1 \in Nat \ {0} /\ (n + 1) - 1 = n
    BY <2>2
  <2> QED BY <1>1, <1>4, <2>5, <2>6, <2>7, <2>8
<1> QED BY <1>5, <1>6
-----------------------------------------------------------------------------
(***************************************************************************)
(* What is below a member is in every set that has its cover and the       *)
(* covers of all it has.                                                   *)
(***************************************************************************)
LEMMA BelowIsIn ==
  ASSUME NEW cover \in [Members -> Seq(Members)], IsFiniteSet(Members), NEW m \in Members,
         NEW F \in SUBSET Members, ToSet(cover[m]) \subseteq F,
         \A x \in F : ToSet(cover[x]) \subseteq F
  PROVE  Below(cover, m) \subseteq F
<1> DEFINE Grown(S) == S \cup UNION {ToSet(cover[x]) : x \in S}
           W == [x \in Members |-> ToSet(cover[x])]
           Is(grow) == grow = [S \in SUBSET Members |->
                                 LET T == S \cup UNION {ToSet(cover[x]) : x \in S}
                                 IN IF T = S THEN S ELSE grow[T]]
<1>1. Below(cover, m) = (CHOOSE grow : Is(grow))[ToSet(cover[m])]
  BY DEF Below
<1>2. W \in [Members -> SUBSET Members] /\ \A x \in Members : W[x] = ToSet(cover[x])
  BY DEF ToSet
<1>3. ASSUME NEW grow PROVE Is(grow) <=> Grows(Members, W, grow)
  <2>1. \A S \in SUBSET Members : UNION {ToSet(cover[x]) : x \in S} = UNION {W[x] : x \in S}
    BY <1>2
  <2>2. [S \in SUBSET Members |-> LET T == S \cup UNION {ToSet(cover[x]) : x \in S}
                                  IN IF T = S THEN S ELSE grow[T]]
          = [S \in SUBSET Members |-> LET T == S \cup UNION {W[x] : x \in S}
                                      IN IF T = S THEN S ELSE grow[T]]
    BY <2>1
  <2> QED BY <2>2 DEF Grows
<1>4. \E grow : Is(grow)
  <2> HIDE DEF W, Is
  <2> QED BY <1>2, <1>3, GrowIsAbove
<1>5. PICK grow : grow = (CHOOSE g : Is(g)) /\ Is(grow)
  <2> HIDE DEF Is
  <2> QED BY <1>4
<1>6. \A S \in SUBSET Members : grow[S] = IF Grown(S) = S THEN S ELSE grow[Grown(S)]
  BY <1>5
<1>7. \A S \in SUBSET F : Grown(S) \in SUBSET F /\ S \subseteq Grown(S)
  OBVIOUS
<1> HIDE DEF Grown, Is
<1> DEFINE Bad == {S \in SUBSET F : ~(grow[S] \subseteq F)}
<1>8. Bad = {}
  <2> SUFFICES ASSUME Bad # {} PROVE FALSE
    OBVIOUS
  <2>1. PICK S \in Bad : \A T \in Bad : S \subseteq T => T = S
    <3>1. Bad \in SUBSET SUBSET Members
      OBVIOUS
    <3> HIDE DEF Bad
    <3> QED BY <3>1, LargestSet
  <2>2. S \in SUBSET F /\ ~(grow[S] \subseteq F)
    OBVIOUS
  <2>3. Grown(S) # S => Grown(S) \notin Bad
    BY <1>7, <2>1, <2>2
  <2> QED BY <1>6, <1>7, <2>2, <2>3
<1> QED BY <1>1, <1>5, <1>8

-----------------------------------------------------------------------------
(***************************************************************************)
(* Postvisits.  F is a set of members that are finished with: all below    *)
(* them is, and they were postvisited if they pass the filter.  Members    *)
(* that were visited and are not on the stack are finished with, and so    *)
(* are those of the covers on the stack that are not there any more.       *)
(***************************************************************************)
IsPostvisit(a, m) == a[1] = "POSTVISIT_ACTION" /\ a[2] = m
Postvisited(acts, m) == \E k \in 1..Len(acts) : IsPostvisit(acts[k], m)

PostOrder == order \in {"POSTORDER", "BIORDER", "TRIORDER"}

AreFinished(F, acts) ==
  /\ F \in SUBSET Members
  /\ \A m \in F : ToSet(setup.cover[m]) \subseteq F
  /\ PostOrder => \A m \in F : m \in setup.filter => Postvisited(acts, m)

\* What is left of the current cover, behind the member that is being looked at.
NoCoverLeft == {"EXECUTE_POSTVISIT_ACTION", "TEST_PATH_TAIL", "ASCEND", "FINISH"}

CoverFinished(F, st, cover, lc) ==
  /\ st \in {"TEST_HAS_VISITED", "DESCEND"} => cover \subseteq F \cup ToSet(lc)
  /\ st \in {"EXECUTE_LINK_ACTION", "INC_COVER_ITERATOR"} => cover \subseteq F \cup ToSet(Tail(lc))
  /\ st \in NoCoverLeft => cover \subseteq F

StackFinished(F, stack, seen) ==
  /\ \A i \in 1..Len(stack) : ToSet(setup.cover[On(stack, i - 1)]) \subseteq F \cup ToSet(stack[i])
  /\ \A m \in seen : m \in F \/ \E i \in 0..Len(stack) : m = On(stack, i)

Finishes(F) ==
  /\ AreFinished(F, actions)
  /\ StackFinished(F, Stack, visited)
  /\ CoverFinished(F, state, ToSet(setup.cover[index]), path_head_lc)

Actions == {"PREVISIT_ACTION", "LINK_ACTION", "POSTVISIT_ACTION"} \X Members \X Members

InPostorder(acts) ==
  /\ acts \in Seq(Actions)
  /\ \A i \in 1..Len(acts) : acts[i][1] = "POSTVISIT_ACTION" =>
       \A m \in Below(setup.cover, acts[i][2]) \cap setup.filter :
         \E k \in 1..i - 1 : IsPostvisit(acts[k], m)

PostInv ==
  /\ xtruncate => truncated # {}
  /\ state = "EXECUTE_POSTVISIT_ACTION" => PostOrder
  /\ marked = {} /\ truncated = {} =>
       /\ InPostorder(actions)
       /\ ~is_done => \E F \in SUBSET Members : Finishes(F)
       /\ PostOrder /\ state \in {"TEST_PATH_TAIL", "ASCEND"} /\ index # Anchor /\ index \in setup.filter
            => Postvisited(actions, index)
LEMMA ActionAppended ==
  ASSUME NEW acts, InPostorder(acts), NEW a \in Actions,
         a[1] = "POSTVISIT_ACTION" =>
           \A m \in Below(setup.cover, a[2]) \cap setup.filter : Postvisited(acts, m)
  PROVE  /\ InPostorder(Append(acts, a))
         /\ \A m : Postvisited(acts, m) \/ IsPostvisit(a, m) => Postvisited(Append(acts, a), m)
<1> DEFINE n == Len(acts)
<1>1. PICK s : s = Append(acts, a)
  OBVIOUS
<1>2. /\ acts \in Seq(Actions) /\ n \in Nat
      /\ s \in Seq(Actions) /\ Len(s) = n + 1 /\ s[n + 1] = a
      /\ \A i \in 1..n : s[i] = acts[i]
  BY <1>1 DEF InPostorder
<1>3. ASSUME NEW m, Postvisited(acts, m) \/ IsPostvisit(a, m) PROVE Postvisited(s, m)
  <2>1. CASE Postvisited(acts, m)
    <3>1. PICK k \in 1..n : IsPostvisit(acts[k], m)
      BY <2>1 DEF Postvisited
    <3>2. k \in 1..n + 1 /\ s[k] = acts[k]
      BY <1>2, <3>1
    <3> QED BY <1>2, <3>1, <3>2 DEF Postvisited
  <2>2. CASE IsPostvisit(a, m)
    <3>1. n + 1 \in 1..n + 1
      BY <1>2
    <3> QED BY <1>2, <2>2, <3>1 DEF Postvisited
  <2> QED BY <1>3, <2>1, <2>2
<1>4. ASSUME NEW i \in 1..n + 1, s[i][1] = "POSTVISIT_ACTION",
             NEW m \in Below(setup.cover, s[i][2]) \cap setup.filter
      PROVE  \E k \in 1..i - 1 : IsPostvisit(s[k], m)
  <2>1. CASE i = n + 1
    <3>1. Postvisited(acts, m)
      BY <1>2, <1>4, <2>1
    <3>2. PICK k \in 1..n : IsPostvisit(acts[k], m)
      BY <3>1 DEF Postvisited
    <3>3. k \in 1..i - 1 /\ s[k] = acts[k]
      BY <1>2, <2>1, <3>2
    <3> QED BY <3>2, <3>3
  <2>2. CASE i # n + 1
    <3>1. i \in 1..n /\ s[i] = acts[i]
      BY <1>2, <2>2
    <3>2. PICK k \in 1..i - 1 : IsPostvisit(acts[k], m)
      BY <1>4, <3>1 DEF InPostorder
    <3>3. k \in 1..n
      BY <1>2, <3>1
    <3>4. s[k] = acts[k]
      BY <1>2, <3>3
    <3> QED BY <3>2, <3>4
  <2> QED BY <2>1, <2>2
<1>5. InPostorder(s)
  <2> HIDE DEF n
  <2> QED BY <1>2, <1>4 DEF InPostorder
<1> QED BY <1>1, <1>3, <1>5

(***************************************************************************)
(* The steps on one member.                                                *)
(***************************************************************************)
LEMMA StackUnchanged ==
  ASSUME UNCHANGED <<setup, index, path_head, path_tail, visited>>, NEW F, Finishes(F),
         AreFinished(F, actions'),
         CoverFinished(F, state', ToSet(setup.cover[index]), path_head_lc')
  PROVE  Finishes(F)'
<1>1. Stack' = Stack
  BY DEF Stack
<1> QED BY <1>1 DEF Finishes, AreFinished, StackFinished, CoverFinished, On, PostOrder, order

LEMMA ResetFinishes ==
  ASSUME DfsInv, NEW markers \in BOOLEAN, reset(markers)
  PROVE  PostInv'
<1>1. /\ state' = entered /\ marked' = (IF markers THEN {} ELSE visited)
      /\ visited' = (IF markers THEN {} ELSE visited) \cup {Anchor}
      /\ path_head' = << >> /\ actions' = << >> /\ xtruncate' = FALSE
  BY DEF reset, first
<1>2. state' \in {"EXECUTE_PREVISIT_ACTION", "INIT_COVER_ITERATOR"}
  BY <1>1, Transitions
<1>3. ASSUME marked' = {} PROVE Finishes({})'
  <2>1. Stack' = << >> /\ visited' = {Anchor}
    BY <1>1, <1>3 DEF Stack
  <2>2. AreFinished({}, actions)' /\ CoverFinished({}, state, ToSet(setup.cover[index]), path_head_lc)'
    BY <1>2 DEF AreFinished, CoverFinished, NoCoverLeft
  <2>3. StackFinished({}, Stack, visited)'
    <3>1. 0 \in 0..Len(<< >>) /\ On(<< >>, 0) = Anchor
      BY DEF On
    <3> QED BY <2>1, <3>1 DEF StackFinished
  <2> QED BY <2>2, <2>3 DEF Finishes
<1>5. InPostorder(actions)'
  <2>1. actions' \in Seq(Actions) /\ 1..Len(actions') = {}
    BY <1>1
  <2> QED BY <2>1 DEF InPostorder
<1>6. {} \in SUBSET Members
  OBVIOUS
<1> QED BY <1>1, <1>2, <1>3, <1>5, <1>6 DEF PostInv

LEMMA NextFinishes ==
  ASSUME DfsInv, PostInv, NEW truncate \in BOOLEAN, next(truncate)
  PROVE  PostInv'
<1>1. /\ UNCHANGED <<setup, state, index, path_head, path_tail, path_head_lc, visited, marked, actions>>
      /\ xtruncate' = truncate
      /\ truncated' = IF truncate THEN truncated \cup {index} ELSE truncated
  BY DEF next, paths
<1>2. truncated' = {} => truncated = {}
  BY <1>1
<1>3. xtruncate' => truncated' # {}
  BY <1>1
<1>4. ASSUME NEW F, Finishes(F) PROVE Finishes(F)'
  BY <1>1, <1>4 DEF Finishes, AreFinished, StackFinished, CoverFinished, On, PostOrder, order, Stack
<1>5. InPostorder(actions) => InPostorder(actions)'
  BY <1>1 DEF InPostorder
<1> QED BY <1>1, <1>2, <1>3, <1>4, <1>5 DEF PostInv, is_done, PostOrder, order
\* The steps that return nothing and stay at a member.
CoverKept ==
  \A F : Finishes(F) => CoverFinished(F, state', ToSet(setup.cover[index]), path_head_lc')

LEMMA StayFinishes ==
  ASSUME DfsInv, PostInv, ~is_done,
         UNCHANGED <<setup, index, path_head, path_tail, visited, marked, truncated, actions>>,
         xtruncate' => xtruncate,
         state' = "EXECUTE_POSTVISIT_ACTION" => PostOrder,
         marked = {} /\ truncated = {} => CoverKept,
         state' \in {"TEST_PATH_TAIL", "ASCEND"} =>
           ~PostOrder \/ state \in {"TEST_PATH_TAIL", "ASCEND"} \/ index = Anchor \/ index \notin setup.filter
  PROVE  PostInv'
<1>1. ASSUME marked = {}, truncated = {}, NEW F, Finishes(F) PROVE Finishes(F)'
  <2>1. AreFinished(F, actions')
    BY <1>1 DEF Finishes
  <2>2. CoverFinished(F, state', ToSet(setup.cover[index]), path_head_lc')
    BY <1>1 DEF CoverKept
  <2> QED BY <1>1, <2>1, <2>2, StackUnchanged
<1>2. InPostorder(actions) => InPostorder(actions)'
  BY DEF InPostorder
<1>3. Postvisited(actions, index) => Postvisited(actions, index)'
  BY DEF Postvisited
<1> QED BY <1>1, <1>2, <1>3 DEF PostInv, PostOrder, order

LEMMA InitCoverFinishes ==
  ASSUME DfsInv, PostInv, init_cover_iterator
  PROVE  PostInv'
<1>1. /\ UNCHANGED <<setup, index, path_head, path_tail, visited, marked, truncated, actions>>
      /\ path_head_lc' = (IF xtruncate THEN << >> ELSE setup.cover[index])
      /\ xtruncate' = FALSE /\ ~is_done
      /\ state' = IF path_head_lc' # << >> THEN "TEST_HAS_VISITED" ELSE finished
  BY DEF init_cover_iterator, At, GoTo, Rest, is_done
<1>2. state' \in {"TEST_PATH_TAIL", "ASCEND"} => ~PostOrder
  BY <1>1 DEF finished, PostOrder
<1>3. state' = "EXECUTE_POSTVISIT_ACTION" => PostOrder
  BY <1>1 DEF finished, PostOrder
<1>4. ASSUME truncated = {}, NEW F
      PROVE  CoverFinished(F, state', ToSet(setup.cover[index]), path_head_lc')
  <2>1. path_head_lc' = setup.cover[index]
    BY <1>1, <1>4 DEF PostInv
  <2>2. ToSet(<< >>) = {}
    BY DEF ToSet
  <2> QED BY <1>1, <2>1, <2>2, Transitions DEF CoverFinished, NoCoverLeft
<1>5. truncated = {} => CoverKept
  BY <1>4 DEF CoverKept
<1> QED BY <1>1, <1>2, <1>3, <1>5, StayFinishes

LEMMA TestVisitedFinishes ==
  ASSUME DfsInv, PostInv, test_has_visited
  PROVE  PostInv'
<1>1. /\ UNCHANGED <<setup, index, path_head, path_tail, path_head_lc, visited, xtruncate, marked, truncated, actions>>
      /\ state = "TEST_HAS_VISITED" /\ ~is_done
      /\ state' = IF seen_before(Head(path_head_lc)) THEN followed ELSE "DESCEND"
  BY DEF test_has_visited, At, GoTo, Rest, is_done, paths
<1>2. /\ path_head_lc # << >> /\ path_head_lc \in Seq(Members) /\ setup \in Setups /\ PathInv
      /\ ToSet(path_head_lc) \subseteq ToSet(setup.cover[index]) /\ IsInjective(path_head_lc)
  BY <1>1 DEF DfsInv, ControlInv, PathInv, IteratorOver
<1>3. ASSUME NEW F, Finishes(F)
      PROVE  CoverFinished(F, state', ToSet(setup.cover[index]), path_head_lc')
  <2>1. ToSet(setup.cover[index]) \subseteq F \cup ToSet(path_head_lc)
    BY <1>1, <1>3 DEF Finishes, CoverFinished
  <2>2. ToSet(path_head_lc) = {Head(path_head_lc)} \cup ToSet(Tail(path_head_lc))
    BY <1>2, ToSetHead
  <2>3. CASE seen_before(Head(path_head_lc))
    <3>1. Head(path_head_lc) \in visited
      BY <2>3 DEF seen_before
    <3>2. Head(path_head_lc) \in ToSet(setup.cover[index])
      BY <1>2, <2>2
    <3>3. \A i \in 0..Len(Stack) : Head(path_head_lc) # On(Stack, i)
      <4>1. IsStack(Stack, path_head_lc, index)
        BY <1>2, StackIs
      <4> QED BY <1>2, <3>2, <4>1, PathNeverReturns DEF IsStack
    <3>4. Head(path_head_lc) \in F
      BY <1>3, <3>1, <3>3 DEF Finishes, StackFinished
    <3>5. ToSet(setup.cover[index]) \subseteq F \cup ToSet(Tail(path_head_lc))
      BY <2>1, <2>2, <3>4
    <3> QED BY <1>1, <2>3, <3>5, Transitions DEF CoverFinished, NoCoverLeft
  <2>4. CASE ~seen_before(Head(path_head_lc))
    BY <1>1, <2>1, <2>4 DEF CoverFinished, NoCoverLeft
  <2> QED BY <2>3, <2>4
<1>4. state' \notin {"TEST_PATH_TAIL", "ASCEND", "EXECUTE_POSTVISIT_ACTION"}
  BY <1>1, Transitions
<1>5. CoverKept
  BY <1>3 DEF CoverKept
<1> QED BY <1>1, <1>4, <1>5, StayFinishes

LEMMA IncCoverFinishes ==
  ASSUME DfsInv, PostInv, inc_cover_iterator
  PROVE  PostInv'
<1>1. /\ UNCHANGED <<setup, index, path_head, path_tail, visited, xtruncate, marked, truncated, actions>>
      /\ state = "INC_COVER_ITERATOR" /\ ~is_done /\ path_head_lc' = Tail(path_head_lc)
      /\ state' = IF path_head_lc' # << >> THEN "TEST_HAS_VISITED" ELSE finished
  BY DEF inc_cover_iterator, At, GoTo, Rest, is_done
<1>2. state' \in {"TEST_PATH_TAIL", "ASCEND"} => ~PostOrder
  BY <1>1 DEF finished, PostOrder
<1>3. state' = "EXECUTE_POSTVISIT_ACTION" => PostOrder
  BY <1>1 DEF finished, PostOrder
<1>4. ASSUME NEW F, Finishes(F)
      PROVE  CoverFinished(F, state', ToSet(setup.cover[index]), path_head_lc')
  <2>1. ToSet(setup.cover[index]) \subseteq F \cup ToSet(path_head_lc')
    BY <1>1, <1>4 DEF Finishes, CoverFinished
  <2>2. ToSet(<< >>) = {}
    BY DEF ToSet
  <2>3. path_head_lc' = << >> => ToSet(setup.cover[index]) \subseteq F
    BY <2>1, <2>2
  <2> QED BY <1>1, <2>1, <2>3, Transitions DEF CoverFinished, NoCoverLeft
<1>5. truncated = {} => CoverKept
  BY <1>4 DEF CoverKept
<1> QED BY <1>1, <1>2, <1>3, <1>5, StayFinishes

LEMMA TestTailFinishes ==
  ASSUME DfsInv, PostInv, test_path_tail
  PROVE  PostInv'
<1>1. /\ UNCHANGED <<setup, index, path_head, path_tail, path_head_lc, visited, xtruncate, marked, truncated, actions>>
      /\ state = "TEST_PATH_TAIL" /\ ~is_done
      /\ state' = IF index = Anchor THEN "FINISH" ELSE "ASCEND"
  BY DEF test_path_tail, At, GoTo, Rest, is_done, paths
<1>2. ASSUME NEW F, Finishes(F)
      PROVE  CoverFinished(F, state', ToSet(setup.cover[index]), path_head_lc')
  BY <1>1, <1>2 DEF Finishes, CoverFinished, NoCoverLeft
<1>3. CoverKept
  BY <1>2 DEF CoverKept
<1>4. state' # "EXECUTE_POSTVISIT_ACTION"
  BY <1>1
<1> QED BY <1>1, <1>3, <1>4, StayFinishes
LEMMA ExecuteFinishes ==
  ASSUME DfsInv, PostInv,
         execute_previsit_action \/ execute_link_action \/ execute_postvisit_action
  PROVE  PostInv'
<1>1. PICK from, what, to :
        /\ execute(from, what, to)
        /\ \/ from = "EXECUTE_PREVISIT_ACTION" /\ what = "PREVISIT_ACTION" /\ to = "INIT_COVER_ITERATOR"
           \/ from = "EXECUTE_LINK_ACTION" /\ what = "LINK_ACTION" /\ to = "INC_COVER_ITERATOR"
           \/ from = "EXECUTE_POSTVISIT_ACTION" /\ what = "POSTVISIT_ACTION" /\ to = "TEST_PATH_TAIL"
  BY DEF execute_previsit_action, execute_link_action, execute_postvisit_action
<1>2. /\ UNCHANGED <<setup, index, path_head, path_tail, path_head_lc, visited, xtruncate, marked, truncated>>
      /\ state = from /\ state' = to /\ ~is_done /\ ~is_done'
      /\ IF passes THEN actions' = Append(actions, <<what, index, lesser(what)>>)
                   ELSE actions' = actions
  BY <1>1 DEF execute, At, GoTo, paths, is_done
<1>3. setup \in Setups /\ PathInv /\ (what = "LINK_ACTION" => path_head_lc # << >>)
  BY <1>1, <1>2 DEF DfsInv, ControlInv
<1>4. <<what, index, lesser(what)>> \in Actions
  <2>1. index \in Members
    BY <1>3, PathLeavesAnchor
  <2>2. path_head_lc \in Seq(Members)
    BY <1>3 DEF PathInv, IteratorOver
  <2>3. lesser(what) \in Members
    BY <1>3, <2>1, <2>2 DEF lesser
  <2> QED BY <1>1, <2>1, <2>3 DEF Actions
<1> DEFINE a == <<what, index, lesser(what)>>
<1>5. a[1] = what /\ a[2] = index
  OBVIOUS
<1>6. what = "POSTVISIT_ACTION" => PostOrder
  BY <1>1, <1>2 DEF PostInv
<1> SUFFICES ASSUME marked = {}, truncated = {}
             PROVE  /\ InPostorder(actions)'
                    /\ (\E F \in SUBSET Members : Finishes(F))'
                    /\ (PostOrder /\ state \in {"TEST_PATH_TAIL", "ASCEND"} /\ index # Anchor /\ index \in setup.filter
                         => Postvisited(actions, index))'
  BY <1>1, <1>2 DEF PostInv
<1>7. PICK F \in SUBSET Members : Finishes(F)
  BY <1>2 DEF PostInv
<1>8. what = "POSTVISIT_ACTION" =>
        \A m \in Below(setup.cover, index) \cap setup.filter : Postvisited(actions, m)
  <2> SUFFICES ASSUME what = "POSTVISIT_ACTION"
               PROVE  \A m \in Below(setup.cover, index) \cap setup.filter : Postvisited(actions, m)
    OBVIOUS
  <2>1. /\ ToSet(setup.cover[index]) \subseteq F /\ \A m \in F : ToSet(setup.cover[m]) \subseteq F
        /\ \A m \in F : m \in setup.filter => Postvisited(actions, m)
    BY <1>1, <1>2, <1>6, <1>7 DEF Finishes, CoverFinished, NoCoverLeft, AreFinished
  <2>2. /\ setup.cover \in [Members -> Seq(Members)] /\ IsFiniteSet(Members) /\ index \in Members
    BY <1>3, SetupIs, PathLeavesAnchor
  <2>3. Below(setup.cover, index) \subseteq F
    BY <2>1, <2>2, BelowIsIn
  <2> QED BY <2>1, <2>3
<1>9. /\ InPostorder(actions')
      /\ \A m : Postvisited(actions, m) => Postvisited(actions', m)
      /\ passes => \A m : IsPostvisit(a, m) => Postvisited(actions', m)
  <2>1. InPostorder(actions)
    BY DEF PostInv
  <2>2. CASE passes
    <3>1. actions' = Append(actions, a)
      BY <1>2, <2>2
    <3>2. a \in Actions
      BY <1>4
    <3> HIDE DEF a
    <3> QED BY <1>5, <1>8, <2>1, <3>1, <3>2, ActionAppended
  <2>3. CASE ~passes
    BY <1>2, <2>1, <2>3
  <2> QED BY <2>2, <2>3
<1>10. InPostorder(actions)'
  BY <1>2, <1>9 DEF InPostorder
<1>11. Finishes(F)'
  <2>1. AreFinished(F, actions')
    BY <1>7, <1>9 DEF Finishes, AreFinished
  <2>2. CoverFinished(F, state', ToSet(setup.cover[index]), path_head_lc')
    BY <1>1, <1>2, <1>7 DEF Finishes, CoverFinished, NoCoverLeft
  <2> QED BY <1>2, <1>7, <2>1, <2>2, StackUnchanged
<1>12. what = "POSTVISIT_ACTION" /\ index # Anchor /\ index \in setup.filter
         => Postvisited(actions', index)
  BY <1>5, <1>9 DEF passes, IsPostvisit
<1>13. state' \in {"TEST_PATH_TAIL", "ASCEND"} => what = "POSTVISIT_ACTION"
  BY <1>1, <1>2
<1>14. Postvisited(actions', index) => Postvisited(actions, index)'
  BY <1>2 DEF Postvisited
<1> HIDE DEF a
<1> QED BY <1>2, <1>10, <1>11, <1>12, <1>13, <1>14

LEMMA FinishFinishes ==
  ASSUME DfsInv, PostInv, finish
  PROVE  PostInv'
<1>1. /\ UNCHANGED <<setup, xtruncate, marked, truncated, actions>> /\ state' = "NOT_A_STATE"
  BY DEF finish, GoTo
<1>2. InPostorder(actions) => InPostorder(actions)'
  BY <1>1 DEF InPostorder
<1> QED BY <1>1, <1>2 DEF PostInv, is_done

-----------------------------------------------------------------------------
(***************************************************************************)
(* The steps along the path.                                               *)
(***************************************************************************)
LEMMA DescendFinishes ==
  ASSUME DfsInv, PostInv, descend
  PROVE  PostInv'
<1>1. /\ UNCHANGED <<setup, xtruncate, marked, truncated, actions>>
      /\ state = "DESCEND" /\ ~is_done /\ state' = entered
      /\ visited' = visited \cup {Head(path_head_lc)}
  BY DEF descend, At, GoTo, Rest, is_done
<1>2. state' \in {"EXECUTE_PREVISIT_ACTION", "INIT_COVER_ITERATOR"}
  BY <1>1, Transitions
<1>3. /\ path_head_lc # << >> /\ PathInv /\ setup \in Setups /\ Stack' = Append(Stack, path_head_lc)
  BY StackDescends
<1>4. IsStack(Stack, path_head_lc, index)
  BY <1>3, StackIs
<1>5. PICK n \in Nat : n = Len(Stack)
  BY <1>4 DEF IsStack
<1>6. /\ Len(Stack') = n + 1 /\ Stack'[n + 1] = path_head_lc
      /\ \A i \in 1..n : Stack'[i] = Stack[i]
  BY <1>3, <1>4, <1>5 DEF IsStack, IteratorOver
<1>7. /\ \A i \in 0..n : On(Stack', i) = On(Stack, i)
      /\ On(Stack', n + 1) = Head(path_head_lc)
  <2>1. \A i \in 0..n : i # 0 => i \in 1..n
    BY <1>5
  <2>2. n + 1 # 0
    BY <1>5
  <2> QED BY <1>6, <2>1, <2>2 DEF On
<1>8. ASSUME NEW F, Finishes(F) PROVE Finishes(F)'
  <2>1. AreFinished(F, actions)' /\ CoverFinished(F, state, ToSet(setup.cover[index]), path_head_lc)'
    BY <1>1, <1>2, <1>8 DEF Finishes, AreFinished, CoverFinished, NoCoverLeft, PostOrder, order
  <2>2. ASSUME NEW i \in 1..n + 1
        PROVE  ToSet(setup.cover[On(Stack', i - 1)]) \subseteq F \cup ToSet(Stack'[i])
    <3>1. i - 1 \in 0..n /\ On(Stack', i - 1) = On(Stack, i - 1)
      BY <1>5, <1>7
    <3>2. CASE i \in 1..n
      BY <1>5, <1>6, <1>8, <3>1, <3>2 DEF Finishes, StackFinished
    <3>3. CASE i = n + 1
      <4>1. i - 1 = n /\ index = On(Stack, n)
        BY <1>4, <1>5, <3>3 DEF IsStack
      <4>2. ToSet(setup.cover[index]) \subseteq F \cup ToSet(path_head_lc)
        BY <1>1, <1>8 DEF Finishes, CoverFinished
      <4> QED BY <1>6, <3>1, <3>3, <4>1, <4>2
    <3> QED BY <1>5, <3>2, <3>3
  <2>3. ASSUME NEW m \in visited'
        PROVE  m \in F \/ \E i \in 0..n + 1 : m = On(Stack', i)
    <3>1. CASE m = Head(path_head_lc)
      <4>1. n + 1 \in 0..n + 1
        BY <1>5
      <4> QED BY <1>7, <3>1, <4>1
    <3>2. CASE m \in visited /\ m \notin F
      <4>1. PICK i \in 0..n : m = On(Stack, i)
        BY <1>5, <1>8, <3>2 DEF Finishes, StackFinished
      <4>2. i \in 0..n + 1
        BY <1>5
      <4> QED BY <1>7, <4>1, <4>2
    <3> QED BY <1>1, <3>1, <3>2
  <2>4. StackFinished(F, Stack, visited)'
    BY <1>1, <1>6, <2>2, <2>3 DEF StackFinished, On
  <2> QED BY <2>1, <2>4 DEF Finishes
<1>9. InPostorder(actions) => InPostorder(actions)'
  BY <1>1 DEF InPostorder
<1> QED BY <1>1, <1>2, <1>8, <1>9 DEF PostInv

LEMMA AscendFinishes ==
  ASSUME DfsInv, PostInv, ascend
  PROVE  PostInv'
<1>1. /\ UNCHANGED <<setup, visited, xtruncate, marked, truncated, actions>>
      /\ state = "ASCEND" /\ ~is_done /\ state' = followed /\ index # Anchor
  BY DEF ascend, At, GoTo, Rest, is_done, DfsInv, ControlInv
<1>2. state' \in {"EXECUTE_LINK_ACTION", "INC_COVER_ITERATOR"}
  BY <1>1, Transitions
<1>3. PathInv /\ setup \in Setups
  BY <1>1 DEF DfsInv, ControlInv
<1>4. IsStack(Stack, path_head_lc, index) /\ index \in Members
  BY <1>3, StackIs, PathLeavesAnchor
<1>5. PICK n \in Nat \ {0} : n = Len(Stack)
  BY StackAscends
<1>6. /\ path_head_lc' = Stack[n] /\ index' = On(Stack, n - 1)
      /\ Len(Stack') = n - 1
      /\ \A i \in 1..n - 1 : Stack'[i] = Stack[i]
  BY <1>5, StackAscends
<1>7. \A i \in 0..n - 1 : On(Stack', i) = On(Stack, i)
  <2>1. \A i \in 0..n - 1 : i # 0 => i \in 1..n - 1
    BY <1>5
  <2> QED BY <1>6, <2>1 DEF On
<1>8. /\ Stack[n] \in Seq(Members) /\ Stack[n] # << >> /\ index = Head(Stack[n])
      /\ ToSet(Stack[n]) = {index} \cup ToSet(Tail(Stack[n]))
  <2>1. n \in 1..n
    BY <1>5
  <2>2. Stack[n] \in Seq(Members) /\ Stack[n] # << >> /\ index = Head(Stack[n])
    BY <1>4, <1>5, <2>1 DEF IsStack, On
  <2> QED BY <2>2, ToSetHead
<1>9. ASSUME marked = {}, truncated = {}, NEW F \in SUBSET Members, Finishes(F)
      PROVE  \E G \in SUBSET Members : Finishes(G)'
  <2>0. PICK G \in SUBSET Members : G = F \cup {index}
    BY <1>4
  <2>1. AreFinished(G, actions)'
    <3>1. ToSet(setup.cover[index]) \subseteq F
      BY <1>1, <1>9 DEF Finishes, CoverFinished, NoCoverLeft
    <3>2. PostOrder /\ index \in setup.filter => Postvisited(actions, index)
      BY <1>1, <1>9 DEF PostInv
    <3>3. AreFinished(G, actions)
      BY <1>4, <1>9, <2>0, <3>1, <3>2 DEF Finishes, AreFinished
    <3> QED BY <1>1, <3>3 DEF AreFinished, PostOrder, order
  <2>2. ASSUME NEW i \in 1..n
        PROVE  ToSet(setup.cover[On(Stack, i - 1)]) \subseteq F \cup ToSet(Stack[i])
    BY <1>5, <1>9 DEF Finishes, StackFinished
  <2>3. CoverFinished(G, state, ToSet(setup.cover[index]), path_head_lc)'
    <3>1. n \in 1..n
      BY <1>5
    <3>2. ToSet(setup.cover[On(Stack, n - 1)]) \subseteq F \cup ToSet(Stack[n])
      BY <2>2, <3>1
    <3>3. ToSet(setup.cover[index'])  \subseteq G \cup ToSet(Tail(path_head_lc'))
      BY <1>6, <1>8, <2>0, <3>2
    <3> QED BY <1>1, <1>2, <3>3 DEF CoverFinished, NoCoverLeft
  <2>4. ASSUME NEW i \in 1..n - 1
        PROVE  ToSet(setup.cover[On(Stack', i - 1)]) \subseteq G \cup ToSet(Stack'[i])
    <3>1. i \in 1..n /\ i - 1 \in 0..n - 1
      BY <1>5
    <3> QED BY <1>6, <1>7, <2>0, <2>2, <3>1
  <2>5. ASSUME NEW m \in visited
        PROVE  m \in G \/ \E i \in 0..n - 1 : m = On(Stack', i)
    <3>1. CASE m \notin F
      <4>1. PICK i \in 0..n : m = On(Stack, i)
        BY <1>5, <1>9, <3>1 DEF Finishes, StackFinished
      <4>2. CASE i = n
        BY <1>4, <1>5, <2>0, <4>1, <4>2 DEF IsStack
      <4>3. CASE i # n
        <5>1. i \in 0..n - 1
          BY <1>5, <4>3
        <5> QED BY <1>7, <4>1, <5>1
      <4> QED BY <4>2, <4>3
    <3> QED BY <2>0, <3>1
  <2>6. StackFinished(G, Stack, visited)'
    <3> QED BY <1>1, <1>6, <2>4, <2>5 DEF StackFinished, On
  <2> QED BY <2>1, <2>3, <2>6 DEF Finishes
<1>10. InPostorder(actions) => InPostorder(actions)'
  BY <1>1 DEF InPostorder
<1> QED BY <1>1, <1>2, <1>9, <1>10 DEF PostInv

LEMMA PostInvAlways == Spec => []PostInv
<1>1. Init => PostInv
  <2> SUFFICES ASSUME Init PROVE PostInv
    OBVIOUS
  <2>1. actions \in Seq(Actions) /\ 1..Len(actions) = {}
    BY DEF Init
  <2> QED BY <2>1 DEF Init, PostInv, InPostorder, is_done
<1>2. DfsInv /\ PostInv /\ [Next]_vars => PostInv'
  <2> SUFFICES ASSUME DfsInv, PostInv, [Next]_vars PROVE PostInv'
    OBVIOUS
  <2>1. CASE \E markers \in BOOLEAN : reset(markers)
    BY <2>1, ResetFinishes
  <2>2. CASE \E truncate \in BOOLEAN : next(truncate)
    BY <2>2, NextFinishes
  <2>3. CASE Step
    BY <2>3, InitCoverFinishes, TestVisitedFinishes, IncCoverFinishes, DescendFinishes,
       TestTailFinishes, AscendFinishes, FinishFinishes, ExecuteFinishes DEF Step
  <2>4. CASE UNCHANGED vars
    <3>1. UNCHANGED <<setup, state, index, path_head, path_tail, path_head_lc, visited, xtruncate,
                      marked, truncated, actions>>
      BY <2>4 DEF vars, paths
    <3>2. ASSUME NEW F, Finishes(F) PROVE Finishes(F)'
      BY <3>1, <3>2 DEF Finishes, AreFinished, StackFinished, CoverFinished, On, PostOrder, order, Stack
    <3>3. InPostorder(actions) => InPostorder(actions)'
      BY <3>1 DEF InPostorder
    <3>4. Postvisited(actions, index) => Postvisited(actions, index)'
      BY <3>1 DEF Postvisited
    <3> QED BY <3>1, <3>2, <3>3, <3>4 DEF PostInv, is_done, PostOrder, order
  <2> QED BY <2>1, <2>2, <2>3, <2>4 DEF Next
<1> QED BY <1>1, <1>2, DfsInvAlways, PTL DEF Spec

(***************************************************************************)
(* BelowIsPostvisitedFirst for any graph, filter and order, whether or not *)
(* members are visited more than once: a client that builds something      *)
(* bottom up finds everything below a member done when it is postvisited.  *)
(***************************************************************************)
THEOREM BottomUpOrder == Spec => []BelowIsPostvisitedFirst
<1>1. PostInv => BelowIsPostvisitedFirst
  <2> SUFFICES ASSUME PostInv, marked = {}, truncated = {}, NEW i \in DOMAIN actions,
                      actions[i][1] = "POSTVISIT_ACTION",
                      NEW m \in Below(setup.cover, actions[i][2]) \cap setup.filter
               PROVE  m \in {actions[k][2] : k \in {j \in 1..(i - 1) : actions[j][1] = "POSTVISIT_ACTION"}}
    BY DEF BelowIsPostvisitedFirst
  <2>1. InPostorder(actions)
    BY DEF PostInv
  <2>2. DOMAIN actions = 1..Len(actions)
    BY <2>1 DEF InPostorder
  <2>3. PICK k \in 1..i - 1 : IsPostvisit(actions[k], m)
    BY <2>1, <2>2 DEF InPostorder
  <2> QED BY <2>3 DEF IsPostvisit
<1> QED BY <1>1, PostInvAlways, PTL
=============================================================================
