---------------------------- MODULE CoverRelation ----------------------------
(***************************************************************************)
(* The cover relation graph of a poset (sheaves/posets/poset_crg_state.cc) *)
(* and the operations poset_state_handle and abstract_poset_member build   *)
(* on it, as operators that take a poset and return the poset they leave.  *)
(*                                                                         *)
(* A poset is a record. members and jims are sets of hub ids; next is the  *)
(* next new id, an id is not given out twice; lower and upper give each id *)
(* the members it covers and is covered by. The code keeps both as lists   *)
(* (list_index_space_state): an entry is pushed at the back, a removed     *)
(* entry leaves a hole that every reader skips. The first entry of an      *)
(* upper cover is how jems are found, so an upper cover is a sequence;     *)
(* nothing here depends on the order of a lower cover, which is a set.     *)
(***************************************************************************)
EXTENDS Naturals, Sequences, SequencesExt, FiniteSets

CONSTANT MaxId   \* bound: the largest hub id
ASSUME MaxIdAssumption == MaxId \in Nat /\ MaxId >= 1

Ids == 0..MaxId
BOTTOM_INDEX == 0
TOP_INDEX == 1
Standard == {BOTTOM_INDEX, TOP_INDEX}

Posets == [members : SUBSET Ids, jims : SUBSET Ids, next : 2..MaxId + 1,
           lower : [Ids -> SUBSET Ids], upper : [Ids -> Seq(Ids)]]

(***************************************************************************)
(* initialize_standard_members.  An empty poset does not link its top to   *)
(* its bottom.                                                             *)
(***************************************************************************)
initialize_standard_members ==
  [members |-> Standard, jims |-> {}, next |-> 2,
   lower |-> [m \in Ids |-> {}], upper |-> [m \in Ids |-> << >>]]

-----------------------------------------------------------------------------
(***************************************************************************)
(* Queries.                                                                *)
(***************************************************************************)
is_jim(p, m) == m \in p.jims
lower_is_empty(p, m) == p.lower[m] = {}
upper_is_empty(p, m) == p.upper[m] = << >>
lower_is_singleton(p, m) == \E l \in p.lower[m] : p.lower[m] = {l}
lower_is_equal(p, m, other) == p.lower[m] = p.lower[other]
lower_member(p, m) == CHOOSE l \in p.lower[m] : TRUE
first_upper_member(p, m) == Head(p.upper[m])
contains_link(p, greater, lesser) ==
  lesser \in p.lower[greater] /\ Contains(p.upper[lesser], greater)

(***************************************************************************)
(* The bottom is linked to members without a lower cover only, so it is    *)
(* the first entry of the lower cover if it is there.                      *)
(***************************************************************************)
is_atom(p, m) == BOTTOM_INDEX \in p.lower[m]

(***************************************************************************)
(* What can be reached from m along the upper, or the lower covers.        *)
(***************************************************************************)
Closure(m, Step(_)) ==
  LET grow[S \in SUBSET Ids] ==
        LET T == S \cup UNION {Step(x) : x \in S} IN IF T = S THEN S ELSE grow[T]
  IN grow[{m}]

Up(p, m)   == Closure(m, LAMBDA x : ToSet(p.upper[x]))
Down(p, m) == Closure(m, LAMBDA x : p.lower[x])

le(p, greater, lesser) == greater \in Up(p, lesser)

(***************************************************************************)
(* The jems: the chain of jrms above m, each the first upper member of the *)
(* one before and with a single lower member; and the chain below m.       *)
(***************************************************************************)
greatest_jem(p, m) ==
  LET up[n \in Nat] ==
        IF n = 0 THEN m
        ELSE LET r == up[n - 1] IN
             IF ~upper_is_empty(p, r)
                THEN LET u == first_upper_member(p, r) IN
                     IF ~is_jim(p, u) /\ lower_is_singleton(p, u) THEN u ELSE r
                ELSE r
  IN up[MaxId]

least_jem(p, m) ==
  LET down[n \in Nat] ==
        IF n = 0 THEN m
        ELSE LET r == down[n - 1] IN
             IF ~is_jim(p, r) /\ lower_is_singleton(p, r) THEN lower_member(p, r) ELSE r
  IN down[MaxId]

is_jem(p, m, other) == greatest_jem(p, m) = greatest_jem(p, other)

-----------------------------------------------------------------------------
(***************************************************************************)
(* Members and links.                                                      *)
(***************************************************************************)
new_member(p, m, jim) ==
  [p EXCEPT !.members = @ \cup {m}, !.jims = IF jim THEN @ \cup {m} ELSE @,
            !.next = m + 1]

delete_member(p, m) ==
  [p EXCEPT !.members = @ \ {m}, !.jims = @ \ {m},
            !.lower[m] = {}, !.upper[m] = << >>]

insert_lower_member(p, m, other) == [p EXCEPT !.lower[m] = @ \cup {other}]
insert_upper_member(p, m, other) == [p EXCEPT !.upper[m] = Append(@, other)]
remove_lower_member(p, m, other) == [p EXCEPT !.lower[m] = @ \ {other}]
remove_upper_member(p, m, other) == [p EXCEPT !.upper[m] = RemoveFirst(@, other)]

new_link(p, greater, lesser) ==
  insert_lower_member(insert_upper_member(p, lesser, greater), greater, lesser)

delete_link(p, greater, lesser) ==
  remove_lower_member(remove_upper_member(p, lesser, greater), greater, lesser)

(***************************************************************************)
(* Move the upper, or the lower, cover of src to dst; the members of that  *)
(* cover are linked to dst instead of src.                                 *)
(***************************************************************************)
transfer_upper_cover_KeepsLinksBug(p, src, dst) ==
  LET moved == ToSet(p.upper[src]) IN
  [p EXCEPT !.upper[dst] = @ \o p.upper[src], !.upper[src] = << >>,
            !.lower = [m \in Ids |-> IF m \in moved THEN @[m] \cup {dst} ELSE @[m]]]

transfer_upper_cover(p, src, dst) ==
  LET moved == ToSet(p.upper[src]) IN
  [p EXCEPT !.upper[dst] = @ \o p.upper[src], !.upper[src] = << >>,
            !.lower = [m \in Ids |-> IF m \in moved
                        THEN (@[m] \ {src}) \cup {dst} ELSE @[m]]]

transfer_lower_cover(p, src, dst) ==
  LET moved == p.lower[src] IN
  [p EXCEPT !.lower[dst] = @ \cup moved, !.lower[src] = {},
            !.upper = [m \in Ids |-> IF m \in moved
                        THEN Append(RemoveFirst(@[m], src), dst) ELSE @[m]]]

(***************************************************************************)
(* Link a new member jem as the greatest, or the least, jem of m.          *)
(***************************************************************************)
link_greatest_jem(p, jem, m) ==
  LET g == greatest_jem(p, m) IN
  IF g # TOP_INDEX THEN new_link(transfer_upper_cover(p, g, jem), jem, g)
                   ELSE new_link(transfer_lower_cover(p, g, jem), g, jem)

link_least_jem_NotLeastBug(p, jem, m) ==
  IF is_jim(p, m) \/ m = BOTTOM_INDEX
     THEN new_link(transfer_upper_cover(p, m, jem), jem, m)
     ELSE new_link(transfer_lower_cover(p, m, jem), m, jem)

link_least_jem(p, jem, m) ==
  LET l == least_jem(p, m) IN
  IF is_jim(p, l) \/ l = BOTTOM_INDEX
     THEN new_link(transfer_upper_cover(p, l, jem), jem, l)
     ELSE new_link(transfer_lower_cover(p, l, jem), l, jem)

(***************************************************************************)
(* Merge the jems of jem2 under those of jem1.                             *)
(***************************************************************************)
merge_jems(p, jem1, jem2) ==
  LET gjem1 == greatest_jem(p, jem1)   gjem2 == greatest_jem(p, jem2)
      ljem1 == least_jem(p, jem1)      ljem2 == least_jem(p, jem2)
      q == IF gjem1 # gjem2 THEN transfer_upper_cover(p, gjem2, gjem1) ELSE p
      r == IF ljem1 # ljem2 THEN transfer_lower_cover(q, ljem1, ljem2) ELSE q
  IN IF ljem1 # gjem2 THEN new_link(r, ljem1, gjem2) ELSE r

(***************************************************************************)
(* delete_state: unlink m; if it is a jrm link the members that covered it *)
(* to those it covered, unless they are ordered already; delete it.  Which *)
(* links are made may depend on the order lowers of the lower cover, which *)
(* the caller chooses.                                                     *)
(***************************************************************************)
unlink(p, m) ==
  [p EXCEPT !.lower = [x \in Ids |-> IF Contains(p.upper[m], x) THEN @[x] \ {m} ELSE @[x]],
            !.upper = [x \in Ids |-> IF x \in p.lower[m] THEN RemoveFirst(@[x], m) ELSE @[x]]]

relink_Bug(p, uppers, lowers) == p

relink(p, uppers, lowers) ==
  LET relink_one(q, u, l) == IF le(q, u, l) \/ le(q, l, u) THEN q ELSE new_link(q, u, l)
      relink_all(q, u) == FoldLeft(LAMBDA r, l : relink_one(r, u, l), q, lowers)
  IN FoldLeft(relink_all, p, uppers)

delete_state(p, m, lowers) ==
  LET rest == delete_member(unlink(p, m), m) IN
  IF is_jim(p, m) THEN rest ELSE relink(rest, p.upper[m], lowers)

-----------------------------------------------------------------------------
(***************************************************************************)
(* ensure_lattice_invariant: in the order of their ids, the members with   *)
(* nothing above are linked to the top and the members with nothing below  *)
(* to the greatest jem the bottom had at the beginning.                    *)
(***************************************************************************)
FoldInIdOrder(op(_, _), p, S) == MapThenFoldSet(op, p, LAMBDA m : m, Max, S)

ensure_lattice_invariant_TopOnlyBug(p) ==
  FoldInIdOrder(LAMBDA m, q : IF upper_is_empty(q, m) THEN new_link(q, TOP_INDEX, m) ELSE q,
                p, p.members \ Standard)

(***************************************************************************)
(* poset_orderer::restore_order walks the poset to merge jrms with the     *)
(* same lower cover, but with members in _post_visited only, and nothing   *)
(* ever enters a member there: the walk changes nothing.                   *)
(***************************************************************************)
restore_order(p) == p

ensure_lattice_invariant(p) ==
  LET greatest_bottom_jem == greatest_jem(p, BOTTOM_INDEX)
      top_up(q, m) == IF upper_is_empty(q, m)
                         THEN new_link(q, TOP_INDEX, m) ELSE q
      bottom_up(q, m) == IF lower_is_empty(q, m)
                            THEN new_link(q, m, greatest_bottom_jem) ELSE q
  IN restore_order(FoldInIdOrder(LAMBDA m, q : bottom_up(top_up(q, m), m),
                                 p, p.members \ Standard))
==============================================================================
