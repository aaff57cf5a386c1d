---------------------------- MODULE PosetMembers ----------------------------
(***************************************************************************)
(* A poset and the operations of abstract_poset_member that create, link   *)
(* and delete its members (sheaves/posets/abstract_poset_member.cc and     *)
(* poset_state_handle.cc).  The client has read-write access to the poset, *)
(* so that every operation is one step.                                    *)
(***************************************************************************)
EXTENDS CoverRelation

CONSTANTS
  MaxMembers,     \* bound: members at one time
  MaxEditDepth,   \* bound: nested jim edit modes
  Practices       \* what clients do beyond the ordinary

(***************************************************************************)
(* Ordinarily a client builds and links the jims in a jim edit mode, makes *)
(* jrms with new_jem_state, and deletes jrms.  It may also                 *)
(*                                                                         *)
(*   "edits_under_jrms"    begin a jim edit mode while the poset has jrms  *)
(*   "deletes_under_jrms"  delete a jim while the poset has jrms           *)
(*   "jrms_by_hand"        create unlinked jrms in a jim edit mode, and    *)
(*                         link them like jims                             *)
(*   "jems_while_editing"  make jems in a jim edit mode                    *)
(*   "bottom_meets_top"    make jems of the bottom in a poset without      *)
(*                         jims, and end a jim edit mode with bottomless   *)
(*                         members when jems of the bottom reach the top   *)
(*   "merge"               merge jems that have members below, or whose    *)
(*                         greatest jems have a common member above or     *)
(*                         are the top; merge_jems then makes links that   *)
(*                         are there already                               *)
(***************************************************************************)
AllPractices == {"edits_under_jrms", "deletes_under_jrms", "jrms_by_hand",
                 "jems_while_editing", "bottom_meets_top", "merge"}

ASSUME PracticesAssumption == Practices \subseteq AllPractices
ASSUME MaxMembersAssumption == MaxMembers \in Nat
ASSUME EditDepthAssumption == MaxEditDepth \in Nat

VARIABLES
  poset,            \* the members, the jims and the covers
  jim_edit_depth    \* _jim_edit_depth of the poset's poset_crg_state

vars == <<poset, jim_edit_depth>>

(* poset is a poset with the standard members; the depth is never negative. *)
TypeOK ==
  /\ poset \in Posets
  /\ Standard \subseteq poset.members
  /\ poset.jims \subseteq poset.members \ Standard
  /\ jim_edit_depth \in 0..MaxEditDepth

Init ==
  /\ poset = initialize_standard_members
  /\ jim_edit_depth = 0

in_jim_edit_mode == jim_edit_depth > 0

Proper == poset.members \ Standard
Jrms == Proper \ poset.jims

(***************************************************************************)
(* A new member gets the next id; ids of deleted members are not reused.   *)
(***************************************************************************)
FreeId(m) ==
  m = poset.next /\ m \in Ids /\ Cardinality(poset.members) < MaxMembers

-----------------------------------------------------------------------------
(***************************************************************************)
(* Jim edit mode.  The outermost end restores the lattice.  (Bulk builders *)
(* that have linked every member ask it not to: there is nothing to link.) *)
(***************************************************************************)
Ended_TooEarlyBug(p, depth) == IF depth = 1 THEN ensure_lattice_invariant(p) ELSE p

Ended(p, depth) == IF depth = 0 THEN ensure_lattice_invariant(p) ELSE p

MayEnd(p, depth) ==
  \/ depth > 0
  \/ greatest_jem(p, BOTTOM_INDEX) # TOP_INDEX
  \/ \A m \in p.members \ Standard : ~lower_is_empty(p, m)
  \/ "bottom_meets_top" \in Practices

begin_jim_edit_mode ==
  /\ jim_edit_depth < MaxEditDepth
  /\ Jrms = {} \/ in_jim_edit_mode \/ "edits_under_jrms" \in Practices
  /\ jim_edit_depth' = jim_edit_depth + 1
  /\ UNCHANGED poset

end_jim_edit_mode_UncheckedBug ==
  /\ MayEnd(poset, jim_edit_depth - 1)
  /\ jim_edit_depth' = jim_edit_depth - 1
  /\ poset' = Ended(poset, jim_edit_depth')

end_jim_edit_mode ==
  /\ in_jim_edit_mode
  /\ MayEnd(poset, jim_edit_depth - 1)
  /\ jim_edit_depth' = jim_edit_depth - 1
  /\ poset' = Ended(poset, jim_edit_depth')

(***************************************************************************)
(* A change p of the jims: in a jim edit mode, or, with xauto_access, in a *)
(* jim edit mode of its own.                                               *)
(***************************************************************************)
Edited(p, auto) == IF auto THEN Ended(p, jim_edit_depth) ELSE p
MayEdit(p, auto) == IF auto THEN MayEnd(p, jim_edit_depth) ELSE in_jim_edit_mode

-----------------------------------------------------------------------------
(***************************************************************************)
(* Operations of abstract_poset_member.                                    *)
(***************************************************************************)
new_jim_state(auto) ==
  /\ \E m \in Ids :
       /\ FreeId(m)
       /\ LET p == new_member(poset, m, TRUE) IN
          MayEdit(p, auto) /\ poset' = Edited(p, auto)
  /\ UNCHANGED jim_edit_depth

new_jrm_state ==
  /\ "jrms_by_hand" \in Practices
  /\ in_jim_edit_mode
  /\ \E m \in Ids : FreeId(m) /\ poset' = new_member(poset, m, FALSE)
  /\ UNCHANGED jim_edit_depth

new_jem_state(other, greatest) ==
  /\ poset.jims # {} \/ "bottom_meets_top" \in Practices
  /\ ~in_jim_edit_mode \/ "jems_while_editing" \in Practices
  /\ \E m \in Ids :
       /\ FreeId(m)
       /\ LET p == new_member(poset, m, FALSE) IN
          poset' = IF greatest THEN link_greatest_jem(p, m, other)
                               ELSE link_least_jem(p, m, other)
  /\ UNCHANGED jim_edit_depth

create_cover_link_UncheckedBug(greater, lesser) ==
  /\ in_jim_edit_mode
  /\ ~le(poset, greater, lesser)
  /\ poset' = new_link(poset, greater, lesser)
  /\ UNCHANGED jim_edit_depth

create_cover_link(greater, lesser) ==
  /\ in_jim_edit_mode
  /\ ~le(poset, greater, lesser) /\ ~le(poset, lesser, greater)
  /\ poset' = new_link(poset, greater, lesser)
  /\ UNCHANGED jim_edit_depth

delete_cover_link(greater, lesser) ==
  /\ in_jim_edit_mode
  /\ contains_link(poset, greater, lesser)
  /\ poset' = delete_link(poset, greater, lesser)
  /\ UNCHANGED jim_edit_depth

Separate(m, jem) ==
  LET g == greatest_jem(poset, m)   h == greatest_jem(poset, jem) IN
  /\ lower_is_empty(poset, m)
  /\ TOP_INDEX \notin {g, h}
  /\ ToSet(poset.upper[g]) \cap ToSet(poset.upper[h]) = {}

merge_jem(m, jem) ==
  /\ m # jem
  /\ ~is_jem(poset, m, BOTTOM_INDEX) /\ ~is_jem(poset, jem, BOTTOM_INDEX)
  /\ ~is_jim(poset, m) /\ ~is_jim(poset, jem)
  /\ lower_is_equal(poset, m, jem)
  /\ Separate(m, jem) \/ "merge" \in Practices
  /\ poset' = merge_jems(poset, m, jem)
  /\ UNCHANGED jim_edit_depth

delete_jim_state(m, auto) ==
  /\ is_jim(poset, m)
  /\ Jrms = {} \/ "deletes_under_jrms" \in Practices
  /\ LET p == delete_state(poset, m, << >>) IN MayEdit(p, auto) /\ poset' = Edited(p, auto)
  /\ UNCHANGED jim_edit_depth

delete_jrm_state(m) ==
  /\ ~is_jim(poset, m)
  /\ \E lowers \in SetToSeqs(poset.lower[m]) : poset' = delete_state(poset, m, lowers)
  /\ UNCHANGED jim_edit_depth

Next ==
  \/ begin_jim_edit_mode
  \/ end_jim_edit_mode
  \/ \E auto \in BOOLEAN : new_jim_state(auto)
  \/ new_jrm_state
  \/ \E m \in poset.members, greatest \in BOOLEAN : new_jem_state(m, greatest)
  \/ \E u, l \in Proper : create_cover_link(u, l)
  \/ \E u, l \in Proper : delete_cover_link(u, l)
  \/ \E m, jem \in Proper : merge_jem(m, jem)
  \/ \E m \in Proper, auto \in BOOLEAN : delete_jim_state(m, auto)
  \/ \E m \in Proper : delete_jrm_state(m)

Spec == Init /\ [][Next]_vars

-----------------------------------------------------------------------------
(***************************************************************************)
(* No member occurs twice in a cover: insert_cover_member requires that    *)
(* the cover does not contain the new entry, and remove_cover_member       *)
(* removes one occurrence only.                                            *)
(***************************************************************************)
LinksOnce ==
  \A a \in Ids : IsInjective(poset.upper[a])

(***************************************************************************)
(* The two halves of the cover relation agree: b is in the lower cover of  *)
(* a exactly if a is in the upper cover of b, each once, and only members  *)
(* are linked.  Every operation updates the halves by separate calls, and  *)
(* delete_member would leave what still refers to the id dangling.         *)
(***************************************************************************)
CoversMatch ==
  /\ \A a, b \in Ids : b \in poset.lower[a] <=> Contains(poset.upper[b], a)
  /\ LinksOnce
  /\ \A a \in Ids \ poset.members : poset.lower[a] = {} /\ poset.upper[a] = << >>

(***************************************************************************)
(* The order is a partial order, whatever sequence of links, transfers of  *)
(* covers, deletions and repairs by ensure_lattice_invariant it went       *)
(* through; le and the traversals do not return on a cycle.                *)
(***************************************************************************)
Acyclic ==
  \A a \in poset.members, b \in poset.members :
    Contains(poset.upper[a], b) => ~le(poset, a, b)

(***************************************************************************)
(* Outside jim edit mode every member is between the bottom and the top,   *)
(* also when jrms and jims were linked, deleted and merged since the last  *)
(* repair: new_jem_state, merge_jem and the deletion of a jrm need none.   *)
(***************************************************************************)
Bounded == ~in_jim_edit_mode =>
  \A m \in Proper : le(poset, TOP_INDEX, m) /\ le(poset, m, BOTTOM_INDEX)

(***************************************************************************)
(* Creating or deleting a jrm leaves the order of the other members as it  *)
(* is: "Deleting a jrm however should leave the order relation for the     *)
(* remaining members invariant" (abstract_poset_member.cc:4773).           *)
(***************************************************************************)
OrderKept ==
  [][poset'.members # poset.members /\ poset'.jims = poset.jims =>
       LET common == poset.members \cap poset'.members IN
       \A m \in common :
         Up(poset', m) \cap common = Up(poset, m) \cap common]_vars

(***************************************************************************)
(* A new jem is join-equivalent to the member it was made for: the same    *)
(* jims are below it.  It is the greatest of them unless the top is, or    *)
(* the least but for a jim and the bottom (abstract_poset_member.cc:778).  *)
(***************************************************************************)
JimsBelow(p, m) == Down(p, m) \cap p.jims

LinkedAsJem(m, greatest) ==
  LET new == CHOOSE x \in poset'.members : x \notin poset.members IN
  /\ JimsBelow(poset', new) = JimsBelow(poset', m)
  /\ is_jem(poset', m, new)
  /\ \A jem \in poset'.members :
       is_jem(poset', m, jem) =>
         IF greatest THEN jem = TOP_INDEX \/ le(poset', new, jem)
                     ELSE jem \in poset'.jims \cup {BOTTOM_INDEX} \/ le(poset', jem, new)

JemsLinked ==
  [][\A m \in poset.members, greatest \in BOOLEAN :
       new_jem_state(m, greatest) => LinkedAsJem(m, greatest)]_vars

-----------------------------------------------------------------------------
(***************************************************************************)
(* What comments and assertions say and the code does not keep.            *)
(*                                                                         *)
(* Only the top has no upper cover, and nothing is above it: the post-     *)
(* condition of ensure_lattice_invariant and the precondition of new_link. *)
(***************************************************************************)
OnlyTopIsTopless == ~in_jim_edit_mode =>
  poset.upper[TOP_INDEX] = << >>
=============================================================================
