----------------------------- MODULE PosetJoiner -----------------------------
(***************************************************************************)
(* Joins (sheaves/posets/poset_joiner.cc): a client builds the jims of a   *)
(* poset and their order, and from then on creates jrms as joins of        *)
(* members, makes jems and deletes jrms.                                   *)
(*                                                                         *)
(* The joiner computes sets by depth first traversals that visit a member  *)
(* once; they are modelled by the sets they end with.                      *)
(***************************************************************************)
EXTENDS PosetMembers

CONSTANT MaxJims   \* bound: the jims of a poset
ASSUME MaxJimsAssumption == MaxJims \in Nat

(***************************************************************************)
(* The members below the expansion, and the atoms among them.              *)
(***************************************************************************)
compute_down(p, expansion) == UNION {Down(p, x) : x \in expansion}

compute_atoms(p, expansion) == {m \in compute_down(p, expansion) : is_atom(p, m)}

(***************************************************************************)
(* Jrms all of whose lower covers are in gdown are in it too: they are     *)
(* join-equivalent to a part of the expansion.                             *)
(***************************************************************************)
update_gdown_WithJimsBug(p, down) ==
  LET grow[S \in SUBSET Ids] ==
        LET T == S \cup {m \in p.members : p.lower[m] \subseteq S}
        IN IF T = S THEN S ELSE grow[T]
  IN grow[down]

update_gdown(p, down) ==
  LET grow[S \in SUBSET Ids] ==
        LET T == S \cup {m \in p.members : ~is_jim(p, m) /\ p.lower[m] \subseteq S}
        IN IF T = S THEN S ELSE grow[T]
  IN grow[down]

(***************************************************************************)
(* The maximal lower bounds: the maximal members of gdown above an atom.   *)
(***************************************************************************)
compute_mlb(p, expansion) ==
  LET gdown == update_gdown(p, compute_down(p, expansion))
      above == UNION {Up(p, a) : a \in compute_atoms(p, expansion)}
  IN {m \in gdown \cap above : ToSet(p.upper[m]) \cap gdown = {}}

(***************************************************************************)
(* The minimal members strictly above every member of mlb.                 *)
(***************************************************************************)
compute_mub(p, mlb) ==
  LET bounds == {u \in p.members : \A m \in mlb : u \in Up(p, m) \ {m}}
  IN {u \in bounds : Down(p, u) \cap bounds = {u}}

(***************************************************************************)
(* The members of S as an oset_type has them, and a cover without those    *)
(* of S, in the order it has them (remove_cover_members).                  *)
(***************************************************************************)
InIdOrder(S) == FoldInIdOrder(LAMBDA m, s : Append(s, m), << >>, S)

Without(s, S) ==
  FoldLeft(LAMBDA rest, m : IF m \in S THEN rest ELSE Append(rest, m), << >>, s)

(***************************************************************************)
(* Link the result between the members of mlb and those of mub, in the     *)
(* place of the links there are between them.                              *)
(***************************************************************************)
link_result_StaleUppersBug(p, lc, uc, result) ==
  [p EXCEPT
     !.lower = [m \in Ids |-> IF m = result THEN lc
                              ELSE IF m \in uc THEN (@[m] \ lc) \cup {result} ELSE @[m]],
     !.upper = [m \in Ids |-> IF m = result THEN InIdOrder(uc)
                              ELSE IF m \in lc THEN Append(@[m], result) ELSE @[m]]]

link_result_NotLinkedUpBug(p, lc, uc, result) ==
  [p EXCEPT
     !.lower = [m \in Ids |-> IF m = result THEN lc
                              ELSE IF m \in uc THEN @[m] \ lc ELSE @[m]],
     !.upper = [m \in Ids |-> IF m \in lc THEN Append(Without(@[m], uc), result) ELSE @[m]]]

link_result(p, lc, uc, result) ==
  [p EXCEPT
     !.lower = [m \in Ids |-> IF m = result THEN lc
                              ELSE IF m \in uc THEN (@[m] \ lc) \cup {result} ELSE @[m]],
     !.upper = [m \in Ids |-> IF m = result THEN InIdOrder(uc)
                              ELSE IF m \in lc THEN Append(Without(@[m], uc), result)
                              ELSE @[m]]]

(***************************************************************************)
(* The join of the expansion: the poset it leaves and the member xresult   *)
(* is attached to, new being the id of a member it may create.  greatest   *)
(* is the tern xgreatest: where members exist that have the jims of the    *)
(* expansion, whether the result is a new jem of theirs, and which, or one *)
(* of them.                                                                *)
(***************************************************************************)
Joined(p, result) == [poset |-> p, result |-> result]

attach_jem(p, m, greatest, new) ==   \* new_jem_state
  LET q == new_member(p, new, FALSE) IN
  IF greatest = "true" THEN Joined(link_greatest_jem(q, new, m), new)
                       ELSE Joined(link_least_jem(q, new, m), new)

join(p, expansion, greatest, new) ==
  LET mlb == compute_mlb(p, expansion) IN
  IF mlb = {} THEN
    IF greatest = "true" THEN attach_jem(p, BOTTOM_INDEX, greatest, new)
                         ELSE Joined(p, BOTTOM_INDEX)
  ELSE IF \E m \in mlb : mlb = {m} THEN
    LET m == CHOOSE m \in mlb : TRUE IN
    IF greatest = "neither" THEN Joined(p, m) ELSE attach_jem(p, m, greatest, new)
  ELSE
    Joined(link_result(new_member(p, new, FALSE), mlb, compute_mub(p, mlb), new), new)

-----------------------------------------------------------------------------
(***************************************************************************)
(* new_jrm_state(xexpansion): l_join_pa asks for the end of the jim edit   *)
(* mode.  A poset without jims is left to PosetMembers.                    *)
(***************************************************************************)
new_joined_jrm_state(expansion, greatest) ==
  /\ ~in_jim_edit_mode
  /\ poset.jims # {}
  /\ \E new \in Ids : FreeId(new) /\ poset' = join(poset, expansion, greatest, new).poset
  /\ UNCHANGED jim_edit_depth

Expansions == {{a, b} : a, b \in poset.members}
Terns == {"true", "false", "neither"}

JoinerNext ==
  \/ begin_jim_edit_mode
  \/ end_jim_edit_mode
  \/ Cardinality(poset.jims) < MaxJims /\ new_jim_state(FALSE)
  \/ \E u, l \in Proper : create_cover_link(u, l)
  \/ \E expansion \in Expansions, greatest \in Terns :
       new_joined_jrm_state(expansion, greatest)
  \/ \E m \in Proper \cup {BOTTOM_INDEX}, greatest \in BOOLEAN : new_jem_state(m, greatest)
  \/ \E m \in Proper : delete_jrm_state(m)

JoinerSpec == Init /\ [][JoinerNext]_vars

-----------------------------------------------------------------------------
(***************************************************************************)
(* The order is that of the lattice the jims generate: a member with fewer *)
(* of them below is below.  join finds where to link its result by the     *)
(* covers alone, and this is what makes that right.                        *)
(***************************************************************************)
OrderedByJims == ~in_jim_edit_mode =>
  \A a, b \in poset.members :
    LET A == JimsBelow(poset, a)   B == JimsBelow(poset, b) IN
    A # B /\ A \subseteq B => le(poset, b, a)

(***************************************************************************)
(* Whatever a client joins, the result is the join in that lattice         *)
(* ("result is join of xexpansion", poset_joiner.cc:1363): it has the jims *)
(* of the expansion and no others, it is above the expansion and below     *)
(* every other upper bound, but for members join-equivalent to it.         *)
(***************************************************************************)
IsJoin(p, expansion, j) ==
  LET q == j.poset IN
  /\ JimsBelow(q, j.result) = UNION {JimsBelow(p, x) : x \in expansion}
  /\ \A x \in expansion :
       JimsBelow(q, x) # JimsBelow(q, j.result) => le(q, j.result, x)
  /\ \A u \in p.members :
       /\ \A x \in expansion : le(p, u, x)
       /\ JimsBelow(q, u) # JimsBelow(q, j.result)
       => le(q, u, j.result)

JoinsAreJoins == ~in_jim_edit_mode /\ poset.jims # {} =>
  \A new \in Ids : FreeId(new) =>
    \A expansion \in SUBSET Proper, greatest \in Terns :
      IsJoin(poset, expansion, join(poset, expansion, greatest, new))
==============================================================================
