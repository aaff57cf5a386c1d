---------------------------- MODULE DepthFirstItr ----------------------------
(***************************************************************************)
(* The depth first iterators (sheaves/iterators/depth_first_itr.impl.h): a *)
(* finite state machine walks the cover relation graph below an anchor and *)
(* returns to the client at the actions its order exports.  The path from  *)
(* the anchor to the current member is kept as a stack of iterators over   *)
(* covers.  One step of the model is one turn of the loop in next().       *)
(***************************************************************************)
EXTENDS Naturals, Sequences, SequencesExt, FiniteSets, Functions, FiniteSetsExt

CONSTANTS
  Members,
  Anchor,
  Setups,      \* bound: the graphs, orders and filters the iterator is used with
  NoIndex,
  MaxResets    \* bound: traversals after the first

Orders == {"PREORDER", "POSTORDER", "LINKORDER", "BIORDER", "TRIORDER"}

(***************************************************************************)
(* cover[m] is what the iterator over m's cover goes through: the lower    *)
(* cover if descending, or the upper one.  The order is a partial order:   *)
(* among any members there is one that covers none of them.                *)
(***************************************************************************)
ASSUME SetupsAssumption ==
  /\ IsFiniteSet(Members) /\ Anchor \in Members /\ NoIndex \notin Members /\ MaxResets \in Nat
  /\ \A s \in Setups :
       /\ s.order \in Orders /\ s.filter \subseteq Members
       /\ s.strict \in BOOLEAN /\ s.visit_once \in BOOLEAN
       /\ s.cover \in [Members -> Seq(Members)]
       /\ \A m \in Members : IsInjective(s.cover[m])
       /\ \A M \in (SUBSET Members) \ {{}} : \E m \in M : ToSet(s.cover[m]) \cap M = {}

VARIABLES
  setup,              \* the graph, _order, _filter, _strict and _visit_once
  state, action,      \* _state and _action
  index,              \* _index
  path_head_lc,       \* the iterators are what is left of the covers they are over
  path_head,
  path_tail,          \* a stack, with the top at the end
  filtered_path_tail,
  visited,            \* the members has_visited is true of
  xtruncate,          \* of the call of next()
  running,            \* in next()
  resets,
  marked,             \* history: visited when the traversal began
  truncated,          \* history: the members the client truncated at
  actions             \* history: the actions returned in this traversal

paths == <<path_head_lc, path_head, path_tail, filtered_path_tail>>
vars == <<setup, state, action, index, paths, visited, xtruncate, running,
          resets, marked, truncated, actions>>

order == setup.order

(***************************************************************************)
(* The transition tables, by what the orders have in common.               *)
(***************************************************************************)
\* A bug: one entry of a table is wrong, and postorder is preorder.
entered_WrongEntryBug ==
  CASE order \in {"PREORDER", "BIORDER", "TRIORDER"} -> "EXECUTE_PREVISIT_ACTION"
    [] order = "POSTORDER" -> "EXECUTE_POSTVISIT_ACTION"
    [] OTHER -> "INIT_COVER_ITERATOR"

entered ==   \* after FIRST and DESCEND
  IF order \in {"PREORDER", "BIORDER", "TRIORDER"} THEN "EXECUTE_PREVISIT_ACTION"
                                                   ELSE "INIT_COVER_ITERATOR"
finished ==  \* at the end of a cover
  IF order \in {"POSTORDER", "BIORDER", "TRIORDER"} THEN "EXECUTE_POSTVISIT_ACTION"
                                                    ELSE "TEST_PATH_TAIL"
followed ==  \* when the link to the next member of the cover was dealt with
  IF order \in {"LINKORDER", "TRIORDER"} THEN "EXECUTE_LINK_ACTION"
                                         ELSE "INC_COVER_ITERATOR"

first(seen) ==
  /\ index' = Anchor /\ visited' = seen \cup {Anchor}
  /\ state' = entered
  /\ action' = "NOT_AN_ACTION"
  /\ path_head_lc' = << >> /\ path_head' = << >>
  /\ path_tail' = << >> /\ filtered_path_tail' = << >>
  /\ xtruncate' = FALSE /\ running' = TRUE
  /\ marked' = seen /\ truncated' = {} /\ actions' = << >>

Init ==
  /\ setup \in Setups
  /\ state = "NOT_A_STATE" /\ action = "NOT_AN_ACTION" /\ index = NoIndex
  /\ path_head_lc = << >> /\ path_head = << >> /\ path_tail = << >>
  /\ filtered_path_tail = << >>
  /\ visited = {} /\ xtruncate = FALSE /\ running = FALSE /\ resets = 0
  /\ marked = {} /\ truncated = {} /\ actions = << >>

is_done == state = "NOT_A_STATE"

-----------------------------------------------------------------------------
(***************************************************************************)
(* The client: it starts a traversal, goes on to the next action, and may  *)
(* ask for the cover of the member it is at not to be visited.             *)
(***************************************************************************)
reset(markers) ==
  /\ ~running /\ resets <= MaxResets
  /\ resets' = resets + 1
  /\ first(IF markers THEN {} ELSE visited)
  /\ UNCHANGED setup

next(truncate) ==
  /\ ~running /\ ~is_done
  /\ truncate => action = "PREVISIT_ACTION"
  /\ xtruncate' = truncate
  /\ truncated' = IF truncate THEN truncated \cup {index} ELSE truncated
  /\ running' = TRUE
  /\ UNCHANGED <<setup, state, action, index, paths, visited, resets, marked, actions>>

-----------------------------------------------------------------------------
(***************************************************************************)
(* The loop of next().                                                     *)
(***************************************************************************)
At(s) == running /\ state = s
GoTo(s) == state' = s
Rest == UNCHANGED <<setup, action, running, resets, marked, truncated, actions>>

init_cover_iterator ==
  /\ At("INIT_COVER_ITERATOR")
  /\ path_head_lc' = IF xtruncate THEN << >> ELSE setup.cover[index]
  /\ xtruncate' = FALSE
  /\ GoTo(IF path_head_lc' # << >> THEN "TEST_HAS_VISITED" ELSE finished)
  /\ UNCHANGED <<index, path_head, path_tail, filtered_path_tail, visited>> /\ Rest

\* A bug: a member is visited again if it is not in the filter.
seen_before_FilterBug(m) == setup.visit_once /\ m \in visited \cap setup.filter

seen_before(m) == setup.visit_once /\ m \in visited

test_has_visited ==
  /\ At("TEST_HAS_VISITED")
  /\ GoTo(IF seen_before(Head(path_head_lc)) THEN followed ELSE "DESCEND")
  /\ UNCHANGED <<index, paths, visited, xtruncate>> /\ Rest

\* A bug: the end of the cover is not looked for.
inc_cover_iterator_NoTestBug ==
  /\ At("INC_COVER_ITERATOR")
  /\ path_head_lc' = Tail(path_head_lc)
  /\ GoTo("TEST_HAS_VISITED")
  /\ UNCHANGED <<index, path_head, path_tail, filtered_path_tail, visited, xtruncate>> /\ Rest

inc_cover_iterator ==
  /\ At("INC_COVER_ITERATOR")
  /\ path_head_lc' = Tail(path_head_lc)
  /\ GoTo(IF path_head_lc' # << >> THEN "TEST_HAS_VISITED" ELSE finished)
  /\ UNCHANGED <<index, path_head, path_tail, filtered_path_tail, visited, xtruncate>> /\ Rest

\* The anchor is not on the path.
descend ==
  LET below == Head(path_head_lc) IN
  /\ At("DESCEND")
  /\ visited' = visited \cup {below}
  /\ path_tail' = IF index # Anchor THEN Append(path_tail, path_head) ELSE path_tail
  /\ filtered_path_tail' = IF index # Anchor /\ Head(path_head) \in setup.filter
                             THEN Append(filtered_path_tail, Head(path_head))
                             ELSE filtered_path_tail
  /\ path_head' = path_head_lc
  /\ path_head_lc' = << >>
  /\ index' = below
  /\ GoTo(entered)
  /\ UNCHANGED xtruncate /\ Rest

test_path_tail ==
  /\ At("TEST_PATH_TAIL")
  /\ GoTo(IF index = Anchor THEN "FINISH" ELSE "ASCEND")
  /\ UNCHANGED <<index, paths, visited, xtruncate>> /\ Rest

\* A bug: the filtered path is not shortened.
unfiltered_KeepsBug(top) == filtered_path_tail

unfiltered(top) ==
  IF filtered_path_tail # << >> /\ Last(filtered_path_tail) = top
    THEN Front(filtered_path_tail) ELSE filtered_path_tail

\* A bug: the link just followed is tested again.
ascend_AgainBug ==
  /\ At("ASCEND")
  /\ path_head_lc' = path_head
  /\ IF path_tail = << >>
       THEN /\ path_head' = << >> /\ index' = Anchor
            /\ UNCHANGED <<path_tail, filtered_path_tail>>
       ELSE /\ path_head' = Last(path_tail) /\ path_tail' = Front(path_tail)
            /\ index' = Head(Last(path_tail))
            /\ filtered_path_tail' = unfiltered(index')
  /\ GoTo("TEST_HAS_VISITED")
  /\ UNCHANGED <<visited, xtruncate>> /\ Rest

ascend ==
  /\ At("ASCEND")
  /\ path_head_lc' = path_head
  /\ IF path_tail = << >>
       THEN /\ path_head' = << >> /\ index' = Anchor
            /\ UNCHANGED <<path_tail, filtered_path_tail>>
       ELSE /\ path_head' = Last(path_tail) /\ path_tail' = Front(path_tail)
            /\ index' = Head(Last(path_tail))
            /\ filtered_path_tail' = unfiltered(index')
  /\ GoTo(followed)
  /\ UNCHANGED <<visited, xtruncate>> /\ Rest

\* greater_index(), and lesser_index() at a link.
greater == IF action = "LINK_ACTION" THEN index
           ELSE IF filtered_path_tail = << >> THEN NoIndex ELSE Last(filtered_path_tail)
lesser(what) == IF what = "LINK_ACTION" THEN Head(path_head_lc) ELSE index

passes == index \in setup.filter /\ (~setup.strict \/ index # Anchor)

\* Return to the client, if the current member passes.
execute(from, what, to) ==
  /\ At(from)
  /\ GoTo(to)
  /\ IF passes
       THEN /\ action' = what /\ running' = FALSE
            /\ actions' = Append(actions, <<what, index, lesser(what)>>)
       ELSE UNCHANGED <<action, running, actions>>
  /\ UNCHANGED <<setup, index, paths, visited, xtruncate, resets, marked, truncated>>

execute_previsit_action ==
  execute("EXECUTE_PREVISIT_ACTION", "PREVISIT_ACTION", "INIT_COVER_ITERATOR")
execute_link_action ==
  execute("EXECUTE_LINK_ACTION", "LINK_ACTION", "INC_COVER_ITERATOR")
execute_postvisit_action ==
  execute("EXECUTE_POSTVISIT_ACTION", "POSTVISIT_ACTION", "TEST_PATH_TAIL")

finish ==
  /\ At("FINISH")
  /\ GoTo("NOT_A_STATE") /\ action' = "NOT_AN_ACTION" /\ index' = NoIndex
  /\ running' = FALSE
  /\ UNCHANGED <<setup, paths, visited, xtruncate, resets, marked, truncated, actions>>

-----------------------------------------------------------------------------
Step ==
  \/ init_cover_iterator \/ test_has_visited \/ inc_cover_iterator \/ descend
  \/ test_path_tail \/ ascend \/ finish
  \/ execute_previsit_action \/ execute_link_action \/ execute_postvisit_action

Next == \/ \E markers \in BOOLEAN : reset(markers)
        \/ \E truncate \in BOOLEAN : next(truncate)
        \/ Step

Spec == Init /\ [][Next]_vars

\* next() runs to its end in the client's thread; the client may stop.
FairSpec == Spec /\ WF_vars(Step)

-----------------------------------------------------------------------------
(***************************************************************************)
(* Properties.                                                             *)
(***************************************************************************)
\* Every variable has its type, and no step takes the head of an empty cover.
TypeOK ==
  /\ setup \in Setups
  /\ index \in Members \cup {NoIndex}
  /\ \A i \in DOMAIN path_tail : path_tail[i] # << >> /\ IsInjective(path_tail[i])
  /\ ToSet(filtered_path_tail) \subseteq Members /\ visited \subseteq Members
  /\ running => index # NoIndex /\ state # "NOT_A_STATE"
  /\ state \in {"TEST_HAS_VISITED", "INC_COVER_ITERATOR", "DESCEND", "EXECUTE_LINK_ACTION"}
       => path_head_lc # << >>
  /\ xtruncate => running

\* The members from the one below the anchor to the current one.
path == [i \in DOMAIN path_tail |-> Head(path_tail[i])]
        \o (IF path_head = << >> THEN << >> ELSE <<Head(path_head)>>)

\* The stacks hold a way from the anchor to the current member through the
\* covers, and what a client asks for the greater member of is the nearest one
\* above it that the filter lets through, whatever was visited in between.
PathLeadsToIndex ==
  ~is_done =>
    LET whole == <<Anchor>> \o path IN
    /\ index = Last(whole)
    /\ \A i \in 1..Len(path) : whole[i + 1] \in ToSet(setup.cover[whole[i]])
    /\ action # "LINK_ACTION" /\ ~running =>
         greater = LET above == {i \in 1..Len(path) :
                                   whole[i] \in setup.filter /\ whole[i] # Anchor}
                   IN IF above = {} THEN NoIndex ELSE whole[Max(above)]

-----------------------------------------------------------------------------
(***************************************************************************)
(* The reference: depth first traversal as a recursive function.  It gives *)
(* the actions below m when the members in seen were visited, and what is  *)
(* visited after it.                                                       *)
(***************************************************************************)
Does(what, orders, m, l) ==
  IF order \in orders /\ m \in setup.filter /\ ~(setup.strict /\ m = Anchor)
    THEN << <<what, m, l>> >> ELSE << >>

Walk[m \in Members, seen \in SUBSET Members] ==
  LET visit(acc, l) ==
        LET sub == IF setup.visit_once /\ l \in acc.seen
                     THEN [acts |-> << >>, seen |-> acc.seen]
                     ELSE Walk[l, acc.seen \cup {l}]
        IN [acts |-> acc.acts \o sub.acts \o
                       Does("LINK_ACTION", {"LINKORDER", "TRIORDER"}, m, l),
            seen |-> sub.seen]
      below == FoldLeft(visit, [acts |-> << >>, seen |-> seen],
                        IF m \in truncated THEN << >> ELSE setup.cover[m])
  IN [acts |-> Does("PREVISIT_ACTION", {"PREORDER", "BIORDER", "TRIORDER"}, m, m)
                 \o below.acts \o
               Does("POSTVISIT_ACTION", {"POSTORDER", "BIORDER", "TRIORDER"}, m, m),
      seen |-> below.seen]

\* The machine returned, one by one, the actions of the recursive traversal, and
\* the marks it leaves are its marks.  (A member that is visited more than once
\* may be truncated at one visit and not at the next: such runs are left out.)
TraversalIsDepthFirst ==
  is_done /\ resets > 0 /\ (setup.visit_once \/ truncated = {}) =>
    /\ actions = Walk[Anchor, marked \cup {Anchor}].acts
    /\ marked \subseteq visited
    /\ setup.visit_once => visited = Walk[Anchor, marked \cup {Anchor}].seen

Below(cover, m) ==
  LET grow[S \in SUBSET Members] ==
        LET T == S \cup UNION {ToSet(cover[x]) : x \in S} IN IF T = S THEN S ELSE grow[T]
  IN grow[ToSet(cover[m])]

\* Clients that build something bottom up rely on it: when a member is
\* postvisited, all that is below it was, unless an earlier traversal left it
\* marked or the client asked for it to be left out.
BelowIsPostvisitedFirst ==
  marked = {} /\ truncated = {} =>
    \A i \in DOMAIN actions : actions[i][1] = "POSTVISIT_ACTION" =>
      Below(setup.cover, actions[i][2]) \cap setup.filter
        \subseteq {actions[k][2] : k \in {j \in 1..(i - 1) : actions[j][1] = "POSTVISIT_ACTION"}}

\* However often parts of the graph are met, the call returns.
EveryCallReturns == running ~> ~running
==============================================================================
