------------------------------ MODULE HubIdSpace ------------------------------
(***************************************************************************)
(* The hub id space of a poset: who has which id                           *)
(* (sheaves/id_spaces/primary_sum_index_space_state.cc).  Ids come in      *)
(* terms: a primary term is a block of ids that are members from the       *)
(* start; a reserved term has RESERVED_TERM_SIZE ids, on a multiple of it, *)
(* that become members one at a time.                                      *)
(***************************************************************************)
EXTENDS IntervalSet

CONSTANTS
  RESERVED_TERM_SIZE,
  MaxId,        \* bound: the largest id
  MaxTerms,     \* bound: terms at one time
  MaxSize,      \* bound: the size of a primary term
  Practices     \* what clients do beyond the ordinary

ASSUME SizesAssumption ==
  /\ RESERVED_TERM_SIZE \in Nat \ {0}
  /\ MaxId \in Nat /\ MaxTerms \in Nat /\ MaxSize \in Nat

(***************************************************************************)
(* A poset allocates single members and blocks of members.  A section      *)
(* space schema poset has one term, extends it and allocates nothing else. *)
(* A client may also                                                       *)
(*                                                                         *)
(*   "goes_on_after_extending"  allocate ids, or remove a term, when a     *)
(*                              term was extended                          *)
(*   "reuses_removed"           make a term over the end of a removed one, *)
(*                              which sum_to_term_map still has            *)
(***************************************************************************)
AllPractices == {"goes_on_after_extending", "reuses_removed"}
ASSUME PracticesAssumption == Practices \subseteq AllPractices

Ids == 0..MaxId
TermIds == 0..MaxTerms - 1
Unknown == -1             \* invalid_pod_index()
LastKey == MaxId + 2      \* the largest pod_index_type: the end of the last gap

VARIABLES
  members,          \* _members: an interval set
  ct,               \* _ct
  begin, end,       \* _begin and _end, Unknown when there is no member
  terms,            \* _terms, _term_begin and _term_end: the terms there are
  term_id_begin, term_id_end,
  next_id,          \* _next_id
  reserved_term,    \* the term _reserved_term is attached to, or Unknown
  sum_to_term_map,  \* _sum_to_term_map: the end of every term and gap
  ids,              \* history: the ids given out and not taken back
  used              \* history: the ids of the terms there are ever given out

term_vars == <<terms, term_id_begin, term_id_end, next_id, reserved_term, sum_to_term_map>>
vars == <<members, ct, begin, end, term_vars, ids, used>>

Init ==
  /\ members = clear /\ ct = 0 /\ begin = Unknown /\ end = Unknown
  /\ terms = [i \in {} |-> 0]
  /\ term_id_begin = 0 /\ term_id_end = 0
  /\ next_id = 0
  /\ reserved_term = Unknown
  /\ sum_to_term_map = [k \in {0, LastKey} |-> Unknown]
  /\ ids = {} /\ used = {}

-----------------------------------------------------------------------------
(***************************************************************************)
(* The members.                                                            *)
(***************************************************************************)
contains(x) == contains_member(members, x)

update_extrema(m, n) ==
  /\ begin' = IF n = 0 THEN Unknown ELSE first_member(m)
  /\ end' = IF n = 0 THEN Unknown ELSE last_member(m) + 1

put_members(m, n) == members' = m /\ ct' = n /\ update_extrema(m, n)

Given(S) == ids' = ids \cup S /\ used' = used \cup S
Taken(S) == ids' = ids \ S

-----------------------------------------------------------------------------
(***************************************************************************)
(* The terms.  add_term returns the state of the terms with one more.      *)
(***************************************************************************)
interval_is_available(b, e) ==
  \A i \in DOMAIN terms : terms[i].end <= b \/ terms[i].begin >= e

\* The first key after x is the end of the term, or of the gap, x is in.
term_id(x) == sum_to_term_map[Min({k \in DOMAIN sum_to_term_map : k > x})]

Term(b, e, reserved) == [begin |-> b, end |-> e, reserved |-> reserved, next |-> b]

add_term(b, e, reserved) ==
  LET ended == Put(sum_to_term_map, e, term_id_end) IN
  [terms  |-> Put(terms, term_id_end, Term(b, e, reserved)),
   map    |-> IF b \in DOMAIN ended THEN ended ELSE Put(ended, b, Unknown),
   next   |-> IF e > next_id THEN e ELSE next_id]

reserved_begin(x) == (x \div RESERVED_TERM_SIZE) * RESERVED_TERM_SIZE

Fits(e) == e <= MaxId + 1 /\ term_id_end \in TermIds

\* new_reserved_term(): the first multiple from next_id on.
new_reserved_begin == reserved_begin(next_id + RESERVED_TERM_SIZE - 1)

\* extend_last_term leaves next_id behind.
Extended == \E i \in DOMAIN terms : terms[i].end > next_id
MayChangeTerms == ~Extended \/ "goes_on_after_extending" \in Practices
NoKeysIn(b, e) ==
  DOMAIN sum_to_term_map \cap (b + 1)..(e - 1) = {} \/ "reuses_removed" \in Practices

(***************************************************************************)
(* The reserved term gives id out: its next id comes after it.             *)
(***************************************************************************)
\* A bug: an id that was asked for is passed over only if it was next.
new_hub_id_NotPassedBug(term, x) == [term EXCEPT !.next = IF @ = x THEN x + 1 ELSE @]

new_hub_id(term, x) == [term EXCEPT !.next = IF @ <= x THEN x + 1 ELSE @]

GiveFrom(t, i, x) ==   \* t is the state of the terms, i the term of x
  /\ terms' = [t.terms EXCEPT ![i] = new_hub_id(@, x)]
  /\ sum_to_term_map' = t.map
  /\ next_id' = t.next
  /\ put_members(insert_member(members, x), ct + 1)
  /\ Given({x})

GiveFromOld(i, x) ==
  /\ GiveFrom([terms |-> terms, map |-> sum_to_term_map, next |-> next_id], i, x)
  /\ UNCHANGED <<term_id_begin, term_id_end, reserved_term>>

GiveFromNew(b, x) ==   \* from a new reserved term, that takes the place of the old
  /\ Fits(b + RESERVED_TERM_SIZE)
  /\ GiveFrom(add_term(b, b + RESERVED_TERM_SIZE, TRUE), term_id_end, x)
  /\ reserved_term' = term_id_end
  /\ term_id_end' = term_id_end + 1
  /\ UNCHANGED term_id_begin

-----------------------------------------------------------------------------
(***************************************************************************)
(* The operations on single ids.                                           *)
(***************************************************************************)
new_id ==
  /\ MayChangeTerms
  /\ IF reserved_term # Unknown /\ terms[reserved_term].next < terms[reserved_term].end
        THEN GiveFromOld(reserved_term, terms[reserved_term].next)
        ELSE GiveFromNew(new_reserved_begin, new_reserved_begin)

is_valid_reserved_id(x) ==
  LET i == term_id(x)   b == reserved_begin(x) IN
  IF i # Unknown
    THEN terms[i].reserved /\ x \in terms[i].begin..terms[i].end - 1 /\ ~contains(x)
    ELSE interval_is_available(b, b + RESERVED_TERM_SIZE)

\* new_id(xid)
new_id_at(x) ==
  /\ MayChangeTerms
  /\ is_valid_reserved_id(x) /\ ~contains(x)
  /\ IF term_id(x) # Unknown
        THEN GiveFromOld(term_id(x), x)
        ELSE LET b == reserved_begin(x) IN
             NoKeysIn(b, b + RESERVED_TERM_SIZE) /\ GiveFromNew(b, x)

delete_id(x) ==
  /\ contains(x)
  /\ put_members(remove_member(members, x), ct - 1)
  /\ Taken({x}) /\ UNCHANGED used
  /\ UNCHANGED term_vars

-----------------------------------------------------------------------------
(***************************************************************************)
(* The operations on primary terms.                                        *)
(***************************************************************************)
new_primary_term_at(b, n) ==
  LET t == add_term(b, b + n, FALSE) IN
  /\ MayChangeTerms /\ NoKeysIn(b, b + n)
  /\ Fits(b + n)
  /\ interval_is_available(b, b + n)
  /\ terms' = t.terms /\ sum_to_term_map' = t.map /\ next_id' = t.next
  /\ term_id_end' = term_id_end + 1
  /\ UNCHANGED <<term_id_begin, reserved_term>>
  /\ put_members(insert_interval(members, b, b + n - 1), ct + n)
  /\ Given(b..b + n - 1)

new_primary_term(n) == new_primary_term_at(next_id, n)

\* A bug: the key where the term began may be the end of another.
without_term_ErasesEndBug(term) ==
  Erase(Put(sum_to_term_map, term.end, Unknown), {term.begin})

without_term(term) ==
  LET ended == Put(sum_to_term_map, term.end, Unknown) IN
  IF ended[term.begin] = Unknown THEN Erase(ended, {term.begin}) ELSE ended

\* A bug: the index of the last term, not the one after it.
end_of_OffByOneBug(rest) == Max(rest)

end_of(rest) == Max(rest) + 1

\* _reserved_term is not detached, so that only primary terms are removed.
remove_term(i) ==
  LET term == terms[i]   rest == DOMAIN terms \ {i}   b == term.begin   e == term.end IN
  /\ MayChangeTerms
  /\ ~term.reserved
  /\ terms' = Erase(terms, {i})
  /\ sum_to_term_map' = without_term(term)
  /\ term_id_begin' = IF i # term_id_begin THEN term_id_begin
                      ELSE IF i = term_id_end - 1 THEN term_id_end
                      ELSE Min(rest)
  /\ term_id_end' = IF i = term_id_end - 1 /\ i # term_id_begin THEN end_of(rest)
                                                                ELSE term_id_end
  /\ UNCHANGED <<next_id, reserved_term>>
  /\ put_members(remove_interval(members, b, e - 1), ct - member_ct(members, b, e - 1))
  /\ Taken(b..e - 1) /\ used' = used \ (b..e - 1)

\* The one term of a section space schema poset: it begins at 0, so that extend
\* asks for the ids it adds to be free, and no id of it was deleted.
extend_last_term(n) ==
  LET last == term_id_end - 1 IN
  /\ last \in DOMAIN terms /\ ids # {}
  /\ LET term == terms[last]   size == term.end - term.begin IN
     /\ ~term.reserved /\ term.begin = 0 /\ 0..size - 1 \subseteq ids
     /\ next_id <= term.end
     /\ n > size /\ n <= MaxId + 1
     /\ interval_is_available(size, n)
     /\ terms' = [terms EXCEPT ![last].end = n]
     /\ put_members(insert_interval(members, 0, n - 1), ct + (n - size))
     /\ Given(0..n - 1)
  /\ UNCHANGED <<term_id_begin, term_id_end, next_id, reserved_term, sum_to_term_map>>

Next ==
  \/ new_id
  \/ \E x \in Ids : new_id_at(x)
  \/ \E x \in Ids : delete_id(x)
  \/ \E n \in 1..MaxSize : new_primary_term(n)
  \/ \E b \in Ids, n \in 1..MaxSize : new_primary_term_at(b, n)
  \/ \E i \in DOMAIN terms : remove_term(i)
  \/ \E n \in 1..MaxId + 1 : extend_last_term(n)

Spec == Init /\ [][Next]_vars

-----------------------------------------------------------------------------
(***************************************************************************)
(* The extent of the terms, that loops over them rely on, is right: the    *)
(* terms are between the first and the last of them.                       *)
(***************************************************************************)
TypeOK ==
  /\ \A k \in DOMAIN members : k \in -1..MaxId /\ members[k] \in BOOLEAN
  /\ DOMAIN terms \subseteq term_id_begin..term_id_end - 1
  /\ term_id_begin < term_id_end => {term_id_begin, term_id_end - 1} \subseteq DOMAIN terms
  /\ \A i \in DOMAIN terms : terms[i] \in
       [begin : Ids, end : 1..MaxId + 1, reserved : BOOLEAN, next : 0..MaxId + 1]
  /\ reserved_term \in DOMAIN terms \cup {Unknown}
  /\ DOMAIN sum_to_term_map \subseteq 0..MaxId + 1 \cup {LastKey}
  /\ ids \subseteq used /\ used \subseteq Ids

(***************************************************************************)
(* The interval set, the count and the extrema say the same, and it is     *)
(* what was given out and not taken back: blocks that meet, single ids     *)
(* between them, ids deleted in the middle of a block and blocks removed   *)
(* with ids missing all split, merge and erase intervals.                  *)
(***************************************************************************)
MembersAreIds ==
  /\ \A x \in Ids : contains(x) <=> x \in ids
  /\ Alternates(members)
  /\ ct = Cardinality(ids)
  /\ IF ids = {} THEN begin = Unknown /\ end = Unknown
                 ELSE begin = Min(ids) /\ end = Max(ids) + 1

(***************************************************************************)
(* Every id is in one term, and the map finds the term, or none, for every *)
(* id of those terms were made from, whatever terms and gaps there were.   *)
(***************************************************************************)
IsIn(x, i) == terms[i].begin <= x /\ x < terms[i].end

TermsFound ==
  /\ \A x \in ids : \E i \in DOMAIN terms : IsIn(x, i)
  /\ \A i, j \in DOMAIN terms : i # j => terms[i].end <= terms[j].begin \/ terms[j].end <= terms[i].begin
  /\ \A x \in 0..next_id - 1 :
       LET i == term_id(x) IN
       IF i = Unknown THEN \A j \in DOMAIN terms : ~IsIn(x, j)
                      ELSE i \in DOMAIN terms /\ IsIn(x, i)

(***************************************************************************)
(* "Allocate the next available id in this space."                         *)
(* (primary_sum_index_space_state.h:134): an id that a client does not ask *)
(* for by number was never the id of a member, unless its term was removed *)
(* since.                                                                  *)
(***************************************************************************)
FreshIds ==
  [][new_id \/ (\E n \in 1..MaxSize : new_primary_term(n))
       => /\ (ids' \ ids) \cap used = {}
          /\ Cardinality(ids' \ ids) = ct' - ct]_vars
==============================================================================
