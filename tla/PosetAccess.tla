----------------------------- MODULE PosetAccess -----------------------------
(***************************************************************************)
(* Access to posets that depend on each other.  Every poset has a          *)
(* read_write_monitor of its own; getting access to a poset takes its      *)
(* monitor first, then reads its schema, which reads its own schema, and a *)
(* namespace reads its primitives as well.  A public call is the sequence  *)
(* of requests and releases of single monitors that it makes, and other    *)
(* threads run between them.  Each monitor is the ReadWriteLock that       *)
(* ReadWriteMonitor implements, with the depth of the requests.            *)
(***************************************************************************)
EXTENDS Integers, Sequences, FiniteSets, SequencesExt

CONSTANTS
  Threads,
  Posets,        \* with the namespace and the schemas
  Namespace,
  Primitives,    \* the poset a namespace reads besides its schema
  SchemaOf,      \* SchemaOf[x]: the poset of x's schema, or NoPoset at the end
  NoPoset,
  Tables,        \* the posets that are created and deleted
  MaxCalls,      \* bound: MaxCalls[t] requests, queries and operations of t
  Practices      \* what clients do in spite of MayAsk, see there

\* What getting access to x gets access to next.
Needs(x) == {SchemaOf[x]} \union IF x = Namespace THEN {Primitives} ELSE {}

(***************************************************************************)
(* No poset needs itself, however far down: among any posets there is one  *)
(* that needs none of them.  The namespace is nobody's schema.             *)
(***************************************************************************)
ASSUME PosetsAssumption ==
  /\ IsFiniteSet(Posets) /\ NoPoset \notin Posets
  /\ Namespace \in Posets /\ Primitives \in Posets \union {NoPoset}
  /\ SchemaOf \in [Posets -> Posets \union {NoPoset}]
  /\ \A M \in (SUBSET Posets) \ {{}} : \E x \in M : Needs(x) \intersect M = {}
  /\ \A x \in Posets : Namespace \notin Needs(x)
  /\ Tables \subseteq Posets /\ MaxCalls \in [Threads -> Nat]

VARIABLES
  mode,           \* mode[t][x]: the access t has to x
  depth,          \* depth[t][x]: requests of t for x that are not released
  switch_depth,   \* switch_depth[t][x]: the depth t upgraded x at, or 0
  jim_edit_depth, \* jim_edit_depth[x]: of the poset's state, shared by all threads
  exists,         \* the posets the namespace has
  todo,           \* todo[t]: the steps left of the call t is in
  brackets,       \* brackets[t][x]: what t asked of x and has to release, oldest first
  calls           \* calls[t]: calls t has begun

locks == <<mode, depth, switch_depth>>
vars == <<locks, jim_edit_depth, exists, todo, brackets, calls>>

Init ==
  /\ mode = [t \in Threads |-> [x \in Posets |-> "none"]]
  /\ depth = [t \in Threads |-> [x \in Posets |-> 0]]
  /\ switch_depth = depth
  /\ jim_edit_depth = [x \in Posets |-> 0]
  /\ exists \in {Posets, Posets \ Tables}
  /\ todo = [t \in Threads |-> << >>]
  /\ brackets = [t \in Threads |-> [x \in Posets |-> << >>]]
  /\ calls = [t \in Threads |-> 0]

-----------------------------------------------------------------------------
(***************************************************************************)
(* The calls, as sequences of steps on single posets.                      *)
(***************************************************************************)
Times(n, steps) == FlattenSeq([i \in 1..n |-> steps])

\* The schema's access, and for a namespace the primitives', is asked for after
\* the poset's own and given back before it.
get_read_access[x \in Posets \union {NoPoset}] ==
  IF x = NoPoset THEN << >>
  ELSE <<<<"read", x>>>> \o get_read_access[SchemaOf[x]]
       \o IF x = Namespace THEN get_read_access[Primitives] ELSE << >>

\* A bug: the schema may change while it is in use.
get_read_write_access_SchemaFreeBug(x) == <<<<"write", x>>>>

get_read_write_access(x) == <<<<"write", x>>>> \o Tail(get_read_access[x])

release_access_once[x \in Posets \union {NoPoset}] ==
  IF x = NoPoset THEN << >>
  ELSE (IF x = Namespace THEN release_access_once[Primitives] ELSE << >>)
       \o release_access_once[SchemaOf[x]] \o <<<<"release", x>>>>

\* A bug: all levels of the poset, one of its schema.
release_access_SchemaOnceBug(t, x, all) ==
  Front(release_access_once[x]) \o Times(IF all THEN depth[t][x] ELSE 1, <<<<"release", x>>>>)

release_access(t, x, all) ==
  Times(IF all THEN depth[t][x] ELSE 1, release_access_once[x])

begin_jim_edit_mode(x, auto) ==
  (IF auto THEN get_read_write_access(x) ELSE << >>) \o <<<<"request_edit", x>>>>

\* A bug: access is released before the edit mode.
end_jim_edit_mode_LateBug(x, auto) ==
  (IF auto THEN release_access_once[x] ELSE << >>) \o <<<<"release_edit", x>>>>

end_jim_edit_mode(x, auto) ==
  <<<<"release_edit", x>>>> \o IF auto THEN release_access_once[x] ELSE << >>

name == get_read_access[Namespace] \o release_access_once[Namespace]

\* The monitor of x is deleted with its state, all levels of access with it.
\* A bug: the levels of access to the schema stay.
terminate_access_KeepsSchemaBug(t, x) == <<<<"terminate", x>>>>

terminate_access(t, x) ==
  Times(depth[t][x] + 1, release_access_once[SchemaOf[x]]) \o <<<<"terminate", x>>>>

\* A bug: the namespace is edited only after the poset is gone.
delete_poset_LateEditBug(t, x) ==
  get_read_write_access(x) \o terminate_access(t, x)
  \o begin_jim_edit_mode(Namespace, TRUE) \o end_jim_edit_mode(Namespace, TRUE)

delete_poset(t, x) ==
  begin_jim_edit_mode(Namespace, TRUE) \o get_read_write_access(x)
  \o terminate_access(t, x) \o end_jim_edit_mode(Namespace, TRUE)

insert_poset(x) ==
  begin_jim_edit_mode(Namespace, TRUE) \o get_read_access[x] \o <<<<"insert", x>>>>
  \o end_jim_edit_mode(Namespace, TRUE) \o release_access_once[x]

\* The requests for the new state itself, which nobody else can have, are left out.
new_table(x) ==
  get_read_access[SchemaOf[x]] \o insert_poset(x) \o release_access_once[SchemaOf[x]]

\* A member of schema poset x and its dofs.
new_jim_state(x) ==
  get_read_access[Namespace] \o get_read_write_access(x)
  \o begin_jim_edit_mode(x, TRUE) \o end_jim_edit_mode(x, TRUE)
  \o release_access_once[x] \o release_access_once[Namespace]

-----------------------------------------------------------------------------
(***************************************************************************)
(* The steps.                                                              *)
(***************************************************************************)
Head1(t, op, x) == todo[t] # << >> /\ Head(todo[t]) = <<op, x>>
Done(t) == todo' = [todo EXCEPT ![t] = Tail(@)]

SetAccess(t, x, m, d, s) ==
  /\ mode' = [mode EXCEPT ![t][x] = m]
  /\ depth' = [depth EXCEPT ![t][x] = d]
  /\ switch_depth' = [switch_depth EXCEPT ![t][x] = s]

NoWriter(x) == \A u \in Threads : mode[u][x] # "write"
Nobody(x)   == \A u \in Threads : mode[u][x] = "none"

Read(t, x) ==
  /\ Head1(t, "read", x) /\ Done(t)
  /\ mode[t][x] # "none" \/ NoWriter(x)
  /\ SetAccess(t, x, IF mode[t][x] = "none" THEN "read" ELSE mode[t][x],
               depth[t][x] + 1, switch_depth[t][x])
  /\ UNCHANGED <<jim_edit_depth, exists>>

\* An upgrade gives the read access up, keeps the depth, and waits.
GiveUpRead(t, x) ==
  /\ Head1(t, "write", x) /\ mode[t][x] = "read"
  /\ SetAccess(t, x, "none", depth[t][x], depth[t][x])
  /\ UNCHANGED <<todo, jim_edit_depth, exists>>

Write(t, x) ==
  /\ Head1(t, "write", x) /\ Done(t)
  /\ mode[t][x] = "write" \/ Nobody(x)
  /\ SetAccess(t, x, "write", depth[t][x] + 1, switch_depth[t][x])
  /\ UNCHANGED <<jim_edit_depth, exists>>

\* A bug: a level of read-write access counts for two.
Release_TwoLevelsBug(t, x) ==
  /\ Head1(t, "release", x) /\ mode[t][x] # "none" /\ Done(t)
  /\ SetAccess(t, x, IF depth[t][x] <= 2 THEN "none" ELSE mode[t][x],
               depth[t][x] - (IF mode[t][x] = "write" THEN 2 ELSE 1), switch_depth[t][x])
  /\ UNCHANGED <<jim_edit_depth, exists>>

\* The release that ends an upgrade gives write access up and waits to read again.
Release(t, x) ==
  LET d == depth[t][x] - 1
      downgrade == mode[t][x] = "write" /\ d > 0 /\ d = switch_depth[t][x]
  IN /\ Head1(t, "release", x) /\ mode[t][x] # "none"
     /\ IF downgrade
        THEN /\ SetAccess(t, x, "none", d, 0)
             /\ todo' = [todo EXCEPT ![t] = <<<<"regain", x>>>> \o Tail(@)]
        ELSE /\ SetAccess(t, x, IF d = 0 THEN "none" ELSE mode[t][x], d, switch_depth[t][x])
             /\ Done(t)
     /\ UNCHANGED <<jim_edit_depth, exists>>

Regain(t, x) ==
  /\ Head1(t, "regain", x) /\ Done(t)
  /\ NoWriter(x)
  /\ SetAccess(t, x, "read", depth[t][x], 0)
  /\ UNCHANGED <<jim_edit_depth, exists>>

EditMode(t, x) ==
  /\ \/ /\ Head1(t, "request_edit", x)
        /\ jim_edit_depth' = [jim_edit_depth EXCEPT ![x] = @ + 1]
     \/ /\ Head1(t, "release_edit", x) /\ jim_edit_depth[x] > 0
        /\ jim_edit_depth' = [jim_edit_depth EXCEPT ![x] = @ - 1]
  /\ Done(t)
  /\ UNCHANGED <<locks, exists>>

Insert(t, x) ==
  /\ Head1(t, "insert", x) /\ Done(t)
  /\ exists' = exists \union {x}
  /\ UNCHANGED <<locks, jim_edit_depth>>

Terminate(t, x) ==
  /\ Head1(t, "terminate", x) /\ Done(t)
  /\ exists' = exists \ {x}
  /\ SetAccess(t, x, "none", 0, 0)
  /\ jim_edit_depth' = [jim_edit_depth EXCEPT ![x] = 0]

Step(t) ==
  /\ \E x \in Posets :
       \/ Read(t, x) \/ GiveUpRead(t, x) \/ Write(t, x) \/ Release(t, x) \/ Regain(t, x)
       \/ EditMode(t, x) \/ Insert(t, x) \/ Terminate(t, x)
  /\ UNCHANGED <<brackets, calls>>

-----------------------------------------------------------------------------
(***************************************************************************)
(* The clients.  They release in matching pairs what they asked for, last  *)
(* first on each poset, as read_write_monitor.h wants of a "proper"        *)
(* client.  That is not enough for every call to return.  MayAsk is: a     *)
(* request that has to wait, or a release that has to wait to read again,  *)
(* is made for one poset (and its schemas) at a time, not by a writer of   *)
(* the schema, and with access to the namespace, which comes first and is  *)
(* given back last; and a schema is not written while a poset with it is   *)
(* being made.  And two clients do not delete one poset at the same time.  *)
(* Nothing in the code enforces any of this: Practices leaves conjuncts of *)
(* MayAsk or of the guards below out, and TLC then finds a circle of       *)
(* waiting threads, or a thread that waits for a poset which is gone.      *)
(***************************************************************************)
Idle(t)  == todo[t] = << >>
Holds(t) == {x \in Posets : mode[t][x] # "none"}
Chain(x) == {step[2] : step \in ToSet(get_read_access[x])}

\* What the namespace needs was made before it.  Nobody writes it, or deletes it.
Base == Chain(Namespace) \ {Namespace}
ASSUME BaseAssumption == Tables \intersect Chain(Namespace) = {}
Ahead(t, op, x) == <<op, x>> \in ToSet(todo[t])

\* A poset with schema x is being made: new_table reads the schema and then waits for
\* the namespace, new_jim_state reads the namespace and then waits for the schema.
BeingUsed(x) == \E y \in Posets, u \in Threads : SchemaOf[y] = x /\ Ahead(u, "insert", y)

\* The levels of access to x that t asked of x itself, not of a poset that depends on x.
Own(t, x) == Cardinality({i \in DOMAIN brackets[t][x] : brackets[t][x][i] # "inner_edit"})

Waits(t, x, kind) == IF kind = "read" THEN mode[t][x] = "none" ELSE mode[t][x] # "write"

Reachable(t, x) ==
  /\ Holds(t) \subseteq Chain(Namespace) \union Chain(x) \/ "anywhere" \in Practices
  /\ \A y \in Chain(x) \ {x} : mode[t][y] # "write" \/ "anywhere" \in Practices
  /\ x # Namespace => mode[t][Namespace] # "none" \/ "keeps_pointers" \in Practices

MayAsk(t, x, kind) == Waits(t, x, kind) =>
  /\ Reachable(t, x)
  /\ kind = "write" => x \notin Base /\ (~BeingUsed(x) \/ "overlaps" \in Practices)

\* A release waits if it reaches the depth of an upgrade.  The namespace is kept for it.
MayRelease(t, x, all) ==
  /\ \/ switch_depth[t][x] = 0
     \/ ~all /\ depth[t][x] # switch_depth[t][x] + 1
     \/ Reachable(t, x)
  /\ x = Namespace => \A y \in Posets \ {x} : switch_depth[t][y] = 0

Begin(t, steps) ==
  /\ Idle(t) /\ calls[t] < MaxCalls[t]
  /\ calls' = [calls EXCEPT ![t] = @ + 1]
  /\ todo' = [todo EXCEPT ![t] = steps]
  /\ UNCHANGED <<locks, jim_edit_depth, exists>>

Open(t, x, kind) == brackets' = [brackets EXCEPT ![t][x] = Append(@, kind)]

Request(t, x) ==
  /\ x \in exists
  /\ \/ MayAsk(t, x, "read") /\ Begin(t, get_read_access[x]) /\ Open(t, x, "read")
     \/ MayAsk(t, x, "write") /\ Begin(t, get_read_write_access(x)) /\ Open(t, x, "write")
     \/ MayAsk(t, x, "write") /\ Begin(t, begin_jim_edit_mode(x, TRUE)) /\ Open(t, x, "edit")
     \/ mode[t][x] = "write" /\ Begin(t, begin_jim_edit_mode(x, FALSE)) /\ Open(t, x, "inner_edit")

Query(t) ==
  /\ MayAsk(t, Namespace, "read") /\ Begin(t, name)
  /\ UNCHANGED brackets

\* x is the state that is being made, which nobody else has.
Create(t, x) ==
  /\ x \in Tables \ exists /\ Holds(t) \subseteq Chain(Namespace)
  /\ mode[t][Namespace] # "read"   \* it would be regained with access to x
  /\ \A u \in Threads : 
       ~Ahead(u, "insert", x) /\ (~Ahead(u, "write", SchemaOf[x]) \/ "overlaps" \in Practices)
  /\ Begin(t, new_table(x))
  /\ UNCHANGED brackets

Define(t, x) ==
  /\ (\E y \in Posets : SchemaOf[y] = x) /\ x \notin Tables \union Base
  /\ MayAsk(t, Namespace, "read") /\ mode[t][x] = "none"
  /\ Holds(t) \subseteq Chain(Namespace)
  /\ ~BeingUsed(x) \/ "overlaps" \in Practices
  /\ Begin(t, new_jim_state(x))
  /\ UNCHANGED brackets

\* contains_poset tests that x exists with read access to the namespace, which it gives
\* back; the call then waits to write the namespace and does not test again.  A client that
\* "deletes_twice" may pass the test while another deletion of x waits after its own.
Delete(t, x) ==
  /\ x \in Tables \intersect exists /\ MayAsk(t, Namespace, "write")
  /\ \/ \A u \in Threads : ~Ahead(u, "terminate", x)
     \/ "deletes_twice" \in Practices /\ \A u \in Threads \ {t} : mode[u][Namespace] # "write"
  /\ Holds(t) \subseteq Chain(Namespace) \union Chain(x)
  /\ \A y \in Chain(x) \ {x} : mode[t][y] # "write"
  /\ Begin(t, delete_poset(t, x))
  /\ brackets' = [brackets EXCEPT ![t][x] = << >>]

\* The client gives back the last thing it asked of x, or all of it, unless that takes
\* levels away that posets which depend on x need: release_access(true) takes them all.
Finish(t, x) ==
  /\ Idle(t) /\ brackets[t][x] # << >>
  /\ LET kind == Last(brackets[t][x])
     IN \/ /\ kind \in {"read", "write"} /\ MayRelease(t, x, FALSE)
           /\ todo' = [todo EXCEPT ![t] = release_access(t, x, FALSE)]
           /\ brackets' = [brackets EXCEPT ![t][x] = Front(@)]
        \/ /\ ToSet(brackets[t][x]) \subseteq {"read", "write"} /\ MayRelease(t, x, TRUE)
           /\ depth[t][x] = Own(t, x)
           /\ todo' = [todo EXCEPT ![t] = release_access(t, x, TRUE)]
           /\ brackets' = [brackets EXCEPT ![t][x] = << >>]
        \/ /\ kind \in {"edit", "inner_edit"} /\ (kind = "edit" => MayRelease(t, x, FALSE))
           /\ todo' = [todo EXCEPT ![t] = end_jim_edit_mode(x, kind = "edit")]
           /\ brackets' = [brackets EXCEPT ![t][x] = Front(@)]
  /\ UNCHANGED <<locks, jim_edit_depth, exists, calls>>

Next == \E t \in Threads :
  \/ Step(t)
  \/ Query(t)
  \/ \E x \in Posets : Request(t, x) \/ Create(t, x) \/ Define(t, x) \/ Delete(t, x) \/ Finish(t, x)

Spec == Init /\ [][Next]_vars

\* A step that can be taken is taken, and a client gives back what it asked for.
FairSpec == Spec /\ \A t \in Threads :
  WF_vars(Step(t)) /\ WF_vars(\E x \in Posets : Finish(t, x))

-----------------------------------------------------------------------------
TypeOK ==
  /\ mode \in [Threads -> [Posets -> {"none", "read", "write"}]]
  /\ depth \in [Threads -> [Posets -> Nat]]
  /\ switch_depth \in [Threads -> [Posets -> Nat]]
  /\ jim_edit_depth \in [Posets -> Nat]
  /\ exists \subseteq Posets

(***************************************************************************)
(* Between calls the depth of a thread at a poset is what it asked of the  *)
(* poset itself and of every poset that depends on it, and it has          *)
(* read-write access exactly while one of its own requests asked for it.   *)
(* Whatever the order of the releases on different posets: a level of the  *)
(* schema released too often, or not often enough, shows here.             *)
(***************************************************************************)
Occurrences(x, y) == Cardinality({i \in DOMAIN get_read_access[y] : get_read_access[y][i][2] = x})

AccessAddsUp == \A t \in Threads : Idle(t) => \A x \in Posets :
  /\ depth[t][x] = SumFunction([y \in Posets |-> Own(t, y) * Occurrences(x, y)])
  /\ mode[t][x] = "write" <=> ToSet(brackets[t][x]) \ {"read"} # {}
  /\ mode[t][x] = "none" <=> depth[t][x] = 0

(***************************************************************************)
(* Nobody writes the schema of a poset that a thread has access to.        *)
(***************************************************************************)
SchemaLocked == \A t \in Threads : Idle(t) => \A x \in Holds(t), u \in Threads :
  SchemaOf[x] # NoPoset /\ mode[u][SchemaOf[x]] = "write" => u = t

(***************************************************************************)
(* A poset is in jim edit mode only while one thread writes it: the depth, *)
(* which belongs to the poset, is never seen by a second thread, and the   *)
(* end that brings it to zero is that of the editor.                       *)
(***************************************************************************)
EditorWrites == \A x \in Posets : jim_edit_depth[x] > 0 =>
  \E t \in Threads : mode[t][x] = "write"

(***************************************************************************)
(* Nobody waits for, or uses, the monitor of a poset that has been deleted.*)
(* terminate_access (poset_state_handle.cc:1072) says it cannot prevent it.*)
(***************************************************************************)
NobodyUsesDeleted == \A t \in Threads, x \in Posets \ exists :
  /\ mode[t][x] # "none" => Ahead(t, "insert", x) \/ Ahead(t, "release", x)
  /\ Ahead(t, "read", x) => Ahead(t, "insert", x)
  /\ ~Ahead(t, "write", x) /\ ~Ahead(t, "regain", x)

(***************************************************************************)
(* A deletion that has the namespace in edit mode, and goes on to write x, *)
(* finds x in the namespace: the member it was asked to delete is still a  *)
(* jim, as namespace_poset::delete_poset asserts (namespace_poset.cc:862). *)
(***************************************************************************)
DeleterFindsPoset == \A t \in Threads, x \in Posets :
  Ahead(t, "terminate", x) /\ Head1(t, "write", x) => x \in exists

(***************************************************************************)
(* Every call returns, though threads wait for one poset while they have   *)
(* access to others.                                                       *)
(***************************************************************************)
EveryCallReturns == \A t \in Threads : ~Idle(t) ~> Idle(t)
=============================================================================
