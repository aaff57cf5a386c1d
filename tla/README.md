# SheafSystem: TLA+ models, checks and proofs

SheafSystem is a C++ library for scientific data: finite posets with a lattice
structure, whose members represent parts of a mesh or of a data space, and on
them fiber bundles and fields. This directory models the parts with control to
speak of: the monitors that guard every object that clients share, what the
operations on posets, schemas and the namespace do with them, the cover relation
graph at the centre of every poset, the allocation of the ids of its members, and
the iterators that walk it.

## The system

All paths are below `src/`.

| component | state | operations | interacts with |
|---|---|---|---|
| read-write monitor, `sheaves/concurrency/read_write_monitor` | counts of readers and writers, mode locks, per thread: access mode and its depth, switch depth, modified flag | `get_read_access`, `get_read_write_access`, `release_access`, notification, mode lock | base class of the state of every poset; threads through a mutex and a condition variable |
| monitor handle, `read_write_monitor_handle` | a pointer to a monitor | forwards to it | poset handles share one state |
| threads, `thread`, `thread_mutex`, `thread_condition_variable`, `runnable` | a pthread, a global list of all threads | start, join, stop | the client's runnable |
| cover relation graph, `sheaves/posets/poset_crg_state` | members, lower and upper cover of each, jim edit depth | new and deleted members, links, cover iterators | id spaces hold the covers |
| poset, `sheaves/posets/poset_state_handle` | the graph, the dof tuples, subposets, names, a schema | members, links, jems, the lattice, jim edit mode, access to the poset and its schema | members, traversers, its namespace |
| poset members, `sheaves/posets/abstract_poset_member` | a host and an index | create and delete jims (join-irreducible members), jrms (join-reducible) and jems (join-equivalent), links, merges, joins | `poset_state_handle`, `poset_joiner` |
| joiner, `sheaves/posets/poset_joiner` | marks for one traversal | join of an expansion | cover relation graph |
| traversers, `sheaves/traversers` | marks, a stack of recursive calls | depth first traversals; `poset_orderer` restores the order of jrms | posets |
| iterators, `sheaves/iterators` | the path from the anchor, markers, a state and an action | next, truncate, reset | posets, subposets |
| subposets, powersets, versions | characteristic functions over the members | insert, remove, set operations; refinement | poset |
| namespace, schemas | a poset whose members are posets | arrival, deletion and renaming of posets | all posets |
| id spaces, `sheaves/id_spaces` | maps between ids of a space and hub ids, reference counted handles | push, insert, remove, allocate hub ids | everything that has ids |
| support, maps | pools, reference counts, bit sets, interval sets, name tables | containers | everything |
| storage, `sheaves/io` | HDF5 files, records of a poset | read and write a namespace | posets |
| dof maps, geometry, fiber bundles, fields | arrays of values | numerical algebra | posets and sections |
| tools, bindings, build | viewers, generated wrappers | - | - |

What makes each of the modelled components correct:

- *Monitor*: writers exclude everybody; the counters are the truth; a waiting
  thread is always awakened; the access a client has is the one its requests add
  up to, through nested upgrades and downgrades; a change is told to everybody.
- *Graph and members*: the two halves of the cover relation agree; the order is
  acyclic, between bottom and top when nobody edits; creating and deleting
  join-reducible members leaves the order of the others alone; join-equivalent
  members are chained where the operations say.
- *Access to posets*: a poset takes its schema with it; what a thread has of a
  schema adds up over the posets that depend on it; calls return although they wait
  for one monitor while they have others; nobody uses a poset that is deleted.
- *Hub ids*: an id is one member's, whatever blocks and single ids were made,
  removed and asked for by number; the interval set, the counts and the terms agree.
- *Iterators*: the actions are those of a depth first traversal; everything below the
  anchor that is not excluded is met, once if the iterator visits once.

What is hard: the monitor's public operations are loops over primitives that each
take the mutex, and other threads run in between; the graph's operations are
sequences of half-updates whose preconditions are comments
(`require(unexecutable(...))`) and whose result depends on what earlier edits left;
an operation with `xauto_access` takes up to four monitors, in an order of its own;
an interval set merges, splits and erases intervals with several cases to a side; an
iterator is a recursion unrolled into a table of states and two stacks.

## Modules

| module | models |
|---|---|
| `ReadWriteLock` | abstract: what a readers-writer lock with notification promises |
| `ReadWriteMonitor` | `read_write_monitor.cc`, any number of threads |
| `MonitorClients` | clients that release what they request, with the history of their requests and of changes they have not seen |
| `MonitorProgress` | the same clients with finitely many requests, and fairness |
| `CoverRelation` | the graph and the operations on it, as operators from posets to posets |
| `PosetMembers` | a poset, jim edit mode, and the operations of `abstract_poset_member` |
| `PosetJoiner` | the joins of `poset_joiner.cc`, and clients that make jrms by joining |
| `PosetAccess` | access to posets with schemas in a namespace: calls that take several monitors |
| `IntervalSet` | `interval_set.cc`, as operators |
| `HubIdSpace` | the hub id space of a poset: ids, primary and reserved terms; composes `IntervalSet` |
| `DepthFirstItr` | the state machine of `depth_first_itr`, and depth first traversal as a recursive function |
| `MC...` | instances for TLC |
| `ReadWriteMonitorProofs`, `MonitorClientsProofs` | theorems about the monitor, and about its clients |
| `PosetMembersProofs` | theorems about `CoverRelation` and `PosetMembers` |
| `PosetJoinerProofs` | theorems about `PosetJoiner` |
| `HubIdSpaceProofs` | theorems about the interval set, and the hub id space made of it |
| `DepthFirstItrProofs` | theorems about `DepthFirstItr` |
| `PosetAccessProofs` | theorems about `PosetAccess` |
| `Foundations` | lemmas these rest on, but for those about the monitor: extrema, recursion over numbers and finite sets, reachability, sums, counting and repeating in sequences |

### ReadWriteMonitor

`ro_ct`, `rw_ct` and `mode_lock_ct` are `_ro_ct`, `_rw_ct` and `_mode_lock_ct`;
`access_mode`, `switch_depth` and `is_modified` are the entries of the map
`_thread_state`; `waiting` is the queue of the condition variable. A public
operation that has begun is in `pc` with the request depth its loop ends at in
`goal`. Each primitive (`request_read_only_access` and so on) runs under the
monitor's mutex and is one step; a public call decides which primitives run and
is a step of its own. Tests that the loops make between two primitives read only
variables the calling thread alone writes, so they are in the step before. A
thread about to run a primitive and waiting for the mutex is a thread whose step
is enabled; a thread in `waiting` is in `pthread_cond_wait`, and wakes by a
signal, by a broadcast or spuriously. `PThreads = FALSE` is the build without
`_PTHREADS`: every `#ifdef` of it is a test of the constant.

Clients are polite and proper as the class comment of `read_write_monitor.h` asks:
they meet preconditions. Constants say what the clients of a run do where the
preconditions leave a choice: `XallValues` for the argument of `release_access`,
`ModeLockModes` for the access they have at `get_mode_lock`.

Threads without an entry in `_thread_state` are not modelled (the constructor makes
an entry for its own thread only; `access_mode` requires that one exists), nor is a
change of `access_control_disabled` while clients are at work: it is a constant.

### CoverRelation and PosetMembers

A poset is a record of its members, its jims and the two covers of each id. An
upper cover is a sequence because the code depends on its order: the first upper
member is what finds jems. `list_index_space_state` pushes at the back and leaves
a hole for a removed entry that every reader skips, so removal from a sequence is
the same. A lower cover is a set: its first entry matters to `is_atom` only, where
the bottom is alone, and to `delete_state`, which walks the lower cover and may make
different links in a different order; there every order is tried. Implicit covers
of structured blocks, id spaces and dof tuples are left out;
hub ids are 0 (bottom), 1 (top) and then the next number, never one of a deleted
member: `next` of the record is what `HubIdSpace` models in full.

The client holds read-write access for the whole of an operation - that is what
the monitor is for - so each operation of `abstract_poset_member` is one step, with
everything it does: an operation with `xauto_access` ends with the repair of the
lattice when the jim edit mode it opened is the outermost.
`ensure_lattice_invariant` ends with `poset_orderer::restore_order`, which changes
nothing: it merges only with members that have been post-visited
(`poset_orderer.cc:175`), and nothing records a visit.

`Practices` says what clients do beyond the ordinary (the list is in
`PosetMembers`). Two of them, `bottom_meets_top` and `merge`, break the poset, and
passing runs leave them out; the run `bottom_meets_top` shows the first. The second
is `merge_jems` of members that share a lower or an upper cover: it links the one to
members it is linked to already, against the precondition of
`insert_cover_member` (`poset_crg_state.cc:1312`). Merges whose members have no
lower cover, no common upper cover and not the top as their greatest jem are in
the passing runs.

`JemsLinked` is for the ordinary
clients. With `"deletes_under_jrms"` it does not hold: when the last jim below a jrm is
deleted, the repair links the jrm to the bottom beside other members, though it is
join-equivalent to the bottom then, as the comment at `poset_state_handle.cc:1018` says,
and `new_jem_state` puts a new jem of it over the bottom.

`end_jim_edit_mode(false)`, which bulk builders call when they have linked
everything, is not a separate action: there is then nothing for the repair to link.

### PosetJoiner

The joiner marks members while it traverses the poset and keeps the marks from one
traversal to the next, so that each member is visited once. Its operators are the
sets these traversals end with: `compute_down` and `compute_atoms` what the first
collects, `update_gdown` the least set with it that has every jrm all of whose lower
covers it has, `compute_mlb` and `compute_mub` the members the result is linked
between. `join` has the four outcomes of the code: the bottom, an existing member, a
new jem of it, a new member. Joins are made outside jim edit mode, as `l_join_pa`
requires, by clients that edit jims while there are no jrms; a client that has edited
jims under jrms has jrms whose place the joiner would have to repair, and nothing in
the code says it does.

The reference for joins is the lattice the jims generate: a member stands for the set
of jims below it, and the join of an expansion is the union.

### PosetAccess

A public call of a poset is a sequence of requests and releases of single monitors:
`get_read_access` takes the poset's own monitor, then reads its schema, which reads
its schema; a namespace reads its primitives too; releases go the other way.
`todo[t]` is what is left of the call thread `t` is in, and other threads run between
two steps of it. A monitor is the readers-writer lock `ReadWriteMonitor` is shown to
implement, with the depth of the requests and the depth of the upgrade: an upgrade
gives read access up and then waits, and the release that ends it waits to read
again (`GiveUpRead`, `Regain`). The call that deletes a poset, the call that makes
one and the one that defines a member of a schema are the sequences of
`namespace_poset::delete_poset`, `poset::new_table` and
`schema_poset_member::new_jim_state` with automatic access. `jim_edit_depth` belongs
to the poset, not to a thread.

Nothing in the code orders the monitors, and clients that meet every precondition can
wait for each other. `MayAsk` and the guards of `Create`, `Define` and `Delete` say
which clients cannot: requests that wait are made for one poset and its schemas at a
time, the namespace first. Each practice in `Practices` leaves a part of these rules
out, and TLC then finds a circle of waiting threads, or a thread that waits for a deleted
poset.

One rule is about a race, not about circles: two clients do not delete one table at the
same time. `delete_poset` tests `contains_poset` with access to the namespace that it
gives back (`namespace_poset.cc:729`), waits for the namespace (737), and then follows
the handle of the poset (740, 861-866) without a second test. Nothing in the code
enforces the rule. With the practice `"deletes_twice"` a client may begin a deletion,
when it can read the namespace, though another one of the same table is under way: the
step that begins the call is the moment of the test, and the wait comes after it. The run
`deleted_twice` shows what follows; `access`, and the theorem, are about clients that
keep the rule. `Create` needs no such rule: `x` is the state being made, and nobody else
has it. That two threads make different states with one name (the test at
`namespace_poset.cc:980` precedes the wait too) is beyond the model, which has no names.

`PosetsAssumption`: no poset needs itself through schemas and primitives (`Needs`), and
no poset needs the namespace, which is nobody's schema. `BaseAssumption`: what the
namespace needs is not created or deleted in it, and `MayAsk` and `Define` leave it
unwritten: those posets are complete before the first namespace is made.

### IntervalSet and HubIdSpace

`interval_set` keeps an entry for the end of every interval, which says whether the
interval is in the set. Its operators are those of the code, entry by entry. The hub
id space of a poset has terms: blocks of ids, and reserved terms whose ids become
members one at a time. `terms[i]` is the state `_terms` has at `i`, with its extent;
`sum_to_term_map` the map from the ends of terms and gaps to terms, as the code keeps
it; `ids` and `used` are histories of the ids given out. An operation is one step: its
caller has write access to the poset. `extend_last_term` is for the one client the
repository has, a section space schema poset, whose single term begins at 0.

### DepthFirstItr

One step is one turn of the loop of `next()`, and the states are the code's. The five
transition tables differ in three places only, `entered`, `finished` and `followed`.
An iterator over a cover is what is left of the cover; `path_head_lc`, `path_head`
and `path_tail` are the stacks of such iterators. `actions`, `marked` and `truncated`
are histories. The graph is not changed during a traversal, so `erase_cover` is left
out. Clients truncate at previsits only: at another action the code does not ignore
`xtruncate`, as `depth_first_itr.h:540` says it does, but keeps it for the next member.
The covers are those of a partial order: `SetupsAssumption` says that every nonempty set of
members has one that covers none of them, and that there are finitely many.
`Walk` is the reference: the recursive traversal the state machine unrolls.

## Runs

| run | instance | shows |
|---|---|---|
| `monitor` | 3 threads, depth 2, 1 mode lock | the counters, preconditions of the primitives, wakeups, and `LockSpec`: the monitor implements `ReadWriteLock` |
| `clients` | 3 threads with 4, 2 and 1 requests, depth 3 | access is what the outstanding requests add up to; no change goes untold; every call returns |
| `poset_ordinary` | 3 members beyond the standard ones at a time, jim edit modes nested 2 deep | the repair at the outermost end is enough; new jems are join-equivalent and at the end they were asked for |
| `poset_unusual` | 3 members, everything but the two breaking practices: jrms linked by hand, jims edited and deleted under jrms | covers match, acyclic, bounded, order kept |
| `joiner` | 5 members, at most 3 of them jims | joins are the joins of the lattice of the jims, the order stays that lattice's |
| `access` | 2 threads with 3 and 2 calls; a poset, its schema, the namespace | depths add up over dependents, schemas in use are not written, one editor, no deleted poset is used if no two clients delete one table at the same time, every call returns |
| `hub_ids` | 8 ids, 3 terms, reserved terms of 3, blocks of up to 2 | members are the ids given out, terms are found, ids are fresh |
| `dft` | the 21 graphs of 4 members below an anchor, 5 orders, 4 filters, 2 kinds of visit, 2 traversals | the actions are those of the recursive traversal, bottom up order, the path, every call returns |
| `release_all` | as `clients`, and `release_access(true)` | **violation**: `release_access(true)` leaves `_switch_depth` behind |
| `bottom_meets_top` | 3 members | **violation**: the repair links the top below a member |
| `deleted_twice` | as `access`, and two deletions of one table at the same time | **violation**: the second deletion goes on to write the deleted table |
| `hub_extended` | as `hub_ids` | **violation**: after `extend_last_term` an id is given out twice |

Bounds. Three threads are the fewest with a waiting reader and a waiting writer
behind an owner, and two waiting behind one; depth 2 has a nested request, an
upgrade of a nested reader and a downgrade to one level, and depth 3 a downgrade over
two levels. Three members beyond the standard ones make a
chain, a fork, a jem between two others and a jrm over two jims; five are three jims,
two of their joins and the jems between; `MaxId` leaves room for the ids of deleted
members, which are not used again. Two incomparable least upper members of a
join need a fourth jim, which is beyond the bound of the run (`MaxJims`); the proofs
have no bound and cover them. Two threads
with three and two calls are an upgrade against a query, a creation or a deletion,
with access kept from an earlier call. Circles of three waiting threads are beyond
the bound.
In `access` the primitives and the schemas of the namespace and of the schema are left
out: nobody writes them, and their monitors make nobody wait. Eight ids are two reserved
terms and a block between or over their boundary; blocks of one and of two are
the cases of an interval's end meeting another. Four members have every shape of two
paths that meet, and a link that skips a level.
The bounds are `MaxDepth`, `MaxModeLocks`, `MaxCalls`, `MaxId`, `MaxMembers`, `MaxEditDepth`,
`MaxJims`, `MaxTerms`, `MaxSize`, `MaxResets` and the set `Setups`.
Symmetry is used for safety of identical threads only.

Deadlock is checked in every run but `clients`, `access` and `deleted_twice`, whose clients
stop after `MaxCalls` requests, `hub_ids` and `hub_extended`, where the ids run out, and `dft`, whose
client stops when its traversals are done.

Fairness. `MonitorProgress`: a thread that can take its next step takes it (the
scheduler runs every thread and the mutex is granted), and a client that has access
releases it ("every request call by this thread is always followed by a release call
by this thread", `read_write_monitor.h`). Requests and spurious wakeups are not
assumed to happen. Requests are bounded because readers that keep coming starve a
writer: nothing in the monitor prevents it. `PosetAccess` assumes the same of every
thread: a step of a call it can take, and the release of what it asked for.
`DepthFirstItr`: the thread that is in `next()` goes on; that the client calls it again is
not assumed. Only weak fairness is used.

## Proofs

Every theorem is for all values of the constants: any threads, ids, members, graphs
and bounds. An invariant that a proof needed was given to TLC on a run first.

### The monitor

`ReadWriteMonitorProofs`, for both builds. `TypeCorrect` is the type invariant.
`Consistent` is the inductive invariant `IInv`, and from it follow `CountersTrue`,
`PreconditionsMet`, `WakeupsSuffice`, `OnlyWritersQueue`, `ClassInvariant` (the
conditions `read_write_monitor::invariant` tests), `NobodyWaitsForItself` and
`ImplementsLock`: every step is a step of `ReadWriteLock` or a stutter.

`CountsAreHolders` is not inductive: a release decrements a counter, and that is
right only if the thread that runs it is one of the holders, which its place in the
program says (`PrimitivePreconditions`); `NoLostWakeup` needs `CountsAreHolders`, and that
waiting threads are at requests (`OnlyRequestersWait`); downgrades need bounds on the
depth their loops end at (`LoopsEndInTime`). `IInv` is their conjunction. The counters
are cardinalities of finite sets of threads; the lemmas at the beginning say what
adding and removing a member does to one.

Assumptions: access control is enabled (`~AccessControlDisabled`) for everything but
`TypeCorrect`, and mode locks are taken with read-only access for `NobodyWaitsForItself`:
`get_mode_lock`'s precondition allows a writer too, who would wait for itself
(`read_write_monitor.cc:1256`). The first is needed too: without access
control `get_read_access` still makes the mode negative, and `get_read_write_access`,
allowed since nothing is then read-only, calls `request_read_write_access` against its
`require(access_mode() >= 0)` (`read_write_monitor.cc:917`).

The build without `_PTHREADS`, where nothing waits, is covered by the proofs alone.

### The clients of a monitor

`MonitorClientsProofs`. A client's history changes nothing of the monitor
(`ClientsUseTheMonitor`), so what is proved of it holds. `FlagTells` is `ChangesAreTold`.
A change is made before its release tells, so the invariant is `ToldOrStillWriting`: what
a thread has not been told was changed by one that still writes, and then nobody else
has access. `LevelsAddUp` is `AccessMatchesRequests`, which speaks of threads between
calls. Its invariant `LevelsMatch` says what depth, mode and switch depth are at each
place of the loops: all requests before the switch are reads, the request at the switch
is a write, and a call in between is some levels away from its goal. It needs
`TRUE \notin XallValues`: `release_access(true)` leaves the switch depth behind, which
the run `release_all` shows.

### Poset members

`PosetMembersProofs`, from `Careful`: the clients leave the two practices out that break
the poset (`merge`, against a precondition, and `bottom_meets_top`, shown by its run).
The inductive invariant is `Sound`: the poset is `Ordered` always, and `Linked` while the
jim edit depth is zero. `Ordered` is that covers match and hold a link once, that there
is no cycle, that nothing is above the top and nothing below the bottom; `Linked` that
every other member has something above it and something below it. `Bounded` is not
inductive: the repair looks only at whether covers are empty, and from that the way to the
top follows because a finite graph without a cycle ends somewhere (`WaysEnd`), at a member
with nothing above it, which `Linked` says is the top. For the way down it is the same
with `U` turned round. Theorems: `MembersTyped`, `HalvesAgree` (`CoversMatch`),
`NeverACycle` (`Acyclic`), `AlwaysBounded` (`Bounded`), `JrmsKeepTheOrder` (`OrderKept`).

The lemmas take one operation each: what it does to the covers, as sets
(`NewLink`, `TransferUpperCover`, `UnlinkAndDelete`, ...), then what that does to
reachability. `InsertAbove` and `InsertBelow` are a jem put between a member and its
cover, `MoveAbove` a cover that moves to the end of a chain. `Relinked` is `delete_state`
for a jrm: whatever the order in which the pairs of an upper and a lower member are tried,
and although a link is made only between two that are not ordered by then, every pair
ends ordered and nobody else's order changes. `LatticeEnsured` is the repair: the
greatest jem of the bottom is found once, at the beginning, and the links made since may
change what is above it, but never put it above a member that has no lower cover, so a
link from such a member to it makes no cycle (`BottomJem`, `LinkKeepsBottomJem`).

### Joins

`PosetJoinerProofs`, for clients that are `JimsFirst`: besides being `Careful` they begin
no jim edit mode while there are jrms and make no jems in one (the practices
`edits_under_jrms` and `jems_while_editing`). A jim or a link put below a jrm changes the
jims below it, and nothing then moves the jrm to its new place.

`OrderedByJims` is not inductive: it compares members with different jims only, and a join
also relies on how join-equivalent ones are ordered. Were two of them not comparable, the
maximal lower bounds could be two members with the jims of the expansion, and the result
a third above both. The invariant `JoinerSound` is `Sound` of `PosetMembersProofs`, and

- in the jim edit mode, that there are jims only. Their order is that of their lattice by
  what a lattice of jims is: one has the jims of another exactly if it is above it
  (`OnlyJims`);
- outside it, that two members, one of which has all the jims of the other, are comparable
  (`Comparable`).

The argument follows `join`. `update_gdown` ends with the members all of whose jims are
below the expansion (`GdownIs`): one way because a jrm has no jims but those of its lower
covers, the other because a lowest member left out would be a jrm with its whole lower
cover in the set. `compute_mlb` ends with the maximal ones (`MlbIs`); that looking
only above the atoms of the expansion misses none is `AtomOfExpansion`, and that they have
between them just the jims of the expansion `MlbJims`. If there are two or more, none has
all those jims, and `compute_mub` ends with the least members that are strictly above all of
them (`MubIs`). The result goes between (`LinkResult`, `InsertBetween`): only links from a
lower to an upper one of them are removed, and the way through the result takes their
place, so the others keep their order. A member whose jims are among those of the expansion
is in gdown and below one of the lower ones; a member that has them all is above every
lower one, and so above an upper one: the result fits in (`ResultMade`). One maximal lower
bound, or none, is a member with the jims of the expansion already, and a jem of it goes
over or under one comparable with the same members (`JemFits`). Theorems:
`JimsOrderMembers` (`OrderedByJims`), `JoinsAreTheJoins` (`JoinsAreJoins`, for expansions of
any size), `JoinedHalvesAgree` (`CoversMatch`), `JoinsKeepTheOrder` (`OrderKept`).

### Interval set and hub ids

`HubIdSpaceProofs` first proves of `put_interval`, in all its cases at both ends, that it makes
members of exactly the interval (`PutMembers`) and that the entries go on alternating
(`PutIntervals`), and that `first_member`, `last_member` and `member_ct` are right
(`MemberExtrema`, `MemberCount`). The entries are those of an invariant, `Intervals`.

The proofs about the hub id space rest on these. `HubInv` is `Kept` (the interval set shows the ids given
out, with its count and extrema), `TermsInv` (terms are disjoint blocks that hold every id
given out, and a reserved term has its next id and those after it free) and `MapTells`
(a key the map has a term for is the end of that term). Theorems: `ExtentIsRight` (`TypeOK`),
`MembersAreRight` (`MembersAreIds`), `NextIdsAreFresh` (`FreshIds`), from
`NothingAfterExtending`: nobody allocates after extending a term, as the run `hub_extended`
shows one may not. `MapFindsTerms` (`TermsFound`) assumes also `NothingOverRemoved`, no
term over the end of a removed one: the key that `remove_term` leaves in the map is found
before that of the new term (`primary_sum_index_space_state.cc:449`). Its invariant
`MapKeys` is that the map has a key at both ends of every term, and none between.

### Iterators

`DepthFirstItrProofs`, for any finite graphs, filters and orders. `DfsInv` says what is in the
stacks at each state of the machine: every iterator on the path is what is left of the
cover of the member before it, the filtered path is the part of the path the filter lets
through, and which states have a cover that is not used up. The filtered path
is shortened by comparing its top with the member left, which is right because a path does
not come back to a member (`PathNeverReturns`). Theorems:
`NoEmptyCoverIsRead` (`TypeOK`), `StacksHoldThePath` (`PathLeadsToIndex`).

`BottomUpOrder` (`BelowIsPostvisitedFirst`) needs more, `PostInv`: in a traversal that began
unmarked and was never truncated there is a set of members that are finished with. It has
the covers of its members, and those the filter lets through were postvisited, if the order
has postvisits. A member that was visited is in it or on the stack, and what an iterator on
the stack has passed is in it. When a member is postvisited its cover is used up, so all of
its cover is finished with, and so is all below it (`BelowIsIn`). A cover member that is
passed over because it was visited is finished with too: it is not on the stack, as a path
does not come back. Nothing is assumed of `visit_once`.

### Access to several posets

`PosetAccessProofs`, for any threads, posets and chains of schemas, any number of calls, and
any practices but `"anywhere"`, with which a thread may ask for a poset while it writes the
schema. A call is a sequence of steps on different posets, of any length: a deletion
releases as many levels as there are. The invariant therefore follows one poset at a time.
`Moves` says what a step makes of what a thread has of the step's poset (mode, depth, depth
of the upgrade, and the edits if it writes), and `Leads` that a sequence of steps leads
from one such state to another. `CallsSettle`, the core of `IInv`, says that what is left
of the call of each thread leads, at each poset, to what the thread's outstanding requests
add up to (`Settles`): the levels are those of the poset's own requests and of every poset
that needs it, once per occurrence; a writer's edits are those it asked for, and its
upgrade is noted at the depth of the read requests before it. `Bracketed` adds that a
thread that writes a poset asked for nothing that needs it, so that the levels it releases
are the poset's own, which is where `"anywhere"` breaks it. With `Exclusive` and
`EditorWrites` this is inductive. `AccessAddsUp` alone is not: it says nothing of a thread
in the middle of a call, when an upgrade has given its access up and kept its depth.

The argument has two halves. That a call settles when it begins is shown for each call as
a whole (`RequestRead`, `RequestWrite`, `FinishLast`, `FinishAll`, `CreateSettles`,
`DefineSettles`, `DeleteSettles`), by induction along the chains of schemas (`GetLeads`,
`ReleaseLeads`). That a step leaves it so is shown for each step (`ReadKeeps` to
`TerminateKeeps`), where other threads matter only through the locks. `GiveUpRead` takes no
step off the call: the write step left leads to the same state from there.
Theorems: `PosetAccessTypeOK` (`TypeOK`), `PosetAccessAddsUp` (`AccessAddsUp`),
`PosetAccessSchemaLocked` (`SchemaLocked`), `PosetAccessEditorWrites` (`EditorWrites`).
TLC cannot enumerate the states `Leads` speaks of; before the proof it checked the invariant
with the steps left run one after the other.

`PosetAccessNobodyUsesDeleted` (`NobodyUsesDeleted`) has an invariant of its own, `Gone`,
beside `IInv`, which TLC checked on `MCPosetAccess` and on an instance with two tables
before the proof. `NobodyUsesDeleted` by itself is not inductive: it says nothing of a
thread that has chosen a table that is still there, and will wait for it when it is not.
`Gone` says, for each thread and table (`Safe`), that what is left of the call waits for the
table at its first step only, and then with access to the namespace, unless it writes the
table itself (`AsksFirst`, `WaitsWithNamespace`, and `ReleasesWithNamespace` for a release
that will have to wait to read again); that a deletion has written the namespace and the
table before it takes the table away (`UnmadeByWriter`, `WritesFirst`); and that a
table which is not there is asked for only by the one call that is about to make it
(`GoneSafe`). When a table is deleted its deleter writes the namespace, so by `Exclusive`
nobody else has access to it, and who has nothing of the table and of the namespace is not
waiting for the table (`UnmadeSafe`). `StepSafe`, `GiveUpSafe` and `DowngradeSafe` show
that a thread's own steps leave it safe, `AskingSafe`, `ReleasingSafe`, `MakingSafe` and
`UnmakingSafe` that the calls begin so.

The theorem has four hypotheses. Three are practices that clients leave out:
`"anywhere"`, `"keeps_pointers"` (a client that waits with a pointer to the table but
without the namespace does wait for a deleted monitor) and `"deletes_twice"` (the second of
two deletions that both passed the test does, as the run `deleted_twice` shows). The
fourth is `NoTableIsNeeded`: no table is another poset's schema. The code enforces none of
them: the theorem says which clients are safe, not that all are. The last is
the code's own gap and not a convenience: nothing keeps a schema from being deleted while
posets that have it exist (`new_state` locks it for its own duration only, `poset.cc:381`),
and the next access to one of those posets takes the deleted schema's monitor. In the
instances of the runs no table is a schema.

### Folds and recursive functions

A recursive function and the fold of `FiniteSetsExt` are choices of a function that
satisfies an equation, and a proof first has to have that there is one: `Iterates` and
`FoldExists` in `Foundations` construct it, `FoldKeeps` says that what each step of a fold
keeps is kept by the fold, and `GrowIsAbove` that the growing sets of `Up` end with
reachability. `SaturatedIs` is the same for any step that only adds, as that of
`update_gdown`, and `ListedIs` says what a fold that selects leaves of a sequence. Induction is used in the form `EveryNat`, of a set of numbers instead of a
predicate, or as a least counterexample.

`remove_term` of `HubIdSpace` had two overlapping cases, which are now alternatives, and the
fold of `ensure_lattice_invariant` goes over the set of ids, the greatest last, in the place
of a recursion over their sequence. `link_result` selects with a fold (`Without`) in the
place of `SelectSeq`, whose definition the proof system does not expand.

### Only model-checked

- `EveryCallReturns` of `MonitorProgress`, `PosetAccess` and `DepthFirstItr`: liveness.
- `JemsLinked`: holds of the operation that was just done, not of the poset.
- `TraversalIsDepthFirst`, which compares the traversal with a recursive function of the
  graph: what that computes for every graph needs induction over data.

## Plan

1. Monitor, its clients, progress, proofs. *Done.*
2. Cover relation graph and poset members, the joiner. *Done.*
3. `PosetAccess`, `HubIdSpace`, `DepthFirstItr`. *Done.*
4. Proofs about the clients of the monitor, `PosetMembers`, `PosetJoiner`, `IntervalSet`,
   `HubIdSpace`, `DepthFirstItr` and `PosetAccess`. *Done.*
5. Left for later: an abstract lattice of sets of jims that the poset with joins
   implements; subposets and versions; scattered id spaces; pools and reference
   counts; the steps of `storage_agent`; the thread wrapper.

## Not modelled

Geometry, fiber algebra, fields, bindings, viewers and build files have no control
that a model of states says something about. Record layout and HDF5 calls are I/O.
Names, dof tuples, subposets, versions, and the id spaces that are not the hub's hold
data that the modelled operations do not decide on. The practices named in
`PosetMembers`, `PosetAccess` and `HubIdSpace` that the passing runs leave out are uses
that the code does not support, or, as `"deletes_twice"`, does not withstand. The thread wrapper has a misspelled macro
(`thread_condition_variable.cc:131`) and a list of threads without a lock
(`thread.cc:53`), both seen by reading. With access control disabled the monitor's
primitives still count (`read_write_monitor.cc:917`). What else is missing is listed
with its hazards in `PROJECT.json`.
