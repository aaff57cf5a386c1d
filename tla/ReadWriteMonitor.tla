-------------------------- MODULE ReadWriteMonitor --------------------------
(***************************************************************************)
(* One read_write_monitor (sheaves/concurrency/read_write_monitor.cc) and  *)
(* the threads that use it.  The three public operations on access,        *)
(* get_read_access, get_read_write_access and release_access, are loops    *)
(* over four primitives, each of which runs under the monitor's mutex: a   *)
(* public call is a step that decides which primitives to run (pc) and how *)
(* deep (goal), and every primitive is a step of its own, so that other    *)
(* threads run between two of them as they do in the program.              *)
(*                                                                         *)
(* A thread's access_mode is written by that thread alone, so the tests    *)
(* the public operations make on it between primitives are part of the     *)
(* step before them.                                                       *)
(***************************************************************************)
EXTENDS Integers, FiniteSets

CONSTANTS
  Threads,                \* the threads with an entry in _thread_state
  PThreads,               \* built with _PTHREADS; without it nothing ever waits
  AccessControlDisabled,  \* access_control_disabled(), settled before any call
  XallValues,             \* the values of xall clients give release_access
  ModeLockModes,          \* the access clients have when they call get_mode_lock
  MaxDepth,               \* bound: nested requests of one thread
  MaxModeLocks            \* bound: mode locks

ASSUME ThreadsAssumption == IsFiniteSet(Threads)
ASSUME BuildAssumption ==
  /\ PThreads \in BOOLEAN
  /\ AccessControlDisabled \in BOOLEAN
  /\ ~PThreads => \A t, u \in Threads : t = u
ASSUME ClientAssumption ==
  /\ XallValues \subseteq BOOLEAN
  /\ ModeLockModes \subseteq {"read_only", "read_write"}
ASSUME BoundAssumption == MaxDepth \in Nat /\ MaxModeLocks \in Nat

VARIABLES
  ro_ct,          \* _ro_ct: clients with read-only access
  rw_ct,          \* _rw_ct: clients with read-write access
  mode_lock_ct,   \* _mode_lock_ct
  access_mode,    \* per thread: < 0 read-only, 0 none, > 0 read-write; |.| the depth
  switch_depth,   \* per thread: the depth at which read-only became read-write
  is_modified,    \* per thread: somebody has written since clear_is_modified
  pc,             \* per thread: the primitive it is about to run, or "idle"
  goal,           \* per thread: the request depth its loop of primitives ends at
  waiting         \* the threads blocked on the condition variable lock_free

vars == <<ro_ct, rw_ct, mode_lock_ct, access_mode, switch_depth, is_modified,
          pc, goal, waiting>>

counts  == <<ro_ct, rw_ct, mode_lock_ct>>
control == <<pc, goal>>

(***************************************************************************)
(* The places of a thread inside the public operations.                    *)
(***************************************************************************)
Requesting == {"get_ro",    \* get_read_access: request_read_only_access
               "get_rw",    \* get_read_write_access: the last request
               "up_rw",     \* get_read_write_access: the levels given up, again
               "down_ro",   \* release_access: the read-only levels, again
               "lock"}      \* get_mode_lock
Releasing  == {"rel_ro",    \* release_access: release_read_only_access
               "rel_rw",    \* release_access: release_read_write_access
               "up_ro",     \* get_read_write_access: giving up read-only access
               "down_rw"}   \* release_access: giving up read-write access
PC == {"idle"} \cup Requesting \cup Releasing

TypeOK ==
  /\ ro_ct \in Int
  /\ rw_ct \in {0, 1}
  /\ mode_lock_ct \in Nat
  /\ access_mode \in [Threads -> Int]
  /\ switch_depth \in [Threads -> Nat]
  /\ is_modified \in [Threads -> BOOLEAN]
  /\ pc \in [Threads -> PC]
  /\ goal \in [Threads -> Nat]
  /\ waiting \subseteq Threads

Init ==
  /\ ro_ct = 0 /\ rw_ct = 0 /\ mode_lock_ct = 0
  /\ access_mode  = [t \in Threads |-> 0]
  /\ switch_depth = [t \in Threads |-> 0]
  /\ is_modified  = [t \in Threads |-> FALSE]
  /\ pc           = [t \in Threads |-> "idle"]
  /\ goal         = [t \in Threads |-> 0]
  /\ waiting = {}

(***************************************************************************)
(* The access queries.                                                     *)
(*                                                                         *)
(* Here and below an operator named ..._Bug is not part of the model: it   *)
(* is a mistake one could make in the definition it precedes, kept to show *)
(* that the properties notice it.                                          *)
(***************************************************************************)
access_request_depth(t) ==
  IF access_mode[t] < 0 THEN -access_mode[t] ELSE access_mode[t]

is_read_only_accessible(t) == ~AccessControlDisabled /\ access_mode[t] < 0
is_read_accessible(t)      == AccessControlDisabled \/ access_mode[t] # 0

(***************************************************************************)
(* pthread_cond_wait, _signal and _broadcast on lock_free.  A signal wakes *)
(* one of the threads that wait, whichever the scheduler likes.            *)
(***************************************************************************)
Wait(t) ==
  /\ waiting' = waiting \cup {t}
  /\ UNCHANGED <<counts, access_mode, switch_depth, is_modified, control>>

Signal_LostBug == UNCHANGED waiting

Signal ==
  IF waiting = {} THEN waiting' = {}
                  ELSE \E t \in waiting : waiting' = waiting \ {t}

Broadcast == waiting' = {}

(***************************************************************************)
(* Set the modified flag on all threads, including t.                      *)
(***************************************************************************)
set_is_modified_OwnOnlyBug(t) == is_modified' = [is_modified EXCEPT ![t] = TRUE]

set_is_modified(t) == is_modified' = [u \in Threads |-> TRUE]

Goto(t, place, depth) ==
  /\ pc'   = [pc EXCEPT ![t] = place]
  /\ goal' = [goal EXCEPT ![t] = depth]

(***************************************************************************)
(* Calls of the public operations.  The clients are polite and proper: a   *)
(* call meets the operation's precondition, and no call is made inside     *)
(* another one.                                                            *)
(***************************************************************************)
get_read_access_NotNestedBug(t) ==
  /\ pc[t] = "idle"
  /\ access_request_depth(t) < MaxDepth
  /\ Goto(t, "get_ro", 0)
  /\ UNCHANGED <<counts, access_mode, switch_depth, is_modified, waiting>>

get_read_access(t) ==
  /\ pc[t] = "idle"
  /\ access_request_depth(t) < MaxDepth
  /\ Goto(t, IF access_mode[t] > 0 THEN "get_rw" ELSE "get_ro", 0)
  /\ UNCHANGED <<counts, access_mode, switch_depth, is_modified, waiting>>

get_read_write_access_KeepsReadingBug(t, release_read_only) ==
  /\ pc[t] = "idle"
  /\ access_request_depth(t) < MaxDepth
  /\ release_read_only \/ ~is_read_only_accessible(t)
  /\ Goto(t, "get_rw", 0)
  /\ UNCHANGED <<counts, access_mode, switch_depth, is_modified, waiting>>

get_read_write_access(t, release_read_only) ==
  /\ pc[t] = "idle"
  /\ access_request_depth(t) < MaxDepth
  /\ release_read_only \/ ~is_read_only_accessible(t)
  /\ \/ /\ release_read_only /\ access_mode[t] < 0
        /\ switch_depth' = [switch_depth EXCEPT ![t] = access_request_depth(t)]
        /\ Goto(t, "up_ro", access_request_depth(t))
     \/ /\ ~(release_read_only /\ access_mode[t] < 0)
        /\ Goto(t, "get_rw", 0)
        /\ UNCHANGED switch_depth
  /\ UNCHANGED <<counts, access_mode, is_modified, waiting>>

release_access(t, all) ==
  /\ pc[t] = "idle"
  /\ is_read_accessible(t)
  /\ access_mode[t] # 0
  /\ Goto(t, IF access_mode[t] > 0 THEN "rel_rw" ELSE "rel_ro",
             IF all THEN 0 ELSE access_request_depth(t) - 1)
  /\ UNCHANGED <<counts, access_mode, switch_depth, is_modified, waiting>>

(***************************************************************************)
(* The monitor primitives.                                                 *)
(***************************************************************************)
end_downgrade_NoResetBug(t) == UNCHANGED switch_depth

end_downgrade(t) ==
  switch_depth' = [switch_depth EXCEPT ![t] = IF pc[t] = "down_ro" THEN 0 ELSE @]

request_read_only_access(t) ==
  /\ pc[t] \in {"get_ro", "down_ro"} /\ t \notin waiting
  /\ \/ /\ PThreads /\ rw_ct > 0
        /\ Wait(t)
     \/ /\ ~(PThreads /\ rw_ct > 0)
        /\ ro_ct' = IF access_mode[t] = 0 THEN ro_ct + 1 ELSE ro_ct
        /\ access_mode' = [access_mode EXCEPT ![t] = @ - 1]
        /\ \/ /\ -access_mode'[t] < goal[t]
              /\ UNCHANGED <<control, switch_depth>>
           \/ /\ -access_mode'[t] >= goal[t]
              /\ Goto(t, "idle", 0)
              /\ end_downgrade(t)
        /\ UNCHANGED <<rw_ct, mode_lock_ct, is_modified, waiting>>

busy_IgnoresReadersBug == PThreads /\ rw_ct > 0

busy == PThreads /\ (ro_ct > 0 \/ rw_ct > 0)

request_read_write_access(t) ==
  /\ pc[t] \in {"get_rw", "up_rw"} /\ t \notin waiting
  /\ LET owner == access_mode[t] > 0
     IN \/ /\ ~owner /\ busy
           /\ Wait(t)
        \/ /\ owner \/ ~busy
           /\ rw_ct' = IF owner THEN rw_ct ELSE 1
           /\ access_mode' = [access_mode EXCEPT ![t] = IF owner THEN @ + 1 ELSE 1]
           /\ IF access_mode'[t] < goal[t]
                THEN UNCHANGED control
                ELSE Goto(t, IF pc[t] = "up_rw" THEN "get_rw" ELSE "idle", 0)
           /\ UNCHANGED <<ro_ct, mode_lock_ct, switch_depth, is_modified, waiting>>

release_read_only_access(t) ==
  /\ pc[t] \in {"rel_ro", "up_ro"}
  /\ access_mode' = [access_mode EXCEPT ![t] = @ + 1]
  /\ ro_ct' = IF access_mode'[t] = 0 THEN ro_ct - 1 ELSE ro_ct
  /\ IF ro_ct' = 0 THEN Signal ELSE UNCHANGED waiting
  /\ LET left == -access_mode'[t] IN
       \/ /\ left > (IF pc[t] = "up_ro" THEN 0 ELSE goal[t])
          /\ UNCHANGED control
       \/ /\ pc[t] = "up_ro" /\ left = 0
          /\ Goto(t, "up_rw", goal[t])
       \/ /\ pc[t] = "rel_ro" /\ left <= goal[t]
          /\ Goto(t, "idle", 0)
  /\ UNCHANGED <<rw_ct, mode_lock_ct, switch_depth, is_modified>>

release_read_write_access(t) ==
  /\ pc[t] \in {"rel_rw", "down_rw"}
  /\ access_mode' = [access_mode EXCEPT ![t] = @ - 1]
  /\ IF access_mode'[t] = 0
       THEN /\ rw_ct' = 0
            /\ set_is_modified(t)
            /\ Broadcast
       ELSE UNCHANGED <<rw_ct, is_modified, waiting>>
  /\ LET depth == access_mode'[t] IN
       \/ /\ depth > goal[t]
          /\ UNCHANGED control
       \/ /\ pc[t] = "rel_rw" /\ depth <= goal[t]
          /\ depth > 0 /\ depth = switch_depth[t]
          /\ Goto(t, "down_rw", 0)
       \/ /\ pc[t] = "rel_rw" /\ depth <= goal[t]
          /\ ~(depth > 0 /\ depth = switch_depth[t])
          /\ Goto(t, "idle", 0)
       \/ /\ pc[t] = "down_rw" /\ depth <= goal[t]
          /\ Goto(t, "down_ro", switch_depth[t])
  /\ UNCHANGED <<ro_ct, mode_lock_ct, switch_depth>>

(***************************************************************************)
(* Notification and mode lock.                                             *)
(***************************************************************************)
clear_is_modified(t) ==
  /\ pc[t] = "idle"
  /\ is_modified' = [is_modified EXCEPT ![t] = FALSE]
  /\ UNCHANGED <<counts, access_mode, switch_depth, control, waiting>>

get_mode_lock(t) ==
  /\ pc[t] = "idle"
  /\ mode_lock_ct < MaxModeLocks
  /\ \/ access_mode[t] < 0 /\ "read_only" \in ModeLockModes
     \/ access_mode[t] > 0 /\ "read_write" \in ModeLockModes
  /\ Goto(t, "lock", 0)
  /\ UNCHANGED <<counts, access_mode, switch_depth, is_modified, waiting>>

grant_mode_lock(t) ==
  /\ pc[t] = "lock" /\ t \notin waiting
  /\ \/ /\ PThreads /\ rw_ct > 0
        /\ Wait(t)
     \/ /\ ~(PThreads /\ rw_ct > 0)
        /\ mode_lock_ct' = mode_lock_ct + 1
        /\ Goto(t, "idle", 0)
        /\ UNCHANGED <<ro_ct, rw_ct, access_mode, switch_depth, is_modified, waiting>>

release_mode_lock_UncheckedBug(t) ==
  /\ pc[t] = "idle"
  /\ mode_lock_ct' = mode_lock_ct - 1
  /\ IF ro_ct = 0 THEN Signal ELSE UNCHANGED waiting
  /\ UNCHANGED <<ro_ct, rw_ct, access_mode, switch_depth, is_modified, control>>

release_mode_lock(t) ==
  /\ pc[t] = "idle"
  /\ mode_lock_ct > 0
  /\ mode_lock_ct' = mode_lock_ct - 1
  /\ IF ro_ct = 0 THEN Signal ELSE UNCHANGED waiting
  /\ UNCHANGED <<ro_ct, rw_ct, access_mode, switch_depth, is_modified, control>>

(***************************************************************************)
(* pthread_cond_wait may return without a signal.                          *)
(***************************************************************************)
SpuriousWakeup(t) ==
  /\ t \in waiting
  /\ waiting' = waiting \ {t}
  /\ UNCHANGED <<counts, access_mode, switch_depth, is_modified, control>>

(***************************************************************************)
(* Calls of thread t, and what the monitor then does for it.               *)
(***************************************************************************)
Acquire(t) ==
  \/ get_read_access(t)
  \/ \E release_read_only \in BOOLEAN :
       get_read_write_access(t, release_read_only)

Call(t) ==
  \/ Acquire(t)
  \/ \E all \in XallValues : release_access(t, all)
  \/ clear_is_modified(t)
  \/ get_mode_lock(t)
  \/ release_mode_lock(t)

Continue(t) ==
  \/ request_read_only_access(t)
  \/ request_read_write_access(t)
  \/ release_read_only_access(t)
  \/ release_read_write_access(t)
  \/ grant_mode_lock(t)

Next == \E t \in Threads : Call(t) \/ Continue(t) \/ SpuriousWakeup(t)

Spec == Init /\ [][Next]_vars

-----------------------------------------------------------------------------
Readers == {t \in Threads : access_mode[t] < 0}
Writers == {t \in Threads : access_mode[t] > 0}

(***************************************************************************)
(* The counters say what the threads have: ro_ct is the number of threads  *)
(* with read-only access, rw_ct is 1 exactly while some thread has         *)
(* read-write access, that thread is the only one, and nobody reads beside *)
(* it.  This is the class invariant of read_write_monitor with what the    *)
(* two counts mean, across all the primitives' interleavings.              *)
(***************************************************************************)
CountsAreHolders ==
  /\ ro_ct = Cardinality(Readers)
  /\ rw_ct = IF Writers = {} THEN 0 ELSE 1
  /\ \A t, u \in Writers : t = u
  /\ Writers # {} => Readers = {}

(***************************************************************************)
(* The preconditions of the primitives (the require at the head of each)   *)
(* are met at every call the public operations make, upgrade and downgrade *)
(* loops included.                                                         *)
(***************************************************************************)
PrimitivePreconditions == \A t \in Threads :
  /\ pc[t] \in {"get_ro", "down_ro"} => access_mode[t] <= 0
  /\ pc[t] \in {"get_rw", "up_rw"}   => access_mode[t] >= 0
  /\ pc[t] \in {"rel_ro", "up_ro"}   => access_mode[t] < 0
  /\ pc[t] \in {"rel_rw", "down_rw"} => access_mode[t] > 0
  /\ pc[t] = "lock"                  => access_mode[t] # 0

(***************************************************************************)
(* The class invariant, as read_write_monitor::invariant computes it.      *)
(***************************************************************************)
invariant ==
  /\ ro_ct >= 0
  /\ mode_lock_ct >= 0
  /\ rw_ct \in {0, 1}
  /\ ~(rw_ct = 1 /\ ro_ct > 0)

(***************************************************************************)
(* Why release_read_only_access may signal instead of broadcast: while     *)
(* nobody has read-write access only threads that want read-write access   *)
(* are queued, however the requests, upgrades and downgrades interleave.   *)
(***************************************************************************)
OnlyWritersQueued == \A t \in waiting :
  pc[t] \in {"get_ro", "down_ro", "lock"} => rw_ct = 1

(***************************************************************************)
(* No wakeup is lost: when nobody has access and somebody waits for it,    *)
(* some other request is awake and will look again, so the one signal      *)
(* release_read_only_access and release_mode_lock send is enough.          *)
(***************************************************************************)
NoLostWakeup ==
  (ro_ct = 0 /\ rw_ct = 0 /\ waiting # {}) =>
    \E t \in Threads \ waiting : pc[t] \in Requesting

(***************************************************************************)
(* Nobody waits for itself: a thread blocked on the condition variable has *)
(* no access of its own, so whoever has access can still give it up.       *)
(***************************************************************************)
WaitersHoldNothing == \A t \in waiting : access_mode[t] = 0

(***************************************************************************)
(* What makes the above inductive: a loop that releases ends before the    *)
(* thread runs out of access, and only a requesting thread waits.          *)
(***************************************************************************)
LoopsEndInTime == \A t \in Threads :
  /\ pc[t] = "rel_ro" => goal[t] < -access_mode[t]
  /\ pc[t] \in {"rel_rw", "down_rw"} => goal[t] < access_mode[t]
  /\ pc[t] = "down_rw" => goal[t] = 0

OnlyRequestersWait == \A t \in waiting : pc[t] \in Requesting

IInv ==
  /\ TypeOK
  /\ CountsAreHolders
  /\ PrimitivePreconditions
  /\ LoopsEndInTime
  /\ OnlyRequestersWait
  /\ OnlyWritersQueued
  /\ NoLostWakeup

(***************************************************************************)
(* The monitor implements a plain readers-writer lock with notification.   *)
(***************************************************************************)
Holds(t) == IF access_mode[t] < 0 THEN "read"
            ELSE IF access_mode[t] > 0 THEN "write" ELSE "none"

Lock == INSTANCE ReadWriteLock WITH
  held <- [t \in Threads |-> Holds(t)],
  notified <- is_modified
LockSpec == Lock!Spec
=============================================================================
