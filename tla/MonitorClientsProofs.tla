------------------------- MODULE MonitorClientsProofs -------------------------
(***************************************************************************)
(* Proofs about the clients of one read_write_monitor: for any number of   *)
(* threads, calls and nested requests, with and without _PTHREADS.         *)
(***************************************************************************)
EXTENDS MonitorProgress, ReadWriteMonitorProofs, SequenceTheorems

(***************************************************************************)
(* The clients' histories take nothing from the monitor: with them it does *)
(* what ReadWriteMonitor does, and what is proved there holds here.        *)
(***************************************************************************)
LEMMA ClientsUseTheMonitor == ProgressSpec => Spec
<1>1. ProgressInit => Init
  BY DEF ProgressInit, ClientInit
<1>2. [ProgressNext]_progressVars => [Next]_vars
  <2> SUFFICES ASSUME ProgressNext PROVE [Next]_vars
    BY DEF progressVars, clientVars, vars
  <2>1. ASSUME NEW t \in Threads, Ask(t) PROVE Call(t)
    BY <2>1 DEF Ask, Request, Call, Acquire
  <2>2. ASSUME NEW t \in Threads, GiveBack(t) PROVE Call(t)
    BY <2>2 DEF GiveBack, Release, Call
  <2>3. ASSUME NEW t \in Threads, GoOn(t) PROVE Continue(t)
    BY <2>3 DEF GoOn
  <2>4. ASSUME NEW t \in Threads, Unasked(t)
        PROVE  UNCHANGED vars \/ Call(t) \/ SpuriousWakeup(t)
    BY <2>4 DEF Unasked, Change, Look, Call
  <2> QED BY <2>1, <2>2, <2>3, <2>4 DEF ProgressNext, Next
<1> QED BY <1>1, <1>2, PTL DEF ProgressSpec, Spec

-----------------------------------------------------------------------------
(***************************************************************************)
(* Who wrote is told.  A thread stops writing only by telling everybody,   *)
(* and what a thread was told it forgets only by clear_is_modified.        *)
(***************************************************************************)
LEMMA WritersTell ==
  ASSUME IInv, [Next]_vars, NEW u \in Threads, access_mode[u] > 0
  PROVE  access_mode'[u] > 0 \/ \A t \in Threads : is_modified'[t]
<1> USE DEF IInv, TypeOK
<1>1. CASE UNCHANGED vars
  BY <1>1 DEF vars
<1>2. ASSUME NEW t \in Threads, Call(t) \/ SpuriousWakeup(t) \/ grant_mode_lock(t)
      PROVE  access_mode' = access_mode
  BY <1>2 DEF Call, Acquire, get_read_access, get_read_write_access, release_access,
              clear_is_modified, get_mode_lock, release_mode_lock, grant_mode_lock,
              SpuriousWakeup, Wait
<1>3. ASSUME NEW t \in Threads, request_read_only_access(t) \/ release_read_only_access(t)
      PROVE  access_mode'[u] > 0
  BY <1>3 DEF request_read_only_access, release_read_only_access, Wait,
              PrimitivePreconditions
<1>4. ASSUME NEW t \in Threads, request_read_write_access(t)
      PROVE  access_mode'[u] > 0
  BY <1>4 DEF request_read_write_access, Wait
<1>5. ASSUME NEW t \in Threads, release_read_write_access(t)
      PROVE  access_mode'[u] > 0 \/ \A v \in Threads : is_modified'[v]
  BY <1>5 DEF release_read_write_access, set_is_modified, PrimitivePreconditions
<1> QED BY <1>1, <1>2, <1>3, <1>4, <1>5 DEF Next, Continue

LEMMA ToldUntilCleared ==
  ASSUME IInv, [Next]_vars, NEW u \in Threads, is_modified[u]
  PROVE  is_modified'[u] \/ clear_is_modified(u)
<1> USE DEF IInv, TypeOK
<1>1. CASE UNCHANGED vars
  BY <1>1 DEF vars
<1>2. ASSUME NEW t \in Threads, Call(t)
      PROVE  is_modified' = is_modified \/ clear_is_modified(t)
  BY <1>2 DEF Call, Acquire, get_read_access, get_read_write_access, release_access,
              get_mode_lock, release_mode_lock
<1>3. ASSUME NEW t \in Threads, clear_is_modified(t), u # t
      PROVE  is_modified'[u]
  BY <1>3 DEF clear_is_modified
<1>4. ASSUME NEW t \in Threads, Continue(t) \/ SpuriousWakeup(t)
      PROVE  is_modified'[u]
  BY <1>4 DEF Continue, request_read_only_access, request_read_write_access,
              release_read_only_access, release_read_write_access, grant_mode_lock,
              set_is_modified, SpuriousWakeup, Wait
<1> QED BY <1>1, <1>2, <1>3, <1>4 DEF Next

(***************************************************************************)
(* What a thread has not seen, and was not told of, was changed by a       *)
(* thread that still has read-write access.                                *)
(***************************************************************************)
ToldOrStillWriting == \A t \in Threads :
  changed[t] => is_modified[t] \/ \E u \in Threads \ {t} : access_mode[u] > 0

(***************************************************************************)
(* is_modified tells, for any number of threads: a thread that has access  *)
(* and whose flag is clear can rely on what it saw last.                   *)
(***************************************************************************)
THEOREM FlagTells ==
  ASSUME ~AccessControlDisabled
  PROVE  ProgressSpec => []ChangesAreTold
<1> DEFINE ChangedType == changed \in [Threads -> BOOLEAN]
<1>1. ProgressInit => ChangedType /\ ToldOrStillWriting
  BY DEF ProgressInit, ClientInit, Init, ToldOrStillWriting
<1>2. ASSUME IInv, ChangedType, ToldOrStillWriting, [ProgressNext]_progressVars, [Next]_vars
      PROVE  ChangedType' /\ ToldOrStillWriting'
  <2>2. ASSUME NEW t \in Threads, Change(t) PROVE ChangedType' /\ ToldOrStillWriting'
    BY <1>2, <2>2 DEF Change, vars, ToldOrStillWriting
  <2>3. ASSUME NEW t \in Threads, Look(t) PROVE ChangedType' /\ ToldOrStillWriting'
    <3>1. /\ changed' = [changed EXCEPT ![t] = FALSE]
          /\ access_mode' = access_mode
          /\ \A u \in Threads \ {t} : is_modified'[u] = is_modified[u]
      BY <1>2, <2>3 DEF Look, clear_is_modified, IInv, TypeOK
    <3> QED BY <1>2, <3>1 DEF ToldOrStillWriting
  <2>4. ASSUME NEW t \in Threads, Ask(t) \/ GiveBack(t) \/ GoOn(t) \/ SpuriousWakeup(t),
               NEW u \in Threads, clear_is_modified(u)
        PROVE  is_modified'[u] = is_modified[u]
    <3>1. is_modified' = is_modified \/ is_modified' = [v \in Threads |-> TRUE]
      BY <2>4 DEF Ask, Request, GiveBack, Release, GoOn, Continue, get_read_access,
                  get_read_write_access, release_access, get_mode_lock, release_mode_lock,
                  request_read_only_access, request_read_write_access,
                  release_read_only_access, release_read_write_access, grant_mode_lock,
                  set_is_modified, Wait, SpuriousWakeup
    <3> QED BY <1>2, <2>4, <3>1 DEF clear_is_modified, IInv, TypeOK
  <2>5. ASSUME NEW t \in Threads, Ask(t) \/ GiveBack(t) \/ GoOn(t)
                                  \/ (SpuriousWakeup(t) /\ UNCHANGED changed)
        PROVE  ChangedType' /\ ToldOrStillWriting'
    <3>1. UNCHANGED changed
      BY <2>5 DEF Ask, Request, GiveBack, Release, GoOn
    <3> QED BY <1>2, <2>4, <2>5, <3>1, WritersTell, ToldUntilCleared DEF ToldOrStillWriting
  <2>6. CASE UNCHANGED progressVars
    BY <1>2, <2>6 DEF progressVars, clientVars, vars, ToldOrStillWriting
  <2>7. ASSUME NEW t \in Threads, Unasked(t)
        PROVE  Change(t) \/ Look(t) \/ (SpuriousWakeup(t) /\ UNCHANGED changed)
    BY <2>7 DEF Unasked
  <2> HIDE DEF ChangedType
  <2> QED BY <1>2, <2>2, <2>3, <2>5, <2>6, <2>7 DEF ProgressNext
<1>3. IInv /\ ToldOrStillWriting => ChangesAreTold
  BY DEF ChangesAreTold, ToldOrStillWriting, IInv, CountsAreHolders, Readers, Writers, TypeOK
<1> HIDE DEF ChangedType
<1>4. ProgressSpec => []IInv
  BY ClientsUseTheMonitor, Consistent, PTL
<1> QED BY <1>1, <1>2, <1>3, <1>4, ClientsUseTheMonitor, PTL DEF ProgressSpec, Spec

-----------------------------------------------------------------------------
(***************************************************************************)
(* The levels of access and the requests.  While a thread has read-write   *)
(* access switch_depth says where its requests begin to need it: the       *)
(* request after the first switch_depth[t] ones asked to write, and those  *)
(* before it only to read.  Where the thread is in an upgrade, a downgrade *)
(* or a release, its access is that many levels short of its requests, or  *)
(* above them.                                                             *)
(***************************************************************************)
Outstanding(t) == Len(requests[t])

OnlyReads(t, n) == \A k \in 1..n : requests[t][k] = "read"

Reads(t)  == switch_depth[t] = 0 /\ OnlyReads(t, Outstanding(t))
Writes(t) == /\ switch_depth[t] < Outstanding(t)
             /\ OnlyReads(t, switch_depth[t])
             /\ requests[t][switch_depth[t] + 1] = "write"

SettledShape(t) ==
  IF access_mode[t] > 0 THEN access_mode[t] = Outstanding(t) /\ Writes(t)
                        ELSE -access_mode[t] = Outstanding(t) /\ Reads(t)

\* A request counts as outstanding from the moment it is made ...
RequestShape(t) ==
  /\ pc[t] = "get_ro" => goal[t] = 0 /\ Outstanding(t) = 1 - access_mode[t] /\ Reads(t)
  /\ pc[t] = "get_rw" => goal[t] = 0 /\ Outstanding(t) = access_mode[t] + 1 /\ Writes(t)
  /\ pc[t] \in {"up_ro", "up_rw"} =>
       /\ goal[t] = switch_depth[t] /\ Outstanding(t) = goal[t] + 1 /\ Writes(t)
       /\ pc[t] = "up_ro" => -access_mode[t] <= goal[t]
       /\ pc[t] = "up_rw" => access_mode[t] < goal[t]

\* ... and no longer from the moment its release is asked for.
ReleaseShape(t) ==
  /\ pc[t] \in {"rel_ro", "rel_rw"} => goal[t] = Outstanding(t)
  /\ pc[t] = "rel_ro" => -access_mode[t] = goal[t] + 1 /\ Reads(t)
  /\ pc[t] = "rel_rw" => /\ access_mode[t] = goal[t] + 1
                         /\ OnlyReads(t, switch_depth[t])
                         /\ Writes(t) \/ switch_depth[t] = Outstanding(t)
  /\ pc[t] \in {"down_rw", "down_ro"} =>
       /\ switch_depth[t] = Outstanding(t) /\ OnlyReads(t, Outstanding(t))
       /\ pc[t] = "down_rw" => access_mode[t] <= switch_depth[t]
       /\ pc[t] = "down_ro" => goal[t] = switch_depth[t] /\ -access_mode[t] < goal[t]

Shape(t) ==
  /\ pc[t] \in {"idle", "lock"} => SettledShape(t)
  /\ RequestShape(t)
  /\ ReleaseShape(t)

LevelsMatch ==
  /\ requests \in [Threads -> Seq({"read", "write"})]
  /\ \A t \in Threads : Shape(t)

(***************************************************************************)
(* A step of one thread leaves the others as they are.                     *)
(***************************************************************************)
LEMMA SameShape ==
  ASSUME NEW u \in Threads, Shape(u),
         pc'[u] = pc[u], goal'[u] = goal[u], access_mode'[u] = access_mode[u],
         switch_depth'[u] = switch_depth[u], requests'[u] = requests[u]
  PROVE  Shape(u)'
BY DEF Shape, SettledShape, RequestShape, ReleaseShape, Reads, Writes, OnlyReads, Outstanding

(***************************************************************************)
(* The facts every case below needs of a thread's values.                  *)
(***************************************************************************)
LEMMA ShapeTypes ==
  ASSUME IInv, LevelsMatch, NEW t \in Threads
  PROVE  /\ access_mode[t] \in Int /\ goal[t] \in Nat /\ switch_depth[t] \in Nat
         /\ requests[t] \in Seq({"read", "write"}) /\ Outstanding(t) \in Nat
         /\ Shape(t)
BY LenProperties DEF IInv, TypeOK, LevelsMatch, Outstanding

(***************************************************************************)
(* The primitives: the thread's levels move towards its requests.          *)
(***************************************************************************)
LEMMA RequestReadOnlyShape ==
  ASSUME IInv, LevelsMatch, UNCHANGED requests,
         NEW t \in Threads, request_read_only_access(t)
  PROVE  Shape(t)'
<1>0. /\ access_mode[t] \in Int /\ goal[t] \in Nat /\ switch_depth[t] \in Nat
      /\ Outstanding(t) \in Nat /\ Outstanding(t)' = Outstanding(t) /\ Shape(t)
  BY ShapeTypes DEF Outstanding
<1>1. CASE Wait(t)
  BY <1>0, <1>1, SameShape DEF Wait, counts, control
<1>2. CASE ~Wait(t)
  <2>1. /\ access_mode'[t] = access_mode[t] - 1 /\ access_mode[t] <= 0
        /\ pc[t] \in {"get_ro", "down_ro"}
    BY <1>2 DEF request_read_only_access, PrimitivePreconditions, IInv, TypeOK
  <2>2. CASE -access_mode'[t] < goal[t]
    <3>1. pc' = pc /\ goal' = goal /\ switch_depth' = switch_depth
      BY <1>0, <1>2, <2>1, <2>2 DEF request_read_only_access, control
    <3> QED BY <1>0, <2>1, <2>2, <3>1
            DEF Shape, SettledShape, RequestShape, ReleaseShape, OnlyReads
  <2>3. CASE ~(-access_mode'[t] < goal[t])
    <3>1. /\ pc'[t] = "idle"
          /\ switch_depth'[t] = IF pc[t] = "down_ro" THEN 0 ELSE switch_depth[t]
      BY <1>2, <2>1, <2>3 DEF request_read_only_access, Goto, end_downgrade, IInv, TypeOK
    <3>2. Outstanding(t) = -access_mode'[t] /\ OnlyReads(t, Outstanding(t)) /\ switch_depth'[t] = 0
      BY <1>0, <2>1, <2>3, <3>1 DEF Shape, RequestShape, ReleaseShape, Reads
    <3>3. Reads(t)'
      BY <1>0, <3>2 DEF Reads, OnlyReads
    <3> QED BY <1>0, <2>1, <3>1, <3>2, <3>3 DEF Shape, SettledShape, RequestShape, ReleaseShape
  <2> QED BY <2>2, <2>3
<1> QED BY <1>1, <1>2

LEMMA RequestReadWriteShape ==
  ASSUME IInv, LevelsMatch, UNCHANGED requests,
         NEW t \in Threads, request_read_write_access(t)
  PROVE  Shape(t)'
<1>0. /\ access_mode[t] \in Int /\ goal[t] \in Nat /\ switch_depth[t] \in Nat
      /\ Outstanding(t) \in Nat /\ Outstanding(t)' = Outstanding(t) /\ Shape(t)
  BY ShapeTypes DEF Outstanding
<1>1. CASE Wait(t)
  BY <1>0, <1>1, SameShape DEF Wait, counts, control
<1>2. CASE ~Wait(t)
  <2>1. /\ access_mode'[t] = access_mode[t] + 1 /\ access_mode[t] >= 0
        /\ pc[t] \in {"get_rw", "up_rw"} /\ switch_depth' = switch_depth
    BY <1>0, <1>2 DEF request_read_write_access, PrimitivePreconditions, IInv, TypeOK
  <2>2. Writes(t)'
    BY <1>0, <2>1 DEF Shape, RequestShape, Writes, OnlyReads
  <2>3. CASE access_mode'[t] < goal[t]
    <3>1. pc' = pc /\ goal' = goal
      BY <1>0, <1>2, <2>1, <2>3 DEF request_read_write_access, control
    <3> QED BY <1>0, <2>1, <2>2, <2>3, <3>1
            DEF Shape, SettledShape, RequestShape, ReleaseShape
  <2>4. CASE ~(access_mode'[t] < goal[t])
    <3>1. pc'[t] = (IF pc[t] = "up_rw" THEN "get_rw" ELSE "idle") /\ goal'[t] = 0
      BY <1>0, <1>2, <2>1, <2>4 DEF request_read_write_access, Goto, IInv, TypeOK
    <3>2. Outstanding(t) = IF pc[t] = "up_rw" THEN access_mode'[t] + 1 ELSE access_mode'[t]
      BY <1>0, <2>1, <2>4 DEF Shape, RequestShape
    <3> QED BY <1>0, <2>1, <2>2, <3>1, <3>2 DEF Shape, SettledShape, RequestShape, ReleaseShape
  <2> QED BY <2>3, <2>4
<1> QED BY <1>1, <1>2

LEMMA ReleaseReadOnlyShape ==
  ASSUME IInv, LevelsMatch, UNCHANGED requests,
         NEW t \in Threads, release_read_only_access(t)
  PROVE  Shape(t)'
<1>0. /\ access_mode[t] \in Int /\ goal[t] \in Nat /\ switch_depth[t] \in Nat
      /\ Outstanding(t) \in Nat /\ Outstanding(t)' = Outstanding(t) /\ Shape(t)
  BY ShapeTypes DEF Outstanding
<1>1. /\ access_mode'[t] = access_mode[t] + 1 /\ access_mode[t] < 0
      /\ pc[t] \in {"rel_ro", "up_ro"} /\ switch_depth'[t] = switch_depth[t]
  BY DEF release_read_only_access, PrimitivePreconditions, IInv, TypeOK
<1>2. Reads(t)' = Reads(t) /\ Writes(t)' = Writes(t)
  BY <1>0, <1>1 DEF Reads, Writes, OnlyReads
<1>3. CASE pc[t] = "rel_ro"
  <2>1. goal[t] = Outstanding(t) /\ -access_mode'[t] = goal[t] /\ Reads(t)'
    BY <1>0, <1>1, <1>2, <1>3 DEF Shape, ReleaseShape
  <2>2. pc'[t] = "idle"
    BY <1>0, <1>1, <1>3, <2>1 DEF release_read_only_access, Goto, IInv, TypeOK
  <2> QED BY <1>0, <1>1, <2>1, <2>2 DEF Shape, SettledShape, RequestShape, ReleaseShape
<1>4. CASE pc[t] = "up_ro"
  <2>1. /\ goal[t] = switch_depth[t] /\ Outstanding(t) = goal[t] + 1 /\ Writes(t)'
        /\ -access_mode[t] <= goal[t]
    BY <1>0, <1>1, <1>2, <1>4 DEF Shape, RequestShape
  <2>2. \/ pc'[t] = "up_ro" /\ goal'[t] = goal[t]
        \/ pc'[t] = "up_rw" /\ goal'[t] = goal[t] /\ access_mode'[t] = 0
    BY <1>0, <1>1, <1>4 DEF release_read_only_access, Goto, control, IInv, TypeOK
  <2> QED BY <1>0, <1>1, <2>1, <2>2 DEF Shape, SettledShape, RequestShape, ReleaseShape
<1> QED BY <1>1, <1>3, <1>4

LEMMA ReleaseReadWriteShape ==
  ASSUME IInv, LevelsMatch, UNCHANGED requests,
         NEW t \in Threads, release_read_write_access(t)
  PROVE  Shape(t)'
<1>0. /\ access_mode[t] \in Int /\ goal[t] \in Nat /\ switch_depth[t] \in Nat
      /\ Outstanding(t) \in Nat /\ Outstanding(t)' = Outstanding(t) /\ Shape(t)
  BY ShapeTypes DEF Outstanding
<1>1. /\ access_mode'[t] = access_mode[t] - 1 /\ access_mode[t] > 0
      /\ pc[t] \in {"rel_rw", "down_rw"} /\ switch_depth'[t] = switch_depth[t]
  BY DEF release_read_write_access, PrimitivePreconditions, IInv, TypeOK
<1>2. /\ Writes(t)' = Writes(t)
      /\ \A n : OnlyReads(t, n)' = OnlyReads(t, n)
  BY <1>0, <1>1 DEF Writes, OnlyReads
<1>3. CASE pc[t] = "rel_rw"
  <2>1. /\ goal[t] = Outstanding(t) /\ access_mode'[t] = goal[t]
        /\ OnlyReads(t, switch_depth[t])
        /\ Writes(t) \/ switch_depth[t] = Outstanding(t)
    BY <1>0, <1>1, <1>3 DEF Shape, ReleaseShape
  <2>2. IF access_mode'[t] > 0 /\ access_mode'[t] = switch_depth[t]
          THEN pc'[t] = "down_rw" /\ goal'[t] = 0
          ELSE pc'[t] = "idle"
    BY <1>0, <1>1, <1>3, <2>1 DEF release_read_write_access, Goto, IInv, TypeOK
  <2>3. CASE pc'[t] = "down_rw"
    <3>1. switch_depth'[t] = Outstanding(t)' /\ OnlyReads(t, Outstanding(t))'
          /\ access_mode'[t] <= switch_depth'[t]
      BY <1>0, <1>1, <1>2, <2>1, <2>2, <2>3 DEF OnlyReads
    <3> QED BY <2>3, <3>1 DEF Shape, SettledShape, RequestShape, ReleaseShape
  <2>4. CASE pc'[t] = "idle"
    <3>1. CASE access_mode'[t] > 0
      <4>1. Writes(t)'
        BY <1>0, <1>1, <1>2, <2>1, <2>2, <2>4, <3>1 DEF Writes
      <4> QED BY <1>0, <2>1, <2>4, <3>1, <4>1 DEF Shape, SettledShape, RequestShape, ReleaseShape
    <3>2. CASE access_mode'[t] = 0
      <4>1. Reads(t)'
        BY <1>0, <1>1, <2>1, <3>2 DEF Reads, Writes, OnlyReads
      <4>2. -access_mode'[t] = Outstanding(t)' /\ ~(access_mode'[t] > 0)
        BY <1>0, <1>1, <2>1, <3>2
      <4> QED BY <2>4, <4>1, <4>2 DEF Shape, SettledShape, RequestShape, ReleaseShape
    <3> QED BY <1>0, <1>1, <3>1, <3>2
  <2> QED BY <2>2, <2>3, <2>4
<1>4. CASE pc[t] = "down_rw"
  <2>1. /\ switch_depth[t] = Outstanding(t) /\ OnlyReads(t, Outstanding(t))'
        /\ access_mode[t] <= switch_depth[t] /\ goal[t] = 0
    <3>1. goal[t] = 0
      BY <1>4 DEF LoopsEndInTime, IInv
    <3> QED BY <1>0, <1>1, <1>2, <1>4, <3>1 DEF Shape, ReleaseShape, OnlyReads
  <2>2. \/ pc'[t] = "down_rw"
        \/ pc'[t] = "down_ro" /\ goal'[t] = switch_depth[t] /\ access_mode'[t] = 0
    BY <1>0, <1>1, <1>4, <2>1 DEF release_read_write_access, Goto, control, IInv, TypeOK
  <2> QED BY <1>0, <1>1, <2>1, <2>2 DEF Shape, SettledShape, RequestShape, ReleaseShape
<1> QED BY <1>1, <1>3, <1>4

(***************************************************************************)
(* What is said of the requests up to n stays true while those stay.       *)
(***************************************************************************)
LEMMA SameBeginning ==
  ASSUME NEW t \in Threads, NEW n \in Nat,
         switch_depth[t] \in Nat, switch_depth'[t] = switch_depth[t],
         Outstanding(t) \in Nat, Outstanding(t)' \in Nat,
         \A k \in 1..n : requests'[t][k] = requests[t][k]
  PROVE  /\ \A m \in Nat : m <= n /\ OnlyReads(t, m) => OnlyReads(t, m)'
         /\ Writes(t) /\ switch_depth[t] <= n => OnlyReads(t, switch_depth[t])'
         /\ Writes(t) /\ switch_depth[t] < n /\ n <= Outstanding(t)' => Writes(t)'
<1>1. ASSUME NEW m \in Nat, m <= n, OnlyReads(t, m) PROVE OnlyReads(t, m)'
  BY <1>1 DEF OnlyReads
<1>2. ASSUME Writes(t), switch_depth[t] <= n PROVE OnlyReads(t, switch_depth[t])'
  BY <1>2 DEF Writes, OnlyReads
<1>3. ASSUME Writes(t), switch_depth[t] < n, n <= Outstanding(t)' PROVE Writes(t)'
  <2>1. switch_depth[t] + 1 \in 1..n
    BY <1>3
  <2>2. requests'[t][switch_depth[t] + 1] = "write"
    BY <1>3, <2>1 DEF Writes
  <2> QED BY <1>2, <1>3, <2>2 DEF Writes
<1> QED BY <1>1, <1>2, <1>3

(***************************************************************************)
(* The calls: a request is added at the end, and the last one is taken     *)
(* away again.                                                             *)
(***************************************************************************)
LEMMA AskedShape ==
  ASSUME ~AccessControlDisabled, IInv, LevelsMatch,
         NEW t \in Threads, NEW kind \in {"read", "write"}, Request(t, kind)
  PROVE  Shape(t)'
<1>0. /\ access_mode[t] \in Int /\ goal[t] \in Nat /\ switch_depth[t] \in Nat
      /\ requests[t] \in Seq({"read", "write"}) /\ Outstanding(t) \in Nat /\ Shape(t)
  BY ShapeTypes
<1>1. /\ Outstanding(t)' = Outstanding(t) + 1
      /\ \A k \in 1..Outstanding(t) : requests'[t][k] = requests[t][k]
      /\ requests'[t][Outstanding(t) + 1] = kind
  <2>1. requests'[t] = Append(requests[t], kind)
    BY DEF Request, LevelsMatch
  <2> QED BY <1>0, <2>1, AppendProperties DEF Outstanding
<1>2. access_mode' = access_mode /\ SettledShape(t)
  BY <1>0 DEF Request, get_read_access, get_read_write_access, counts, Shape
<1>3. CASE kind = "read" /\ access_mode[t] > 0
  <2>1. pc'[t] = "get_rw" /\ goal'[t] = 0 /\ switch_depth' = switch_depth
    BY <1>3 DEF Request, get_read_access, Goto, IInv, TypeOK
  <2>2. Writes(t)'
    BY <1>0, <1>1, <1>2, <1>3, <2>1, SameBeginning DEF SettledShape, Writes
  <2> QED BY <1>0, <1>1, <1>2, <1>3, <2>1, <2>2 DEF Shape, SettledShape, RequestShape, ReleaseShape
<1>4. CASE kind = "read" /\ ~(access_mode[t] > 0)
  <2>1. pc'[t] = "get_ro" /\ goal'[t] = 0 /\ switch_depth' = switch_depth
    BY <1>4 DEF Request, get_read_access, Goto, IInv, TypeOK
  <2>2. Reads(t)'
    BY <1>0, <1>1, <1>2, <1>4, <2>1 DEF SettledShape, Reads, OnlyReads
  <2> QED BY <1>0, <1>1, <1>2, <1>4, <2>1, <2>2 DEF Shape, SettledShape, RequestShape, ReleaseShape
<1>5. CASE kind = "write" /\ ~(access_mode[t] < 0)
  <2>1. pc'[t] = "get_rw" /\ goal'[t] = 0 /\ switch_depth' = switch_depth
    BY <1>5 DEF Request, get_read_write_access, Goto, IInv, TypeOK
  <2>2. Writes(t)'
    <3>1. CASE access_mode[t] = 0
      BY <1>0, <1>1, <1>2, <1>5, <2>1, <3>1 DEF SettledShape, Writes, Reads, OnlyReads
    <3>2. CASE access_mode[t] # 0
      <4>1. access_mode[t] > 0
        BY <1>0, <1>5, <3>2
      <4>2. Writes(t) /\ switch_depth[t] < Outstanding(t)
        BY <1>2, <4>1 DEF SettledShape, Writes
      <4>3. Outstanding(t) \in Nat /\ Outstanding(t)' \in Nat /\ Outstanding(t) <= Outstanding(t)'
        BY <1>0, <1>1
      <4>4. switch_depth[t] \in Nat /\ switch_depth'[t] = switch_depth[t]
        BY <1>0, <2>1
      <4> QED BY <1>1, <4>2, <4>3, <4>4, SameBeginning
    <3> QED BY <3>1, <3>2
  <2> QED BY <1>0, <1>1, <1>2, <1>5, <2>1, <2>2 DEF Shape, SettledShape, RequestShape, ReleaseShape
<1>6. CASE kind = "write" /\ access_mode[t] < 0
  <2>1. /\ pc'[t] = "up_ro" /\ goal'[t] = -access_mode[t]
        /\ switch_depth'[t] = -access_mode[t]
    BY <1>6 DEF Request, get_read_write_access, access_request_depth, is_read_only_accessible,
                Goto, IInv, TypeOK
  <2>2. Outstanding(t) = -access_mode[t] /\ OnlyReads(t, Outstanding(t))
    BY <1>0, <1>2, <1>6 DEF SettledShape, Reads
  <2>3. Writes(t)'
    BY <1>0, <1>1, <1>6, <2>1, <2>2 DEF Writes, OnlyReads
  <2> QED BY <1>0, <1>1, <1>2, <1>6, <2>1, <2>2, <2>3
          DEF Shape, SettledShape, RequestShape, ReleaseShape
<1> QED BY <1>0, <1>3, <1>4, <1>5, <1>6

LEMMA ReleasedShape ==
  ASSUME IInv, LevelsMatch, NEW t \in Threads, Release(t, FALSE)
  PROVE  /\ Shape(t)'
         /\ Front(requests[t]) \in Seq({"read", "write"})
<1>0. /\ access_mode[t] \in Int /\ goal[t] \in Nat /\ switch_depth[t] \in Nat
      /\ requests[t] \in Seq({"read", "write"}) /\ Outstanding(t) \in Nat /\ Shape(t)
  BY ShapeTypes
<1>1. /\ access_mode' = access_mode /\ switch_depth' = switch_depth /\ access_mode[t] # 0
      /\ SettledShape(t)
      /\ pc'[t] = IF access_mode[t] > 0 THEN "rel_rw" ELSE "rel_ro"
      /\ goal'[t] = (IF access_mode[t] < 0 THEN -access_mode[t] ELSE access_mode[t]) - 1
  BY <1>0 DEF Release, release_access, access_request_depth, Goto, counts, Shape, IInv, TypeOK
<1>2. Outstanding(t) > 0
  BY <1>0, <1>1 DEF SettledShape
<1>3. /\ Front(requests[t]) \in Seq({"read", "write"})
      /\ Outstanding(t)' = Outstanding(t) - 1
      /\ \A k \in 1..(Outstanding(t) - 1) : requests'[t][k] = requests[t][k]
  <2>1. requests'[t] = SubSeq(requests[t], 1, Outstanding(t) - 1)
    BY DEF Release, LevelsMatch, Front, Outstanding
  <2>2. \A k \in 1..(Outstanding(t) - 1) : requests[t][k] \in {"read", "write"}
    BY <1>0, ElementOfSeq DEF Outstanding
  <2>3. /\ SubSeq(requests[t], 1, Outstanding(t) - 1) \in Seq({"read", "write"})
        /\ Len(SubSeq(requests[t], 1, Outstanding(t) - 1)) = Outstanding(t) - 1
        /\ \A k \in 1..(Outstanding(t) - 1) :
             SubSeq(requests[t], 1, Outstanding(t) - 1)[k] = requests[t][k]
    BY <1>0, <1>2, <2>2, SubSeqProperties
  <2> QED BY <2>1, <2>3 DEF Front, Outstanding
<1>4. ASSUME access_mode[t] > 0 PROVE Shape(t)'
  <2>1. access_mode[t] = goal'[t] + 1 /\ goal'[t] = Outstanding(t)' /\ Writes(t)
    BY <1>0, <1>1, <1>3, <1>4 DEF SettledShape
  <2>2. /\ OnlyReads(t, switch_depth[t])'
        /\ Writes(t)' \/ switch_depth'[t] = Outstanding(t)'
    BY <1>0, <1>1, <1>2, <1>3, <2>1, SameBeginning DEF Writes
  <2>3. pc'[t] = "rel_rw" /\ access_mode'[t] = goal'[t] + 1
    BY <1>1, <1>4, <2>1
  <2> QED BY <2>1, <2>2, <2>3 DEF Shape, SettledShape, RequestShape, ReleaseShape
<1>5. ASSUME access_mode[t] < 0 PROVE Shape(t)'
  <2>1. -access_mode[t] = goal'[t] + 1 /\ goal'[t] = Outstanding(t)' /\ Reads(t)
    BY <1>0, <1>1, <1>3, <1>5 DEF SettledShape
  <2>2. Reads(t)'
    BY <1>0, <1>1, <1>2, <1>3, <2>1 DEF Reads, OnlyReads
  <2>3. pc'[t] = "rel_ro" /\ -access_mode'[t] = goal'[t] + 1
    BY <1>0, <1>1, <1>5, <2>1
  <2> QED BY <2>1, <2>2, <2>3 DEF Shape, SettledShape, RequestShape, ReleaseShape
<1> QED BY <1>0, <1>1, <1>3, <1>4, <1>5

(***************************************************************************)
(* Between calls a thread has exactly the access its outstanding requests  *)
(* add up to, for any number of threads and requests, if clients release   *)
(* one level at a time.  (release_access(true) after an upgrade leaves     *)
(* switch_depth behind: see the run that checks it.)                       *)
(***************************************************************************)
THEOREM LevelsAddUp ==
  ASSUME ~AccessControlDisabled, TRUE \notin XallValues
  PROVE  ProgressSpec => []AccessMatchesRequests
<1>1. ProgressInit => LevelsMatch
  <2> SUFFICES ASSUME ProgressInit PROVE LevelsMatch
    OBVIOUS
  <2>1. requests \in [Threads -> Seq({"read", "write"})]
    BY EmptySeq DEF ProgressInit, ClientInit
  <2>2. ASSUME NEW t \in Threads PROVE Shape(t)
    <3>1. /\ pc[t] = "idle" /\ access_mode[t] = 0 /\ switch_depth[t] = 0
          /\ Outstanding(t) = 0
      BY EmptySeq DEF ProgressInit, ClientInit, Init, Outstanding
    <3>2. Reads(t)
      BY <3>1 DEF Reads, OnlyReads
    <3>3. -access_mode[t] = 0 /\ ~(access_mode[t] > 0)
      <4>1. access_mode[t] \in Int /\ access_mode[t] <= 0 /\ access_mode[t] >= 0
        BY <3>1
      <4> QED BY <4>1
    <3>4. SettledShape(t)
      BY <3>1, <3>2, <3>3 DEF SettledShape
    <3> QED BY <3>1, <3>4 DEF Shape, RequestShape, ReleaseShape
  <2> QED BY <2>1, <2>2 DEF LevelsMatch
<1>2. ASSUME IInv, LevelsMatch, [ProgressNext]_progressVars PROVE LevelsMatch'
  <2>1. ASSUME NEW t \in Threads, Shape(t)', requests' \in [Threads -> Seq({"read", "write"})],
               \A u \in Threads \ {t} :
                 /\ pc'[u] = pc[u] /\ goal'[u] = goal[u] /\ access_mode'[u] = access_mode[u]
                 /\ switch_depth'[u] = switch_depth[u] /\ requests'[u] = requests[u]
        PROVE  LevelsMatch'
    BY <1>2, <2>1, SameShape DEF LevelsMatch
  <2>2. CASE UNCHANGED <<pc, goal, access_mode, switch_depth, requests>>
    BY <1>2, <2>2, SameShape DEF LevelsMatch
  <2>3. ASSUME NEW t \in Threads, NEW kind \in {"read", "write"}, Request(t, kind)
        PROVE  LevelsMatch'
    <3>1. Shape(t)'
      BY <1>2, <2>3, AskedShape
    <3>2. requests' \in [Threads -> Seq({"read", "write"})]
      BY <1>2, <2>3, AppendProperties DEF Request, LevelsMatch
    <3>3. \A u \in Threads \ {t} :
            /\ pc'[u] = pc[u] /\ goal'[u] = goal[u] /\ access_mode'[u] = access_mode[u]
            /\ switch_depth'[u] = switch_depth[u] /\ requests'[u] = requests[u]
      BY <1>2, <2>3 DEF Request, LevelsMatch, get_read_access, get_read_write_access,
                       Goto, counts, IInv, TypeOK
    <3> QED BY <2>1, <3>1, <3>2, <3>3
  <2>4. ASSUME NEW t \in Threads, Release(t, FALSE)
        PROVE  LevelsMatch'
    <3>1. Shape(t)' /\ Front(requests[t]) \in Seq({"read", "write"})
      BY <1>2, <2>4, ReleasedShape
    <3>2. requests' = [requests EXCEPT ![t] = Front(requests[t])]
      BY <1>2, <2>4 DEF Release
    <3>3. requests' \in [Threads -> Seq({"read", "write"})]
      BY <1>2, <3>1, <3>2 DEF LevelsMatch
    <3>4. \A u \in Threads \ {t} :
            /\ pc'[u] = pc[u] /\ goal'[u] = goal[u] /\ access_mode'[u] = access_mode[u]
            /\ switch_depth'[u] = switch_depth[u] /\ requests'[u] = requests[u]
      BY <1>2, <2>4, <3>2 DEF Release, LevelsMatch, release_access, Goto, counts
    <3> QED BY <2>1, <3>1, <3>3, <3>4
  <2>5. ASSUME NEW t \in Threads, get_mode_lock(t), UNCHANGED requests
        PROVE  LevelsMatch'
    <3>1. /\ pc[t] = "idle" /\ pc'[t] = "lock" /\ access_mode' = access_mode
          /\ switch_depth' = switch_depth
          /\ \A u \in Threads \ {t} : pc'[u] = pc[u] /\ goal'[u] = goal[u]
      BY <1>2, <2>5 DEF get_mode_lock, Goto, counts, IInv, TypeOK
    <3>2. Shape(t)'
      BY <1>2, <2>5, <3>1 DEF LevelsMatch, Shape, SettledShape, RequestShape, ReleaseShape,
                              Reads, Writes, OnlyReads, Outstanding
    <3> QED BY <1>2, <2>1, <2>5, <3>1, <3>2 DEF LevelsMatch
  <2>6. ASSUME NEW t \in Threads, grant_mode_lock(t), UNCHANGED requests
        PROVE  LevelsMatch'
    <3>1. CASE Wait(t)
      BY <2>2, <2>6, <3>1 DEF Wait, control
    <3>2. CASE ~Wait(t)
      <4>1. /\ pc[t] = "lock" /\ pc'[t] = "idle" /\ access_mode' = access_mode
            /\ switch_depth' = switch_depth
            /\ \A u \in Threads \ {t} : pc'[u] = pc[u] /\ goal'[u] = goal[u]
        BY <1>2, <2>6, <3>2 DEF grant_mode_lock, Goto, IInv, TypeOK
      <4>2. Shape(t)'
        BY <1>2, <2>6, <4>1 DEF LevelsMatch, Shape, SettledShape, RequestShape, ReleaseShape,
                                Reads, Writes, OnlyReads, Outstanding
      <4> QED BY <1>2, <2>1, <2>6, <4>1, <4>2 DEF LevelsMatch
    <3> QED BY <3>1, <3>2
  <2>7. ASSUME NEW t \in Threads, UNCHANGED requests,
               \/ request_read_only_access(t) \/ request_read_write_access(t)
               \/ release_read_only_access(t) \/ release_read_write_access(t)
        PROVE  LevelsMatch'
    <3>1. Shape(t)'
      BY <1>2, <2>7, RequestReadOnlyShape, RequestReadWriteShape, ReleaseReadOnlyShape,
         ReleaseReadWriteShape
    <3>2. \A u \in Threads \ {t} :
            /\ pc'[u] = pc[u] /\ goal'[u] = goal[u] /\ access_mode'[u] = access_mode[u]
            /\ switch_depth'[u] = switch_depth[u]
      BY <1>2, <2>7 DEF request_read_only_access, request_read_write_access,
                  release_read_only_access, release_read_write_access, end_downgrade,
                  Wait, Goto, counts, control, IInv, TypeOK
    <3> QED BY <1>2, <2>1, <2>7, <3>1, <3>2 DEF LevelsMatch
  <2>8. ASSUME NEW t \in Threads, Change(t) \/ Look(t) \/ release_mode_lock(t) \/ SpuriousWakeup(t)
        PROVE  UNCHANGED <<pc, goal, access_mode, switch_depth>>
    BY <2>8 DEF Change, Look, clear_is_modified, release_mode_lock, SpuriousWakeup, vars, control
  <2>9. ASSUME NEW t \in Threads, Ask(t) PROVE LevelsMatch'
    BY <2>3, <2>5, <2>9 DEF Ask
  <2>10. ASSUME NEW t \in Threads, GiveBack(t) PROVE LevelsMatch'
    BY <2>2, <2>4, <2>8, <2>10, ClientAssumption DEF GiveBack
  <2>11. ASSUME NEW t \in Threads, GoOn(t) PROVE LevelsMatch'
    BY <2>6, <2>7, <2>11 DEF GoOn, Continue
  <2>12. ASSUME NEW t \in Threads, Unasked(t) PROVE LevelsMatch'
    <3>1. UNCHANGED requests
      BY <2>12 DEF Unasked, Change, Look
    <3> QED BY <2>2, <2>8, <2>12, <3>1 DEF Unasked
  <2>13. CASE UNCHANGED progressVars
    BY <2>2, <2>13 DEF progressVars, clientVars, vars
  <2> QED BY <1>2, <2>9, <2>10, <2>11, <2>12, <2>13 DEF ProgressNext
<1>3. IInv /\ LevelsMatch => AccessMatchesRequests
  <2> SUFFICES ASSUME IInv, LevelsMatch, NEW t \in Threads, pc[t] = "idle"
               PROVE  /\ access_request_depth(t) = Len(requests[t])
                      /\ access_mode[t] > 0 <=> Contains(requests[t], "write")
    BY DEF AccessMatchesRequests
  <2>1. /\ access_mode[t] \in Int /\ Outstanding(t) \in Nat /\ switch_depth[t] \in Nat
        /\ SettledShape(t)
    BY ShapeTypes DEF Shape
  <2>2. access_request_depth(t) = Len(requests[t])
    BY <2>1 DEF SettledShape, access_request_depth, Outstanding
  <2>3. CASE access_mode[t] > 0
    <3>1. switch_depth[t] + 1 \in 1..Len(requests[t]) /\ requests[t][switch_depth[t] + 1] = "write"
      BY <2>1, <2>3 DEF SettledShape, Writes, Outstanding
    <3> QED BY <2>2, <2>3, <3>1 DEF Contains
  <2>4. CASE ~(access_mode[t] > 0)
    BY <2>1, <2>2, <2>4 DEF SettledShape, Reads, OnlyReads, Outstanding, Contains
  <2> QED BY <2>3, <2>4
<1>4. ProgressSpec => []IInv
  BY ClientsUseTheMonitor, Consistent, PTL
<1> QED BY <1>1, <1>2, <1>3, <1>4, PTL DEF ProgressSpec
=============================================================================
