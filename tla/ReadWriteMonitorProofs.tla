----------------------- MODULE ReadWriteMonitorProofs -----------------------
(***************************************************************************)
(* Proofs about one read_write_monitor, for any number of threads, any     *)
(* depth of nested requests and both builds (with and without _PTHREADS).  *)
(***************************************************************************)
EXTENDS ReadWriteMonitor, FiniteSetTheorems, TLAPS

(***************************************************************************)
(* Type correctness: every value of the monitor and of the threads inside  *)
(* its operations keeps its type; in particular a release never computes a *)
(* negative depth to stop at.                                              *)
(***************************************************************************)
THEOREM TypeCorrect == Spec => []TypeOK
<1>1. Init => TypeOK
  BY DEF Init, TypeOK, PC
<1>2. TypeOK /\ [Next]_vars => TypeOK'
  <2> SUFFICES ASSUME TypeOK, [Next]_vars PROVE TypeOK'
    OBVIOUS
  <2> USE DEF TypeOK
  <2>1. CASE UNCHANGED vars
    BY <2>1 DEF vars
  <2>2. ASSUME NEW t \in Threads, Call(t) PROVE TypeOK'
    <3>1. CASE get_read_access(t)
      BY <3>1 DEF get_read_access, Goto, counts, PC, Requesting
    <3>2. CASE \E b \in BOOLEAN : get_read_write_access(t, b)
      BY <3>2 DEF get_read_write_access, Goto, counts, access_request_depth,
                  PC, Requesting, Releasing
    <3>3. CASE \E all \in XallValues : release_access(t, all)
      BY <3>3 DEF release_access, Goto, counts, access_request_depth, PC, Releasing
    <3>4. CASE clear_is_modified(t)
      BY <3>4 DEF clear_is_modified, counts, control
    <3>5. CASE get_mode_lock(t)
      BY <3>5 DEF get_mode_lock, Goto, counts, PC, Requesting
    <3>6. CASE release_mode_lock(t)
      BY <3>6 DEF release_mode_lock, Signal, control
    <3> QED BY <2>2, <3>1, <3>2, <3>3, <3>4, <3>5, <3>6 DEF Call, Acquire
  <2>3. ASSUME NEW t \in Threads, Continue(t) PROVE TypeOK'
    <3>1. CASE request_read_only_access(t)
      BY <3>1 DEF request_read_only_access, end_downgrade, Wait, Goto, counts, control, PC
    <3>2. CASE request_read_write_access(t)
      BY <3>2 DEF request_read_write_access, busy, Wait, Goto, counts, control, PC, Requesting
    <3>3. CASE release_read_only_access(t)
      BY <3>3 DEF release_read_only_access, Signal, Goto, control, PC, Requesting
    <3>4. CASE release_read_write_access(t)
      <4>1. access_mode' \in [Threads -> Int] /\ ro_ct' \in Int /\ mode_lock_ct' \in Nat
            /\ switch_depth' \in [Threads -> Nat]
        BY <3>4 DEF release_read_write_access
      <4>2. /\ rw_ct' \in {0, 1} /\ is_modified' \in [Threads -> BOOLEAN]
            /\ waiting' \subseteq Threads
        BY <3>4 DEF release_read_write_access, set_is_modified, Broadcast
      <4>3. pc' \in [Threads -> PC] /\ goal' \in [Threads -> Nat]
        BY <3>4 DEF release_read_write_access, Goto, control, PC, Requesting, Releasing
      <4> QED BY <4>1, <4>2, <4>3
    <3>5. CASE grant_mode_lock(t)
      BY <3>5 DEF grant_mode_lock, Wait, Goto, counts, control, PC
    <3> QED BY <2>3, <3>1, <3>2, <3>3, <3>4, <3>5 DEF Continue
  <2>4. ASSUME NEW t \in Threads, SpuriousWakeup(t) PROVE TypeOK'
    BY <2>4 DEF SpuriousWakeup, counts, control
  <2> QED BY <2>1, <2>2, <2>3, <2>4 DEF Next
<1> QED BY <1>1, <1>2, PTL DEF Spec

(***************************************************************************)
(* The readers can be counted, and are none when the count is 0.           *)
(***************************************************************************)
LEMMA ReadersFinite ==
  /\ IsFiniteSet(Readers)
  /\ Cardinality(Readers) \in Nat
  /\ Cardinality(Readers) = 0 <=> Readers = {}
<1>1. IsFiniteSet(Readers)
  <2>1. Readers \in SUBSET Threads
    BY DEF Readers
  <2> QED BY <2>1, FS_Subset, ThreadsAssumption
<1> QED BY <1>1, FS_CardinalityType, FS_EmptySet

(***************************************************************************)
(* What a change of one thread's access mode does to the sets of readers   *)
(* and writers.                                                            *)
(***************************************************************************)
LEMMA ModeChange ==
  ASSUME NEW t \in Threads, NEW v \in Int,
         access_mode \in [Threads -> Int],
         access_mode' = [access_mode EXCEPT ![t] = v]
  PROVE  /\ Readers' = IF v < 0 THEN Readers \cup {t} ELSE Readers \ {t}
         /\ Writers' = IF v > 0 THEN Writers \cup {t} ELSE Writers \ {t}
         /\ IsFiniteSet(Readers) /\ Cardinality(Readers) \in Nat
         /\ Cardinality(Readers') =
              IF v < 0
                THEN Cardinality(Readers) + (IF access_mode[t] < 0 THEN 0 ELSE 1)
                ELSE Cardinality(Readers) - (IF access_mode[t] < 0 THEN 1 ELSE 0)
         /\ Cardinality(Readers) = 0 <=> Readers = {}
<1>1. Readers' = IF v < 0 THEN Readers \cup {t} ELSE Readers \ {t}
  BY DEF Readers
<1>2. Writers' = IF v > 0 THEN Writers \cup {t} ELSE Writers \ {t}
  BY DEF Writers
<1>3. IsFiniteSet(Readers)
  BY ReadersFinite
<1>4. Cardinality(Readers) \in Nat
  BY ReadersFinite
<1>5. t \in Readers <=> access_mode[t] < 0
  BY DEF Readers
<1>6. Cardinality(Readers \cup {t}) =
        IF t \in Readers THEN Cardinality(Readers) ELSE Cardinality(Readers) + 1
  BY <1>3, FS_AddElement
<1>7. Cardinality(Readers \ {t}) =
        IF t \in Readers THEN Cardinality(Readers) - 1 ELSE Cardinality(Readers)
  BY <1>3, FS_RemoveElement
<1>8. Cardinality(Readers) = 0 <=> Readers = {}
  BY ReadersFinite
<1>9. Cardinality(Readers') =
        IF v < 0
          THEN Cardinality(Readers) + (IF access_mode[t] < 0 THEN 0 ELSE 1)
          ELSE Cardinality(Readers) - (IF access_mode[t] < 0 THEN 1 ELSE 0)
  <2>1. CASE v < 0
    BY <2>1, <1>1, <1>4, <1>5, <1>6
  <2>2. CASE ~(v < 0)
    BY <2>2, <1>1, <1>4, <1>5, <1>7
  <2> QED BY <2>1, <2>2
<1> QED BY <1>1, <1>2, <1>3, <1>4, <1>8, <1>9

(***************************************************************************)
(* Steps that leave the counters and every access mode alone: the calls,   *)
(* and the waits.                                                          *)
(***************************************************************************)
LEMMA CountsUnchanged ==
  ASSUME CountsAreHolders, UNCHANGED <<ro_ct, rw_ct, access_mode>>
  PROVE  CountsAreHolders'
BY DEF CountsAreHolders, Readers, Writers

(***************************************************************************)
(* Each primitive keeps the counters true.                                 *)
(***************************************************************************)
LEMMA RequestReadOnlyCounts ==
  ASSUME IInv, NEW t \in Threads, request_read_only_access(t)
  PROVE  CountsAreHolders'
<1>1. CASE Wait(t)
  BY <1>1, CountsUnchanged DEF Wait, counts, IInv
<1>2. CASE ~Wait(t)
  <2>1. /\ ~(PThreads /\ rw_ct > 0)
        /\ ro_ct' = IF access_mode[t] = 0 THEN ro_ct + 1 ELSE ro_ct
        /\ access_mode' = [access_mode EXCEPT ![t] = access_mode[t] - 1]
        /\ rw_ct' = rw_ct
        /\ access_mode[t] <= 0 /\ access_mode[t] \in Int /\ ro_ct \in Int
    BY <1>2 DEF request_read_only_access, end_downgrade, PrimitivePreconditions, IInv, TypeOK
  <2> DEFINE v == access_mode[t] - 1
  <2>2. /\ v \in Int
        /\ access_mode' = [access_mode EXCEPT ![t] = v]
        /\ access_mode \in [Threads -> Int]
    BY <2>1 DEF IInv, TypeOK
  <2>3. /\ Readers' = IF v < 0 THEN Readers \cup {t} ELSE Readers \ {t}
        /\ Writers' = IF v > 0 THEN Writers \cup {t} ELSE Writers \ {t}
        /\ Cardinality(Readers) \in Nat
        /\ Cardinality(Readers') =
             IF v < 0
               THEN Cardinality(Readers) + (IF access_mode[t] < 0 THEN 0 ELSE 1)
               ELSE Cardinality(Readers) - (IF access_mode[t] < 0 THEN 1 ELSE 0)
        /\ Cardinality(Readers) = 0 <=> Readers = {}
    <3> HIDE DEF v
    <3> QED BY <2>2, ModeChange, Zenon
  <2>4. Writers = {} /\ rw_ct = 0
    <3>1. CASE PThreads
      BY <3>1, <2>1 DEF CountsAreHolders, IInv
    <3>2. CASE ~PThreads
      BY <3>2, <2>1, BuildAssumption DEF Writers, CountsAreHolders, IInv
    <3> QED BY <3>1, <3>2
  <2>5. ro_ct' = Cardinality(Readers')
    BY <2>1, <2>3 DEF CountsAreHolders, IInv
  <2>6. Writers' = {} /\ rw_ct' = 0
    BY <2>1, <2>3, <2>4
  <2> QED BY <2>5, <2>6 DEF CountsAreHolders
<1> QED BY <1>1, <1>2

(***************************************************************************)
(* request_read_write_access keeps the counters true: the thread that gets *)
(* past busy is alone.                                                     *)
(***************************************************************************)
LEMMA RequestReadWriteCounts ==
  ASSUME IInv, NEW t \in Threads, request_read_write_access(t)
  PROVE  CountsAreHolders'
<1>1. CASE Wait(t)
  BY <1>1, CountsUnchanged DEF Wait, counts, IInv
<1>2. CASE ~Wait(t) /\ access_mode[t] > 0
  <2>1. /\ access_mode' = [access_mode EXCEPT ![t] = access_mode[t] + 1]
        /\ rw_ct' = rw_ct /\ ro_ct' = ro_ct
        /\ access_mode[t] > 0 /\ access_mode[t] \in Int
    BY <1>2 DEF request_read_write_access, busy, IInv, TypeOK
  <2> DEFINE v == access_mode[t] + 1
  <2>2. /\ v \in Int
        /\ access_mode' = [access_mode EXCEPT ![t] = v]
        /\ access_mode \in [Threads -> Int]
    BY <2>1 DEF IInv, TypeOK
  <2>3. /\ Readers' = IF v < 0 THEN Readers \cup {t} ELSE Readers \ {t}
        /\ Writers' = IF v > 0 THEN Writers \cup {t} ELSE Writers \ {t}
        /\ Cardinality(Readers) \in Nat
        /\ Cardinality(Readers') =
             IF v < 0
               THEN Cardinality(Readers) + (IF access_mode[t] < 0 THEN 0 ELSE 1)
               ELSE Cardinality(Readers) - (IF access_mode[t] < 0 THEN 1 ELSE 0)
        /\ Cardinality(Readers) = 0 <=> Readers = {}
    <3> HIDE DEF v
    <3> QED BY <2>2, ModeChange, Zenon
  <2>4. Readers' = Readers /\ Writers' = Writers
    BY <2>1, <2>3 DEF Readers, Writers
  <2> QED BY <2>1, <2>4 DEF CountsAreHolders, IInv
<1>3. CASE ~Wait(t) /\ ~(access_mode[t] > 0)
  <2>1. /\ access_mode' = [access_mode EXCEPT ![t] = 1]
        /\ ~(PThreads /\ (ro_ct > 0 \/ rw_ct > 0))
        /\ rw_ct' = 1 /\ ro_ct' = ro_ct
        /\ access_mode[t] = 0
    BY <1>3 DEF request_read_write_access, busy, PrimitivePreconditions, IInv, TypeOK
  <2> DEFINE v == 1
  <2>2. /\ v \in Int
        /\ access_mode' = [access_mode EXCEPT ![t] = v]
        /\ access_mode \in [Threads -> Int]
    BY <2>1 DEF IInv, TypeOK
  <2>3. /\ Readers' = IF v < 0 THEN Readers \cup {t} ELSE Readers \ {t}
        /\ Writers' = IF v > 0 THEN Writers \cup {t} ELSE Writers \ {t}
        /\ Cardinality(Readers) \in Nat
        /\ Cardinality(Readers') =
             IF v < 0
               THEN Cardinality(Readers) + (IF access_mode[t] < 0 THEN 0 ELSE 1)
               ELSE Cardinality(Readers) - (IF access_mode[t] < 0 THEN 1 ELSE 0)
        /\ Cardinality(Readers) = 0 <=> Readers = {}
    <3> HIDE DEF v
    <3> QED BY <2>2, ModeChange, Zenon
  <2>4. Readers = {} /\ Writers = {} /\ ro_ct = 0
    <3>1. CASE PThreads
      BY <3>1, <2>1, <2>3 DEF CountsAreHolders, IInv, TypeOK
    <3>2. CASE ~PThreads
      <4>1. Readers = {} /\ Writers = {}
        BY <3>2, <2>1, BuildAssumption DEF Writers, Readers
      <4> QED BY <4>1, <2>3 DEF CountsAreHolders, IInv
    <3> QED BY <3>1, <3>2
  <2>5. Readers' = {} /\ Writers' = {t} /\ Cardinality(Readers') = 0
    BY <2>1, <2>3, <2>4
  <2> QED BY <2>1, <2>4, <2>5 DEF CountsAreHolders
<1> QED BY <1>1, <1>2, <1>3

(***************************************************************************)
(* release_read_only_access keeps the counters true: the last level given  *)
(* up takes the thread out of the readers.                                 *)
(***************************************************************************)
LEMMA ReleaseReadOnlyCounts ==
  ASSUME IInv, NEW t \in Threads, release_read_only_access(t)
  PROVE  CountsAreHolders'
<1>1. /\ access_mode' = [access_mode EXCEPT ![t] = access_mode[t] + 1]
      /\ ro_ct' = IF access_mode[t] + 1 = 0 THEN ro_ct - 1 ELSE ro_ct
      /\ rw_ct' = rw_ct
      /\ access_mode[t] < 0 /\ access_mode[t] \in Int /\ ro_ct \in Int
  BY DEF release_read_only_access, PrimitivePreconditions, IInv, TypeOK
<1>2. CountsAreHolders'
  <2> DEFINE v == access_mode[t] + 1
  <2>2. /\ v \in Int
        /\ access_mode' = [access_mode EXCEPT ![t] = v]
        /\ access_mode \in [Threads -> Int]
    BY <1>1 DEF IInv, TypeOK
  <2>3. /\ Readers' = IF v < 0 THEN Readers \cup {t} ELSE Readers \ {t}
        /\ Writers' = IF v > 0 THEN Writers \cup {t} ELSE Writers \ {t}
        /\ Cardinality(Readers) \in Nat
        /\ Cardinality(Readers') =
             IF v < 0
               THEN Cardinality(Readers) + (IF access_mode[t] < 0 THEN 0 ELSE 1)
               ELSE Cardinality(Readers) - (IF access_mode[t] < 0 THEN 1 ELSE 0)
        /\ Cardinality(Readers) = 0 <=> Readers = {}
    <3> HIDE DEF v
    <3> QED BY <2>2, ModeChange, Zenon
  <2>4. ro_ct' = Cardinality(Readers')
    BY <1>1, <2>3 DEF CountsAreHolders, IInv
  <2>5. Writers = {} /\ rw_ct = 0
    BY <1>1 DEF Readers, CountsAreHolders, IInv
  <2>6. Writers' = {} /\ rw_ct' = 0
    BY <1>1, <2>3, <2>5
  <2> QED BY <2>4, <2>6 DEF CountsAreHolders
<1> QED BY <1>2

(***************************************************************************)
(* release_read_write_access keeps the counters true: the last level given *)
(* up leaves no writer.                                                    *)
(***************************************************************************)
LEMMA ReleaseReadWriteCounts ==
  ASSUME IInv, NEW t \in Threads, release_read_write_access(t)
  PROVE  CountsAreHolders'
<1>1. /\ access_mode' = [access_mode EXCEPT ![t] = access_mode[t] - 1]
      /\ rw_ct' = IF access_mode[t] - 1 = 0 THEN 0 ELSE rw_ct
      /\ ro_ct' = ro_ct
      /\ access_mode[t] > 0 /\ access_mode[t] \in Int
  BY DEF release_read_write_access, PrimitivePreconditions, IInv, TypeOK
<1>2. CountsAreHolders'
  <2> DEFINE v == access_mode[t] - 1
  <2>2. /\ v \in Int
        /\ access_mode' = [access_mode EXCEPT ![t] = v]
        /\ access_mode \in [Threads -> Int]
    BY <1>1 DEF IInv, TypeOK
  <2>3. /\ Readers' = IF v < 0 THEN Readers \cup {t} ELSE Readers \ {t}
        /\ Writers' = IF v > 0 THEN Writers \cup {t} ELSE Writers \ {t}
        /\ Cardinality(Readers) \in Nat
        /\ Cardinality(Readers') =
             IF v < 0
               THEN Cardinality(Readers) + (IF access_mode[t] < 0 THEN 0 ELSE 1)
               ELSE Cardinality(Readers) - (IF access_mode[t] < 0 THEN 1 ELSE 0)
        /\ Cardinality(Readers) = 0 <=> Readers = {}
    <3> HIDE DEF v
    <3> QED BY <2>2, ModeChange, Zenon
  <2>4. t \in Writers /\ Readers = {} /\ rw_ct = 1 /\ Writers = {t}
    BY <1>1 DEF Writers, CountsAreHolders, IInv
  <2>5. Readers' = Readers
    BY <1>1, <2>3, <2>4
  <2>6. CASE access_mode[t] - 1 = 0
    <3>1. Writers' = {} /\ rw_ct' = 0
      BY <1>1, <2>3, <2>4, <2>6
    <3> QED BY <1>1, <2>5, <3>1 DEF CountsAreHolders, IInv
  <2>7. CASE access_mode[t] - 1 # 0
    <3>1. Writers' = Writers /\ rw_ct' = rw_ct
      BY <1>1, <2>3, <2>4, <2>7
    <3> QED BY <1>1, <2>5, <3>1 DEF CountsAreHolders, IInv
  <2> QED BY <2>6, <2>7
<1> QED BY <1>2

(***************************************************************************)
(* The rest of the invariant says where threads are in their operations;   *)
(* Places names that part.                                                 *)
(***************************************************************************)
Places == PrimitivePreconditions /\ LoopsEndInTime
Queue  == OnlyRequestersWait /\ OnlyWritersQueued /\ NoLostWakeup

LEMMA PlacesAfterCall ==
  ASSUME ~AccessControlDisabled, IInv, NEW t \in Threads, Call(t)
  PROVE  Places'
<1> USE DEF IInv, TypeOK, PrimitivePreconditions, LoopsEndInTime, Places, Goto,
            access_request_depth
<1>1. CASE get_read_access(t)
  BY <1>1 DEF get_read_access
<1>2. CASE \E b \in BOOLEAN : get_read_write_access(t, b)
  BY <1>2 DEF get_read_write_access, is_read_only_accessible
<1>3. CASE \E all \in XallValues : release_access(t, all)
  BY <1>3 DEF release_access
<1>4. CASE clear_is_modified(t)
  BY <1>4 DEF clear_is_modified, control
<1>5. CASE get_mode_lock(t)
  BY <1>5 DEF get_mode_lock
<1>6. CASE release_mode_lock(t)
  BY <1>6 DEF release_mode_lock, control
<1> QED BY <1>1, <1>2, <1>3, <1>4, <1>5, <1>6 DEF Call, Acquire

(***************************************************************************)
(* After a primitive the thread is again where the next primitive's        *)
(* precondition holds, and a loop that releases still ends in time.        *)
(***************************************************************************)
LEMMA PlacesAfterPrimitive ==
  ASSUME IInv, NEW t \in Threads, Continue(t)
  PROVE  Places'
<1> USE DEF IInv, TypeOK, PrimitivePreconditions, LoopsEndInTime, Places, Goto, control
<1>1. CASE request_read_only_access(t)
  BY <1>1 DEF request_read_only_access, end_downgrade, Wait
<1>2. CASE request_read_write_access(t)
  BY <1>2 DEF request_read_write_access, busy, Wait
<1>3. CASE release_read_only_access(t)
  BY <1>3 DEF release_read_only_access
<1>4. CASE release_read_write_access(t)
  <2>1. ASSUME NEW u \in Threads, u # t
        PROVE  access_mode'[u] = access_mode[u] /\ pc'[u] = pc[u] /\ goal'[u] = goal[u]
    BY <1>4, <2>1 DEF release_read_write_access
  <2>2. access_mode'[t] = access_mode[t] - 1 /\ access_mode[t] \in Int /\ access_mode[t] > 0
    BY <1>4 DEF release_read_write_access
  <2>3. \/ pc'[t] \in {"rel_rw", "down_rw"} /\ goal'[t] < access_mode'[t] /\ goal'[t] \in Nat
           /\ (pc'[t] = "down_rw" => goal'[t] = 0)
        \/ pc'[t] = "idle"
        \/ pc'[t] = "down_ro" /\ access_mode'[t] <= 0
    <3>1. /\ pc[t] \in {"rel_rw", "down_rw"} /\ goal[t] \in Nat /\ goal[t] < access_mode[t]
          /\ pc[t] = "down_rw" => goal[t] = 0
      BY <1>4 DEF release_read_write_access
    <3>2. \/ access_mode'[t] > goal[t] /\ pc' = pc /\ goal' = goal
          \/ access_mode'[t] > 0 /\ pc'[t] = "down_rw" /\ goal'[t] = 0
          \/ pc'[t] = "idle"
          \/ pc[t] = "down_rw" /\ access_mode'[t] <= goal[t] /\ pc'[t] = "down_ro"
      BY <1>4 DEF release_read_write_access
    <3> QED BY <2>2, <3>1, <3>2
  <2> QED BY <2>1, <2>2, <2>3
<1>5. CASE grant_mode_lock(t)
  BY <1>5 DEF grant_mode_lock, Wait
<1> QED BY <1>1, <1>2, <1>3, <1>4, <1>5 DEF Continue

(***************************************************************************)
(* The queue.  A step adds only the thread that takes it to the queue, and *)
(* only while the object is busy; and a signal leaves awake a thread that  *)
(* will look at the counters again.                                        *)
(***************************************************************************)
LEMMA QueueAfterCall ==
  ASSUME IInv, NEW t \in Threads, Call(t)
  PROVE  Queue'
<1> USE DEF IInv, TypeOK, Queue, OnlyRequestersWait, OnlyWritersQueued, NoLostWakeup,
            Requesting, Releasing
<1>1. CASE get_read_access(t)
  BY <1>1 DEF get_read_access, Goto, counts
<1>2. CASE \E b \in BOOLEAN : get_read_write_access(t, b)
  BY <1>2 DEF get_read_write_access, Goto, counts
<1>3. CASE \E all \in XallValues : release_access(t, all)
  BY <1>3 DEF release_access, Goto, counts
<1>4. CASE clear_is_modified(t)
  BY <1>4 DEF clear_is_modified, control, counts
<1>5. CASE get_mode_lock(t)
  BY <1>5 DEF get_mode_lock, Goto, counts
<1>6. CASE release_mode_lock(t)
  BY <1>6 DEF release_mode_lock, Signal, control
<1> QED BY <1>1, <1>2, <1>3, <1>4, <1>5, <1>6 DEF Call, Acquire

(***************************************************************************)
(* A thread that has access shows in the counters.                         *)
(***************************************************************************)
LEMMA HoldersShow ==
  ASSUME TypeOK, CountsAreHolders, NEW t \in Threads
  PROVE  /\ access_mode[t] < 0 => ro_ct > 0 /\ rw_ct = 0
         /\ access_mode[t] > 0 => rw_ct = 1
         /\ ro_ct >= 0
BY ReadersFinite DEF TypeOK, CountsAreHolders, Readers, Writers

(***************************************************************************)
(* A primitive leaves the queue on lock_free in order: it wakes whom it    *)
(* must.                                                                   *)
(***************************************************************************)
LEMMA QueueAfterPrimitive ==
  ASSUME IInv, NEW t \in Threads, Continue(t)
  PROVE  Queue'
<1>0. /\ access_mode[t] < 0 => ro_ct > 0 /\ rw_ct = 0
      /\ access_mode[t] > 0 => rw_ct = 1
      /\ ro_ct >= 0
  BY HoldersShow DEF IInv
<1> USE DEF IInv, TypeOK, Queue, OnlyRequestersWait, OnlyWritersQueued, NoLostWakeup,
            Requesting, Releasing
<1>1. CASE request_read_only_access(t)
  <2>1. CASE Wait(t)
    BY <1>1, <2>1 DEF request_read_only_access, end_downgrade, Wait, counts, control
  <2>2. CASE ~Wait(t)
    <3>1. waiting' = waiting /\ (ro_ct' > 0 \/ rw_ct' = 1) /\ (rw_ct = 1 => rw_ct' = 1)
      BY <1>0, <1>1, <2>2 DEF request_read_only_access, end_downgrade, PrimitivePreconditions
    <3>2. \A u \in Threads \ {t} : pc'[u] = pc[u]
      BY <1>1, <2>2 DEF request_read_only_access, end_downgrade, Goto, control
    <3>3. t \notin waiting /\ rw_ct' \in {0, 1} /\ ro_ct' \in Int
      BY <1>1, <2>2 DEF request_read_only_access, end_downgrade
    <3> QED BY <3>1, <3>2, <3>3
  <2> QED BY <2>1, <2>2
<1>2. CASE request_read_write_access(t)
  <2>1. CASE Wait(t)
    BY <1>2, <2>1 DEF request_read_write_access, busy, Wait, counts, control
  <2>2. CASE ~Wait(t)
    <3>1. waiting' = waiting /\ (ro_ct' > 0 \/ rw_ct' = 1) /\ (rw_ct = 1 => rw_ct' = 1)
      BY <1>0, <1>2, <2>2 DEF request_read_write_access, busy, PrimitivePreconditions
    <3>2. \A u \in Threads \ {t} : pc'[u] = pc[u]
      BY <1>2, <2>2 DEF request_read_write_access, busy, Goto, control
    <3>3. t \notin waiting /\ rw_ct' \in {0, 1} /\ ro_ct' \in Int
      BY <1>2, <2>2 DEF request_read_write_access, busy
    <3> QED BY <3>1, <3>2, <3>3
  <2> QED BY <2>1, <2>2
<1>3. CASE release_read_only_access(t)
  BY <1>3 DEF release_read_only_access, Signal, Goto, control
<1>4. CASE release_read_write_access(t)
  BY <1>4 DEF release_read_write_access, set_is_modified, Broadcast, Goto, control
<1>5. CASE grant_mode_lock(t)
  <2>1. ro_ct' > 0 \/ rw_ct' = 1
    BY <1>0, <1>5 DEF grant_mode_lock, Wait, counts, PrimitivePreconditions
  <2> QED BY <1>5, <2>1 DEF grant_mode_lock, Wait, Goto, counts, control
<1> QED BY <1>1, <1>2, <1>3, <1>4, <1>5 DEF Continue

(***************************************************************************)
(* The invariant: for every number of threads and every depth, as long as  *)
(* access control is enabled, the counters are the numbers of holders, no  *)
(* primitive is called against its precondition, only writers queue while  *)
(* nobody writes, and no wakeup is lost.                                   *)
(***************************************************************************)
THEOREM Consistent ==
  ASSUME ~AccessControlDisabled
  PROVE  Spec => []IInv
<1>1. Init => IInv
  <2> SUFFICES ASSUME Init PROVE IInv
    OBVIOUS
  <2>1. TypeOK
    BY DEF Init, TypeOK, PC
  <2>2. Readers = {} /\ Writers = {}
    BY DEF Init, Readers, Writers
  <2>3. CountsAreHolders
    BY <2>2, FS_EmptySet DEF Init, CountsAreHolders
  <2>4. Places /\ Queue
    BY DEF Init, Places, Queue, PrimitivePreconditions, LoopsEndInTime,
           OnlyRequestersWait, OnlyWritersQueued, NoLostWakeup
  <2> QED BY <2>1, <2>3, <2>4 DEF IInv, Places, Queue
<1>2. IInv /\ TypeOK' /\ [Next]_vars => IInv'
  <2> SUFFICES ASSUME IInv, TypeOK', [Next]_vars PROVE IInv'
    OBVIOUS
  <2>1. CASE UNCHANGED vars
    BY <2>1 DEF vars, IInv, CountsAreHolders, Readers, Writers, PrimitivePreconditions,
                LoopsEndInTime, OnlyRequestersWait, OnlyWritersQueued, NoLostWakeup
  <2>2. ASSUME NEW t \in Threads, Call(t) PROVE IInv'
    <3>1. UNCHANGED <<ro_ct, rw_ct, access_mode>>
      BY <2>2 DEF Call, Acquire, get_read_access, get_read_write_access, release_access,
                  clear_is_modified, get_mode_lock, release_mode_lock, counts
    <3>2. CountsAreHolders'
      BY <3>1, CountsUnchanged DEF IInv
    <3> QED BY <2>2, <3>2, PlacesAfterCall, QueueAfterCall DEF IInv, Places, Queue
  <2>3. ASSUME NEW t \in Threads, Continue(t) PROVE IInv'
    <3>1. grant_mode_lock(t) => CountsAreHolders'
      BY CountsUnchanged DEF grant_mode_lock, Wait, counts, IInv
    <3>2. CountsAreHolders'
      BY <2>3, <3>1, RequestReadOnlyCounts, RequestReadWriteCounts, ReleaseReadOnlyCounts,
         ReleaseReadWriteCounts DEF Continue, IInv
    <3> QED BY <2>3, <3>2, PlacesAfterPrimitive, QueueAfterPrimitive DEF IInv, Places, Queue
  <2>4. ASSUME NEW t \in Threads, SpuriousWakeup(t) PROVE IInv'
    <3>1. CountsAreHolders'
      BY <2>4, CountsUnchanged DEF SpuriousWakeup, counts, IInv
    <3> QED BY <2>4, <3>1 DEF SpuriousWakeup, counts, control, IInv, PrimitivePreconditions,
              LoopsEndInTime, OnlyRequestersWait, OnlyWritersQueued, NoLostWakeup
  <2> QED BY <2>1, <2>2, <2>3, <2>4 DEF Next
<1> QED BY <1>1, <1>2, TypeCorrect, PTL DEF Spec

(***************************************************************************)
(* No wakeup is lost, whatever the number of threads: the single signal of *)
(* release_read_only_access and release_mode_lock is enough.               *)
(***************************************************************************)
THEOREM WakeupsSuffice ==
  ASSUME ~AccessControlDisabled
  PROVE  Spec => []NoLostWakeup
<1>1. IInv => NoLostWakeup
  BY DEF IInv
<1> QED BY <1>1, Consistent, PTL

(***************************************************************************)
(* While nobody writes, whoever still waits to read has been woken: only   *)
(* writers stay in the queue. That is what makes a single signal enough.   *)
(***************************************************************************)
THEOREM OnlyWritersQueue ==
  ASSUME ~AccessControlDisabled
  PROVE  Spec => []OnlyWritersQueued
<1>1. IInv => OnlyWritersQueued
  BY DEF IInv
<1> QED BY <1>1, Consistent, PTL

(***************************************************************************)
(* The class invariant of read_write_monitor, as the code computes it.     *)
(***************************************************************************)
THEOREM ClassInvariant ==
  ASSUME ~AccessControlDisabled
  PROVE  Spec => []invariant
<1>1. IInv => invariant
  BY ReadersFinite DEF IInv, TypeOK, CountsAreHolders, invariant
<1> QED BY <1>1, Consistent, PTL

(***************************************************************************)
(* The counters say who has access; in particular nobody reads while       *)
(* somebody writes. The part of the invariant a client of the monitor      *)
(* relies on.                                                              *)
(***************************************************************************)
THEOREM CountersTrue ==
  ASSUME ~AccessControlDisabled
  PROVE  Spec => []CountsAreHolders
<1>1. IInv => CountsAreHolders
  BY DEF IInv
<1> QED BY <1>1, Consistent, PTL

(***************************************************************************)
(* The public operations, with their loops, never call one of the private  *)
(* primitives where its require clause fails, whoever ran in between.      *)
(***************************************************************************)
THEOREM PreconditionsMet ==
  ASSUME ~AccessControlDisabled
  PROVE  Spec => []PrimitivePreconditions
<1>1. IInv => PrimitivePreconditions
  BY DEF IInv
<1> QED BY <1>1, Consistent, PTL

LockersRead == \A t \in Threads : pc[t] = "lock" => access_mode[t] < 0

(***************************************************************************)
(* Nobody waits for itself, as long as clients ask for a mode lock with    *)
(* read-only access only: a waiting thread has no access, so whoever has   *)
(* access is awake and can give it up. (Under read-write access            *)
(* get_mode_lock waits for its own caller.)                                *)
(***************************************************************************)
THEOREM NobodyWaitsForItself ==
  ASSUME ~AccessControlDisabled, "read_write" \notin ModeLockModes
  PROVE  Spec => []WaitersHoldNothing
<1>1. Init => LockersRead /\ WaitersHoldNothing
  BY DEF Init, LockersRead, WaitersHoldNothing
<1>2. ASSUME IInv, IInv', LockersRead, WaitersHoldNothing, [Next]_vars
      PROVE  LockersRead' /\ WaitersHoldNothing'
  <2> USE <1>2 DEF IInv, TypeOK
  <2>1. CASE UNCHANGED vars
    BY <2>1 DEF vars, LockersRead, WaitersHoldNothing
  <2>2. ASSUME NEW t \in Threads, Call(t) PROVE LockersRead' /\ WaitersHoldNothing'
    <3>1. access_mode' = access_mode /\ waiting' \subseteq waiting
      BY <2>2 DEF Call, Acquire, get_read_access, get_read_write_access, release_access,
                  clear_is_modified, get_mode_lock, release_mode_lock, Signal, counts
    <3>2. \A u \in Threads : pc'[u] = "lock" => pc[u] = "lock" \/ access_mode[u] < 0
      BY <2>2 DEF Call, Acquire, get_read_access, get_read_write_access, release_access,
                  clear_is_modified, get_mode_lock, release_mode_lock, Goto, control
    <3> QED BY <3>1, <3>2 DEF LockersRead, WaitersHoldNothing
  <2>3. ASSUME NEW t \in Threads, Continue(t) PROVE LockersRead' /\ WaitersHoldNothing'
    <3>1. /\ waiting' \subseteq waiting \cup {t}
          /\ \A u \in Threads : pc'[u] = "lock" => pc[u] = "lock"
      BY <2>3 DEF Continue, request_read_only_access, request_read_write_access,
                  release_read_only_access, release_read_write_access, grant_mode_lock,
                  Wait, Goto, Signal, Broadcast, control
    <3>2. /\ \A u \in Threads \ {t} : access_mode'[u] = access_mode[u]
          /\ pc[t] = "lock" => access_mode'[t] = access_mode[t]
      BY <2>3 DEF Continue, request_read_only_access, request_read_write_access,
                  release_read_only_access, release_read_write_access, grant_mode_lock, Wait
    <3>3. t \in waiting' => access_mode'[t] = 0
      <4>1. rw_ct > 0 => ~(access_mode[t] < 0)
        BY DEF CountsAreHolders, Readers, Writers
      <4>2. t \notin waiting
        BY <2>3 DEF Continue, request_read_only_access, request_read_write_access,
                    release_read_only_access, release_read_write_access, grant_mode_lock,
                    OnlyRequestersWait, Requesting
      <4>3. t \in waiting' => Wait(t)
        BY <2>3, <4>2 DEF Continue, request_read_only_access, request_read_write_access,
                    release_read_only_access, release_read_write_access, grant_mode_lock,
                    Signal, Broadcast
      <4>4. Wait(t) => access_mode' = access_mode
        BY DEF Wait
      <4>5. t \in waiting' => access_mode[t] = 0
        BY <2>3, <4>1, <4>2, <4>3, <4>4 DEF Continue, request_read_only_access,
                    request_read_write_access, release_read_only_access,
                    release_read_write_access, grant_mode_lock, Signal, Broadcast,
                    LockersRead, PrimitivePreconditions
      <4> QED BY <4>3, <4>4, <4>5
    <3> QED BY <3>1, <3>2, <3>3 DEF LockersRead, WaitersHoldNothing
  <2>4. ASSUME NEW t \in Threads, SpuriousWakeup(t) PROVE LockersRead' /\ WaitersHoldNothing'
    BY <2>4 DEF SpuriousWakeup, control, LockersRead, WaitersHoldNothing
  <2> QED BY <1>2, <2>1, <2>2, <2>3, <2>4 DEF Next
<1> QED BY <1>1, <1>2, Consistent, PTL DEF Spec

(***************************************************************************)
(* The monitor implements the abstract readers-writer lock: each step is   *)
(* one of its steps, or changes neither who holds what nor who was told.   *)
(***************************************************************************)
THEOREM ImplementsLock ==
  ASSUME ~AccessControlDisabled
  PROVE  Spec => LockSpec
<1>1. Init => Lock!Init
  BY DEF Init, Lock!Init, Holds
<1>2. IInv /\ IInv' /\ [Next]_vars => [Lock!Next]_(Lock!vars)
  <2> SUFFICES ASSUME IInv, IInv', [Next]_vars PROVE [Lock!Next]_(Lock!vars)
    OBVIOUS
  <2> USE DEF Lock!Next, Lock!vars
  <2>1. CASE UNCHANGED <<access_mode, is_modified>>
    BY <2>1 DEF Holds
  <2>2. ASSUME NEW t \in Threads, clear_is_modified(t) PROVE Lock!Acknowledge(t)
    BY <2>2 DEF clear_is_modified, Lock!Acknowledge, Holds
  <2>3. ASSUME NEW t \in Threads, Call(t)
        PROVE  clear_is_modified(t) \/ UNCHANGED <<access_mode, is_modified>>
    BY <2>3 DEF Call, Acquire, get_read_access, get_read_write_access, release_access,
                get_mode_lock, release_mode_lock
  <2>4. ASSUME NEW t \in Threads, request_read_only_access(t)
        PROVE  [Lock!AcquireRead(t)]_(Lock!vars)
    <3>1. CASE Wait(t)
      BY <3>1 DEF Wait, Holds
    <3>2. CASE ~Wait(t)
      <4>1. /\ access_mode' = [access_mode EXCEPT ![t] = access_mode[t] - 1]
            /\ is_modified' = is_modified
            /\ access_mode[t] <= 0 /\ access_mode[t] \in Int
        BY <2>4, <3>2 DEF request_read_only_access, end_downgrade, PrimitivePreconditions, IInv, TypeOK
      <4>2. \A u \in Threads : Holds(u)' = IF u = t THEN "read" ELSE Holds(u)
        BY <4>1 DEF Holds, IInv, TypeOK
      <4>3. \A u \in Threads : Holds(u) # "write"
        <5>1. \A u \in Threads : ~(access_mode'[u] > 0)
          BY <4>1 DEF CountsAreHolders, Readers, Writers, IInv, TypeOK
        <5> QED BY <4>1, <5>1 DEF Holds, IInv, TypeOK
      <4>4. CASE access_mode[t] = 0
        BY <4>1, <4>2, <4>3, <4>4 DEF Lock!AcquireRead, Holds
      <4>5. CASE access_mode[t] < 0
        BY <4>1, <4>2, <4>5 DEF Holds
      <4> QED BY <4>1, <4>4, <4>5
    <3> QED BY <3>1, <3>2
  <2>5. ASSUME NEW t \in Threads, request_read_write_access(t)
        PROVE  [Lock!AcquireWrite(t)]_(Lock!vars)
    <3>1. CASE Wait(t)
      BY <3>1 DEF Wait, Holds
    <3>2. CASE ~Wait(t)
      <4>1. /\ access_mode' = [access_mode EXCEPT ![t] =
                                 IF access_mode[t] > 0 THEN access_mode[t] + 1 ELSE 1]
            /\ is_modified' = is_modified
            /\ access_mode[t] >= 0 /\ access_mode[t] \in Int
        BY <2>5, <3>2 DEF request_read_write_access, busy, PrimitivePreconditions, IInv, TypeOK
      <4>2. \A u \in Threads : Holds(u)' = IF u = t THEN "write" ELSE Holds(u)
        BY <4>1 DEF Holds, IInv, TypeOK
      <4>3. CASE access_mode[t] = 0
        <5>1. \A u \in Threads \ {t} : ~(access_mode'[u] > 0) /\ ~(access_mode'[u] < 0)
          BY <4>1, <4>3 DEF CountsAreHolders, Readers, Writers, IInv, TypeOK
        <5>2. \A u \in Threads : Holds(u) = "none"
          BY <4>1, <4>3, <5>1 DEF Holds, IInv, TypeOK
        <5> QED BY <4>1, <4>2, <5>2 DEF Lock!AcquireWrite
      <4>4. CASE access_mode[t] > 0
        BY <4>1, <4>2, <4>4 DEF Holds
      <4> QED BY <4>1, <4>3, <4>4
    <3> QED BY <3>1, <3>2
  <2>6. ASSUME NEW t \in Threads, release_read_only_access(t)
        PROVE  [Lock!ReleaseRead(t)]_(Lock!vars)
    <3>1. /\ access_mode' = [access_mode EXCEPT ![t] = access_mode[t] + 1]
          /\ is_modified' = is_modified
          /\ access_mode[t] < 0 /\ access_mode[t] \in Int
      BY <2>6 DEF release_read_only_access, PrimitivePreconditions, IInv, TypeOK
    <3>2. \A u \in Threads : Holds(u)' = IF u = t /\ access_mode[t] = -1 THEN "none" ELSE Holds(u)
      BY <3>1 DEF Holds, IInv, TypeOK
    <3> QED BY <3>1, <3>2 DEF Lock!ReleaseRead, Holds
  <2>7. ASSUME NEW t \in Threads, release_read_write_access(t)
        PROVE  [Lock!ReleaseWrite(t)]_(Lock!vars)
    <3>1. /\ access_mode' = [access_mode EXCEPT ![t] = access_mode[t] - 1]
          /\ is_modified' = IF access_mode[t] = 1 THEN [u \in Threads |-> TRUE] ELSE is_modified
          /\ access_mode[t] > 0 /\ access_mode[t] \in Int
      BY <2>7 DEF release_read_write_access, set_is_modified, PrimitivePreconditions, IInv, TypeOK
    <3>2. \A u \in Threads : Holds(u)' = IF u = t /\ access_mode[t] = 1 THEN "none" ELSE Holds(u)
      BY <3>1 DEF Holds, IInv, TypeOK
    <3>3. CASE access_mode[t] = 1
      <4>1. Holds(t) = "write"
        BY <3>3 DEF Holds
      <4> QED BY <3>1, <3>2, <3>3, <4>1 DEF Lock!ReleaseWrite
    <3>4. CASE access_mode[t] # 1
      BY <3>1, <3>2, <3>4
    <3> QED BY <3>3, <3>4
  <2>8. ASSUME NEW t \in Threads, grant_mode_lock(t) \/ SpuriousWakeup(t)
        PROVE  UNCHANGED <<access_mode, is_modified>>
    BY <2>8 DEF grant_mode_lock, Wait, SpuriousWakeup
  <2> QED BY <2>1, <2>2, <2>3, <2>4, <2>5, <2>6, <2>7, <2>8 DEF Next, Continue, vars
<1> QED BY <1>1, <1>2, Consistent, PTL DEF Spec, LockSpec, Lock!Spec
=============================================================================
