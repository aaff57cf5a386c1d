---------------------------- MODULE ReadWriteLock ----------------------------
(***************************************************************************)
(* What a read_write_monitor promises its clients, without the counters,   *)
(* the request depths and the condition variable: at any time either any   *)
(* number of threads read the monitored object, or one thread writes it;   *)
(* a thread never turns read access into write access without giving the   *)
(* read access up first; and whoever finishes writing tells every thread.  *)
(***************************************************************************)
CONSTANT Threads

VARIABLES
  held,       \* held[t]: the access thread t has
  notified    \* notified[t]: somebody has written since t last said it looked

vars == <<held, notified>>

Access == {"none", "read", "write"}

TypeOK == /\ held \in [Threads -> Access]
          /\ notified \in [Threads -> BOOLEAN]

Init == /\ held = [t \in Threads |-> "none"]
        /\ notified = [t \in Threads |-> FALSE]

AcquireRead(t) ==
  /\ held[t] = "none"
  /\ \A u \in Threads : held[u] # "write"
  /\ held' = [held EXCEPT ![t] = "read"]
  /\ UNCHANGED notified

AcquireWrite(t) ==
  /\ \A u \in Threads : held[u] = "none"
  /\ held' = [held EXCEPT ![t] = "write"]
  /\ UNCHANGED notified

ReleaseRead(t) ==
  /\ held[t] = "read"
  /\ held' = [held EXCEPT ![t] = "none"]
  /\ UNCHANGED notified

ReleaseWrite(t) ==
  /\ held[t] = "write"
  /\ held' = [held EXCEPT ![t] = "none"]
  /\ notified' = [u \in Threads |-> TRUE]

Acknowledge(t) ==
  /\ notified' = [notified EXCEPT ![t] = FALSE]
  /\ UNCHANGED held

Next == \E t \in Threads :
  \/ AcquireRead(t)
  \/ AcquireWrite(t)
  \/ ReleaseRead(t)
  \/ ReleaseWrite(t)
  \/ Acknowledge(t)

Spec == Init /\ [][Next]_vars
==============================================================================
