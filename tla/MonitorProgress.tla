--------------------------- MODULE MonitorProgress ---------------------------
(***************************************************************************)
(* Clients of one read_write_monitor that each make a bounded number of    *)
(* requests, and release what they got ("every request call by this thread *)
(* is always followed by a release call by this thread",                   *)
(* read_write_monitor.h).  Without the bound a steady stream of readers    *)
(* may keep a writer out for good: nothing in the monitor queues fairly.   *)
(***************************************************************************)
EXTENDS MonitorClients

CONSTANT MaxCalls   \* bound: MaxCalls[t] requests, and mode locks, of t
ASSUME MaxCallsAssumption == MaxCalls \in [Threads -> Nat]

VARIABLE calls      \* calls[t]: requests t has made

progressVars == <<clientVars, calls>>

Ask(t) ==
  /\ calls[t] < MaxCalls[t]
  /\ calls' = [calls EXCEPT ![t] = @ + 1]
  /\ \/ \E kind \in {"read", "write"} : Request(t, kind)
     \/ get_mode_lock(t) /\ UNCHANGED <<requests, changed>>

GiveBack(t) ==
  /\ \/ \E all \in XallValues : Release(t, all)
     \/ release_mode_lock(t) /\ UNCHANGED <<requests, changed>>
  /\ UNCHANGED calls

GoOn(t) ==
  /\ Continue(t)
  /\ UNCHANGED <<requests, changed, calls>>

Unasked(t) ==
  /\ \/ Change(t)
     \/ Look(t)
     \/ SpuriousWakeup(t) /\ UNCHANGED <<requests, changed>>
  /\ UNCHANGED calls

ProgressNext == \E t \in Threads : Ask(t) \/ GiveBack(t) \/ GoOn(t) \/ Unasked(t)

ProgressInit == ClientInit /\ calls = [t \in Threads |-> 0]

(***************************************************************************)
(* A thread that can take its next step takes it eventually, and a client  *)
(* with access eventually releases it.  Nothing is assumed of requests, of *)
(* changes of the object, nor of spurious wakeups.                         *)
(***************************************************************************)
ProgressSpec ==
  /\ ProgressInit
  /\ [][ProgressNext]_progressVars
  /\ \A t \in Threads : WF_progressVars(GoOn(t)) /\ WF_progressVars(GiveBack(t))

-----------------------------------------------------------------------------
(***************************************************************************)
(* Every public call returns: no request waits for ever, two threads that  *)
(* upgrade at the same time do not wait for each other, and the read-only  *)
(* access a downgrade gave up comes back.                                  *)
(***************************************************************************)
EveryCallReturns == \A t \in Threads : pc[t] # "idle" ~> pc[t] = "idle"
==============================================================================
