--------------------------- MODULE MonitorClients ---------------------------
(***************************************************************************)
(* The clients of one read_write_monitor: what they asked for, and what    *)
(* they can believe about the monitored object.  requests and changed are  *)
(* history variables; every step of the monitor is one of                  *)
(* ReadWriteMonitor.                                                       *)
(***************************************************************************)
EXTENDS ReadWriteMonitor, Sequences, SequencesExt

VARIABLES
  requests,   \* requests[t]: the requests t has not released, oldest first
  changed     \* changed[t]: another thread changed the object since t last looked

clientVars == <<vars, requests, changed>>

ClientInit ==
  /\ Init
  /\ requests = [t \in Threads |-> << >>]
  /\ changed  = [t \in Threads |-> FALSE]

(***************************************************************************)
(* A get is released by the matching release_access(false), or all of them *)
(* are by release_access(true) (read_write_monitor.h: request and release  *)
(* "always occur in matching pairs").                                      *)
(***************************************************************************)
Request(t, kind) ==
  /\ IF kind = "read" THEN get_read_access(t)
     ELSE \E release_read_only \in BOOLEAN :
            get_read_write_access(t, release_read_only)
  /\ requests' = [requests EXCEPT ![t] = Append(@, kind)]
  /\ UNCHANGED changed

Release(t, all) ==
  /\ release_access(t, all)
  /\ requests' = [requests EXCEPT ![t] = IF all THEN << >> ELSE Front(@)]
  /\ UNCHANGED changed

(***************************************************************************)
(* A polite client changes the object with read-write access only, and     *)
(* looks at it, and says so with clear_is_modified, with some access.      *)
(***************************************************************************)
Change(t) ==
  /\ pc[t] = "idle" /\ access_mode[t] > 0
  /\ changed' = [u \in Threads |-> changed[u] \/ u # t]
  /\ UNCHANGED <<vars, requests>>

Look(t) ==
  /\ access_mode[t] # 0
  /\ clear_is_modified(t)
  /\ changed' = [changed EXCEPT ![t] = FALSE]
  /\ UNCHANGED requests

-----------------------------------------------------------------------------
(***************************************************************************)
(* Between calls a thread has exactly the access its outstanding requests  *)
(* add up to: one level per request, read-write access while one of them   *)
(* asked to write, and read-only access again once that one is released.   *)
(* get_read_write_access and release_access reach it through switch_depth  *)
(* and two loops during which other threads run.                           *)
(***************************************************************************)
AccessMatchesRequests == \A t \in Threads : pc[t] = "idle" =>
  /\ access_request_depth(t) = Len(requests[t])
  /\ access_mode[t] > 0 <=> Contains(requests[t], "write")

(***************************************************************************)
(* is_modified tells: a thread that has access and whose flag is clear can *)
(* rely on what it saw, nobody else has changed the object since it looked *)
(* - not even in the moment an upgrade or a downgrade is without access.   *)
(***************************************************************************)
ChangesAreTold == \A t \in Threads :
  access_mode[t] # 0 /\ changed[t] => is_modified[t]
=============================================================================
