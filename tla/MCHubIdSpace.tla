---- MODULE MCHubIdSpace ----
(* Clients of the hub id space, as constants for TLC. *)
EXTENDS HubIdSpace
Disciplined == {}
Extending == {"goes_on_after_extending"}
====
