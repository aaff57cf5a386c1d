---- MODULE MCPosetJoiner ----
(* The ordinary client of PosetMembers, with joins. *)
EXTENDS PosetJoiner
Ordinary == {}
====
