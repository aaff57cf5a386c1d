---- MODULE MCPosetMembers ----
(* Regimes of clients, as constants for TLC. *)
EXTENDS PosetMembers
Ordinary == {}
Unusual == AllPractices \ {"bottom_meets_top", "merge"}
BottomMeetsTop == {"deletes_under_jrms", "bottom_meets_top"}
====
