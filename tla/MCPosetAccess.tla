---------------------------- MODULE MCPosetAccess ----------------------------
(* A poset, its schema, and the namespace of both.  The posets which nobody   *)
(* writes, the primitives and the schemas of the last two, are left out: their *)
(* monitors never make anybody wait.                                          *)
EXTENDS PosetAccess, TLC
CONSTANTS t1, t2, table, schema, namespace
MCThreads == {t1, t2}
MCPosets == {table, schema, namespace}
MCSchemaOf == table :> schema @@ schema :> NoPoset @@ namespace :> NoPoset
MCTables == {table}
MCMaxCalls == t1 :> 3 @@ t2 :> 2
Disciplined == {}
DeletingTwice == {"deletes_twice"}
=============================================================================
