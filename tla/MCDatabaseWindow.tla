------------------------------- MODULE MCDatabaseWindow -------------------------------
(* Small instances of DatabaseWindow for TLC. *)
EXTENDS DatabaseWindow

(* Two commands of one source on one table. *)
MCKeys ==
  {[source |-> 1, id |-> 1, database |-> "orders", target |-> "lines"],
   [source |-> 1, id |-> 2, database |-> "orders", target |-> "lines"]}
===================================================================================
