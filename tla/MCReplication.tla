--------------------------- MODULE MCReplication ---------------------------
(* Small instances of Replication for TLC.                                  *)
EXTENDS Replication

(* Catalogue rows, written once each (recomendaciones).                     *)
Inserts == << [op |-> "INSERT", record |-> "a"], [op |-> "INSERT", record |-> "b"] >>

Insert == << [op |-> "INSERT", record |-> "a"] >>

(* A payment: created, then processed twice.                                *)
Payment == << [op |-> "INSERT", record |-> "a"], [op |-> "UPDATE", record |-> "a"],
              [op |-> "UPDATE", record |-> "a"] >>

(* A row that is written, and taken away.                                   *)
Short == << [op |-> "INSERT", record |-> "a"], [op |-> "DELETE", record |-> "a"] >>
=============================================================================
