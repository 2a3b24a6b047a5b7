------------------------------ MODULE MCAuditLog ------------------------------
(* AuditLog on small instances: a few uuids, whose order is the one the random
   strings happen to have, and clocks that pass one second boundary. *)
EXTENDS AuditLog

ThreeIds == 1..3
================================================================================
